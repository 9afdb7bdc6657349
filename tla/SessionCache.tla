---------------------------- MODULE SessionCache ----------------------------
(***************************************************************************)
(* What the session cache of a multiplexing dialer promises (spec 2,       *)
(* Session and Session Cache; spec 4.2), each operation one atomic step:  *)
(*   - a session is created only on a miss, so an address has at most one *)
(*     cached session and each session is cached for one address once;    *)
(*   - a Dial is given a stream only of the cached session of its address, *)
(*     and only while that session is not closed;                          *)
(*   - a cached session is evicted only once it is closed.                 *)
(* Sessions close on their own (remote close, idle timeout) at any time.  *)
(***************************************************************************)
CONSTANTS Addrs, Callers, Sessions, NoSession

VARIABLES
    cache,   \* address -> its cached session, or NoSession
    closed,  \* sessions that are closed
    born,    \* sessions created so far
    got      \* caller -> the session of the last stream it was given

vars == <<cache, closed, born, got>>

Init ==
    /\ cache = [a \in Addrs |-> NoSession]
    /\ closed = {}
    /\ born = {}
    /\ got = [c \in Callers |-> NoSession]

(* A miss: a new session is created and cached. *)
Create(a, s) ==
    /\ cache[a] = NoSession
    /\ s \in Sessions \ born
    /\ cache' = [cache EXCEPT ![a] = s]
    /\ born' = born \cup {s}
    /\ UNCHANGED <<closed, got>>

(* A stream of the cached, open session is handed to a caller. *)
Open(c, a) ==
    /\ cache[a] \in born \ closed
    /\ got' = [got EXCEPT ![c] = cache[a]]
    /\ UNCHANGED <<cache, closed, born>>

(* A closed session is removed from the cache. *)
Evict(a) ==
    /\ cache[a] \in closed
    /\ cache' = [cache EXCEPT ![a] = NoSession]
    /\ UNCHANGED <<closed, born, got>>

(* A session closes. *)
Close(s) ==
    /\ s \in born \ closed
    /\ closed' = closed \cup {s}
    /\ UNCHANGED <<cache, born, got>>

Next ==
    \/ \E a \in Addrs : Evict(a) \/ \E s \in Sessions : Create(a, s)
    \/ \E c \in Callers, a \in Addrs : Open(c, a)
    \/ \E s \in Sessions : Close(s)

Spec == Init /\ [][Next]_vars
=============================================================================
