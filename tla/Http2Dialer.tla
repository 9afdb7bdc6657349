----------------------------- MODULE Http2Dialer -----------------------------
(***************************************************************************)
(* The client cache of the http2 dialer (src/dialer/http2/dialer.go) and  *)
(* the http2 connector that uses it (src/connector/http2/connector.go).   *)
(*                                                                         *)
(* Dial resolves the address, takes d.clientMutex, looks the address up   *)
(* in d.clients and on a miss builds an http.Client and stores it; it     *)
(* returns a conn carrying that client whose onClose deletes              *)
(* d.clients[address] under the mutex, whatever client is cached there by *)
(* then.  Connect sends a CONNECT request with client.Do: an error closes *)
(* the conn (so its onClose runs), a non-200 status returns an error with *)
(* the conn left to its owner, 200 gives a stream.  The owner closes the  *)
(* conn when it is done with it.  A client's HTTP/2 connection may break  *)
(* at any time, after which every client.Do on it fails.  The conn type   *)
(* (its Close running onClose once) is not under src/ and is modelled     *)
(* from the spec (ByteStream: Close is idempotent).                       *)
(***************************************************************************)
EXTENDS Naturals

CONSTANTS
    Addrs,      \* addresses dialled
    Calls,      \* Dial calls; each owns the conn it returns
    Clients,    \* http.Client identities; bounds the clients created
    NoClient,
    NoCall

VARIABLES
    clients,   \* d.clients: address -> client or NoClient
    lock,      \* holder of d.clientMutex, or NoCall
    pc,        \* call -> "idle" | "lookup" | "create" | "open" | "doerr"
               \*         | "refused" | "stream" | "closed" | "err"
    addr,      \* call -> the address dialled
    client,    \* call -> the client its conn carries
    born,      \* clients Dial has created
    broken,    \* clients whose HTTP/2 connection has broken
    failed     \* clients a Connect has returned a client.Do error for

vars == <<clients, lock, pc, addr, client, born, broken, failed>>

Fresh == CHOOSE l \in Clients : l \notin born

(* The conn's onClose: lock, delete(d.clients, address), unlock. *)
OnClose(k) ==
    /\ lock = NoCall
    /\ clients' = [clients EXCEPT ![addr[k]] = NoClient]
    /\ pc' = [pc EXCEPT ![k] = "closed"]

-----------------------------------------------------------------------------
(* Variant: Dial looks the address up without taking the mutex. *)
DialLockNoMutex(k, a) ==
    /\ pc[k] = "idle"
    /\ \/ pc' = [pc EXCEPT ![k] = "err"] /\ UNCHANGED addr
       \/ pc' = [pc EXCEPT ![k] = "lookup"] /\ addr' = [addr EXCEPT ![k] = a]
    /\ UNCHANGED <<clients, lock, client, born, broken, failed>>

(* net.ResolveTCPAddr, which may fail and return; then                *)
(* d.clientMutex.Lock().                                               *)
DialLock(k, a) ==
    /\ pc[k] = "idle"
    /\ \/ pc' = [pc EXCEPT ![k] = "err"] /\ UNCHANGED <<lock, addr>>
       \/ /\ lock = NoCall /\ lock' = k
          /\ pc' = [pc EXCEPT ![k] = "lookup"] /\ addr' = [addr EXCEPT ![k] = a]
    /\ UNCHANGED <<clients, client, born, broken, failed>>

(* client, ok := d.clients[address]: a hit returns a conn carrying the  *)
(* cached client (the deferred Unlock runs), a miss builds a client.     *)
DialLookup(k) ==
    /\ pc[k] = "lookup"
    /\ IF clients[addr[k]] # NoClient
       THEN /\ client' = [client EXCEPT ![k] = clients[addr[k]]]
            /\ pc' = [pc EXCEPT ![k] = "open"]
            /\ lock' = IF lock = k THEN NoCall ELSE lock
       ELSE /\ pc' = [pc EXCEPT ![k] = "create"]
            /\ UNCHANGED <<client, lock>>
    /\ UNCHANGED <<clients, addr, born, broken, failed>>

(* A new http.Client is stored in d.clients[address] and a conn         *)
(* carrying it returned; the deferred Unlock runs.                       *)
DialStore(k) ==
    /\ pc[k] = "create"
    /\ born # Clients
    /\ born' = born \cup {Fresh}
    /\ clients' = [clients EXCEPT ![addr[k]] = Fresh]
    /\ client' = [client EXCEPT ![k] = Fresh]
    /\ pc' = [pc EXCEPT ![k] = "open"]
    /\ lock' = IF lock = k THEN NoCall ELSE lock
    /\ UNCHANGED <<addr, broken, failed>>

(* Connect: client.Do of the CONNECT request.  On a broken client it     *)
(* fails; otherwise it may fail, answer a non-200 status (the body is    *)
(* closed and an error returned) or answer 200 (a stream is returned).   *)
ConnectDo(k) ==
    /\ pc[k] = "open"
    /\ \/ pc' = [pc EXCEPT ![k] = "doerr"]
       \/ client[k] \notin broken /\ pc' = [pc EXCEPT ![k] = "refused"]
       \/ client[k] \notin broken /\ pc' = [pc EXCEPT ![k] = "stream"]
    /\ UNCHANGED <<clients, lock, addr, client, born, broken, failed>>

(* Variant: a client.Do error is returned without closing the conn. *)
ConnectDoErrNoClose(k) ==
    /\ pc[k] = "doerr"
    /\ failed' = failed \cup {client[k]}
    /\ pc' = [pc EXCEPT ![k] = "refused"]
    /\ UNCHANGED <<clients, lock, addr, client, born, broken>>

(* ... after a client.Do error Connect calls conn.Close(), whose onClose *)
(* evicts d.clients[address], and returns the error.                     *)
ConnectDoErr(k) ==
    /\ pc[k] = "doerr"
    /\ OnClose(k)
    /\ failed' = failed \cup {client[k]}
    /\ UNCHANGED <<lock, addr, client, born, broken>>

(* The conn's owner closes it: after a refused CONNECT, at the end of   *)
(* the stream, or without connecting.  onClose evicts the address.       *)
OwnerClose(k) ==
    /\ pc[k] \in {"open", "refused", "stream"}
    /\ OnClose(k)
    /\ UNCHANGED <<lock, addr, client, born, broken, failed>>

(* A client's HTTP/2 connection breaks. *)
ClientBreaks(l) ==
    /\ l \in born \ broken
    /\ broken' = broken \cup {l}
    /\ UNCHANGED <<clients, lock, pc, addr, client, born, failed>>

-----------------------------------------------------------------------------
Init ==
    /\ clients = [a \in Addrs |-> NoClient]
    /\ lock = NoCall
    /\ pc = [k \in Calls |-> "idle"]
    /\ addr = [k \in Calls |-> CHOOSE a \in Addrs : TRUE]
    /\ client = [k \in Calls |-> NoClient]
    /\ born = {}
    /\ broken = {}
    /\ failed = {}

Next ==
    \/ \E k \in Calls :
          \/ \E a \in Addrs : DialLock(k, a)
          \/ DialLookup(k) \/ DialStore(k)
          \/ ConnectDo(k) \/ ConnectDoErr(k) \/ OwnerClose(k)
    \/ \E l \in Clients : ClientBreaks(l)

Spec == Init /\ [][Next]_vars

-----------------------------------------------------------------------------
(* Type invariant. *)
TypeOK ==
    /\ clients \in [Addrs -> Clients \cup {NoClient}]
    /\ lock \in Calls \cup {NoCall}
    /\ pc \in [Calls -> {"idle", "lookup", "create", "open", "doerr",
                         "refused", "stream", "closed", "err"}]
    /\ addr \in [Calls -> Addrs]
    /\ client \in [Calls -> Clients \cup {NoClient}]
    /\ broken \subseteq born /\ failed \subseteq born /\ born \subseteq Clients

(* Spec 3, Session Cache: create on miss under the one mutex.  A client  *)
(* cached for an address is never replaced by another one without being *)
(* deleted first: two Dials of one address cannot both miss and both    *)
(* store, since lookup and store run under d.clientMutex.                *)
NoClientOverwritten ==
    [][\A a \in Addrs : clients[a] # NoClient => clients'[a] \in {clients[a], NoClient}]_vars

(* Spec 4.2, step 4: an error from the multiplexed client evicts it.  No *)
(* Dial hands out a client that a Connect has already returned a        *)
(* client.Do error for, whatever other Dials and closes ran in between:  *)
(* Connect's conn.Close() evicts it before the error is returned.        *)
FailedClientNotReused ==
    [][\A k \in Calls : pc[k] = "lookup" /\ pc'[k] = "open" => client'[k] \notin failed]_vars

(* Spec 3, Session Cache: eviction on explicit close of the session.  A *)
(* conn's onClose evicts only the client that conn carries.  The code    *)
(* deletes d.clients[address], which may by then be a newer client other *)
(* conns use.  Not checked by a run: see the hazard at dialer.go:100.    *)
OnlyOwnClientEvicted ==
    [][\A k \in Calls : pc[k] # "closed" /\ pc'[k] = "closed" =>
            clients[addr[k]] \in {client[k], NoClient}]_vars
=============================================================================
