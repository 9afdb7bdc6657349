------------------------------ MODULE TapBridge ------------------------------
(***************************************************************************)
(* The server side of the TAP handler's transport                          *)
(* (src/handler/tap/handler.go, tapHandler.transport): an L2 learning       *)
(* bridge between the local tap device and UDP peers.                      *)
(*                                                                         *)
(* Two goroutines loop over frames.  Each iteration takes a buffer from    *)
(* bufpool, reads a frame into it, handles it and returns the buffer with  *)
(* a deferred bufpool.Put.                                                 *)
(*  - tap->udp: a broadcast frame is fanned out to every route by a new    *)
(*    goroutine running h.routes.Range; a unicast frame goes to the route  *)
(*    of its destination MAC, if any.                                      *)
(*  - udp->tap: the source MAC is learned (LoadOrStore, then Store when    *)
(*    the address changed); a broadcast is fanned out by a new goroutine   *)
(*    to every route whose key is not the source MAC; then the frame goes  *)
(*    to the route of its destination MAC or to the tap device.            *)
(* The fan-out goroutine reads the frame from the buffer when it runs,     *)
(* which may be after the buffer went back to the pool.  One iteration of *)
(* a reader is one step: the only code that runs concurrently with it is  *)
(* the other reader and the fan-out goroutines.                            *)
(***************************************************************************)
EXTENDS Naturals, FiniteSets

CONSTANTS
    Peers,      \* UDP addresses of the peers
    MACs,       \* source MACs the peers use
    Buffers,    \* buffers bufpool can hand out
    MaxFrames,  \* bound on the frames read from either side
    BCAST,      \* the broadcast MAC ff:ff:ff:ff:ff:ff
    NoPeer,     \* no route for a MAC
    NoMAC       \* a fan-out from the tap side excludes no key

ASSUME MaxFrames \in Nat \ {0}

FrameIds == 1..MaxFrames

(* A frame written to a peer: the frame the buffer held when it was      *)
(* written (sent), the frame the write was for (frame) and the path.     *)
Write == [to : Peers, sent : 0..MaxFrames, frame : FrameIds, path : {"bcast", "unicast"}]

VARIABLES
    routes,   \* h.routes: MAC -> peer address
    buf,      \* content of each pooled buffer: the id of the last frame read into it
    nextId,   \* id of the next frame read
    fanouts,  \* fan-out goroutines: [frame, buf, exclude, pending]
    udpOut,   \* every conn.WriteTo done
    origin    \* history: the peer each frame came from (NoPeer for the tap side)

vars == <<routes, buf, nextId, fanouts, udpOut, origin>>

-----------------------------------------------------------------------------
(* go h.routes.Range(...): the closure captures the buffer and the frame *)
(* it is for; pending holds the keys Range has still to visit.          *)
Spawn(id, b, exclude) ==
    [frame |-> id, buf |-> b, exclude |-> exclude,
     pending |-> MACs]

(* Variant: the `addr == nil` check is left out and the frame is written *)
(* to a nil address.                                                     *)
UnicastToNoCheck(rt, id, dst) ==
    IF dst # BCAST
    THEN {[to |-> rt[dst], sent |-> id, frame |-> id, path |-> "unicast"]}
    ELSE {}

(* The write of a unicast frame to the route of its destination MAC. *)
UnicastTo(rt, id, dst) ==
    IF dst # BCAST /\ rt[dst] # NoPeer
    THEN {[to |-> rt[dst], sent |-> id, frame |-> id, path |-> "unicast"]}
    ELSE {}

(* tap->udp goroutine, one iteration: b := bufpool.Get; tap.Read(b);    *)
(* broadcast: spawn the fan-out and return; else WriteTo the route of    *)
(* dst, or drop the frame when there is none; bufpool.Put(b).             *)
TapRead(b, dst) ==
    /\ nextId <= MaxFrames
    /\ buf' = [buf EXCEPT ![b] = nextId]
    /\ fanouts' = IF dst = BCAST THEN fanouts \cup {Spawn(nextId, b, NoMAC)} ELSE fanouts
    /\ udpOut' = udpOut \cup UnicastTo(routes, nextId, dst)
    /\ origin' = [origin EXCEPT ![nextId] = NoPeer]
    /\ nextId' = nextId + 1
    /\ UNCHANGED routes

(* Learning: LoadOrStore(src, addr) and, when the stored address        *)
(* differs, Store(src, addr).                                             *)
Learn(src, u) == [routes EXCEPT ![src] = u]

(* udp->tap goroutine, one iteration: b := bufpool.Get; ReadFrom(b)     *)
(* from peer u; learn src; broadcast: spawn the fan-out excluding src;   *)
(* then WriteTo the route of dst if there is one, else tap.Write;       *)
(* bufpool.Put(b).                                                       *)
UdpRead(b, u, src, dst) ==
    LET rt == Learn(src, u)
    IN  /\ nextId <= MaxFrames
        /\ routes' = rt
        /\ buf' = [buf EXCEPT ![b] = nextId]
        /\ fanouts' = IF dst = BCAST THEN fanouts \cup {Spawn(nextId, b, src)} ELSE fanouts
        /\ udpOut' = udpOut \cup UnicastTo(rt, nextId, dst)
        /\ origin' = [origin EXCEPT ![nextId] = u]
        /\ nextId' = nextId + 1

(* The fan-out goroutine's Range visits key k: unless k is the excluded  *)
(* source MAC, conn.WriteTo(b[:n], route) with what the buffer holds  *)
(* now.                                                                  *)
FanoutVisit(g, k) ==
    /\ g \in fanouts
    /\ k \in g.pending
    /\ udpOut' = IF k # g.exclude /\ routes[k] # NoPeer
                 THEN udpOut \cup {[to |-> routes[k], sent |-> buf[g.buf],
                                    frame |-> g.frame, path |-> "bcast"]}
                 ELSE udpOut
    /\ fanouts' = (fanouts \ {g}) \cup {[g EXCEPT !.pending = @ \ {k}]}
    /\ UNCHANGED <<routes, buf, nextId, origin>>

-----------------------------------------------------------------------------
Init ==
    /\ routes = [m \in MACs |-> NoPeer]
    /\ buf = [b \in Buffers |-> 0]
    /\ nextId = 1
    /\ fanouts = {}
    /\ udpOut = {}
    /\ origin = [i \in FrameIds |-> NoPeer]

Next ==
    \/ \E b \in Buffers, d \in MACs \cup {BCAST} : TapRead(b, d)
    \/ \E b \in Buffers, u \in Peers, s \in MACs, d \in MACs \cup {BCAST} : UdpRead(b, u, s, d)
    \/ \E g \in fanouts, k \in MACs : FanoutVisit(g, k)

(* A fan-out goroutine, once started, runs Range to the end. *)
Fairness == WF_vars(\E g \in fanouts, k \in MACs : FanoutVisit(g, k))

Spec == Init /\ [][Next]_vars /\ Fairness

-----------------------------------------------------------------------------
(* Type invariant. *)
TypeOK ==
    /\ routes \in [MACs -> Peers \cup {NoPeer}]
    /\ buf \in [Buffers -> 0..MaxFrames]
    /\ nextId \in 1..MaxFrames + 1
    /\ \A g \in fanouts : g.frame \in FrameIds /\ g.buf \in Buffers
                          /\ g.pending \subseteq MACs
    /\ udpOut \subseteq Write
    /\ origin \in [FrameIds -> Peers \cup {NoPeer}]

(* A write carries the frame it was done for: the fan-out goroutine       *)
(* must not send a buffer that bufpool.Put has already handed to the      *)
(* next read.                                                            *)
WritesCarryTheirFrame == \A w \in udpOut : w.sent = w.frame

(* Spec 5 / 4.4.3: a broadcast received from peer A is never sent back   *)
(* to A.  The fan-out excludes the source MAC's key, not A's address.    *)
BroadcastNotEchoed ==
    \A w \in udpOut : w.path = "bcast" /\ origin[w.frame] # NoPeer => w.to # origin[w.frame]
=============================================================================
