--------------------------- MODULE RelayConnector ---------------------------
(***************************************************************************)
(* The relay connector (src/connector/relay/connector.go): Connect over an *)
(* open stream to a relay server, and the caller's reads and writes on    *)
(* the conn it returns.                                                    *)
(*                                                                         *)
(* UDP with no address: a bind request, then a UDP tunnel conn.  Else a   *)
(* CONNECT request, whose address feature may fail to parse.  no-delay:   *)
(* write the request and drain the response before returning.  delay:    *)
(* the request is kept in the wrapper's wbuf and sent in front of the     *)
(* caller's first write, and the wrapper's first read consumes the       *)
(* response header (spec 4.3).  The wrappers (tcpConn, udpConn), bind and *)
(* readResponse are not under src/ and are modelled from the spec.  The  *)
(* server answers the first frame it reads and then sends data.  Frames   *)
(* are abstracted to their kind.                                          *)
(***************************************************************************)
EXTENDS Naturals, Sequences

CONSTANTS
    MaxData   \* bound on the data frames each side sends

Networks == {"tcp", "udp", "unix"}
Frames == {"req", "bind", "resp", "data"}

VARIABLES
    network,   \* Connect's network argument
    address,   \* Connect's address argument: "addr" or "" (none)
    noDelay,   \* c.md.noDelay
    st,        \* Connect: "start" | "drain" | "bindwait" | "conn" | "err"
    wbuf,      \* the delay wrapper's buffered request: "req" | "none"
    hdr,       \* the delay wrapper's first read still has to consume the response
    up,        \* frames on the wire to the server
    down,      \* frames on the wire from the server, not yet read
    srv,       \* the server: "wait" | "replied"
    got,       \* frames the caller has read as data
    sent       \* data frames the caller has written

vars == <<network, address, noDelay, st, wbuf, hdr, up, down, srv, got, sent>>

-----------------------------------------------------------------------------
(* Variant: no-delay does not drain the response before returning. *)
ConnectNoDrain ==
    /\ st = "start"
    /\ \/ /\ network = "udp" /\ address = ""
          /\ up' = <<"bind">> /\ st' = "bindwait"
          /\ UNCHANGED <<wbuf, hdr>>
       \/ /\ address # "" /\ st' = "err"
          /\ UNCHANGED <<up, wbuf, hdr>>
       \/ /\ ~(network = "udp" /\ address = "") /\ noDelay
          /\ up' = <<"req">>
          /\ st' = IF network = "unix" THEN "err" ELSE "conn"
          /\ UNCHANGED <<wbuf, hdr>>
       \/ /\ ~(network = "udp" /\ address = "") /\ ~noDelay
          /\ IF network = "unix"
             THEN st' = "err" /\ UNCHANGED <<wbuf, hdr>>
             ELSE st' = "conn" /\ wbuf' = "req" /\ hdr' = TRUE
          /\ UNCHANGED up
    /\ UNCHANGED <<network, address, noDelay, down, srv, got, sent>>

(* Connect, up to its first read: the UDP association sends a bind      *)
(* request (c.bind); the address feature may fail to parse; no-delay     *)
(* writes the request (a write error returns it) and goes on to drain   *)
(* the response; delay wraps the stream for tcp and udp with the       *)
(* request in wbuf, and fails any other network.                         *)
Connect ==
    /\ st = "start"
    /\ \/ /\ network = "udp" /\ address = ""
          /\ up' = <<"bind">> /\ st' = "bindwait"
          /\ UNCHANGED <<wbuf, hdr>>
       \/ /\ address # "" /\ st' = "err"
          /\ UNCHANGED <<up, wbuf, hdr>>
       \/ /\ ~(network = "udp" /\ address = "") /\ noDelay
          /\ up' = <<"req">> /\ st' \in {"drain", "err"}
          /\ UNCHANGED <<wbuf, hdr>>
       \/ /\ ~(network = "udp" /\ address = "") /\ ~noDelay
          /\ IF network = "unix"
             THEN st' = "err" /\ UNCHANGED <<wbuf, hdr>>
             ELSE st' = "conn" /\ wbuf' = "req" /\ hdr' = TRUE
          /\ UNCHANGED up
    /\ UNCHANGED <<network, address, noDelay, down, srv, got, sent>>

(* readResponse after a no-delay request (or c.bind's own read): a      *)
(* failure status is returned as an error; otherwise tcp returns the     *)
(* stream itself, udp a udpConn with an empty wbuf, the association a UDP *)
(* tunnel conn, and any other network an error.                           *)
ReadResponse ==
    /\ st \in {"drain", "bindwait"}
    /\ down # << >> /\ Head(down) = "resp"
    /\ down' = Tail(down)
    /\ \/ st' = "err"
       \/ st' = IF st = "drain" /\ network = "unix" THEN "err" ELSE "conn"
    /\ UNCHANGED <<network, address, noDelay, wbuf, hdr, up, srv, got, sent>>

(* Variant: the wrapper's write does not reset wbuf after sending it. *)
CallerWriteNoReset ==
    /\ st = "conn" /\ sent < MaxData
    /\ up' = up \o (IF wbuf = "req" THEN <<"req", "data">> ELSE <<"data">>)
    /\ sent' = sent + 1
    /\ UNCHANGED <<network, address, noDelay, st, wbuf, hdr, down, srv, got>>

(* The caller writes data; the delay wrapper sends wbuf in front of it. *)
CallerWrite ==
    /\ st = "conn" /\ sent < MaxData
    /\ up' = up \o (IF wbuf = "req" THEN <<"req", "data">> ELSE <<"data">>)
    /\ wbuf' = "none"
    /\ sent' = sent + 1
    /\ UNCHANGED <<network, address, noDelay, st, hdr, down, srv, got>>

(* The caller reads; the delay wrapper's first read consumes the         *)
(* response header before any data, and fails on a failure status.      *)
CallerRead ==
    /\ st = "conn" /\ down # << >>
    /\ IF hdr
       THEN /\ hdr' = FALSE /\ down' = Tail(down)
            /\ st' \in {"conn", "err"}
            /\ UNCHANGED got
       ELSE /\ got' = Append(got, Head(down)) /\ down' = Tail(down)
            /\ UNCHANGED <<hdr, st>>
    /\ UNCHANGED <<network, address, noDelay, wbuf, up, srv, sent>>

(* The relay server reads the request and answers it. *)
ServerReply ==
    /\ srv = "wait" /\ up # << >>
    /\ down' = Append(down, "resp") /\ srv' = "replied"
    /\ UNCHANGED <<network, address, noDelay, st, wbuf, hdr, up, got, sent>>

(* The relay server relays data from the target. *)
ServerData ==
    /\ srv = "replied"
    /\ Len(SelectSeq(down, LAMBDA f : f = "data")) + Len(SelectSeq(got, LAMBDA f : f = "data")) < MaxData
    /\ down' = Append(down, "data")
    /\ UNCHANGED <<network, address, noDelay, st, wbuf, hdr, up, srv, got, sent>>

-----------------------------------------------------------------------------
Init ==
    /\ network \in Networks
    /\ address \in {"addr", ""}
    /\ noDelay \in BOOLEAN
    /\ st = "start"
    /\ wbuf = "none"
    /\ hdr = FALSE
    /\ up = << >>
    /\ down = << >>
    /\ srv = "wait"
    /\ got = << >>
    /\ sent = 0

Next ==
    \/ Connect \/ ReadResponse \/ CallerWrite \/ CallerRead
    \/ ServerReply \/ ServerData

Spec == Init /\ [][Next]_vars

-----------------------------------------------------------------------------
(* Type invariant. *)
TypeOK ==
    /\ network \in Networks
    /\ address \in {"addr", ""}
    /\ noDelay \in BOOLEAN
    /\ st \in {"start", "drain", "bindwait", "conn", "err"}
    /\ wbuf \in {"req", "none"} /\ hdr \in BOOLEAN
    /\ up \in Seq(Frames) /\ down \in Seq(Frames) /\ got \in Seq(Frames)
    /\ srv \in {"wait", "replied"}
    /\ sent \in 0..MaxData

(* Spec 4.3, relay: the server reads exactly one request, and before any *)
(* of the caller's data, in both modes: no-delay writes it in Connect,   *)
(* delay sends the buffered copy in front of the first write only.        *)
OneRequestFirst ==
    \A i \in 1..Len(up) : up[i] \in {"req", "bind"} <=> i = 1

(* Spec 4.3, relay: the caller never reads the response header as data: *)
(* no-delay drains it in Connect, the delay wrapper's first read         *)
(* discards it.                                                           *)
NoHeaderAsData ==
    \A i \in 1..Len(got) : got[i] = "data"
=============================================================================
