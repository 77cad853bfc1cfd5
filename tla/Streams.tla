------------------------------ MODULE Streams ------------------------------
(***************************************************************************)
(* Stream objects and the transport addresses they are bound to            *)
(* (stream.go, transport.go).  Only what the stream maps and the collision *)
(* handling look at is kept: the SSRC, the address, the previous           *)
(* conflicting address and the status.                                     *)
(***************************************************************************)
EXTENDS Integers

CONSTANTS
    Ssrcs,    \* SSRC values, uint32 in the code
    Ips,      \* IP addresses packets come from
    Ports,    \* UDP ports packets come from; 0 is "not yet known"
    OwnIp,    \* the address the application gave its output streams
    OwnPort,
    NoAddr    \* prevConflictAddr == nil

ASSUME StreamsAssumption ==
    /\ Ports \subseteq Nat \ {0}
    /\ OwnIp \in Ips /\ OwnPort \in Ports
    /\ NoAddr \notin [ip : Ips, data : Ports \cup {0}, ctrl : Ports \cup {0}]

\* Packets arrive on two transports, each with its own reader goroutine.
Kinds == {"data", "ctrl"}

Addresses == [ip : Ips, data : Ports \cup {0}, ctrl : Ports \cup {0}]

\* The address a reader puts in a packet: the port of the other kind is 0.
FromAddr(k, ip, port) ==
    [ip |-> ip,
     data |-> IF k = "data" THEN port ELSE 0,
     ctrl |-> IF k = "ctrl" THEN port ELSE 0]

FromAddrs(k) == {FromAddr(k, ip, port) : ip \in Ips, port \in Ports}

Statuses == {"idle", "active", "isClosing", "isClosed"}

Stream == [ssrc : Ssrcs, addr : Addresses, prev : Addresses \cup {NoAddr},
           status : Statuses]

NewSsrcStreamIn(from, ssrc) ==
    [ssrc |-> ssrc, addr |-> from, prev |-> NoAddr, status |-> "idle"]

OwnAddr == [ip |-> OwnIp, data |-> OwnPort, ctrl |-> OwnPort]

\* addr and from agree on the IP address and on the port of kind k.
SameSource(k, addr, from) == addr.ip = from.ip /\ addr[k] = from[k]

\* The first packet of kind k teaches an existing stream that port.
LearnPort(k, s, from) ==
    IF s.addr[k] = 0 THEN [s EXCEPT !.addr[k] = from[k]] ELSE s

\* Another address uses the SSRC of an input stream: discard the packet if
\* this collision repeats, otherwise remember it and follow the new address.
RepeatedConflict(k, s, from) ==
    s.prev # NoAddr /\ SameSource(k, s.prev, from)

FollowAddress(k, s, from) ==
    [s EXCEPT !.prev = from, !.addr.ip = from.ip, !.addr[k] = from[k]]
=============================================================================
