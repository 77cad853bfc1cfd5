---------------------------- MODULE RtcpPackets ----------------------------
(***************************************************************************)
(* RTCP packets, byte by byte: what is written for sender and receiver     *)
(* reports, SDES chunks and BYE, and what the readers and the loop of      *)
(* OnRecvCtrl find in the bytes of a compound (packets.go, stream.go,      *)
(* sessionlocal.go makeByeData; session.go OnRecvCtrl).                    *)
(***************************************************************************)
EXTENDS Sequences, FiniteSets, Functions, RtcpTime

CONSTANTS
    Reason,              \* the text of a BYE
    PayloadLen,          \* octets of a data packet
    initialStamp,        \* first RTP time stamp of a stream
    Samples,             \* RTP time units of a clock tick
    BufferLen,           \* defaultBufferSize
    Stale                \* what the unused bytes of a buffer hold

\* 2^16, and the value an unsigned word of 32 bits has after wrapping.
Two16 == 256 * 256
Wrap32(n) == ((n \div Two16) % Two16) * Two16 + (n % Two16)
Uint32s == {n \in Nat : Wrap32(n) = n}

ASSUME RtcpPacketAssumption ==
    /\ Reason \in Seq(0 .. 255) /\ Stale \in 0 .. 255
    /\ {PayloadLen, initialStamp, Samples, BufferLen} \subseteq Nat
    /\ BufferLen < Two16 /\ HalfWord <= Two16

-----------------------------------------------------------------------------
\* Bytes and big endian words at byte offsets of a packet.
Byte == 0 .. 255

RtcpSR == 200
RtcpRR == 201
RtcpSdes == 202
RtcpBye == 203
RtcpApp == 204
RtcpRtpfb == 205
RtcpPsfb == 206
RtcpXr == 207
SdesCname == 1
sdesMax == 10

PutUint16(n) == <<(n \div 256) % 256, n % 256>>
PutUint32(n) == PutUint16(n \div Two16) \o PutUint16(n % Two16)

At(b, o) == IF o < Len(b) THEN b[o + 1] ELSE Stale
Uint16(b, o) == At(b, o) * 256 + At(b, o + 1)
Uint32(b, o) == Uint16(b, o) * Two16 + Uint16(b, o + 2)

Repeat(x, n) == [i \in 1 .. n |-> x]
RoundUp(n) == ((n + 3) \div 4) * 4

\* A map after m[key] = value, and after all that is in new is put in old.
Put(m, key, value) ==
    [k \in DOMAIN m \cup {key} |-> IF k = key THEN value ELSE m[k]]
Merged(new, old) ==
    [k \in DOMAIN new \cup DOMAIN old |-> IF k \in DOMAIN new THEN new[k] ELSE old[k]]

\* A header with the count and the length that the builder sets last.
Header(type, count, len) ==
    <<128 + (count % 32), type>> \o PutUint16(len \div 4 - 1)

\* The orders in which a loop over a map may find its keys.
Orders(S) == Bijection(1 .. Cardinality(S), S)

\* A list, whatever its members are.
IsSeq(s) == \E S : s \in Seq(S)

-----------------------------------------------------------------------------
\* What is written.

RtpStamp(t) == t * Samples + initialStamp

SenderInfo(s, t) ==
    PutUint32(NtpSeconds(t)) \o PutUint32(NtpFraction(t))
    \o PutUint32(RtpStamp(t))
    \o PutUint32(s.packets) \o PutUint32(s.packets * PayloadLen)

\* setPacketsLost keeps the low 24 bits.  UnmaskedLost forgets to.
UnmaskedLost(lost) == <<lost \div Two16>> \o PutUint16(lost)

PacketsLost(lost) == <<(lost \div Two16) % 256>> \o PutUint16(lost)

\* What makeRecvReport says of input stream i at time t.
Report(i, s, t) ==
    [ssrc |-> i, frac |-> s.stats.frac, lost |-> s.stats.lost % (256 * Two16),
     highest |-> s.stats.highest, jitter |-> s.stats.jitter \div 16,
     lsr |-> IF s.srTime = 0 THEN 0 ELSE MiddleBits(s.srTime),
     dlsr |-> IF s.srTime = 0 THEN 0 ELSE MiddleBits(t - s.srTime)]

RecvReport(i, s, t) ==
    LET r == Report(i, s, t)
    IN  PutUint32(r.ssrc) \o <<r.frac>> \o PacketsLost(s.stats.lost)
        \o PutUint32(r.highest) \o PutUint32(r.jitter)
        \o PutUint32(r.lsr) \o PutUint32(r.dlsr)

\* The blocks of the streams in the sequence ins, one after the other.
RecvReports(streams, ins, t) ==
    [j \in 1 .. 24 * Len(ins) |->
        LET i == ins[((j - 1) \div 24) + 1]
        IN  RecvReport(i, streams[i], t)[((j - 1) % 24) + 1]]

\* SetSdesItem's chunk length: at least one END byte must follow the items.
\* TightChunk leaves it out when the items fill their words.
ItemsLen(items) ==
    LET length[y \in 0 .. 9] ==
            IF y = 0 THEN 4
            ELSE length[y - 1] + IF y \in DOMAIN items THEN 2 + Len(items[y]) ELSE 0
    IN  length[9]

TightChunk(items) == RoundUp(ItemsLen(items))

ChunkLen(items) == RoundUp(ItemsLen(items) + 1)

\* makeSdesChunk writes the items in the order the map gives them: the chunk
\* after each of them.
ItemsWritten(o, items, order) ==
    LET chunk[k \in 0 .. Len(order)] ==
            IF k = 0 THEN PutUint32(o)
            ELSE chunk[k - 1] \o <<order[k], Len(items[order[k]]) % 256>>
                 \o items[order[k]]
    IN  chunk

SenderReport(o, s, n, t) ==
    Header(RtcpSR, n, 28 + 24 * n) \o PutUint32(o) \o SenderInfo(s, t)

ReceiverReport(o, n) == Header(RtcpRR, n, 8 + 24 * n) \o PutUint32(o)

\* makeByeData leaves the padding after the reason as it finds it.
ByeData(o) ==
    PutUint32(o)
    \o IF Reason = <<>> THEN <<>>
       ELSE <<Len(Reason) % 256>> \o Reason
            \o Repeat(Stale, RoundUp(Len(Reason) + 1) - Len(Reason) - 1)

Bye(o) == Header(RtcpBye, 1, 4 + Len(ByeData(o))) \o ByeData(o)

\* What the packets mean, as the builder has it.
SrMeans(o, s, streams, ins, t) ==
    [type |-> RtcpSR, ssrc |-> o, time |-> t, stamp |-> Wrap32(RtpStamp(t)),
     packets |-> Wrap32(s.packets), octets |-> Wrap32(s.packets * PayloadLen),
     blocks |-> [k \in DOMAIN ins |-> Report(ins[k], streams[ins[k]], t)]]

FirstMeans(o, s, streams, ins, t) ==
    IF s.sender THEN SrMeans(o, s, streams, ins, t)
    ELSE [type |-> RtcpRR, ssrc |-> o,
          blocks |-> [k \in DOMAIN ins |-> Report(ins[k], streams[ins[k]], t)]]

ByeMeans(o) == [type |-> RtcpBye, ssrc |-> o, reason |-> Reason]

-----------------------------------------------------------------------------
\* What is read, and the walk through a compound.

\* packetsLost shifts the whole word, although the count is its low part.
readRecvReport(b, o) ==
    [ssrc |-> Uint32(b, o), frac |-> At(b, o + 4),
     lost |-> At(b, o + 4) * Two16 + Uint16(b, o + 5),
     highest |-> Uint32(b, o + 8), jitter |-> Uint32(b, o + 12),
     lsr |-> Uint32(b, o + 16), dlsr |-> Uint32(b, o + 20)]

Blocks(b, o, n) == [k \in 1 .. n |-> readRecvReport(b, o + 24 * (k - 1))]

\* Where chunkLen's loop ends that is at byte l of the chunk at o, of whose
\* packet len bytes are left: at the END byte, or where the bytes end.
ItemsEnd(b, o, len) ==
    LET end[l \in 0 .. len + 256] ==
            IF l >= len \/ At(b, o + l) = 0 THEN l ELSE end[l + At(b, o + l + 1) + 2]
    IN  end

\* -1 stands for its false.
chunkLen(b, o, len) ==
    LET l == ItemsEnd(b, o, len)[4]
    IN  IF l >= len \/ (l = 4 /\ len < 8) THEN -1 ELSE ((l + 4) \div 4) * 4

\* The items that parseSdesChunk's loop finds from byte l of the chunk on.
ItemsFrom(b, o, len) ==
    LET text(l, n) == IF l + 2 + n > len THEN <<>>
                      ELSE [j \in 1 .. n |-> At(b, o + l + 1 + j)]
        items[l \in 0 .. len + 256] ==
            LET type == At(b, o + l)
                n == At(b, o + l + 1)
            IN  IF type = 0 \/ type >= sdesMax \/ l >= len THEN <<>>
                ELSE Merged(items[l + 2 + n], Put(<<>>, type, text(l, n)))
    IN  items

parseSdesChunk(b, o, len) == ItemsFrom(b, o, len)[4]

\* The loop over the n chunks of a packet; it stays where it breaks off.
SdesChunks(b, o, len, n) ==
    LET loop[k \in 0 .. n] ==
            IF k = 0 THEN [at |-> o, left |-> len, chunks |-> <<>>]
            ELSE LET s == loop[k - 1]
                     l == chunkLen(b, s.at, s.left)
                 IN  IF s.at + s.left > BufferLen \/ l = -1 THEN s
                     ELSE [at |-> s.at + l, left |-> s.left - l,
                           chunks |-> Append(s.chunks,
                               [ssrc |-> Uint32(b, s.at),
                                items |-> parseSdesChunk(b, s.at, s.left)])]
    IN  loop[n].chunks

getReason(b, o, len, n) ==
    LET l == At(b, o + 4 * n)
    IN  IF 4 * n >= len \/ 4 * n + 1 + l > len THEN <<>>
        ELSE [k \in 1 .. l |-> At(b, o + 4 * n + k)]

\* The packet at offset o with pktLen bytes.  OnRecvCtrl's feedback cases
\* hand out the bytes after the two SSRCs.
Packet(b, o, len) ==
    LET type == At(b, o + 1)
        n == At(b, o) % 32
        bytes(l) == [k \in 1 .. l |-> At(b, o + 11 + k)]
    IN  CASE type = RtcpSR ->
               [type |-> type, ssrc |-> Uint32(b, o + 4),
                time |-> fromNtp(Uint32(b, o + 8), Uint32(b, o + 12)),
                stamp |-> Uint32(b, o + 16), packets |-> Uint32(b, o + 20),
                octets |-> Uint32(b, o + 24), blocks |-> Blocks(b, o + 28, n)]
          [] type = RtcpRR ->
               [type |-> type, ssrc |-> Uint32(b, o + 4),
                blocks |-> Blocks(b, o + 8, n)]
          [] type = RtcpSdes ->
               [type |-> type, chunks |-> SdesChunks(b, o + 4, len - 4, n)]
          [] type = RtcpBye ->
               [type |-> type, ssrc |-> Uint32(b, o + 4),
                reason |-> getReason(b, o + 4, len - 4, n)]
          [] type = RtcpRtpfb ->
               [type |-> type, ssrc |-> Uint32(b, o + 4), reason |-> bytes(len - 12)]
          [] type = RtcpPsfb ->
               [type |-> type, ssrc |-> Uint32(b, o + 4), reason |-> bytes(8)]
          [] OTHER -> [type |-> type]

\* What the loop of OnRecvCtrl finds from byte o on.  It ends where the bytes
\* end, or where a packet does not fit; a packet of unknown type keeps it
\* where it is.
WalkFrom(b) ==
    LET walk[o \in 0 .. BufferLen] ==
            LET len == (4 * (Uint16(b, o + 2) + 1)) % Two16
                stays == len = 0 \/ At(b, o + 1) \notin RtcpSR .. RtcpXr
            IN  IF o >= Len(b) \/ o + len > BufferLen \/ stays
                THEN [end |-> o, packets |-> <<>>]
                ELSE LET rest == walk[o + len]
                     IN  [end |-> rest.end,
                          packets |-> <<Packet(b, o, len)>> \o rest.packets]
    IN  walk

Walk(b) == WalkFrom(b)[0]

-----------------------------------------------------------------------------
\* The clock comes back within a tick; the lost packets are left out here.
Agrees(got, meant) ==
    LET rest(p) ==
            IF p.type \notin {RtcpSR, RtcpRR} THEN p
            ELSE [f \in DOMAIN p \ {"time"} |->
                     IF f # "blocks" THEN p[f]
                     ELSE [k \in DOMAIN p.blocks |-> [p.blocks[k] EXCEPT !.lost = 0]]]
    IN  /\ got.type = meant.type
        /\ rest(got) = rest(meant)
        /\ got.type = RtcpSR => got.time \in {meant.time - 1, meant.time}

ReadsBack(m) ==
    LET walk == Walk(m.bytes)
    IN  /\ walk.end = Len(m.bytes)
        /\ Len(walk.packets) = Len(m.meant)
        /\ \A n \in DOMAIN walk.packets : Agrees(walk.packets[n], m.meant[n])
=============================================================================
