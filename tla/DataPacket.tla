----------------------------- MODULE DataPacket -----------------------------
(***************************************************************************)
(* The methods of an RTP packet: fields of the fixed header, CSRC list,    *)
(* extension, padding and payload in one byte buffer, which the setters    *)
(* rearrange.                                                              *)
(*                                                                         *)
(* Buffers come from the pool and are not cleared, so that a new packet    *)
(* and the temporary packet of a setter start with the bytes of some       *)
(* earlier packet.  A number of 16 or 32 bits is the sequence of its bytes *)
(* in network order.                                                       *)
(***************************************************************************)
EXTENDS Integers, Sequences, FiniteSets

CONSTANTS
    Capacity,          \* defaultBufferSize: the bytes of a buffer
    StreamFields,      \* the fields an output stream sets in a new packet
    Markers, Types, Numbers,    \* arguments of SetMarker, SetPayloadType,
                                \* SetSsrc, SetTimestamp, SetSequence
    CsrcLists, Extensions, Payloads, PadTos,   \* arguments of other setters
    KnownTypes,        \* keys of PayloadFormatMap
    OldBuffers,        \* what the buffers of the pool may contain
    Careful            \* padding is set before the payload, and a padded
                       \* payload, not empty, is set once

HeaderLength == 12     \* rtpHeaderLength
Byte == 0 .. 255
Offsets == 0 .. Capacity - 1
Fields == {"sequence", "timestamp", "ssrc"}
At == [sequence |-> 2, timestamp |-> 4, ssrc |-> 8]
Size == [sequence |-> 2, timestamp |-> 4, ssrc |-> 4]

ASSUME DataPacketAssumption ==
    /\ Capacity \in Nat /\ Capacity >= HeaderLength
    /\ OldBuffers \subseteq [Offsets -> Byte]
    /\ Careful \in BOOLEAN
    /\ Markers \subseteq BOOLEAN
    /\ Types \subseteq 0 .. 127 /\ KnownTypes \subseteq 0 .. 127
    /\ PadTos \subseteq 2 .. 255
    /\ StreamFields \in [type : 0 .. 127, ssrc : [1 .. 4 -> Byte],
                          timestamp : [1 .. 4 -> Byte],
                          sequence : [1 .. 2 -> Byte]]
    /\ Numbers \subseteq Seq(Byte)
    /\ CsrcLists \subseteq Seq([1 .. 4 -> Byte])
    /\ Extensions \subseteq Seq(Byte) /\ Payloads \subseteq Seq(Byte)

VARIABLES
    buffer, inUse, padTo   \* the fields of RawPacket

vars == <<buffer, inUse, padTo>>

-----------------------------------------------------------------------------
(* Bytes and slices.                                                        *)

\* copy(dst[at:], src[from:to]), for slices that lie in the buffers.
Copy(dst, at, src, from, to) ==
    [i \in Offsets |-> IF at <= i /\ i < at + (to - from)
                       THEN src[from + (i - at)] ELSE dst[i]]
\* copy(dst[at:], s)
Put(dst, at, s) ==
    [i \in Offsets |-> IF at <= i /\ i < at + Len(s)
                       THEN s[(i - at) + 1] ELSE dst[i]]
Slice(b, from, to) == [j \in 1 .. (to - from) |-> b[from + j - 1]]

Bit(x, bit) == (x \div bit) % 2 = 1
WithBit(x, bit, on) ==
    (x - bit * ((x \div bit) % 2)) + (IF on THEN bit ELSE 0)
Uint16(s) == 256 * s[1] + s[2]

-----------------------------------------------------------------------------
(* What the methods read.                                                   *)

CsrcCount(b) == b[0] % 16
ExtensionBit(b) == Bit(b[0], 16)
Padding(b) == Bit(b[0], 32)
Marker(b) == Bit(b[1], 128)
PayloadType(b) == b[1] % 128
Number(b, f) == Slice(b, At[f], At[f] + Size[f])

CsrcList(b) ==
    [i \in 1 .. CsrcCount(b) |->
        Slice(b, HeaderLength + 4 * (i - 1), HeaderLength + 4 * i)]

CsrcEnd(b) == HeaderLength + 4 * CsrcCount(b)

ExtensionLength(b) ==
    IF ExtensionBit(b)
    THEN 4 * (Uint16(Slice(b, CsrcEnd(b) + 2, CsrcEnd(b) + 4)) + 1) ELSE 0

PayOffset(b) == CsrcEnd(b) + ExtensionLength(b)
Extension(b) == Slice(b, CsrcEnd(b), PayOffset(b))
PadPastEnd(b, n) == IF Padding(b) THEN b[n] ELSE 0   \* mutant: off by one
PadLength(b, n) == IF Padding(b) THEN b[n - 1] ELSE 0
Payload(b, n) == Slice(b, PayOffset(b), n - PadLength(b, n))
IsValid(b) == b[0] \div 64 = 2 /\ PayloadType(b) \in KnownTypes

-----------------------------------------------------------------------------
(* newDataPacket of the pool and of an output stream.                       *)

SetType(b, pt) == [b EXCEPT ![1] = (@ - (@ % 128)) + pt]

Prepare(b) ==
    LET b1 == [b EXCEPT ![0] = 128]
        b2 == Put(b1, At.ssrc, StreamFields.ssrc)
        b3 == SetType(b2, StreamFields.type)
        b4 == Put(b3, At.timestamp, StreamFields.timestamp)
    IN  Put(b4, At.sequence, StreamFields.sequence)

\* The packet is sent and freed, and the next one created.
NewDataPacket ==
    /\ \E b \in OldBuffers : buffer' = Prepare(b)
    /\ inUse' = HeaderLength
    /\ padTo' = 0

-----------------------------------------------------------------------------
(* The fixed header.                                                        *)

SetMarker(m) ==
    /\ buffer' = [buffer EXCEPT ![1] = WithBit(@, 128, m)]
    /\ UNCHANGED <<inUse, padTo>>

SetPayloadType(pt) ==
    /\ buffer' = SetType(buffer, pt)
    /\ UNCHANGED <<inUse, padTo>>

\* SetSsrc, SetTimestamp and SetSequence.
SetNumber(f, n) ==
    /\ Len(n) = Size[f]
    /\ buffer' = Put(buffer, At[f], n)
    /\ UNCHANGED <<inUse, padTo>>

\* The number of padding bytes is written by SetPayload.
SetPadding(p, n) ==
    /\ Careful => inUse = PayOffset(buffer)
    /\ buffer' = [buffer EXCEPT ![0] = WithBit(@, 32, p)]
    /\ padTo' = IF p THEN IF n = 0 THEN 4 ELSE n ELSE 0
    /\ UNCHANGED inUse

-----------------------------------------------------------------------------
(* The setters that move the rest of the packet, into another buffer or in  *)
(* place.                                                                   *)

PutCsrcs(b, l) ==
    [i \in Offsets |->
        IF HeaderLength <= i /\ i < HeaderLength + 4 * Len(l)
        THEN l[((i - HeaderLength) \div 4) + 1][((i - HeaderLength) % 4) + 1]
        ELSE b[i]]

CsrcUnchecked(l) ==   \* mutant: the capacity of the buffer is not checked
    LET offsetNew == HeaderLength + 4 * Len(l)
        newInUse == offsetNew + inUse - CsrcEnd(buffer)
    IN  /\ \E newBuf \in OldBuffers :
             LET b1 == Copy(newBuf, 0, buffer, 0, HeaderLength)
                 b2 == Copy(b1, offsetNew, buffer, CsrcEnd(buffer), inUse)
                 b3 == PutCsrcs(b2, l)
             IN  buffer' = [b3 EXCEPT ![0] = (@ - (@ % 16)) + (Len(l) % 16)]
        /\ inUse' = newInUse
        /\ UNCHANGED padTo

SetCsrcList(l) ==
    LET offsetOld == CsrcEnd(buffer)
        offsetNew == HeaderLength + 4 * Len(l)
        newInUse == offsetNew + inUse - offsetOld
    IN  /\ Len(l) <= 16
        /\ newInUse <= Capacity
        /\ \E newBuf \in OldBuffers :
             LET b1 == Copy(newBuf, 0, buffer, 0, HeaderLength)
                 b2 == Copy(b1, offsetNew, buffer, offsetOld, inUse)
                 b3 == PutCsrcs(b2, l)
             IN  buffer' = [b3 EXCEPT ![0] = (@ - (@ % 16)) + (Len(l) % 16)]
        /\ inUse' = newInUse
        /\ UNCHANGED padTo

\* An extension whose length is not the one in its header is refused.
WellFormed(e) ==
    /\ Len(e) % 4 = 0
    /\ Len(e) > 0 => Len(e) = (4 * (Uint16(<<e[3], e[4]>>) + 1)) % 65536

ExtKeepsOld(e) ==   \* mutant: the old extension stays before the payload
    LET offsetExt == CsrcEnd(buffer)
        newInUse == inUse + Len(e)
    IN  /\ WellFormed(e)
        /\ newInUse <= Capacity
        /\ \E newBuf \in OldBuffers :
             LET b1 == Copy(newBuf, 0, buffer, 0, HeaderLength)
                 b2 == Put(b1, offsetExt, e)
                 b3 == Copy(b2, offsetExt + Len(e), buffer, offsetExt, inUse)
             IN  buffer' = [b3 EXCEPT ![0] = WithBit(@, 16, Len(e) > 0)]
        /\ inUse' = newInUse
        /\ UNCHANGED padTo

SetExtension(e) ==
    LET offsetExt == CsrcEnd(buffer)
        offsetOld == PayOffset(buffer)
        offsetNew == offsetExt + Len(e)
        newInUse == inUse + Len(e) - (offsetOld - offsetExt)
    IN  /\ WellFormed(e)
        /\ newInUse <= Capacity
        /\ \E newBuf \in OldBuffers :
             LET b1 == Copy(newBuf, 0, buffer, 0, HeaderLength)
                 b2 == Put(b1, offsetExt, e)
                 b3 == Copy(b2, offsetNew, buffer, offsetOld, inUse)
             IN  buffer' = [b3 EXCEPT ![0] = WithBit(@, 16, Len(e) > 0)]
        /\ inUse' = newInUse
        /\ UNCHANGED padTo

\* The length of the old payload, as SetPayload computes it.
PayloadLenOld ==
    LET n == inUse - PayOffset(buffer) IN
    IF Padding(buffer) /\ n > padTo THEN n + buffer[inUse] ELSE n

Pad(n) == IF ~Padding(buffer) THEN 0
          ELSE IF n % padTo = 0 THEN padTo ELSE n % padTo

SetPayload(s) ==
    LET at == PayOffset(buffer)
        rest == inUse - PayloadLenOld
        pad == Pad(Len(s) + rest)
        padding == [j \in 1 .. pad |-> IF j = pad THEN pad % 256 ELSE 0]
        b1 == Put(buffer, at, s)
    IN  /\ Careful /\ Padding(buffer) => s # <<>> /\ inUse = at
        /\ IF at + Len(s) + pad > Capacity
           THEN inUse' = rest /\ UNCHANGED buffer
           ELSE IF s # <<>>
           THEN /\ inUse' = rest + Len(s) + pad
                /\ buffer' = Put(b1, at + Len(s), padding)
           ELSE inUse' = rest /\ UNCHANGED buffer
        /\ UNCHANGED padTo

-----------------------------------------------------------------------------
Init ==
    /\ \E b \in OldBuffers : buffer = Prepare(b)
    /\ inUse = HeaderLength
    /\ padTo = 0

Next ==
    \/ NewDataPacket
    \/ \E m \in Markers : SetMarker(m)
    \/ \E pt \in Types : SetPayloadType(pt)
    \/ \E f \in Fields, n \in Numbers : SetNumber(f, n)
    \/ \E p \in BOOLEAN, n \in PadTos \cup {0} : SetPadding(p, n)
    \/ \E l \in CsrcLists : SetCsrcList(l)
    \/ \E e \in Extensions : SetExtension(e)
    \/ \E s \in Payloads : SetPayload(s)

Spec == Init /\ [][Next]_vars

-----------------------------------------------------------------------------
TypeOK ==
    /\ buffer \in [Offsets -> Byte]
    /\ PayOffset(buffer) <= inUse /\ inUse <= Capacity
    /\ padTo \in PadTos \cup {0, 4}
    /\ Padding(buffer) <=> padTo > 0

Header(b) == <<Marker(b), PayloadType(b), [f \in Fields |-> Number(b, f)]>>

\* Payload() is defined for padded packets only once they have a payload.
Data(b, n) == IF n = PayOffset(b) THEN <<>> ELSE Payload(b, n)

Contents == INSTANCE PacketContents WITH
    Headers <- BOOLEAN \X (0 .. 127) \X [Fields -> Seq(Byte)],
    Lists <- CsrcLists, Exts <- Extensions, Datas <- Payloads,
    PadTos <- PadTos \cup {0, 4},
    header <- Header(buffer), csrc <- CsrcList(buffer),
    ext <- Extension(buffer), payload <- Data(buffer, inUse),
    length <- inUse

\* Each setter changes its own part of the packet to what was given and
\* nothing else, whatever the buffers from the pool contain; the packet
\* grows and shrinks by just that part.
SettersAreIndependent == Contents!Spec

\* The receiver, whose readDataPacket copies inUse bytes into a buffer with
\* old contents, accepts the packet and reads the same contents from it.
ReceiverReadsTheSame ==
    \A old \in OldBuffers :
        LET b == Copy(old, 0, buffer, 0, inUse) IN
        /\ PayloadType(buffer) \in KnownTypes => IsValid(b)
        /\ Header(b) = Header(buffer)
        /\ CsrcList(b) = CsrcList(buffer)
        /\ Extension(b) = Extension(buffer)
        /\ Data(b, inUse) = Data(buffer, inUse)
=============================================================================
