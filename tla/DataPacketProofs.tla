-------------------------- MODULE DataPacketProofs --------------------------
(***************************************************************************)
(* Proofs about the methods of an RTP packet, for every size of the        *)
(* buffer, every contents of the buffers of the pool and every argument of *)
(* the setters.                                                            *)
(***************************************************************************)
EXTENDS DataPacket, TLAPS

USE DEF HeaderLength

-----------------------------------------------------------------------------
(* The callers that the proofs are about.                                   *)

\* An extension has the format that the comment of SetExtension asks for:
\* the 16-bit length in its header, in bytes, does not exceed 16 bits, in
\* which SetExtension compares it with the length of the argument.
Conforming(e) ==
    Len(e) > 0 /\ Len(e) % 4 = 0 => Uint16(<<e[3], e[4]>>) < 16384

Disciplined ==
    /\ Careful
    /\ \A l \in CsrcLists : Len(l) # 16
    /\ \A e \in Extensions : Conforming(e)

\* The parts that the first byte announces lie in the first n bytes.
Fits(b, n) ==
    /\ b \in [Offsets -> Byte]
    /\ n \in Nat /\ n <= Capacity
    /\ b[0] \div 64 = 2
    /\ CsrcEnd(b) <= n
    /\ ExtensionBit(b) => CsrcEnd(b) + 4 <= n
    /\ PayOffset(b) <= n

\* The inductive invariant.
Layout ==
    /\ Fits(buffer, inUse)
    /\ padTo \in PadTos \cup {0, 4}
    /\ Padding(buffer) <=> padTo > 0

-----------------------------------------------------------------------------
(* The first two bytes.                                                     *)

\* Setting or clearing a flag of the first byte leaves its other parts.
LEMMA FlagBits ==
    ASSUME NEW x \in Byte, NEW on \in BOOLEAN
    PROVE  /\ WithBit(x, 16, on) \in Byte
           /\ Bit(WithBit(x, 16, on), 16) <=> on
           /\ Bit(WithBit(x, 16, on), 32) <=> Bit(x, 32)
           /\ WithBit(x, 16, on) % 16 = x % 16
           /\ WithBit(x, 16, on) \div 64 = x \div 64
           /\ WithBit(x, 32, on) \in Byte
           /\ Bit(WithBit(x, 32, on), 32) <=> on
           /\ Bit(WithBit(x, 32, on), 16) <=> Bit(x, 16)
           /\ WithBit(x, 32, on) % 16 = x % 16
           /\ WithBit(x, 32, on) \div 64 = x \div 64
<1>1. CASE on
  BY <1>1 DEF WithBit, Bit, Byte
<1>2. CASE ~on
  BY <1>2 DEF WithBit, Bit, Byte
<1> QED BY <1>1, <1>2

\* A byte made of two halves.
LEMMA Nibbles ==
    ASSUME NEW q \in 0 .. 15, NEW n \in 0 .. 15
    PROVE  /\ (16 * q + n) % 16 = n
           /\ (16 * q + n) \div 16 = q
           /\ (16 * q + n) \div 32 = q \div 2
           /\ (16 * q + n) \div 64 = q \div 4
<1>1. (16 * q + n) % 16 = n /\ (16 * q + n) \div 16 = q
  OBVIOUS
<1>2. PICK h \in 0 .. 7, l \in 0 .. 1 : q = 2 * h + l
  <2>1. q = 2 * (q \div 2) + (q % 2) /\ q \div 2 \in 0 .. 7
        /\ q % 2 \in 0 .. 1
    OBVIOUS
  <2> QED BY <2>1
<1>3. (16 * q + n) \div 32 = h /\ q \div 2 = h
  BY <1>2
<1>4. PICK g \in 0 .. 3, k \in 0 .. 3 : q = 4 * g + k
  <2>1. q = 4 * (q \div 4) + (q % 4) /\ q \div 4 \in 0 .. 3
        /\ q % 4 \in 0 .. 3
    OBVIOUS
  <2> QED BY <2>1
<1>5. (16 * q + n) \div 64 = g /\ q \div 4 = g
  BY <1>4
<1> QED BY <1>1, <1>3, <1>5

\* The CSRC count fits in the low four bits of the first byte.
LEMMA SmallCount == /\ \A n \in 0 .. 15 : n % 16 = n
                    /\ \A n \in Nat : n <= 15 => n \in 0 .. 15
                    /\ \A n \in Nat : n <= 16 /\ n # 16 => n <= 15
  OBVIOUS

\* The number of CSRCs leaves the flags and the version alone.
LEMMA CountBits ==
    ASSUME NEW x \in Byte, NEW n \in 0 .. 15
    PROVE  /\ (x - (x % 16)) + n \in Byte
           /\ ((x - (x % 16)) + n) % 16 = n
           /\ Bit((x - (x % 16)) + n, 16) <=> Bit(x, 16)
           /\ Bit((x - (x % 16)) + n, 32) <=> Bit(x, 32)
           /\ ((x - (x % 16)) + n) \div 64 = x \div 64
<1> DEFINE y == (x - (x % 16)) + n
           q == x \div 16
<1>1. q \in 0 .. 15 /\ x = 16 * q + (x % 16) /\ x % 16 \in 0 .. 15
  BY DEF Byte
<1>2. y = 16 * q + n /\ y \in Byte
  BY <1>1 DEF Byte
<1> HIDE DEF y, q
<1>3. y % 16 = n /\ y \div 16 = q
  BY <1>1, <1>2, Nibbles
<1>4. y \div 32 = q \div 2 /\ x \div 32 = q \div 2
  BY <1>1, <1>2, Nibbles
<1>5. y \div 64 = q \div 4 /\ x \div 64 = q \div 4
  BY <1>1, <1>2, Nibbles
<1>6. x \div 16 = q BY DEF q
<1> QED BY <1>2, <1>3, <1>4, <1>5, <1>6 DEF Bit, y

\* The marker and the payload type stay a byte.
LEMMA SecondByte ==
    ASSUME NEW x \in Byte
    PROVE  /\ \A on \in BOOLEAN : WithBit(x, 128, on) \in Byte
           /\ \A pt \in 0 .. 127 : (x - (x % 128)) + pt \in Byte
<1>1. ASSUME NEW on \in BOOLEAN PROVE WithBit(x, 128, on) \in Byte
  <2>1. CASE on BY <2>1 DEF WithBit, Byte
  <2>2. CASE ~on BY <2>2 DEF WithBit, Byte
  <2> QED BY <2>1, <2>2
<1>2. ASSUME NEW pt \in 0 .. 127 PROVE (x - (x % 128)) + pt \in Byte
  BY DEF Byte
<1> QED BY <1>1, <1>2

-----------------------------------------------------------------------------
(* Where the parts of a packet are.                                         *)

\* A buffer has room for the fixed header.
LEMMA CapacityNat == Capacity \in Nat /\ Capacity >= 12
  BY DataPacketAssumption

\* A slice of a buffer is a sequence of bytes.
LEMMA SliceBytes ==
    ASSUME NEW b \in [Offsets -> Byte], NEW from \in Nat, NEW to \in Nat,
           from <= to, to <= Capacity
    PROVE  Slice(b, from, to) \in Seq(Byte) /\ Len(Slice(b, from, to)) = to - from
<1>1. to - from \in Nat
  OBVIOUS
<1>2. \A j \in 1 .. (to - from) : b[from + j - 1] \in Byte
  BY CapacityNat DEF Offsets
<1>3. Slice(b, from, to) \in [1 .. (to - from) -> Byte]
  BY <1>2 DEF Slice
<1> QED BY <1>1, <1>3

\* The bytes of c from at on are those of b from from on.
Same(b, from, c, at, n) == \A k \in 0 .. (n - 1) : c[at + k] = b[from + k]

\* Slices are equal when their bytes are.
LEMMA SlicesAgree ==
    ASSUME NEW b, NEW c, NEW from \in Int, NEW at \in Int, NEW n \in Int,
           Same(b, from, c, at, n)
    PROVE  Slice(c, at, at + n) = Slice(b, from, from + n)
<1>1. ASSUME NEW j \in 1 .. n
      PROVE  c[at + j - 1] = b[from + j - 1]
  <2>1. j - 1 \in 0 .. (n - 1)
    OBVIOUS
  <2>2. c[at + (j - 1)] = b[from + (j - 1)]
    BY <2>1 DEF Same
  <2> QED BY <2>2
<1>2. (at + n) - at = n /\ (from + n) - from = n
  OBVIOUS
<1> QED BY <1>1, <1>2 DEF Slice

\* The header and the CSRC list end between the 12th and the 72nd byte.
LEMMA CsrcEndRange ==
    ASSUME NEW b \in [Offsets -> Byte]
    PROVE  /\ 0 \in Offsets /\ 1 \in Offsets
           /\ b[0] \in Byte /\ b[1] \in Byte
           /\ CsrcCount(b) \in 0 .. 15
           /\ CsrcEnd(b) \in 12 .. 72
<1>1. 0 \in Offsets /\ 1 \in Offsets
  BY CapacityNat DEF Offsets
<1>2. b[0] \in Byte /\ b[1] \in Byte
  BY <1>1
<1> QED BY <1>1, <1>2 DEF CsrcEnd, CsrcCount, Byte

\* The length of the extension, when its header is in the packet.
LEMMA ExtensionSize ==
    ASSUME NEW b \in [Offsets -> Byte], NEW n \in Nat, n <= Capacity,
           ExtensionBit(b) => CsrcEnd(b) + 4 <= n
    PROVE  /\ ExtensionLength(b) \in Nat
           /\ ExtensionBit(b) =>
                /\ ExtensionLength(b) >= 4
                /\ ExtensionLength(b) =
                      4 * (256 * b[CsrcEnd(b) + 2] + b[CsrcEnd(b) + 3] + 1)
           /\ ~ExtensionBit(b) => ExtensionLength(b) = 0
           /\ PayOffset(b) = CsrcEnd(b) + ExtensionLength(b)
           /\ PayOffset(b) \in Nat
<1>1. PICK at \in 12 .. 72 : CsrcEnd(b) = at
  BY CsrcEndRange
<1>2. CASE ExtensionBit(b)
  <2>0. at + 4 <= Capacity
    BY <1>1, <1>2, CapacityNat
  <2>1. at + 2 \in Offsets /\ at + 3 \in Offsets
    BY <2>0, CapacityNat DEF Offsets
  <2>2. Slice(b, at + 2, at + 4)[1] = b[at + 2]
        /\ Slice(b, at + 2, at + 4)[2] = b[at + 3]
    BY DEF Slice
  <2>3. PICK x \in 0 .. 255, y \in 0 .. 255 :
            b[at + 2] = x /\ b[at + 3] = y
    BY <2>1, Zenon DEF Byte
  <2>4. ExtensionLength(b) = 4 * (256 * x + y + 1)
    BY <1>1, <1>2, <2>2, <2>3 DEF ExtensionLength, Uint16
  <2>5. ExtensionLength(b) \in Nat /\ ExtensionLength(b) >= 4
    BY <2>4
  <2>6. PayOffset(b) = at + ExtensionLength(b) /\ PayOffset(b) \in Nat
    BY <1>1, <2>5 DEF PayOffset
  <2> QED BY <1>1, <1>2, <2>3, <2>4, <2>5, <2>6
<1>3. CASE ~ExtensionBit(b)
  BY <1>1, <1>3 DEF ExtensionLength, PayOffset
<1> QED BY <1>2, <1>3

\* What Fits says, with the types of the offsets.
LEMMA FitsParts ==
    ASSUME NEW b, NEW n, Fits(b, n)
    PROVE  /\ b \in [Offsets -> Byte] /\ n \in Nat /\ n <= Capacity
           /\ CsrcEnd(b) \in 12 .. 72
           /\ ExtensionLength(b) \in Nat
           /\ PayOffset(b) = CsrcEnd(b) + ExtensionLength(b)
           /\ PayOffset(b) \in Nat
           /\ CsrcEnd(b) <= PayOffset(b) /\ PayOffset(b) <= n
           /\ CsrcEnd(b) <= n
<1>1. b \in [Offsets -> Byte] /\ n \in Nat /\ n <= Capacity
  BY DEF Fits
<1>2. CsrcEnd(b) \in 12 .. 72
  BY <1>1, CsrcEndRange
<1>3. /\ ExtensionLength(b) \in Nat
      /\ PayOffset(b) = CsrcEnd(b) + ExtensionLength(b)
      /\ PayOffset(b) \in Nat
  BY <1>1, ExtensionSize DEF Fits
<1>4. PayOffset(b) <= n /\ CsrcEnd(b) <= n
  BY DEF Fits
<1> QED BY <1>1, <1>2, <1>3, <1>4

\* A payload that is moved with its padding is read as before.
LEMMA PayloadMoved ==
    ASSUME NEW b, NEW n, Fits(b, n), NEW c, NEW m \in Nat,
           PayOffset(c) \in Nat,
           Padding(c) <=> Padding(b),
           m - PayOffset(c) = n - PayOffset(b),
           \A k \in 0 .. (n - PayOffset(b) - 1) :
               c[PayOffset(c) + k] = b[PayOffset(b) + k]
    PROVE  Data(c, m) = Data(b, n)
<1>1. PICK p \in Nat : PayOffset(b) = p /\ p <= n /\ n \in Nat /\ n <= Capacity
  BY FitsParts
<1>2. PICK q \in Nat : PayOffset(c) = q
  OBVIOUS
<1>3. m - q = n - p /\ \A k \in 0 .. (n - p - 1) : c[q + k] = b[p + k]
  BY <1>1, <1>2
<1>4. CASE n = p
  <2>1. m = q
    BY <1>1, <1>3, <1>4
  <2> QED BY <1>1, <1>2, <1>4, <2>1 DEF Data
<1>5. CASE n # p
  <2>1. m # q /\ n - p - 1 \in 0 .. (n - p - 1)
    BY <1>1, <1>3, <1>5
  <2>2. c[q + (n - p - 1)] = b[p + (n - p - 1)]
    BY <1>3, <2>1
  <2>3. c[m - 1] = b[n - 1]
    <3>1. q + (n - p - 1) = m - 1 /\ p + (n - p - 1) = n - 1
      BY <1>1, <1>3
    <3> QED BY <2>2, <3>1
  <2>4. PadLength(c, m) = PadLength(b, n)
    BY <2>3 DEF PadLength
  <2>5. PadLength(b, n) \in Nat
    <3>1. n - 1 \in Offsets
      BY <1>1, <1>5, CapacityNat DEF Offsets
    <3>2. b[n - 1] \in Byte
      BY <3>1 DEF Fits
    <3> QED BY <3>2 DEF PadLength, Byte
  <2>6. PICK pad \in Nat : PadLength(b, n) = pad
    BY <2>5
  <2>7. Slice(c, q, m - pad) = Slice(b, p, n - pad)
    <3>1. PICK l \in Int : n - pad = p + l /\ m - pad = q + l /\ l = n - pad - p
      BY <1>1, <1>3
    <3>2. Same(b, p, c, q, l)
      BY <1>1, <1>3, <3>1 DEF Same
    <3> QED BY <3>1, <3>2, SlicesAgree
  <2> QED BY <1>1, <1>2, <2>1, <2>4, <2>6, <2>7, <1>5 DEF Data, Payload
<1> QED BY <1>4, <1>5

\* Moving what follows the CSRC list leaves the extension.
LEMMA ExtensionMoved ==
    ASSUME NEW b, NEW n, Fits(b, n),
           NEW c \in [Offsets -> Byte], NEW m \in Nat, m <= Capacity,
           c[0] \div 64 = 2,
           ExtensionBit(c) <=> ExtensionBit(b),
           m - CsrcEnd(c) = n - CsrcEnd(b),
           \A k \in 0 .. (n - CsrcEnd(b) - 1) :
               c[CsrcEnd(c) + k] = b[CsrcEnd(b) + k]
    PROVE  /\ Fits(c, m)
           /\ ExtensionLength(c) = ExtensionLength(b)
           /\ Extension(c) = Extension(b)
<1>1. PICK p \in 12 .. 72 : CsrcEnd(b) = p
  BY FitsParts
<1>2. PICK q \in 12 .. 72 : CsrcEnd(c) = q
  BY CsrcEndRange
<1>3. n \in Nat /\ m - q = n - p
      /\ \A k \in 0 .. (n - p - 1) : c[q + k] = b[p + k]
  BY <1>1, <1>2, FitsParts
<1>4. PICK x \in Nat : ExtensionLength(b) = x /\ PayOffset(b) = p + x
                       /\ p + x <= n
  BY <1>1, FitsParts
<1>5. q <= m
  BY <1>3, <1>4
<1>6. ExtensionBit(c) => q + 4 <= m
  <2>1. ExtensionBit(b) => p + 4 <= n
    BY <1>1 DEF Fits
  <2> QED BY <1>3, <2>1
<1>7. ExtensionLength(c) = x
  <2>1. CASE ExtensionBit(b)
    <3>1. p + 4 <= n
      BY <1>1, <2>1 DEF Fits
    <3>2. c[q + 2] = b[p + 2] /\ c[q + 3] = b[p + 3]
      BY <1>3, <3>1
    <3>3. Slice(c, q + 2, q + 4) = Slice(b, p + 2, p + 4)
      <4>1. PICK f \in Int, g \in Int : f = p + 2 /\ g = q + 2
        OBVIOUS
      <4>2. Same(b, f, c, g, 2) /\ p + 4 = f + 2 /\ q + 4 = g + 2
        BY <3>2, <4>1 DEF Same
      <4> QED BY <4>1, <4>2, SlicesAgree
    <3> QED BY <1>1, <1>2, <1>4, <2>1, <3>3 DEF ExtensionLength
  <2>2. CASE ~ExtensionBit(b)
    BY <1>4, <2>2 DEF ExtensionLength
  <2> QED BY <2>1, <2>2
<1>8. PayOffset(c) = q + x
  BY <1>2, <1>7 DEF PayOffset
<1>9. Fits(c, m)
  BY <1>2, <1>3, <1>4, <1>5, <1>6, <1>8 DEF Fits
<1>10. Extension(c) = Extension(b)
  <2>1. Same(b, p, c, q, x)
    BY <1>3, <1>4 DEF Same
  <2>2. Slice(c, q, q + x) = Slice(b, p, p + x)
    BY <2>1, SlicesAgree
  <2> QED BY <1>1, <1>2, <1>4, <1>8, <2>2 DEF Extension
<1> QED BY <1>4, <1>7, <1>9, <1>10

\* It leaves the payload as well.
LEMMA Moved ==
    ASSUME NEW b, NEW n, Fits(b, n),
           NEW c \in [Offsets -> Byte], NEW m \in Nat, m <= Capacity,
           c[0] \div 64 = 2,
           ExtensionBit(c) <=> ExtensionBit(b),
           Padding(c) <=> Padding(b),
           m - CsrcEnd(c) = n - CsrcEnd(b),
           \A k \in 0 .. (n - CsrcEnd(b) - 1) :
               c[CsrcEnd(c) + k] = b[CsrcEnd(b) + k]
    PROVE  /\ Fits(c, m)
           /\ ExtensionLength(c) = ExtensionLength(b)
           /\ Extension(c) = Extension(b)
           /\ Data(c, m) = Data(b, n)
<1>0. /\ Fits(c, m)
      /\ ExtensionLength(c) = ExtensionLength(b)
      /\ Extension(c) = Extension(b)
  BY ExtensionMoved
<1>1. PICK p \in 12 .. 72 : CsrcEnd(b) = p
  BY FitsParts
<1>2. PICK q \in 12 .. 72 : CsrcEnd(c) = q
  BY CsrcEndRange
<1>3. n \in Nat /\ m - q = n - p
      /\ \A k \in 0 .. (n - p - 1) : c[q + k] = b[p + k]
  BY <1>1, <1>2, FitsParts
<1>4. PICK x \in Nat : ExtensionLength(b) = x /\ PayOffset(b) = p + x
                       /\ p + x <= n
  BY <1>1, FitsParts
<1>5. PayOffset(c) = q + x
  BY <1>0, <1>2, <1>4 DEF PayOffset
<1>6. Data(c, m) = Data(b, n)
  <2>1. m - (q + x) = n - (p + x)
    BY <1>3
  <2>2. ASSUME NEW k \in 0 .. (n - (p + x) - 1)
        PROVE  c[(q + x) + k] = b[(p + x) + k]
    <3>1. x + k \in 0 .. (n - p - 1)
      BY <1>3
    <3>2. c[q + (x + k)] = b[p + (x + k)]
      BY <1>3, <3>1
    <3> QED BY <3>2
  <2> QED BY <1>4, <1>5, <2>1, <2>2, PayloadMoved
<1> QED BY <1>0, <1>6

\* The fixed header, apart from its first byte.
LEMMA SameHeader ==
    ASSUME NEW b, NEW c, \A i \in 1 .. 11 : c[i] = b[i]
    PROVE  Header(c) = Header(b)
<1>1. ASSUME NEW f \in Fields PROVE Number(c, f) = Number(b, f)
  <2>1. PICK at \in 2 .. 8, n \in 2 .. 4 : At[f] = at /\ Size[f] = n /\ at + n <= 12
    BY DEF Fields, At, Size
  <2>2. Same(b, at, c, at, n)
    BY <2>1 DEF Same
  <2>3. Slice(c, at, at + n) = Slice(b, at, at + n)
    BY <2>2, SlicesAgree
  <2> QED BY <2>1, <2>3 DEF Number
<1>2. c[1] = b[1]
  OBVIOUS
<1>3. Marker(c) = Marker(b) /\ PayloadType(c) = PayloadType(b)
  BY <1>2 DEF Marker, PayloadType
<1>4. [f \in Fields |-> Number(c, f)] = [f \in Fields |-> Number(b, f)]
  BY <1>1
<1> QED BY <1>3, <1>4, Zenon DEF Header

\* The header of any buffer is one that the specification of the contents
\* knows.
LEMMA HeaderTyped ==
    ASSUME NEW b \in [Offsets -> Byte]
    PROVE  Header(b) \in BOOLEAN \X (0 .. 127) \X [Fields -> Seq(Byte)]
<1>1. ASSUME NEW f \in Fields PROVE Number(b, f) \in Seq(Byte)
  <2>1. PICK at \in Nat, n \in Nat : At[f] = at /\ Size[f] = n /\ at + n <= 12
    BY DEF Fields, At, Size
  <2>2. at <= at + n /\ at + n <= Capacity /\ at + n \in Nat
    BY <2>1, CapacityNat
  <2>3. Slice(b, at, at + n) \in Seq(Byte)
    BY <2>2, SliceBytes
  <2> QED BY <2>1, <2>3 DEF Number
<1>2. Marker(b) \in BOOLEAN
  BY DEF Marker, Bit
<1>3. PayloadType(b) \in 0 .. 127
  BY CsrcEndRange DEF PayloadType, Byte
<1>4. [f \in Fields |-> Number(b, f)] \in [Fields -> Seq(Byte)]
  BY <1>1
<1> QED BY <1>2, <1>3, <1>4, Zenon DEF Header

\* The CSRC list depends on its number and its bytes.
LEMMA SameCsrcs ==
    ASSUME NEW b \in [Offsets -> Byte], NEW c,
           CsrcCount(c) = CsrcCount(b),
           \A i \in 12 .. (CsrcEnd(b) - 1) : c[i] = b[i]
    PROVE  CsrcList(c) = CsrcList(b)
<1>1. PICK n \in 0 .. 15 : CsrcCount(b) = n /\ CsrcEnd(b) = 12 + 4 * n
  BY CsrcEndRange DEF CsrcEnd
<1>2. ASSUME NEW i \in 1 .. n
      PROVE  Slice(c, 12 + 4 * (i - 1), 12 + 4 * i)
             = Slice(b, 12 + 4 * (i - 1), 12 + 4 * i)
  <2>1. PICK at \in Int : at = 12 + 4 * (i - 1) /\ 12 + 4 * i = at + 4
    OBVIOUS
  <2>2. Same(b, at, c, at, 4)
    BY <1>1, <2>1 DEF Same
  <2>3. Slice(c, at, at + 4) = Slice(b, at, at + 4)
    BY <2>2, SlicesAgree
  <2> QED BY <2>1, <2>3
<1> QED BY <1>1, <1>2 DEF CsrcList

-----------------------------------------------------------------------------
(* The buffers that the setters make.                                       *)

\* c is dst with n bytes of src.
Copied(c, dst, at, src, from, n) ==
    /\ c \in [Offsets -> Byte]
    /\ \A i \in Offsets : i < at \/ i >= at + n => c[i] = dst[i]
    /\ Same(src, from, c, at, n)

\* What copy of a part of another buffer does.
LEMMA CopyBytes ==
    ASSUME NEW dst \in [Offsets -> Byte], NEW src \in [Offsets -> Byte],
           NEW at \in Nat, NEW from \in Nat, NEW to \in Nat,
           from <= to, to <= Capacity, at + (to - from) <= Capacity
    PROVE  Copied(Copy(dst, at, src, from, to), dst, at, src, from, to - from)
<1> DEFINE c == Copy(dst, at, src, from, to)
<1>1. ASSUME NEW i \in Offsets PROVE c[i] \in Byte
  <2>1. CASE at <= i /\ i < at + (to - from)
    <3>1. from + (i - at) \in Offsets
      BY <2>1, CapacityNat DEF Offsets
    <3>2. c[i] = src[from + (i - at)]
      BY <2>1 DEF Copy
    <3> QED BY <3>1, <3>2
  <2>2. CASE ~(at <= i /\ i < at + (to - from))
    BY <2>2 DEF Copy
  <2> QED BY <2>1, <2>2
<1>2. c \in [Offsets -> Byte]
  BY <1>1 DEF Copy
<1>3. ASSUME NEW i \in Offsets, i < at \/ i >= at + (to - from)
      PROVE  c[i] = dst[i]
  <2>1. ~(at <= i /\ i < at + (to - from))
    BY <1>3, CapacityNat DEF Offsets
  <2> QED BY <2>1 DEF Copy
<1>4. ASSUME NEW k \in 0 .. (to - from - 1) PROVE c[at + k] = src[from + k]
  <2>1. PICK i \in Offsets : i = at + k
    BY CapacityNat DEF Offsets
  <2>2. at <= i /\ i < at + (to - from) /\ from + (i - at) = from + k
    BY <2>1
  <2>3. c[i] = src[from + (i - at)]
    BY <2>2 DEF Copy
  <2> QED BY <2>1, <2>2, <2>3
<1> QED BY <1>2, <1>3, <1>4 DEF Copied, Same

\* What copy of a byte slice does.
LEMMA PutBytes ==
    ASSUME NEW dst \in [Offsets -> Byte], NEW at \in Nat,
           NEW s \in Seq(Byte), at + Len(s) <= Capacity
    PROVE  Copied(Put(dst, at, s), dst, at, s, 1, Len(s))
<1> DEFINE c == Put(dst, at, s)
<1>0. PICK n \in Nat : n = Len(s) /\ \A j \in 1 .. n : s[j] \in Byte
  OBVIOUS
<1>1. ASSUME NEW i \in Offsets PROVE c[i] \in Byte
  <2>1. CASE at <= i /\ i < at + n
    <3>1. (i - at) + 1 \in 1 .. n
      BY <2>1, CapacityNat DEF Offsets
    <3>2. c[i] = s[(i - at) + 1]
      BY <1>0, <2>1 DEF Put
    <3> QED BY <1>0, <3>1, <3>2
  <2>2. CASE ~(at <= i /\ i < at + n)
    BY <1>0, <2>2 DEF Put
  <2> QED BY <2>1, <2>2
<1>2. c \in [Offsets -> Byte]
  BY <1>1 DEF Put
<1>3. ASSUME NEW i \in Offsets, i < at \/ i >= at + n
      PROVE  c[i] = dst[i]
  <2>1. ~(at <= i /\ i < at + n)
    BY <1>3, CapacityNat DEF Offsets
  <2> QED BY <1>0, <2>1 DEF Put
<1>4. ASSUME NEW k \in 0 .. (n - 1) PROVE c[at + k] = s[1 + k]
  <2>1. PICK i \in Offsets : i = at + k
    BY <1>0, CapacityNat DEF Offsets
  <2>2. at <= i /\ i < at + n /\ (i - at) + 1 = 1 + k
    BY <2>1
  <2>3. c[i] = s[(i - at) + 1]
    BY <1>0, <2>2 DEF Put
  <2> QED BY <2>1, <2>2, <2>3
<1> QED BY <1>0, <1>2, <1>3, <1>4 DEF Copied, Same

\* The new buffer of SetCsrcList.
CsrcBuffer(old, b, n, l) ==
    LET b1 == Copy(old, 0, b, 0, 12)
        b2 == Copy(b1, 12 + 4 * Len(l), b, CsrcEnd(b), n)
        b3 == PutCsrcs(b2, l)
    IN  [b3 EXCEPT ![0] = (@ - (@ % 16)) + (Len(l) % 16)]

\* Byte by byte: the header, the CSRCs and what follows them.
CsrcBytes(c, b, n, l) ==
    /\ c \in [Offsets -> Byte]
    /\ c[0] = (b[0] - (b[0] % 16)) + Len(l)
    /\ \A i \in 1 .. 11 : c[i] = b[i]
    /\ \A i \in 1 .. Len(l), k \in 0 .. 3 :
          c[12 + 4 * (i - 1) + k] = l[i][k + 1]
    /\ Same(b, CsrcEnd(b), c, 12 + 4 * Len(l), n - CsrcEnd(b))

\* What SetCsrcList builds in the temporary packet: the header with the new
\* count, the CSRCs, and everything that followed the old ones.
LEMMA CsrcBufferBytes ==
    ASSUME NEW b, NEW n, Fits(b, n), NEW old \in [Offsets -> Byte],
           NEW l \in Seq([1 .. 4 -> Byte]), Len(l) <= 15,
           12 + 4 * Len(l) + n - CsrcEnd(b) <= Capacity
    PROVE  CsrcBytes(CsrcBuffer(old, b, n, l), b, n, l)
<1>1. PICK p \in 12 .. 72 : CsrcEnd(b) = p /\ p <= n
  BY FitsParts, Zenon
<1>2. PICK len \in 0 .. 15 : Len(l) = len
  <2>1. Len(l) \in Nat
    OBVIOUS
  <2>2. Len(l) \in 0 .. 15
    BY <2>1, SmallCount, Zenon
  <2> QED BY <2>2, Zenon
<1>3. b \in [Offsets -> Byte] /\ n \in Nat /\ n <= Capacity
      /\ 12 + 4 * len + n - p <= Capacity
  BY <1>1, <1>2, FitsParts
<1> DEFINE b1 == Copy(old, 0, b, 0, 12)
           b2 == Copy(b1, 12 + 4 * len, b, p, n)
           b3 == PutCsrcs(b2, l)
           c == [b3 EXCEPT ![0] = (@ - (@ % 16)) + (len % 16)]
<1>4. CsrcBuffer(old, b, n, l) = c
  BY <1>1, <1>2 DEF CsrcBuffer
<1>5. /\ b1 \in [Offsets -> Byte]
      /\ \A i \in 0 .. 11 : b1[i] = b[i]
  <2>1. 12 <= Capacity /\ 0 + (12 - 0) <= Capacity /\ 0 <= 12
    BY CapacityNat
  <2>2. Copied(b1, old, 0, b, 0, 12 - 0)
    BY <1>3, <2>1, CopyBytes
  <2> QED BY <2>2 DEF Copied, Same
<1> HIDE DEF b1
<1>6. /\ b2 \in [Offsets -> Byte]
      /\ \A i \in 0 .. 11 : b2[i] = b[i]
      /\ \A k \in 0 .. (n - p - 1) : b2[12 + 4 * len + k] = b[p + k]
  <2>1. PICK at \in Nat : at = 12 + 4 * len /\ at + (n - p) <= Capacity
    BY <1>3, CapacityNat
  <2>2. Copied(b2, b1, at, b, p, n - p)
    <3>1. p \in Nat /\ n \in Nat /\ p <= n
      BY <1>1, <1>3
    <3>2. Copied(Copy(b1, at, b, p, n), b1, at, b, p, n - p)
      BY <1>3, <1>5, <2>1, <3>1, CopyBytes, Zenon
    <3> QED BY <2>1, <3>2
  <2>3. \A i \in 0 .. 11 : i \in Offsets /\ i < at
    BY <2>1, CapacityNat DEF Offsets
  <2> QED BY <1>5, <2>1, <2>2, <2>3 DEF Copied, Same
<1> HIDE DEF b2
<1>7. 12 + 4 * len <= Capacity
  BY <1>1, <1>3, CapacityNat
<1>8. /\ b3 \in [Offsets -> Byte]
      /\ \A i \in 0 .. 11 : b3[i] = b[i]
      /\ \A i \in 1 .. len, k \in 0 .. 3 :
            b3[12 + 4 * (i - 1) + k] = l[i][k + 1]
      /\ \A k \in 0 .. (n - p - 1) : b3[12 + 4 * len + k] = b[p + k]
  <2>1. ASSUME NEW i \in Offsets PROVE b3[i] \in Byte
    <3>1. CASE 12 <= i /\ i < 12 + 4 * len
      <4>1. PICK j \in 1 .. len, k \in 1 .. 4 :
               j = ((i - 12) \div 4) + 1 /\ k = ((i - 12) % 4) + 1
        BY <3>1 DEF Offsets
      <4>2. b3[i] = l[j][k]
        BY <1>2, <3>1, <4>1 DEF PutCsrcs
      <4>3. l[j] \in [1 .. 4 -> Byte]
        BY <1>2
      <4> QED BY <4>2, <4>3
    <3>2. CASE ~(12 <= i /\ i < 12 + 4 * len)
      BY <1>2, <1>6, <3>2 DEF PutCsrcs
    <3> QED BY <3>1, <3>2
  <2>2. b3 \in [Offsets -> Byte]
    BY <2>1 DEF PutCsrcs
  <2>3. ASSUME NEW i \in 0 .. 11 PROVE b3[i] = b[i]
    <3>1. i \in Offsets /\ ~(12 <= i)
      BY CapacityNat DEF Offsets
    <3> QED BY <1>6, <3>1 DEF PutCsrcs
  <2>4. ASSUME NEW i \in 1 .. len, NEW k \in 0 .. 3
        PROVE  b3[12 + 4 * (i - 1) + k] = l[i][k + 1]
    <3>1. PICK x \in Offsets : x = 12 + 4 * (i - 1) + k
      BY <1>7, CapacityNat DEF Offsets
    <3>2. 12 <= x /\ x < 12 + 4 * len
      BY <3>1
    <3>3. PICK g \in 0 .. 14, y \in Int :
             g = i - 1 /\ y = x - 12 /\ y = 4 * g + k
      BY <3>1
    <3>4. y \div 4 = g /\ y % 4 = k
      BY <3>3
    <3>5. ((x - 12) \div 4) + 1 = i /\ ((x - 12) % 4) + 1 = k + 1
      BY <3>3, <3>4
    <3> QED BY <1>2, <3>1, <3>2, <3>5 DEF PutCsrcs
  <2>5. ASSUME NEW k \in 0 .. (n - p - 1)
        PROVE  b3[12 + 4 * len + k] = b[p + k]
    <3>1. PICK i \in Offsets : i = 12 + 4 * len + k
      BY <1>3, CapacityNat DEF Offsets
    <3>2. ~(i < 12 + 4 * len)
      BY <1>3, <3>1
    <3>3. b3[i] = b2[i]
      BY <1>2, <3>2 DEF PutCsrcs
    <3> QED BY <1>6, <3>1, <3>3
  <2> QED BY <2>2, <2>3, <2>4, <2>5
<1> HIDE DEF b3
<1>9. 0 \in Offsets /\ b[0] \in Byte /\ len % 16 = len
  <2>1. 0 \in Offsets /\ b[0] \in Byte
    BY <1>3, CsrcEndRange
  <2>2. len % 16 = len
    BY SmallCount, Zenon
  <2> QED BY <2>1, <2>2
<1>10. (b[0] - (b[0] % 16)) + len \in Byte
  BY <1>9, CountBits, Zenon
<1>11. c[0] = (b[0] - (b[0] % 16)) + len
  BY <1>8, <1>9
<1>12. c \in [Offsets -> Byte]
  BY <1>8, <1>9, <1>10, <1>11
<1>13. \A i \in Offsets : i # 0 => c[i] = b3[i]
  BY <1>8
<1> HIDE DEF c
<1>14. ASSUME NEW i \in 1 .. 11 PROVE c[i] = b[i]
  <2>1. i \in Offsets /\ i # 0
    BY CapacityNat DEF Offsets
  <2> QED BY <1>8, <1>13, <2>1
<1>15. ASSUME NEW i \in 1 .. len, NEW k \in 0 .. 3
       PROVE  c[12 + 4 * (i - 1) + k] = l[i][k + 1]
  <2>1. PICK x \in Offsets : x = 12 + 4 * (i - 1) + k /\ x # 0
    BY <1>7, CapacityNat DEF Offsets
  <2> QED BY <1>8, <1>13, <2>1, Zenon
<1>16. ASSUME NEW k \in 0 .. (n - p - 1)
       PROVE  c[12 + 4 * len + k] = b[p + k]
  <2>1. PICK x \in Offsets : x = 12 + 4 * len + k /\ x # 0
    BY <1>3, CapacityNat DEF Offsets
  <2> QED BY <1>8, <1>13, <2>1, Zenon
<1> QED BY <1>1, <1>2, <1>4, <1>11, <1>12, <1>14, <1>15, <1>16
         DEF CsrcBytes, Same

\* After SetCsrcList the list is the argument, and nothing else changed.
CsrcsSet(c, m, b, n, l) ==
    /\ Fits(c, m)
    /\ Padding(c) <=> Padding(b)
    /\ Header(c) = Header(b)
    /\ CsrcList(c) = l
    /\ Extension(c) = Extension(b)
    /\ Data(c, m) = Data(b, n)

\* The getters find the new CSRCs in what SetCsrcList has built, and the rest
\* of the packet as it was.
LEMMA CsrcBufferContents ==
    ASSUME NEW b, NEW n, Fits(b, n), NEW old \in [Offsets -> Byte],
           NEW l \in Seq([1 .. 4 -> Byte]), Len(l) <= 15,
           NEW m \in Nat, m = 12 + 4 * Len(l) + n - CsrcEnd(b), m <= Capacity
    PROVE  CsrcsSet(CsrcBuffer(old, b, n, l), m, b, n, l)
<1>0. PICK c : c = CsrcBuffer(old, b, n, l)
  OBVIOUS
<1>1. PICK len \in 0 .. 15 : Len(l) = len
  <2>1. Len(l) \in Nat
    OBVIOUS
  <2>2. Len(l) \in 0 .. 15
    BY <2>1, SmallCount, Zenon
  <2> QED BY <2>2, Zenon
<1>2. PICK p \in 12 .. 72 : CsrcEnd(b) = p /\ p <= n
  BY FitsParts, Zenon
<1>3. b \in [Offsets -> Byte] /\ n \in Nat /\ n <= Capacity /\ b[0] \div 64 = 2
  BY DEF Fits
<1>4. /\ c \in [Offsets -> Byte]
      /\ c[0] = (b[0] - (b[0] % 16)) + len
      /\ \A i \in 1 .. 11 : c[i] = b[i]
      /\ \A i \in 1 .. len, k \in 0 .. 3 :
            c[12 + 4 * (i - 1) + k] = l[i][k + 1]
      /\ \A k \in 0 .. (n - p - 1) : c[12 + 4 * len + k] = b[p + k]
  <2>1. 12 + 4 * Len(l) + n - CsrcEnd(b) <= Capacity
    OBVIOUS
  <2>2. CsrcBytes(c, b, n, l)
    BY <1>0, <2>1, CsrcBufferBytes
  <2> QED BY <1>1, <1>2, <2>2 DEF CsrcBytes, Same
<1>5. b[0] \in Byte
  BY <1>3, CsrcEndRange
<1>6. /\ c[0] % 16 = len
      /\ Bit(c[0], 16) <=> Bit(b[0], 16)
      /\ Bit(c[0], 32) <=> Bit(b[0], 32)
      /\ c[0] \div 64 = b[0] \div 64
  <2>1. PICK y : y = (b[0] - (b[0] % 16)) + len
    OBVIOUS
  <2>2. /\ y % 16 = len
        /\ Bit(y, 16) <=> Bit(b[0], 16)
        /\ Bit(y, 32) <=> Bit(b[0], 32)
        /\ y \div 64 = b[0] \div 64
    BY <1>5, <2>1, CountBits, Zenon
  <2>3. c[0] = y
    BY <1>4, <2>1
  <2> QED BY <2>2, <2>3, Zenon
<1>7. CsrcCount(c) = len /\ CsrcEnd(c) = 12 + 4 * len
  BY <1>6 DEF CsrcEnd, CsrcCount
<1>8. PICK q \in Nat : CsrcEnd(c) = q /\ q = 12 + 4 * len
  BY <1>7
<1>9. m - q = n - p
  BY <1>1, <1>2, <1>3, <1>8
<1>10. /\ Fits(c, m)
       /\ Extension(c) = Extension(b)
       /\ Data(c, m) = Data(b, n)
  <2>1. (ExtensionBit(c) <=> ExtensionBit(b)) /\ (Padding(c) <=> Padding(b))
    BY <1>6 DEF ExtensionBit, Padding
  <2>2. c[0] \div 64 = 2
    BY <1>3, <1>6
  <2>3. m - CsrcEnd(c) = n - CsrcEnd(b)
    BY <1>2, <1>8, <1>9
  <2>4. \A k \in 0 .. (n - CsrcEnd(b) - 1) :
           c[CsrcEnd(c) + k] = b[CsrcEnd(b) + k]
    BY <1>2, <1>4, <1>8
  <2> QED BY <1>4, <2>1, <2>2, <2>3, <2>4, Moved, Zenon
<1>11. Header(c) = Header(b)
  BY <1>4, SameHeader, Zenon
<1>12. CsrcList(c) = l
  <2>1. ASSUME NEW i \in 1 .. len
        PROVE  Slice(c, 12 + 4 * (i - 1), 12 + 4 * i) = l[i]
    <3>1. l[i] \in [1 .. 4 -> Byte]
      BY <1>1
    <3>2. \A j \in 1 .. 4 : c[12 + 4 * (i - 1) + j - 1] = l[i][j]
      <4>1. ASSUME NEW j \in 1 .. 4
            PROVE  c[12 + 4 * (i - 1) + j - 1] = l[i][j]
        <5>1. PICK k \in 0 .. 3 : k = j - 1 /\ k + 1 = j
          OBVIOUS
        <5>2. 12 + 4 * (i - 1) + j - 1 = 12 + 4 * (i - 1) + k
          BY <5>1
        <5> QED BY <1>4, <5>1, <5>2, Zenon
      <4> QED BY <4>1, Zenon
    <3>3. (12 + 4 * i) - (12 + 4 * (i - 1)) = 4
      OBVIOUS
    <3>4. Slice(c, 12 + 4 * (i - 1), 12 + 4 * i)
          = [j \in 1 .. 4 |-> c[12 + 4 * (i - 1) + j - 1]]
      BY <3>3 DEF Slice
    <3>5. [j \in 1 .. 4 |-> c[12 + 4 * (i - 1) + j - 1]]
          = [j \in 1 .. 4 |-> l[i][j]]
      BY <3>2, Zenon
    <3>6. [j \in 1 .. 4 |-> l[i][j]] = l[i]
      BY <3>1
    <3> QED BY <3>4, <3>5, <3>6, Zenon
  <2>2. CsrcList(c) = [i \in 1 .. len |-> l[i]]
    BY <1>7, <2>1 DEF CsrcList
  <2>3. l = [i \in 1 .. len |-> l[i]]
    BY <1>1
  <2> QED BY <2>2, <2>3
<1>13. Padding(c) <=> Padding(b)
  BY <1>6 DEF Padding
<1> QED BY <1>0, <1>10, <1>11, <1>12, <1>13 DEF CsrcsSet

\* A slice that holds the bytes of a sequence is the sequence.
LEMMA SliceOfPut ==
    ASSUME NEW c, NEW at \in Nat, NEW s \in Seq(Byte), NEW n \in Nat,
           n = Len(s), Same(s, 1, c, at, n)
    PROVE  Slice(c, at, at + n) = s
<1>1. ASSUME NEW j \in 1 .. n PROVE c[at + j - 1] = s[j]
  <2>1. PICK k \in 0 .. (n - 1) : k = j - 1 /\ 1 + k = j
    OBVIOUS
  <2>2. at + j - 1 = at + k
    BY <2>1
  <2> QED BY <2>1, <2>2, Zenon DEF Same
<1>2. (at + n) - at = n
  OBVIOUS
<1>3. Slice(c, at, at + n) = [j \in 1 .. n |-> c[at + j - 1]]
  BY <1>2 DEF Slice
<1>4. [j \in 1 .. n |-> c[at + j - 1]] = [j \in 1 .. n |-> s[j]]
  BY <1>1, Zenon
<1>5. s = [j \in 1 .. n |-> s[j]]
  OBVIOUS
<1> QED BY <1>3, <1>4, <1>5, Zenon

\* The length in the header of an extension that SetExtension accepts.
LEMMA ExtensionHeader ==
    ASSUME NEW e \in Seq(Byte), WellFormed(e), Conforming(e), Len(e) > 0
    PROVE  /\ Len(e) >= 4
           /\ e[3] \in Byte /\ e[4] \in Byte
           /\ Len(e) = 4 * (256 * e[3] + e[4] + 1)
<1>1. PICK n \in Nat : n = Len(e) /\ n > 0 /\ n % 4 = 0
  <2>1. Len(e) \in Nat
    OBVIOUS
  <2>2. Len(e) % 4 = 0
    BY DEF WellFormed
  <2> QED BY <2>1, <2>2
<1>2. n >= 4
  BY <1>1
<1>3. PICK x \in 0 .. 255, y \in 0 .. 255 : e[3] = x /\ e[4] = y
  <2>1. 3 \in 1 .. Len(e) /\ 4 \in 1 .. Len(e)
    BY <1>1, <1>2
  <2>2. e[3] \in Byte /\ e[4] \in Byte
    BY <2>1
  <2> QED BY <2>2, Zenon DEF Byte
<1>4. PICK u \in Nat : u = Uint16(<<e[3], e[4]>>) /\ u = 256 * x + y
  BY <1>3 DEF Uint16
<1>5. u < 16384
  BY <1>1, <1>4 DEF Conforming
<1>6. n = (4 * (u + 1)) % 65536
  BY <1>1, <1>4 DEF WellFormed
<1>7. n = 4 * (u + 1)
  BY <1>1, <1>5, <1>6
<1> QED BY <1>1, <1>2, <1>3, <1>4, <1>7 DEF Byte

\* The new buffer of SetExtension.
ExtensionBuffer(old, b, n, e) ==
    LET b1 == Copy(old, 0, b, 0, 12)
        b2 == Put(b1, CsrcEnd(b), e)
        b3 == Copy(b2, CsrcEnd(b) + Len(e), b, PayOffset(b), n)
    IN  [b3 EXCEPT ![0] = WithBit(@, 16, Len(e) > 0)]

\* Byte by byte: the header, the extension and the payload.
ExtensionBytes(c, b, n, e) ==
    /\ c \in [Offsets -> Byte]
    /\ c[0] = WithBit(b[0], 16, Len(e) > 0)
    /\ \A i \in 1 .. 11 : c[i] = b[i]
    /\ Same(e, 1, c, CsrcEnd(b), Len(e))
    /\ Same(b, PayOffset(b), c, CsrcEnd(b) + Len(e), n - PayOffset(b))

\* What SetExtension builds: header and CSRCs, the new extension, and the old
\* payload behind it.
LEMMA ExtensionBufferBytes ==
    ASSUME NEW b, NEW n, Fits(b, n), NEW old \in [Offsets -> Byte],
           NEW e \in Seq(Byte),
           CsrcEnd(b) + Len(e) + (n - PayOffset(b)) <= Capacity
    PROVE  ExtensionBytes(ExtensionBuffer(old, b, n, e), b, n, e)
<1>1. PICK p \in 12 .. 72, q \in Nat :
          CsrcEnd(b) = p /\ PayOffset(b) = q /\ p <= q /\ q <= n
  BY FitsParts, Zenon
<1>2. PICK len \in Nat : Len(e) = len
  OBVIOUS
<1>3. b \in [Offsets -> Byte] /\ n \in Nat /\ n <= Capacity
      /\ p + len + (n - q) <= Capacity
  BY <1>1, <1>2, FitsParts
<1> DEFINE b1 == Copy(old, 0, b, 0, 12)
           b2 == Put(b1, p, e)
           b3 == Copy(b2, p + len, b, q, n)
           c == [b3 EXCEPT ![0] = WithBit(@, 16, len > 0)]
<1>4. ExtensionBuffer(old, b, n, e) = c
  BY <1>1, <1>2 DEF ExtensionBuffer
<1>5. Copied(b1, old, 0, b, 0, 12)
  <2>1. 12 <= Capacity /\ 0 + (12 - 0) <= Capacity /\ 0 <= 12 /\ 12 - 0 = 12
    BY CapacityNat
  <2>2. Copied(b1, old, 0, b, 0, 12 - 0)
    BY <1>3, <2>1, CopyBytes
  <2> QED BY <2>1, <2>2
<1> HIDE DEF b1
<1>6. Copied(b2, b1, p, e, 1, len)
  <2>1. p \in Nat /\ p + Len(e) <= Capacity /\ b1 \in [Offsets -> Byte]
    <3>1. p \in Nat /\ p + len <= Capacity
      BY <1>1, <1>3, CapacityNat
    <3> QED BY <1>2, <1>5, <3>1 DEF Copied
  <2>2. Copied(b2, b1, p, e, 1, Len(e))
    BY <2>1, PutBytes
  <2> QED BY <1>2, <2>2
<1> HIDE DEF b2
<1>7. Copied(b3, b2, p + len, b, q, n - q)
  <2>1. PICK at \in Nat : at = p + len /\ at + (n - q) <= Capacity
    BY <1>3
  <2>2. b2 \in [Offsets -> Byte]
    BY <1>6 DEF Copied
  <2>3. Copied(Copy(b2, at, b, q, n), b2, at, b, q, n - q)
    BY <1>1, <1>3, <2>1, <2>2, CopyBytes, Zenon
  <2> QED BY <2>1, <2>3
<1> HIDE DEF b3
<1>8. \A i \in 0 .. 11 : i \in Offsets /\ b3[i] = b[i]
  <2>1. \A i \in 0 .. 11 : i \in Offsets /\ i < p /\ i < p + len
    BY <1>3, CapacityNat DEF Offsets
  <2>2. \A i \in 0 .. 11 : b1[i] = b[i]
    BY <1>5 DEF Copied, Same
  <2>3. \A i \in 0 .. 11 : b2[i] = b1[i]
    BY <1>6, <2>1 DEF Copied
  <2>4. \A i \in 0 .. 11 : b3[i] = b2[i]
    BY <1>7, <2>1 DEF Copied
  <2> QED BY <2>1, <2>2, <2>3, <2>4
<1>9. b3 \in [Offsets -> Byte]
  BY <1>7 DEF Copied
<1>10. Same(e, 1, b3, p, len)
  <2>1. ASSUME NEW k \in 0 .. (len - 1) PROVE b3[p + k] = e[1 + k]
    <3>1. p + k \in Offsets /\ p + k < p + len
      BY <1>1, <1>3, CapacityNat DEF Offsets
    <3>2. b3[p + k] = b2[p + k]
      BY <1>7, <3>1 DEF Copied
    <3>3. b2[p + k] = e[1 + k]
      BY <1>6 DEF Copied, Same
    <3> QED BY <3>2, <3>3
  <2> QED BY <2>1 DEF Same
<1>11. Same(b, q, b3, p + len, n - q)
  BY <1>7 DEF Copied
<1>12. c[0] = WithBit(b[0], 16, len > 0) /\ c[0] \in Byte /\ 0 \in Offsets
  <2>1. 0 \in Offsets /\ b3[0] = b[0] /\ b[0] \in Byte
    BY <1>3, <1>8
  <2>2. WithBit(b[0], 16, len > 0) \in Byte
    <3>1. (len > 0) \in BOOLEAN
      OBVIOUS
    <3> QED BY <2>1, <3>1, FlagBits, Zenon
  <2> QED BY <1>9, <2>1, <2>2
<1>13. c \in [Offsets -> Byte] /\ \A i \in Offsets : i # 0 => c[i] = b3[i]
  BY <1>9, <1>12
<1> HIDE DEF c
<1>14. \A i \in 1 .. 11 : c[i] = b[i]
  BY <1>8, <1>13
<1>15. Same(e, 1, c, p, len)
  <2>1. ASSUME NEW k \in 0 .. (len - 1) PROVE c[p + k] = e[1 + k]
    <3>1. p + k \in Offsets /\ p + k # 0
      BY <1>1, <1>3, CapacityNat DEF Offsets
    <3> QED BY <1>10, <1>13, <3>1 DEF Same
  <2> QED BY <2>1 DEF Same
<1>16. Same(b, q, c, p + len, n - q)
  <2>1. ASSUME NEW k \in 0 .. (n - q - 1) PROVE c[p + len + k] = b[q + k]
    <3>1. p + len + k \in Offsets /\ p + len + k # 0
      BY <1>1, <1>3, CapacityNat DEF Offsets
    <3> QED BY <1>11, <1>13, <3>1 DEF Same
  <2> QED BY <2>1 DEF Same
<1> QED BY <1>1, <1>2, <1>4, <1>12, <1>13, <1>14, <1>15, <1>16
         DEF ExtensionBytes

\* After SetExtension the extension is the argument, and the header, the
\* number of CSRCs and the payload are what they were.
LEMMA ExtensionBufferContents ==
    ASSUME NEW b, NEW n, Fits(b, n), NEW old \in [Offsets -> Byte],
           NEW e \in Seq(Byte), WellFormed(e), Conforming(e),
           NEW m \in Nat, m <= Capacity,
           m = n + Len(e) - (PayOffset(b) - CsrcEnd(b)),
           NEW c, c = ExtensionBuffer(old, b, n, e)
    PROVE  /\ Fits(c, m)
           /\ Padding(c) <=> Padding(b)
           /\ Header(c) = Header(b)
           /\ CsrcCount(c) = CsrcCount(b)
           /\ Extension(c) = e
           /\ Data(c, m) = Data(b, n)
<1>1. PICK p \in 12 .. 72, q \in Nat :
          CsrcEnd(b) = p /\ PayOffset(b) = q /\ p <= q /\ q <= n
  BY FitsParts, Zenon
<1>2. PICK len \in Nat : Len(e) = len
  OBVIOUS
<1>3. /\ b \in [Offsets -> Byte] /\ n \in Nat /\ n <= Capacity
      /\ b[0] \div 64 = 2 /\ b[0] \in Byte
  BY CsrcEndRange DEF Fits
<1>4. m = p + len + (n - q) /\ p + len <= m
  BY <1>1, <1>2, <1>3
<1>5. /\ c \in [Offsets -> Byte]
      /\ c[0] = WithBit(b[0], 16, len > 0)
      /\ \A i \in 1 .. 11 : c[i] = b[i]
      /\ Same(e, 1, c, p, len)
      /\ Same(b, q, c, p + len, n - q)
  <2>1. CsrcEnd(b) + Len(e) + (n - PayOffset(b)) <= Capacity
    BY <1>1, <1>2, <1>4
  <2>2. ExtensionBytes(c, b, n, e)
    BY <2>1, ExtensionBufferBytes
  <2> QED BY <1>1, <1>2, <2>2 DEF ExtensionBytes
<1>6. /\ Bit(c[0], 16) <=> len > 0
      /\ Bit(c[0], 32) <=> Bit(b[0], 32)
      /\ c[0] % 16 = b[0] % 16
      /\ c[0] \div 64 = 2
  <2>1. PICK y : y = WithBit(b[0], 16, len > 0)
    OBVIOUS
  <2>2. \/ y = WithBit(b[0], 16, TRUE) /\ len > 0
        \/ y = WithBit(b[0], 16, FALSE) /\ ~(len > 0)
    BY <2>1, Zenon DEF WithBit
  <2>3. /\ Bit(y, 16) <=> len > 0
        /\ Bit(y, 32) <=> Bit(b[0], 32)
        /\ y % 16 = b[0] % 16
        /\ y \div 64 = b[0] \div 64
    <3>1. CASE y = WithBit(b[0], 16, TRUE) /\ len > 0
      BY <1>3, <3>1, FlagBits, Zenon
    <3>2. CASE y = WithBit(b[0], 16, FALSE) /\ ~(len > 0)
      BY <1>3, <3>2, FlagBits, Zenon
    <3> QED BY <2>2, <3>1, <3>2, Zenon
  <2> QED BY <1>3, <1>5, <2>1, <2>3, Zenon
<1>7. CsrcCount(c) = CsrcCount(b) /\ CsrcEnd(c) = p
  BY <1>1, <1>6 DEF CsrcCount, CsrcEnd
<1>8. ExtensionBit(c) => p + 4 <= m
  <2>1. ASSUME len > 0 PROVE len >= 4
    BY <1>2, <2>1, ExtensionHeader
  <2> QED BY <1>4, <1>6, <2>1 DEF ExtensionBit
<1>9. ExtensionLength(c) = len
  <2>1. CASE len > 0
    <3>1. len >= 4 /\ len = 4 * (256 * e[3] + e[4] + 1)
      BY <1>2, <2>1, ExtensionHeader
    <3>2. c[p + 2] = e[3] /\ c[p + 3] = e[4]
      <4>1. 2 \in 0 .. (len - 1) /\ 3 \in 0 .. (len - 1)
        BY <3>1
      <4>2. c[p + 2] = e[1 + 2] /\ c[p + 3] = e[1 + 3]
        BY <1>5, <4>1, Zenon DEF Same
      <4>3. 1 + 2 = 3 /\ 1 + 3 = 4
        OBVIOUS
      <4> QED BY <4>2, <4>3, Zenon
    <3>3. ExtensionLength(c) = 4 * (256 * c[CsrcEnd(c) + 2] + c[CsrcEnd(c) + 3] + 1)
      <4>1. ExtensionBit(c)
        BY <1>6, <2>1, Zenon DEF ExtensionBit
      <4>2. CsrcEnd(c) + 4 <= m
        BY <1>7, <1>8, <4>1, Zenon
      <4>3. c \in [Offsets -> Byte] BY <1>5
      <4> QED BY <4>1, <4>2, <4>3, ExtensionSize
    <3> QED BY <1>7, <3>1, <3>2, <3>3
  <2>2. CASE ~(len > 0)
    BY <1>6, <2>2 DEF ExtensionBit, ExtensionLength
  <2> QED BY <2>1, <2>2
<1>10. PayOffset(c) = p + len
  BY <1>7, <1>9 DEF PayOffset
<1>11. Fits(c, m)
  <2>1. p <= m
    BY <1>4
  <2> QED BY <1>4, <1>5, <1>6, <1>7, <1>8, <1>10, <2>1, Zenon DEF Fits
<1>12. Extension(c) = e
  <2>1. p \in Nat
    OBVIOUS
  <2>2. Slice(c, p, p + len) = e
    BY <1>2, <1>5, <2>1, SliceOfPut
  <2> QED BY <1>7, <1>10, <2>2 DEF Extension
<1>13. Padding(c) <=> Padding(b)
  BY <1>6 DEF Padding
<1>14. Data(c, m) = Data(b, n)
  <2>1. PICK r \in Nat : PayOffset(c) = r /\ r = p + len
    BY <1>10
  <2>2. m - r = n - q
    BY <1>1, <1>3, <1>4, <2>1
  <2>3. \A k \in 0 .. (n - q - 1) : c[r + k] = b[q + k]
    BY <1>5, <2>1 DEF Same
  <2>4. /\ PayOffset(c) \in Nat
        /\ m - PayOffset(c) = n - PayOffset(b)
        /\ \A k \in 0 .. (n - PayOffset(b) - 1) :
              c[PayOffset(c) + k] = b[PayOffset(b) + k]
    BY <1>1, <2>1, <2>2, <2>3
  <2> QED BY <1>13, <2>4, PayloadMoved
<1>15. Header(c) = Header(b)
  BY <1>5, SameHeader, Zenon
<1> QED BY <1>7, <1>11, <1>12, <1>13, <1>14, <1>15

\* A change behind the extension leaves the header, the CSRCs and the
\* extension.
LEMMA FrontSame ==
    ASSUME NEW b, NEW n, Fits(b, n), NEW c \in [Offsets -> Byte],
           \A i \in Offsets : i < PayOffset(b) => c[i] = b[i]
    PROVE  /\ \A m \in Nat : PayOffset(b) <= m /\ m <= Capacity => Fits(c, m)
           /\ PayOffset(c) = PayOffset(b)
           /\ Padding(c) <=> Padding(b)
           /\ Header(c) = Header(b)
           /\ CsrcList(c) = CsrcList(b)
           /\ Extension(c) = Extension(b)
<1>1. PICK p \in 12 .. 72, q \in Nat, x \in Nat :
          /\ CsrcEnd(b) = p /\ PayOffset(b) = q /\ p <= q /\ q <= n
          /\ ExtensionLength(b) = x /\ q = p + x
  BY FitsParts
<1>2. b \in [Offsets -> Byte] /\ n \in Nat /\ n <= Capacity /\ b[0] \div 64 = 2
  BY DEF Fits
<1>3. \A i \in Nat : i < q => i \in Offsets /\ c[i] = b[i]
  BY <1>1, <1>2, CapacityNat DEF Offsets
<1>4. c[0] = b[0] /\ \A i \in 1 .. 11 : c[i] = b[i]
  <2>1. 0 < q /\ \A i \in 1 .. 11 : i \in Nat /\ i < q
    BY <1>1
  <2> QED BY <1>3, <2>1
<1>5. /\ ExtensionBit(c) <=> ExtensionBit(b)
      /\ Padding(c) <=> Padding(b)
      /\ CsrcCount(c) = CsrcCount(b)
  BY <1>4 DEF ExtensionBit, Padding, CsrcCount
<1>6. CsrcEnd(c) = p
  BY <1>1, <1>5 DEF CsrcEnd
<1>7. Fits(b, q)
  <2>1. ExtensionBit(b) => p + 4 <= q
    <3>1. ExtensionBit(b) => x >= 4
      BY <1>1, <1>2, ExtensionSize DEF Fits
    <3> QED BY <1>1, <3>1
  <2>2. q <= Capacity /\ q <= q
    BY <1>1, <1>2, CapacityNat
  <2> QED BY <1>1, <1>2, <2>1, <2>2, Zenon DEF Fits
<1>8. Fits(c, q) /\ ExtensionLength(c) = ExtensionLength(b)
      /\ Extension(c) = Extension(b)
  <2>1. q <= Capacity /\ c[0] \div 64 = 2 /\ q - CsrcEnd(c) = q - CsrcEnd(b)
    BY <1>1, <1>2, <1>4, <1>6, CapacityNat
  <2>2. \A k \in 0 .. (q - p - 1) : c[p + k] = b[p + k]
    BY <1>1, <1>3
  <2>3. \A k \in 0 .. (q - CsrcEnd(b) - 1) :
           c[CsrcEnd(c) + k] = b[CsrcEnd(b) + k]
    BY <1>1, <1>6, <2>2
  <2> QED BY <1>5, <1>7, <2>1, <2>3, Moved
<1>9. PayOffset(c) = q
  BY <1>1, <1>6, <1>8 DEF PayOffset
<1>10. ASSUME NEW m \in Nat, q <= m, m <= Capacity
       PROVE  Fits(c, m)
  <2>1. CsrcEnd(c) <= m /\ PayOffset(c) <= m
    BY <1>1, <1>6, <1>9, <1>10
  <2>2. ExtensionBit(c) => CsrcEnd(c) + 4 <= m
    <3>1. ExtensionBit(c) => p + 4 <= q
      BY <1>6, <1>8 DEF Fits
    <3> QED BY <1>6, <1>10, <3>1
  <2> QED BY <1>8, <1>10, <2>1, <2>2, Zenon DEF Fits
<1>11. Header(c) = Header(b)
  BY <1>4, SameHeader
<1>12. CsrcList(c) = CsrcList(b)
  <2>1. \A i \in 12 .. (p - 1) : c[i] = b[i]
    BY <1>1, <1>3
  <2> QED BY <1>1, <1>2, <1>5, <2>1, SameCsrcs
<1> QED BY <1>1, <1>5, <1>8, <1>9, <1>10, <1>11, <1>12

\* The bytes that SetPayload writes behind the payload.
PaddingBytes(pad) == [j \in 1 .. pad |-> IF j = pad THEN pad % 256 ELSE 0]

\* After SetPayload the payload is the argument, and nothing else changed.
PayloadSet(c, m, b, s) ==
    /\ Fits(c, m)
    /\ Padding(c) <=> Padding(b)
    /\ Header(c) = Header(b)
    /\ CsrcList(c) = CsrcList(b)
    /\ Extension(c) = Extension(b)
    /\ Data(c, m) = s

\* SetPayload puts payload and padding behind the header parts, and the
\* getters find both.
LEMMA PayloadContents ==
    ASSUME NEW b, NEW n, Fits(b, n), NEW s \in Seq(Byte), s # <<>>,
           NEW pad \in 0 .. 255, Padding(b) <=> pad > 0,
           NEW m \in Nat, m = PayOffset(b) + Len(s) + pad, m <= Capacity
    PROVE  PayloadSet(Put(Put(b, PayOffset(b), s), PayOffset(b) + Len(s),
                          PaddingBytes(pad)), m, b, s)
<1> DEFINE c == Put(Put(b, PayOffset(b), s), PayOffset(b) + Len(s),
                    PaddingBytes(pad))
<1>1. PICK q \in Nat : PayOffset(b) = q /\ q <= n
  BY FitsParts
<1>2. b \in [Offsets -> Byte] /\ n \in Nat /\ n <= Capacity
  BY FitsParts
<1>3. PICK len \in Nat : Len(s) = len /\ len > 0
  OBVIOUS
<1>4. m = q + len + pad
  BY <1>1, <1>3
<1> DEFINE b1 == Put(b, q, s)
           t == PaddingBytes(pad)
<1>5. Copied(b1, b, q, s, 1, len)
  <2>1. q + Len(s) <= Capacity
    BY <1>3, <1>4, CapacityNat
  <2>2. Copied(b1, b, q, s, 1, Len(s))
    BY <1>2, <2>1, PutBytes
  <2> QED BY <1>3, <2>2
<1> HIDE DEF b1
<1>6. /\ t \in Seq(Byte) /\ Len(t) = pad
      /\ pad > 0 => t[pad] = pad
  <2>1. \A j \in 1 .. pad : (IF j = pad THEN pad % 256 ELSE 0) \in Byte
    BY DEF Byte
  <2>2. t \in [1 .. pad -> Byte]
    BY <2>1 DEF PaddingBytes
  <2>3. pad \in Nat /\ pad % 256 = pad
    OBVIOUS
  <2>4. t \in Seq(Byte) /\ Len(t) = pad
    BY <2>2, <2>3
  <2>5. pad > 0 => t[pad] = pad
    BY <2>3 DEF PaddingBytes
  <2> QED BY <2>4, <2>5
<1> HIDE DEF t
<1>7. c = Put(b1, q + len, t)
  BY <1>1, <1>3 DEF b1, t
<1> HIDE DEF c
<1>8. Copied(c, b1, q + len, t, 1, pad)
  <2>1. PICK at \in Nat : at = q + len /\ at + Len(t) <= Capacity
    BY <1>4, <1>6
  <2>2. b1 \in [Offsets -> Byte]
    BY <1>5 DEF Copied
  <2>3. Copied(Put(b1, at, t), b1, at, t, 1, Len(t))
    BY <1>6, <2>1, <2>2, PutBytes, Zenon
  <2> QED BY <1>6, <1>7, <2>1, <2>3
<1>9. c \in [Offsets -> Byte]
  BY <1>8 DEF Copied
<1>10. \A i \in Offsets : i < q => c[i] = b[i]
  <2>1. \A i \in Offsets : i < q => i < q + len
    BY CapacityNat DEF Offsets
  <2>2. \A i \in Offsets : i < q => c[i] = b1[i]
    BY <1>8, <2>1 DEF Copied
  <2>3. \A i \in Offsets : i < q => b1[i] = b[i]
    BY <1>5 DEF Copied
  <2> QED BY <2>2, <2>3
<1>11. /\ \A k \in Nat : q <= k /\ k <= Capacity => Fits(c, k)
       /\ PayOffset(c) = q
       /\ Padding(c) <=> Padding(b)
       /\ Header(c) = Header(b)
       /\ CsrcList(c) = CsrcList(b)
       /\ Extension(c) = Extension(b)
  BY <1>1, <1>9, <1>10, FrontSame
<1>12. Fits(c, m)
  <2>1. q <= m
    BY <1>4
  <2> QED BY <1>11, <2>1
<1>13. Slice(c, q, q + len) = s
  <2>1. ASSUME NEW k \in 0 .. (len - 1) PROVE c[q + k] = s[1 + k]
    <3>1. q + k \in Offsets /\ q + k < q + len
      BY <1>4, CapacityNat DEF Offsets
    <3>2. c[q + k] = b1[q + k]
      BY <1>8, <3>1 DEF Copied
    <3>3. b1[q + k] = s[1 + k]
      BY <1>5 DEF Copied, Same
    <3> QED BY <3>2, <3>3
  <2>2. Same(s, 1, c, q, len)
    BY <2>1 DEF Same
  <2> QED BY <1>3, <2>2, SliceOfPut
<1>14. PadLength(c, m) = pad
  <2>1. CASE pad > 0
    <3>1. pad - 1 \in 0 .. (pad - 1)
      BY <2>1
    <3>2. c[(q + len) + (pad - 1)] = t[1 + (pad - 1)]
      BY <1>8, <3>1 DEF Copied, Same
    <3>3. (q + len) + (pad - 1) = m - 1 /\ 1 + (pad - 1) = pad
      BY <1>4
    <3>4. c[m - 1] = pad
      BY <1>6, <2>1, <3>2, <3>3
    <3> QED BY <1>11, <2>1, <3>4 DEF PadLength
  <2>2. CASE ~(pad > 0)
    <3>1. pad = 0
      BY <2>2
    <3> QED BY <1>11, <2>2, <3>1 DEF PadLength
  <2> QED BY <2>1, <2>2
<1>15. Data(c, m) = s
  <2>1. m # q /\ m - pad = q + len
    BY <1>3, <1>4
  <2> QED BY <1>11, <1>13, <1>14, <2>1 DEF Data, Payload
<1> QED BY <1>11, <1>12, <1>15 DEF PayloadSet, c

\* A packet that has only its fixed header is twelve bytes long.
LEMMA FixedLength ==
    /\ \A s \in [1 .. 4 -> Byte] : s \in Seq(Byte) /\ Len(s) = 4
    /\ \A s \in [1 .. 2 -> Byte] : s \in Seq(Byte) /\ Len(s) = 2
<1>1. ASSUME NEW n \in Nat, NEW s \in [1 .. n -> Byte]
      PROVE  s \in Seq(Byte) /\ Len(s) = n
  OBVIOUS
<1>2. 4 \in Nat /\ 2 \in Nat
  OBVIOUS
<1> QED BY <1>1, <1>2, Zenon

\* A number of the fixed header is written behind the first two bytes.
LEMMA FieldPut ==
    ASSUME NEW b \in [Offsets -> Byte], NEW at \in 2 .. 8,
           NEW s \in Seq(Byte), at + Len(s) <= 12
    PROVE  /\ Put(b, at, s) \in [Offsets -> Byte]
           /\ Put(b, at, s)[0] = b[0]
           /\ \A i \in Offsets : i >= 12 => Put(b, at, s)[i] = b[i]
<1>1. PICK n \in Nat : n = Len(s) /\ at + n <= 12
  OBVIOUS
<1>2. at \in Nat /\ at + Len(s) <= Capacity
  BY <1>1, CapacityNat
<1>3. Copied(Put(b, at, s), b, at, s, 1, n)
  BY <1>1, <1>2, PutBytes
<1>4. 0 \in Offsets /\ 0 < at /\ \A i \in Offsets : i >= 12 => i >= at + n
  BY <1>1, CapacityNat DEF Offsets
<1> QED BY <1>3, <1>4 DEF Copied

\* The packet that newDataPacket of an output stream returns is empty,
\* whatever the buffer contained.
LEMMA PrepareContents ==
    ASSUME NEW b \in [Offsets -> Byte], NEW c, c = Prepare(b)
    PROVE  /\ Fits(c, 12)
           /\ ~Padding(c)
           /\ CsrcList(c) = <<>>
           /\ Extension(c) = <<>>
           /\ Data(c, 12) = <<>>
<1>1. /\ StreamFields.type \in 0 .. 127
      /\ StreamFields.ssrc \in [1 .. 4 -> Byte]
      /\ StreamFields.timestamp \in [1 .. 4 -> Byte]
      /\ StreamFields.sequence \in [1 .. 2 -> Byte]
  BY DataPacketAssumption
<1>2. PICK r \in Seq(Byte), t \in Seq(Byte), q \in Seq(Byte) :
        /\ r = StreamFields.ssrc /\ 8 + Len(r) <= 12
        /\ t = StreamFields.timestamp /\ 4 + Len(t) <= 12
        /\ q = StreamFields.sequence /\ 2 + Len(q) <= 12
  <2>1. /\ StreamFields.ssrc \in Seq(Byte) /\ Len(StreamFields.ssrc) = 4
        /\ StreamFields.timestamp \in Seq(Byte) /\ Len(StreamFields.timestamp) = 4
        /\ StreamFields.sequence \in Seq(Byte) /\ Len(StreamFields.sequence) = 2
    BY <1>1, FixedLength, Zenon
  <2>2. 8 + 4 <= 12 /\ 4 + 4 <= 12 /\ 2 + 2 <= 12
    OBVIOUS
  <2> QED BY <2>1, <2>2, Zenon
<1>3. 0 \in Offsets /\ 1 \in Offsets
  BY CapacityNat DEF Offsets
<1>4. At.ssrc = 8 /\ At.timestamp = 4 /\ At.sequence = 2
  BY DEF At
<1> DEFINE b1 == [b EXCEPT ![0] = 128]
           b2 == Put(b1, 8, r)
           b3 == SetType(b2, StreamFields.type)
           b4 == Put(b3, 4, t)
           b5 == Put(b4, 2, q)
<1>5. c = b5
  BY <1>2, <1>4 DEF Prepare
<1>6. b1 \in [Offsets -> Byte] /\ b1[0] = 128
  BY <1>3 DEF Byte
<1> HIDE DEF b1
<1>7. b2 \in [Offsets -> Byte] /\ b2[0] = 128
  BY <1>2, <1>6, FieldPut
<1> HIDE DEF b2
<1>8. b3 \in [Offsets -> Byte] /\ b3[0] = 128
  <2>1. b2[1] \in Byte
    BY <1>3, <1>7
  <2>2. (b2[1] - (b2[1] % 128)) + StreamFields.type \in Byte
    BY <1>1, <2>1, SecondByte, Zenon
  <2> QED BY <1>3, <1>7, <2>2 DEF SetType
<1> HIDE DEF b3
<1>9. b4 \in [Offsets -> Byte] /\ b4[0] = 128
  BY <1>2, <1>8, FieldPut
<1> HIDE DEF b4
<1>10. c \in [Offsets -> Byte] /\ c[0] = 128
  BY <1>2, <1>5, <1>9, FieldPut
<1>11. CsrcCount(c) = 0 /\ CsrcEnd(c) = 12 /\ ~ExtensionBit(c) /\ ~Padding(c)
       /\ c[0] \div 64 = 2
  BY <1>10 DEF CsrcCount, CsrcEnd, ExtensionBit, Padding, Bit
<1>12. PayOffset(c) = 12
  BY <1>11 DEF PayOffset, ExtensionLength
<1>13. Fits(c, 12)
  BY <1>10, <1>11, <1>12, CapacityNat DEF Fits
<1>14. CsrcList(c) = <<>>
  BY <1>11 DEF CsrcList
<1>15. Extension(c) = <<>>
  BY <1>11, <1>12 DEF Extension, Slice
<1>16. Data(c, 12) = <<>>
  BY <1>12 DEF Data
<1> QED BY <1>11, <1>13, <1>14, <1>15, <1>16

\* A change of the fixed header behind its first byte leaves the rest.
LEMMA RestSame ==
    ASSUME NEW b, NEW n, Fits(b, n), NEW c \in [Offsets -> Byte],
           c[0] = b[0], \A i \in Offsets : i >= 12 => c[i] = b[i]
    PROVE  /\ Fits(c, n)
           /\ Padding(c) <=> Padding(b)
           /\ CsrcList(c) = CsrcList(b)
           /\ Extension(c) = Extension(b)
           /\ Data(c, n) = Data(b, n)
<1>1. PICK p \in 12 .. 72 : CsrcEnd(b) = p /\ p <= n
  BY FitsParts
<1>2. b \in [Offsets -> Byte] /\ n \in Nat /\ n <= Capacity /\ b[0] \div 64 = 2
  BY DEF Fits
<1>3. /\ ExtensionBit(c) <=> ExtensionBit(b)
      /\ Padding(c) <=> Padding(b)
      /\ CsrcCount(c) = CsrcCount(b)
  BY DEF ExtensionBit, Padding, CsrcCount
<1>4. CsrcEnd(c) = p
  BY <1>1, <1>3 DEF CsrcEnd
<1>5. \A k \in 0 .. (n - p - 1) : c[p + k] = b[p + k]
  BY <1>1, <1>2, CapacityNat DEF Offsets
<1>6. /\ Fits(c, n)
      /\ Extension(c) = Extension(b)
      /\ Data(c, n) = Data(b, n)
  <2>1. n - CsrcEnd(c) = n - CsrcEnd(b) /\ c[0] \div 64 = 2
    BY <1>1, <1>2, <1>4
  <2>2. \A k \in 0 .. (n - CsrcEnd(b) - 1) :
           c[CsrcEnd(c) + k] = b[CsrcEnd(b) + k]
    BY <1>1, <1>4, <1>5
  <2> QED BY <1>2, <1>3, <2>1, <2>2, Moved
<1>7. CsrcList(c) = CsrcList(b)
  <2>1. \A i \in 12 .. (p - 1) : c[i] = b[i]
    BY <1>1, <1>2, CapacityNat DEF Offsets
  <2> QED BY <1>1, <1>2, <1>3, <2>1, SameCsrcs
<1> QED BY <1>3, <1>6, <1>7

-----------------------------------------------------------------------------
(* The steps.  Each keeps the layout and is a step of PacketContents.       *)

\* newDataPacket.
LEMMA NewStep ==
    ASSUME NewDataPacket
    PROVE  Layout' /\ Contents!New
<1>1. PICK b \in [Offsets -> Byte] : buffer' = Prepare(b)
  BY DataPacketAssumption DEF NewDataPacket
<1>2. inUse' = 12 /\ padTo' = 0
  BY DEF NewDataPacket
<1>3. /\ Fits(buffer', 12)
      /\ ~Padding(buffer')
      /\ CsrcList(buffer') = <<>>
      /\ Extension(buffer') = <<>>
      /\ Data(buffer', 12) = <<>>
  BY <1>1, PrepareContents
<1>4. Layout'
  BY <1>2, <1>3 DEF Layout
<1>5. Header(buffer') \in BOOLEAN \X (0 .. 127) \X [Fields -> Seq(Byte)]
  BY <1>3, HeaderTyped DEF Fits
<1>6. Contents!New
  BY <1>2, <1>3, <1>5 DEF Contents!New, Contents!HeaderLength
<1> QED BY <1>4, <1>6

\* Any change of the fixed header behind its first byte.
LEMMA HeaderStep ==
    ASSUME Layout, UNCHANGED <<inUse, padTo>>,
           buffer' \in [Offsets -> Byte], buffer'[0] = buffer[0],
           \A i \in Offsets : i >= 12 => buffer'[i] = buffer[i]
    PROVE  Layout' /\ Contents!SetHeader
<1>1. Fits(buffer, inUse)
  BY DEF Layout
<1>2. /\ Fits(buffer', inUse)
      /\ Padding(buffer') <=> Padding(buffer)
      /\ CsrcList(buffer') = CsrcList(buffer)
      /\ Extension(buffer') = Extension(buffer)
      /\ Data(buffer', inUse) = Data(buffer, inUse)
  BY <1>1, RestSame
<1>3. Layout'
  BY <1>2 DEF Layout
<1>4. Header(buffer') \in BOOLEAN \X (0 .. 127) \X [Fields -> Seq(Byte)]
  BY HeaderTyped
<1>5. Contents!SetHeader
  BY <1>2, <1>4 DEF Contents!SetHeader
<1> QED BY <1>3, <1>5

\* SetMarker changes one bit of the second byte.
LEMMA MarkerStep ==
    ASSUME Layout, NEW m \in Markers, SetMarker(m)
    PROVE  Layout' /\ Contents!SetHeader
<1>1. buffer \in [Offsets -> Byte] /\ 0 \in Offsets /\ 1 \in Offsets
      /\ buffer[1] \in Byte
  BY CsrcEndRange DEF Layout, Fits
<1>2. WithBit(buffer[1], 128, m) \in Byte
  BY <1>1, SecondByte, DataPacketAssumption, Zenon
<1>3. buffer' = [buffer EXCEPT ![1] = WithBit(buffer[1], 128, m)]
      /\ UNCHANGED <<inUse, padTo>>
  BY DEF SetMarker
<1>4. buffer' \in [Offsets -> Byte] /\ buffer'[0] = buffer[0]
      /\ \A i \in Offsets : i >= 12 => buffer'[i] = buffer[i]
  BY <1>1, <1>2, <1>3
<1> QED BY <1>3, <1>4, HeaderStep

\* SetPayloadType changes the other seven bits, if it knows the type.
LEMMA PayloadTypeStep ==
    ASSUME Layout, NEW pt \in Types, SetPayloadType(pt)
    PROVE  Layout' /\ Contents!SetHeader
<1>1. buffer \in [Offsets -> Byte] /\ 0 \in Offsets /\ 1 \in Offsets
      /\ buffer[1] \in Byte
  BY CsrcEndRange DEF Layout, Fits
<1>2. (buffer[1] - (buffer[1] % 128)) + pt \in Byte
  <2>1. pt \in 0 .. 127
    BY DataPacketAssumption
  <2> QED BY <1>1, <2>1, SecondByte
<1>3. buffer' = [buffer EXCEPT ![1] = (buffer[1] - (buffer[1] % 128)) + pt]
      /\ UNCHANGED <<inUse, padTo>>
  BY DEF SetPayloadType, SetType
<1>4. buffer' \in [Offsets -> Byte] /\ buffer'[0] = buffer[0]
      /\ \A i \in Offsets : i >= 12 => buffer'[i] = buffer[i]
  BY <1>1, <1>2, <1>3
<1> QED BY <1>3, <1>4, HeaderStep

\* SetSsrc, SetTimestamp and SetSequence.
LEMMA NumberStep ==
    ASSUME Layout, NEW f \in Fields, NEW n \in Numbers, SetNumber(f, n)
    PROVE  Layout' /\ Contents!SetHeader
<1>1. buffer \in [Offsets -> Byte]
  BY DEF Layout, Fits
<1>2. PICK at \in 2 .. 8 : At[f] = at /\ at + Size[f] <= 12
  BY DEF Fields, At, Size
<1>3. /\ n \in Seq(Byte) /\ at + Len(n) <= 12
      /\ buffer' = Put(buffer, at, n)
      /\ UNCHANGED <<inUse, padTo>>
  BY <1>2, DataPacketAssumption DEF SetNumber
<1>4. buffer' \in [Offsets -> Byte] /\ buffer'[0] = buffer[0]
      /\ \A i \in Offsets : i >= 12 => buffer'[i] = buffer[i]
  BY <1>1, <1>3, FieldPut
<1> QED BY <1>3, <1>4, HeaderStep

\* The number of CSRCs is the one in the first byte.
LEMMA CsrcListLength ==
    ASSUME NEW b \in [Offsets -> Byte]
    PROVE  /\ Len(CsrcList(b)) = CsrcCount(b)
           /\ CsrcEnd(b) = 12 + 4 * Len(CsrcList(b))
           /\ Len(CsrcList(b)) \in 0 .. 15
<1>1. PICK n \in Nat : CsrcCount(b) = n /\ n <= 15
  BY CsrcEndRange
<1>2. Len(CsrcList(b)) = n
  BY <1>1 DEF CsrcList
<1> QED BY <1>1, <1>2 DEF CsrcEnd

\* SetCsrcList with a list that it accepts.
LEMMA CsrcStep ==
    ASSUME Layout, Disciplined, NEW l \in CsrcLists, SetCsrcList(l)
    PROVE  Layout' /\ Contents!SetCsrcList(l)
<1> DEFINE b == buffer
           n == inUse
           m == 12 + 4 * Len(l) + inUse - CsrcEnd(buffer)
<1>1. Fits(b, n) /\ b \in [Offsets -> Byte] /\ n \in Nat
  BY DEF Layout, Fits
<1>2. l \in Seq([1 .. 4 -> Byte])
  BY DataPacketAssumption
<1>3. Len(l) \in Nat /\ Len(l) <= 15
  <2>1. Len(l) \in Nat
    BY <1>2
  <2>2. Len(l) <= 16 /\ Len(l) # 16
    BY DEF SetCsrcList, Disciplined
  <2> QED BY <2>1, <2>2, SmallCount, Zenon
<1>4. PICK old \in [Offsets -> Byte] : buffer' = CsrcBuffer(old, b, n, l)
  BY DataPacketAssumption, Zenon DEF SetCsrcList, CsrcBuffer
<1>5. m <= Capacity /\ inUse' = m /\ padTo' = padTo
  BY DEF SetCsrcList
<1>6. PICK len \in 0 .. 15, count \in 0 .. 15 :
         /\ Len(l) = len /\ Len(CsrcList(b)) = count
         /\ CsrcEnd(b) = 12 + 4 * count /\ 12 + 4 * count <= n
  <2>1. Len(l) \in 0 .. 15
    BY <1>3, SmallCount, Zenon
  <2>2. Len(CsrcList(b)) \in 0 .. 15 /\ CsrcEnd(b) = 12 + 4 * Len(CsrcList(b))
    BY <1>1, CsrcListLength
  <2>3. CsrcEnd(b) <= n
    BY <1>1, FitsParts
  <2> QED BY <2>1, <2>2, <2>3, Zenon
<1>7. m \in Nat /\ m = n + 4 * (len - count)
  BY <1>1, <1>6
<1>8. /\ Fits(buffer', m)
      /\ Padding(buffer') <=> Padding(b)
      /\ Header(buffer') = Header(b)
      /\ CsrcList(buffer') = l
      /\ Extension(buffer') = Extension(b)
      /\ Data(buffer', m) = Data(b, n)
  <2>1. m \in Nat /\ m = 12 + 4 * Len(l) + n - CsrcEnd(b)
    BY <1>7
  <2> HIDE DEF m
  <2>2. CsrcsSet(buffer', m, b, n, l)
    BY <1>1, <1>2, <1>3, <1>4, <1>5, <2>1, CsrcBufferContents, Zenon
  <2> QED BY <2>2 DEF CsrcsSet
<1> HIDE DEF m
<1>9. Layout'
  BY <1>5, <1>8 DEF Layout
<1>10. Contents!SetCsrcList(l)
  <2>1. m = inUse + 4 * (Len(l) - Len(CsrcList(buffer)))
    BY <1>6, <1>7
  <2> QED BY <1>5, <1>8, <2>1 DEF Contents!SetCsrcList, Contents!WordLength
<1> QED BY <1>9, <1>10

\* SetExtension with an extension that it accepts, or without one.
LEMMA ExtensionStep ==
    ASSUME Layout, Disciplined, NEW e \in Extensions, SetExtension(e)
    PROVE  Layout' /\ Contents!SetExtension(e)
<1> DEFINE b == buffer
           n == inUse
           m == inUse + Len(e) - (PayOffset(buffer) - CsrcEnd(buffer))
<1>1. Fits(b, n) /\ b \in [Offsets -> Byte] /\ n \in Nat
  BY DEF Layout, Fits
<1>2. e \in Seq(Byte) /\ Conforming(e) /\ WellFormed(e)
  BY DataPacketAssumption DEF Disciplined, SetExtension
<1>3. PICK old \in [Offsets -> Byte] : buffer' = ExtensionBuffer(old, b, n, e)
  BY DataPacketAssumption, Zenon DEF SetExtension, ExtensionBuffer
<1>4. m <= Capacity /\ inUse' = m /\ padTo' = padTo
  BY DEF SetExtension
<1>5. PICK p \in Nat, q \in Nat, len \in Nat :
         /\ CsrcEnd(b) = p /\ PayOffset(b) = q /\ Len(e) = len
         /\ p <= q /\ q <= n
  <2>1. Len(e) \in Nat
    BY <1>2
  <2>2. CsrcEnd(b) \in Nat /\ PayOffset(b) \in Nat
        /\ CsrcEnd(b) <= PayOffset(b) /\ PayOffset(b) <= n
    BY <1>1, FitsParts
  <2> QED BY <2>1, <2>2, Zenon
<1>6. m \in Nat /\ m = n + len - (q - p)
  BY <1>1, <1>5
<1>7. /\ Fits(buffer', m)
      /\ Padding(buffer') <=> Padding(b)
      /\ Header(buffer') = Header(b)
      /\ CsrcCount(buffer') = CsrcCount(b)
      /\ Extension(buffer') = e
      /\ Data(buffer', m) = Data(b, n)
  <2>1. m \in Nat /\ m = n + Len(e) - (PayOffset(b) - CsrcEnd(b))
    BY <1>6
  <2> HIDE DEF m
  <2> QED BY <1>1, <1>2, <1>3, <1>4, <2>1, ExtensionBufferContents
<1> HIDE DEF m
<1>8. Layout'
  BY <1>4, <1>7 DEF Layout
<1>9. Contents!SetExtension(e)
  <2>1. Len(Extension(b)) = q - p
    <3>1. n <= Capacity /\ q <= Capacity
      BY <1>1, <1>5, CapacityNat DEF Fits
    <3> QED BY <1>1, <1>5, <3>1, SliceBytes DEF Extension
  <2>2. m = inUse + Len(e) - Len(Extension(buffer))
    BY <1>5, <1>6, <2>1
  <2>3. Len(CsrcList(buffer')) = Len(CsrcList(buffer))
    BY <1>1, <1>7, CsrcListLength DEF Fits
  <2> QED BY <1>4, <1>7, <2>2, <2>3 DEF Contents!SetExtension
<1> QED BY <1>8, <1>9

\* SetPadding before there is a payload.
LEMMA PaddingStep ==
    ASSUME Layout, Disciplined, NEW p \in BOOLEAN, NEW n \in PadTos \cup {0},
           SetPadding(p, n)
    PROVE  Layout' /\ Contents!SetPadding(padTo')
                   /\ padTo' \in PadTos \cup {0, 4}
<1> DEFINE b == buffer
           c == buffer'
<1>1. Fits(b, inUse) /\ b \in [Offsets -> Byte] /\ inUse \in Nat
      /\ inUse <= Capacity /\ b[0] \div 64 = 2
  BY DEF Layout, Fits
<1>2. /\ inUse = PayOffset(b)
      /\ c = [b EXCEPT ![0] = WithBit(b[0], 32, p)]
      /\ padTo' = IF p THEN IF n = 0 THEN 4 ELSE n ELSE 0
      /\ inUse' = inUse
  BY DEF SetPadding, Disciplined
<1>3. 0 \in Offsets /\ b[0] \in Byte
  BY <1>1, CsrcEndRange
<1>4. PICK y \in Byte :
        /\ y = WithBit(b[0], 32, p)
        /\ Bit(y, 32) <=> p
        /\ Bit(y, 16) <=> Bit(b[0], 16)
        /\ y % 16 = b[0] % 16
        /\ y \div 64 = b[0] \div 64
  <2>1. /\ WithBit(b[0], 32, p) \in Byte
        /\ Bit(WithBit(b[0], 32, p), 32) <=> p
        /\ Bit(WithBit(b[0], 32, p), 16) <=> Bit(b[0], 16)
        /\ WithBit(b[0], 32, p) % 16 = b[0] % 16
        /\ WithBit(b[0], 32, p) \div 64 = b[0] \div 64
    BY <1>3, FlagBits
  <2> QED BY <2>1, Zenon
<1>5. /\ c \in [Offsets -> Byte] /\ c[0] = y
      /\ \A i \in Offsets : i # 0 => c[i] = b[i]
  BY <1>1, <1>2, <1>3, <1>4
<1> HIDE DEF c
<1>6. /\ Padding(c) <=> p
      /\ ExtensionBit(c) <=> ExtensionBit(b)
      /\ CsrcCount(c) = CsrcCount(b)
  BY <1>4, <1>5 DEF Padding, ExtensionBit, CsrcCount
<1>7. PICK q \in 12 .. 72 : CsrcEnd(b) = q /\ CsrcEnd(c) = q /\ q <= inUse
  <2>1. CsrcEnd(c) = CsrcEnd(b)
    BY <1>6 DEF CsrcEnd
  <2>2. CsrcEnd(b) \in 12 .. 72 /\ CsrcEnd(b) <= inUse
    BY <1>1, FitsParts
  <2> QED BY <2>1, <2>2, Zenon
<1>8. Fits(c, inUse) /\ ExtensionLength(c) = ExtensionLength(b)
      /\ Extension(c) = Extension(b)
  <2>1. inUse - CsrcEnd(c) = inUse - CsrcEnd(b) /\ c[0] \div 64 = 2
    BY <1>1, <1>4, <1>5, <1>7
  <2>2. \A k \in 0 .. (inUse - q - 1) : c[q + k] = b[q + k]
    BY <1>1, <1>5, <1>7, CapacityNat DEF Offsets
  <2>3. \A k \in 0 .. (inUse - CsrcEnd(b) - 1) :
           c[CsrcEnd(c) + k] = b[CsrcEnd(b) + k]
    BY <1>7, <2>2
  <2> QED BY <1>1, <1>5, <1>6, <2>1, <2>3, ExtensionMoved
<1>9. PayOffset(c) = PayOffset(b)
  BY <1>7, <1>8 DEF PayOffset
<1>10. Data(c, inUse) = <<>> /\ Data(b, inUse) = <<>>
  BY <1>2, <1>9 DEF Data
<1>11. Header(c) = Header(b) /\ CsrcList(c) = CsrcList(b)
  <2>1. \A i \in 1 .. 11 : c[i] = b[i]
    BY <1>5, CapacityNat DEF Offsets
  <2>2. \A i \in 12 .. (q - 1) : c[i] = b[i]
    BY <1>1, <1>5, <1>7, CapacityNat DEF Offsets
  <2> QED BY <1>1, <1>6, <1>7, <2>1, <2>2, SameHeader, SameCsrcs
<1>12. padTo' \in PadTos \cup {0, 4} /\ (p <=> padTo' > 0)
  <2>1. PadTos \subseteq 2 .. 255
    BY DataPacketAssumption
  <2>2. CASE p
    BY <1>2, <2>1, <2>2
  <2>3. CASE ~p
    BY <1>2, <2>3
  <2> QED BY <2>2, <2>3
<1>13. Layout'
  BY <1>2, <1>6, <1>8, <1>12 DEF Layout, c
<1>14. Contents!SetPadding(padTo')
  BY <1>2, <1>8, <1>10, <1>11 DEF Contents!SetPadding, c
<1> QED BY <1>12, <1>13, <1>14

\* SetPayload removes the old payload, and nothing else, before it writes
\* the new one with at most padTo bytes of padding.
LEMMA PayloadSizes ==
    ASSUME Layout, Disciplined, NEW s \in Payloads, SetPayload(s)
    PROVE  /\ inUse - PayloadLenOld = PayOffset(buffer)
           /\ Pad(Len(s) + PayOffset(buffer)) \in 0 .. 255
           /\ Pad(Len(s) + PayOffset(buffer)) \in 0 .. padTo
           /\ Padding(buffer) <=> Pad(Len(s) + PayOffset(buffer)) > 0
           /\ padTo \in 0 .. 255
<1>1. PICK at \in Nat : PayOffset(buffer) = at /\ at <= inUse /\ inUse \in Nat
  <2>1. Fits(buffer, inUse)
    BY DEF Layout
  <2> QED BY <2>1, FitsParts
<1>2. PICK to \in 0 .. 255 : padTo = to /\ (Padding(buffer) <=> to > 0)
  <2>1. PadTos \subseteq 2 .. 255 /\ padTo \in PadTos \cup {0, 4}
    BY DataPacketAssumption DEF Layout
  <2>2. padTo \in 0 .. 255
    BY <2>1
  <2> QED BY <2>2 DEF Layout
<1>3. PICK n \in Nat : n = Len(s) + at
  <2>1. Len(s) \in Nat
    BY DataPacketAssumption
  <2> QED BY <2>1
<1>4. CASE ~Padding(buffer)
  <2>1. PayloadLenOld = inUse - at
    BY <1>1, <1>4 DEF PayloadLenOld
  <2>2. inUse - PayloadLenOld = at
    BY <1>1, <2>1
  <2>3. Pad(n) = 0
    BY <1>4 DEF Pad
  <2> QED BY <1>1, <1>2, <1>3, <1>4, <2>2, <2>3
<1>5. CASE Padding(buffer)
  <2>1. inUse = at
    BY <1>1, <1>5 DEF SetPayload, Disciplined
  <2>2. inUse - at = 0 /\ ~(0 > to) /\ to > 0
    BY <1>1, <1>2, <1>5, <2>1
  <2>3. PayloadLenOld = 0
    BY <1>1, <1>2, <2>2 DEF PayloadLenOld
  <2>4. n % to \in 0 .. (to - 1)
    BY <2>2
  <2>5. Pad(n) = IF n % to = 0 THEN to ELSE n % to
    BY <1>2, <1>5 DEF Pad
  <2>6. Pad(n) \in 1 .. to
    BY <2>2, <2>4, <2>5
  <2>7. Pad(n) \in 0 .. 255 /\ Pad(n) \in 0 .. to /\ Pad(n) > 0
    BY <2>6
  <2>8. inUse - PayloadLenOld = at
    BY <1>1, <2>1, <2>3
  <2> QED BY <1>1, <1>2, <1>3, <1>5, <2>7, <2>8
<1> QED BY <1>4, <1>5

\* The length of the payload that SetPayload replaces.
LEMMA DataLength ==
    ASSUME Layout, Padding(buffer) => inUse = PayOffset(buffer)
    PROVE  Len(Data(buffer, inUse)) = inUse - PayOffset(buffer)
<1>1. Fits(buffer, inUse)
  BY DEF Layout
<1>2. PICK at \in Nat : PayOffset(buffer) = at /\ at <= inUse /\ inUse \in Nat
                        /\ inUse <= Capacity /\ buffer \in [Offsets -> Byte]
  BY <1>1, FitsParts
<1>3. CASE inUse = at
  <2>1. Data(buffer, inUse) = <<>>
    BY <1>2, <1>3 DEF Data
  <2>2. inUse - at = 0
    BY <1>2, <1>3
  <2> QED BY <1>2, <2>1, <2>2
<1>4. CASE inUse # at
  <2>1. PadLength(buffer, inUse) = 0 /\ inUse - 0 = inUse
    BY <1>2, <1>4 DEF PadLength
  <2>2. Data(buffer, inUse) = Slice(buffer, at, inUse)
    BY <1>2, <1>4, <2>1 DEF Data, Payload
  <2> QED BY <1>2, <2>2, SliceBytes, Zenon
<1> QED BY <1>3, <1>4

\* SetPayload, with and without padding.
LEMMA PayloadStep ==
    ASSUME Layout, Disciplined, NEW s \in Payloads, SetPayload(s)
    PROVE  Layout' /\ Contents!SetPayload(s)
<1>1. Fits(buffer, inUse)
  BY DEF Layout
<1>2. PICK at \in Nat : PayOffset(buffer) = at /\ at <= inUse /\ inUse \in Nat
                        /\ inUse <= Capacity /\ buffer \in [Offsets -> Byte]
  BY <1>1, FitsParts
<1>3. PICK len \in Nat : Len(s) = len /\ s \in Seq(Byte) /\ (s # <<>> <=> len > 0)
  <2>1. s \in Seq(Byte)
    BY DataPacketAssumption
  <2> QED BY <2>1
<1>4. PICK pad \in 0 .. 255 :
        /\ Pad(len + at) = pad /\ pad \in 0 .. padTo
        /\ Padding(buffer) <=> pad > 0
        /\ inUse - PayloadLenOld = at
        /\ padTo \in 0 .. 255
  BY <1>2, <1>3, PayloadSizes, Zenon
<1>5. /\ IF at + len + pad > Capacity
         THEN inUse' = at /\ buffer' = buffer
         ELSE IF s # <<>>
         THEN /\ inUse' = at + len + pad
              /\ buffer' = Put(Put(buffer, at, s), at + len, PaddingBytes(pad))
         ELSE inUse' = at /\ buffer' = buffer
      /\ padTo' = padTo
      /\ Padding(buffer) => s # <<>> /\ inUse = at
  BY <1>2, <1>3, <1>4, Zenon DEF SetPayload, Disciplined, PaddingBytes
<1>6. Len(Data(buffer, inUse)) = inUse - at
  BY <1>2, <1>5, DataLength
<1>7. inUse - Len(Data(buffer, inUse)) + len + pad = at + len + pad
      /\ inUse - Len(Data(buffer, inUse)) = at
  BY <1>2, <1>6
<1>8. ASSUME inUse' = at, buffer' = buffer
      PROVE  Layout' /\ Data(buffer', inUse') = <<>>
  <2>1. \A i \in Offsets : i < PayOffset(buffer) => buffer[i] = buffer[i]
    OBVIOUS
  <2>2. \A m \in Nat : PayOffset(buffer) <= m /\ m <= Capacity => Fits(buffer, m)
    BY <1>1, <1>2, <2>1, FrontSame
  <2>3. at <= at /\ at <= Capacity
    BY <1>2, CapacityNat
  <2>4. Fits(buffer, at)
    BY <1>2, <2>2, <2>3
  <2>5. Layout'
    BY <1>5, <1>8, <2>4 DEF Layout
  <2>6. Data(buffer', inUse') = <<>>
    BY <1>2, <1>8 DEF Data
  <2> QED BY <2>5, <2>6
<1>9. pad = 0 <=> padTo = 0
  BY <1>4 DEF Layout
<1>10. CASE at + len + pad > Capacity
  <2>1. inUse' = at /\ buffer' = buffer
    BY <1>5, <1>10
  <2>2. ~(at + len + pad <= Capacity)
    BY <1>10, CapacityNat
  <2>3. Contents!SetPayload(s)
    BY <1>3, <1>4, <1>5, <1>7, <1>8, <2>1, <2>2 DEF Contents!SetPayload
  <2> QED BY <1>8, <2>1, <2>3
<1>11. CASE ~(at + len + pad > Capacity) /\ s # <<>>
  <2>1. /\ inUse' = at + len + pad /\ inUse' \in Nat /\ inUse' <= Capacity
        /\ buffer' = Put(Put(buffer, at, s), at + len, PaddingBytes(pad))
    BY <1>5, <1>11, CapacityNat
  <2>2. /\ Fits(buffer', inUse')
        /\ Padding(buffer') <=> Padding(buffer)
        /\ Header(buffer') = Header(buffer)
        /\ CsrcList(buffer') = CsrcList(buffer)
        /\ Extension(buffer') = Extension(buffer)
        /\ Data(buffer', inUse') = s
    <3>1. PICK m \in Nat : m = inUse' /\ m <= Capacity
                           /\ m = PayOffset(buffer) + Len(s) + pad
      BY <1>2, <1>3, <2>1
    <3>2. buffer' = Put(Put(buffer, PayOffset(buffer), s),
                        PayOffset(buffer) + Len(s), PaddingBytes(pad))
      BY <1>2, <1>3, <2>1
    <3>3. s \in Seq(Byte) /\ s # <<>> /\ (Padding(buffer) <=> pad > 0)
      BY <1>3, <1>4, <1>11
    <3>4. PayloadSet(buffer', m, buffer, s)
      BY <1>1, <3>1, <3>2, <3>3, PayloadContents, Zenon
    <3> QED BY <3>1, <3>4 DEF PayloadSet
  <2>3. Layout'
    BY <1>5, <2>2 DEF Layout
  <2>4. Contents!SetPayload(s)
    BY <1>3, <1>4, <1>5, <1>7, <1>9, <2>1, <2>2 DEF Contents!SetPayload
  <2> QED BY <2>3, <2>4
<1>12. CASE ~(at + len + pad > Capacity) /\ s = <<>>
  <2>1. inUse' = at /\ buffer' = buffer
    BY <1>5, <1>12
  <2>2. ~Padding(buffer) /\ pad = 0 /\ len = 0
    BY <1>3, <1>4, <1>5, <1>12
  <2>3. at + len + pad = at /\ at <= Capacity
    BY <1>2, <2>2, CapacityNat
  <2>4. Contents!SetPayload(s)
    BY <1>3, <1>4, <1>5, <1>7, <1>8, <1>9, <1>12, <2>1, <2>3
       DEF Contents!SetPayload
  <2> QED BY <1>8, <2>1, <2>4
<1> QED BY <1>10, <1>11, <1>12

-----------------------------------------------------------------------------
\* The packet that newDataPacket gives out.
LEMMA InitLayout == Init => Layout /\ Contents!Init
<1> SUFFICES ASSUME Init PROVE Layout /\ Contents!Init
  OBVIOUS
<1>1. PICK b \in [Offsets -> Byte] : buffer = Prepare(b)
  BY DataPacketAssumption DEF Init
<1>2. inUse = 12 /\ padTo = 0
  BY DEF Init
<1>3. /\ Fits(buffer, 12)
      /\ ~Padding(buffer)
      /\ CsrcList(buffer) = <<>>
      /\ Extension(buffer) = <<>>
      /\ Data(buffer, 12) = <<>>
  BY <1>1, PrepareContents
<1>4. Layout
  BY <1>2, <1>3 DEF Layout
<1>5. Header(buffer) \in BOOLEAN \X (0 .. 127) \X [Fields -> Seq(Byte)]
  BY <1>3, HeaderTyped DEF Fits
<1>6. Contents!Init
  BY <1>2, <1>3, <1>5 DEF Contents!Init, Contents!HeaderLength
<1> QED BY <1>4, <1>6

\* Every step keeps the layout and is a step of PacketContents.
LEMMA StepLayout ==
    ASSUME Layout, Disciplined, [Next]_vars
    PROVE  Layout' /\ [Contents!Next]_(Contents!vars)
<1>1. CASE NewDataPacket
  BY <1>1, NewStep DEF Contents!Next
<1>2. CASE \E m \in Markers : SetMarker(m)
  BY <1>2, MarkerStep DEF Contents!Next
<1>3. CASE \E pt \in Types : SetPayloadType(pt)
  BY <1>3, PayloadTypeStep DEF Contents!Next
<1>4. CASE \E f \in Fields, n \in Numbers : SetNumber(f, n)
  BY <1>4, NumberStep DEF Contents!Next
<1>5. CASE \E p \in BOOLEAN, n \in PadTos \cup {0} : SetPadding(p, n)
  BY <1>5, PaddingStep DEF Contents!Next
<1>6. CASE \E l \in CsrcLists : SetCsrcList(l)
  BY <1>6, CsrcStep DEF Contents!Next
<1>7. CASE \E e \in Extensions : SetExtension(e)
  BY <1>7, ExtensionStep DEF Contents!Next
<1>8. CASE \E s \in Payloads : SetPayload(s)
  BY <1>8, PayloadStep DEF Contents!Next
<1>9. CASE UNCHANGED vars
  BY <1>9 DEF vars, Layout, Contents!vars
<1> QED BY <1>1, <1>2, <1>3, <1>4, <1>5, <1>6, <1>7, <1>8, <1>9 DEF Next

\* The receiver, which copies the bytes into a buffer with old contents,
\* accepts the packet and reads from it what the sender does.
LEMMA LayoutReadBack ==
    ASSUME Layout PROVE ReceiverReadsTheSame
<1> SUFFICES ASSUME NEW old \in OldBuffers, NEW b,
                    b = Copy(old, 0, buffer, 0, inUse)
             PROVE  /\ PayloadType(buffer) \in KnownTypes => IsValid(b)
                    /\ Header(b) = Header(buffer)
                    /\ CsrcList(b) = CsrcList(buffer)
                    /\ Extension(b) = Extension(buffer)
                    /\ Data(b, inUse) = Data(buffer, inUse)
  BY DEF ReceiverReadsTheSame
<1>1. Fits(buffer, inUse)
  BY DEF Layout
<1>2. /\ buffer \in [Offsets -> Byte] /\ inUse \in Nat /\ inUse <= Capacity
      /\ buffer[0] \div 64 = 2
  BY <1>1 DEF Fits
<1>3. old \in [Offsets -> Byte]
  BY DataPacketAssumption
<1>4. Copied(b, old, 0, buffer, 0, inUse)
  <2>1. 0 <= inUse /\ 0 + (inUse - 0) <= Capacity /\ inUse - 0 = inUse
    BY <1>2, CapacityNat
  <2>2. Copied(b, old, 0, buffer, 0, inUse - 0)
    BY <1>2, <1>3, <2>1, CopyBytes
  <2> QED BY <2>1, <2>2
<1>5. b \in [Offsets -> Byte] /\ \A i \in 0 .. (inUse - 1) : b[i] = buffer[i]
  BY <1>4, <1>2 DEF Copied, Same
<1>6. PICK p \in 12 .. 72 : CsrcEnd(buffer) = p /\ p <= inUse
  BY <1>1, FitsParts
<1>7. b[0] = buffer[0] /\ \A i \in 1 .. 11 : b[i] = buffer[i]
  BY <1>2, <1>5, <1>6
<1>8. /\ ExtensionBit(b) <=> ExtensionBit(buffer)
      /\ Padding(b) <=> Padding(buffer)
      /\ CsrcCount(b) = CsrcCount(buffer)
  BY <1>7 DEF ExtensionBit, Padding, CsrcCount
<1>9. CsrcEnd(b) = p
  BY <1>6, <1>8 DEF CsrcEnd
<1>10. Extension(b) = Extension(buffer) /\ Data(b, inUse) = Data(buffer, inUse)
  <2>1. inUse - CsrcEnd(b) = inUse - CsrcEnd(buffer) /\ b[0] \div 64 = 2
    BY <1>2, <1>6, <1>7, <1>9
  <2>2. \A k \in 0 .. (inUse - p - 1) : b[p + k] = buffer[p + k]
    BY <1>2, <1>5, <1>6
  <2>3. \A k \in 0 .. (inUse - CsrcEnd(buffer) - 1) :
           b[CsrcEnd(b) + k] = buffer[CsrcEnd(buffer) + k]
    BY <1>6, <1>9, <2>2
  <2> QED BY <1>1, <1>2, <1>5, <1>8, <2>1, <2>3, Moved
<1>11. CsrcList(b) = CsrcList(buffer)
  <2>1. \A i \in 12 .. (p - 1) : b[i] = buffer[i]
    BY <1>2, <1>5, <1>6
  <2> QED BY <1>2, <1>6, <1>8, <2>1, SameCsrcs
<1>12. Header(b) = Header(buffer)
  BY <1>7, SameHeader
<1>13. PayloadType(buffer) \in KnownTypes => IsValid(b)
  BY <1>2, <1>7 DEF IsValid, PayloadType
<1> QED BY <1>10, <1>11, <1>12, <1>13

-----------------------------------------------------------------------------
\* Whatever is set in which order, the parts that the header announces lie
\* within inUse bytes and inUse within the buffer, as long as callers keep
\* to the comments of the setters: padding set before the payload, fewer
\* than 16 CSRCs, extensions whose header has their length.
THEOREM PacketTyped == Disciplined => (Spec => []TypeOK)
<1> SUFFICES ASSUME Disciplined PROVE Spec => []TypeOK OBVIOUS
<1>1. Layout => TypeOK
  BY DEF Layout, Fits, TypeOK
<1>2. Layout /\ [Next]_vars => Layout'
  BY StepLayout
<1> QED BY <1>1, <1>2, InitLayout, PTL DEF Spec

\* The receiver reads from the bytes of the packet what the sender set.
THEOREM ReadBack == Disciplined => (Spec => []ReceiverReadsTheSame)
<1> SUFFICES ASSUME Disciplined PROVE Spec => []ReceiverReadsTheSame OBVIOUS
<1>1. Layout => ReceiverReadsTheSame
  BY LayoutReadBack
<1>2. Layout /\ [Next]_vars => Layout'
  BY StepLayout
<1> QED BY <1>1, <1>2, InitLayout, PTL DEF Spec

\* The setters, which move bytes about in buffers with old contents,
\* implement the packet of independent parts.
THEOREM SettersRefine == Disciplined => (Spec => SettersAreIndependent)
<1> SUFFICES ASSUME Disciplined PROVE Spec => SettersAreIndependent OBVIOUS
<1>1. Layout /\ [Next]_vars
      => Layout' /\ [Contents!Next]_(Contents!vars)
  BY StepLayout
<1> QED BY <1>1, InitLayout, PTL DEF Spec, SettersAreIndependent, Contents!Spec
=============================================================================
