------------------------- MODULE RtcpCompoundProofs -------------------------
(***************************************************************************)
(* Proofs about the compounds of RtcpCompound, for any streams, names,     *)
(* texts, statistics, clocks and limits: what OnRecvCtrl's loop finds in a *)
(* compound is what the builder put in, and what it stores was said.       *)
(***************************************************************************)
EXTENDS RtcpPacketProofs, RtcpSessionProofs

-----------------------------------------------------------------------------
\* The builders.

\* The output stream o has a name and items whose texts fit.
Named(o) ==
    /\ o \in Uint32s /\ out[o].packets \in Nat
    /\ out[o].SdesItems \in Items /\ DOMAIN out[o].SdesItems # {}
    /\ Sized(DOMAIN out[o].SdesItems)
    /\ out[o].sdesChunkLen = ChunkLen(out[o].SdesItems)

\* The SDES packet that Sdes writes for a stream.
LEMMA SdesParts ==
    ASSUME NEW o, Named(o), NEW order, order[o] \in Orders(DOMAIN out[o].SdesItems)
    PROVE  /\ Parts(Sdes(o, order), SdesMeans(o))
           /\ Bytes(Sdes(o, order), 4 + out[o].sdesChunkLen)
           /\ out[o].sdesChunkLen \in Nat
<1> DEFINE items == out[o].SdesItems
           cl == out[o].sdesChunkLen
           p == Header(RtcpSdes, 1, 4 + cl) \o Chunk(o, items, order[o])
<1>1. /\ o \in Uint32s /\ items \in Items /\ DOMAIN items # {}
      /\ Sized(DOMAIN items) /\ cl = ChunkLen(items)
  BY Zenon DEF Named
<1>2. cl \in Nat /\ cl # 0
  <2> HIDE DEF items, cl
  <2> QED  BY <1>1, ChunkLenValue
<1>3. Bytes(p, 4 + cl) /\ Part(p, SdesRecord(o, items))
  <2> HIDE DEF items, cl
  <2>1. order[o] \in Orders(DOMAIN items)
    BY Zenon DEF items
  <2> QED  BY <1>1, <2>1, SdesPart, Zenon
<1>4. Sdes(o, order) = p
  <2>1. SdesChunk(o, items, order[o]) = Chunk(o, items, order[o])
    BY <1>1, Zenon DEF SdesChunk, Chunk
  <2> QED  BY <1>2, <2>1, Zenon DEF Sdes
<1>5. SdesMeans(o) = <<SdesRecord(o, items)>>
  BY <1>2, Zenon DEF SdesMeans, SdesRecord
<1> HIDE DEF p
<1> QED  BY <1>2, <1>3, <1>4, <1>5, OnePart, Zenon

\* Reports on at most 31 input streams.
MayReport(ins, t) ==
    t \in Times /\ Hears(inp, InStreams, t) /\ ins \in Seq(InStreams) /\ Len(ins) < 32

\* buildRtcpPkt makes a compound of two packets.
LEMMA Built ==
    ASSUME NEW o, Named(o), NEW s, s.packets \in Nat, NEW ins, NEW t, MayReport(ins, t),
           NEW order, order[o] \in Orders(DOMAIN out[o].SdesItems)
    PROVE  /\ Compound(buildRtcpPkt(o, s, ins, t, order),
                       32 + 24 * Len(ins) + out[o].sdesChunkLen)
           /\ Starts(buildRtcpPkt(o, s, ins, t, order), FirstMeans(o, s, inp, ins, t))
           /\ 32 + 24 * Len(ins) + out[o].sdesChunkLen \in Nat
<1> DEFINE c == buildRtcpPkt(o, s, ins, t, order)
           n == Len(ins)
           cl == out[o].sdesChunkLen
           first == First(o, s, ins, t)
           rr == RecvReports(inp, ins, t)
           m == FirstMeans(o, s, inp, ins, t)
           d == [bytes |-> first \o rr, meant |-> <<m>>]
<1>1. /\ t \in Times /\ t \in Nat /\ Hears(inp, InStreams, t) /\ ins \in Seq(InStreams)
      /\ n \in Nat /\ n < 32
  BY DEF MayReport, Times
<1>2. o \in Uint32s
  BY Zenon DEF Named
<1>3. Part(first \o rr, m)
  BY <1>1, <1>2, FirstPart, Zenon
<1>4. Bytes(rr, 24 * n)
  BY <1>1, BlocksHeld, Zenon
<1>5. \E l \in Nat : l <= 28 /\ Bytes(first, l)
  <2>1. Bytes(SenderReport(o, s, n, t), 28) /\ Bytes(ReceiverReport(o, n), 8)
    <3> HIDE DEF n
    <3> QED  BY <1>1, <1>2, ReportBytes, Zenon
  <2>2. CASE s.sender
    <3>1. Bytes(first, 28) /\ 28 \in Nat /\ 28 <= 28
      <4>1. Bytes(first, 28)
        BY <2>1, <2>2, Zenon DEF First
      <4> QED  BY <4>1
    <3> QED  BY <3>1, Zenon
  <2>3. CASE ~s.sender
    <3>1. Bytes(first, 8) /\ 8 \in Nat /\ 8 <= 28
      <4>1. Bytes(first, 8)
        BY <2>1, <2>3, Zenon DEF First
      <4> QED  BY <4>1
    <3> QED  BY <3>1, Zenon
  <2> QED  BY <2>2, <2>3
<1>6. PICK l \in Nat : l <= 28 /\ Bytes(first, l)
  BY <1>5
<1>7. /\ Parts(Sdes(o, order), SdesMeans(o)) /\ Bytes(Sdes(o, order), 4 + cl)
      /\ cl \in Nat
  BY SdesParts, Zenon
<1>8. c.bytes = (first \o rr) \o Sdes(o, order) /\ c.meant = <<m>> \o SdesMeans(o)
  <2>1. c = [bytes |-> (first \o rr) \o Sdes(o, order), meant |-> <<m>> \o SdesMeans(o)]
    BY Zenon DEF buildRtcpPkt, First
  <2> DEFINE x == (first \o rr) \o Sdes(o, order)
             y == <<m>> \o SdesMeans(o)
  <2> HIDE DEF x, y, c
  <2>2. c = [bytes |-> x, meant |-> y]
    BY <2>1 DEF x, y
  <2>3. c.bytes = x /\ c.meant = y
    BY <2>2
  <2> QED  BY <2>3 DEF x, y
<1> HIDE DEF n, cl, first, rr, m
<1>9. d.bytes = first \o rr /\ d.meant = <<m>>
  OBVIOUS
<1>10. 24 * n \in Nat /\ l + 24 * n \in Nat /\ 28 + 24 * n \in Nat
       /\ l + 24 * n <= 28 + 24 * n /\ 4 + cl \in Nat
  BY <1>1, <1>6, <1>7
<1>11. Compound(d, 28 + 24 * n)
  <2>1. Parts(first \o rr, <<m>>)
    BY <1>3, OnePart, Zenon
  <2>2. Bytes(first \o rr, l + 24 * n)
    BY <1>4, <1>6, <1>10, Concatenated, Zenon
  <2> QED  BY <1>9, <1>10, <2>1, <2>2, Zenon DEF Compound, Bytes
<1> HIDE DEF c, d
<1>12. Compound(c, (28 + 24 * n) + (4 + cl))
  BY <1>7, <1>8, <1>9, <1>10, <1>11, CompoundMore, Zenon
<1>13. (28 + 24 * n) + (4 + cl) = 32 + 24 * n + cl /\ 32 + 24 * n + cl \in Nat
  BY <1>1, <1>7
<1>14. Starts(c, m)
  <2>1. IsSeq(SdesMeans(o))
    BY <1>7, Zenon DEF Parts
  <2>2. Starts(d, m) /\ IsSeq(d.meant)
    BY <1>9, IsSeqOne DEF Starts
  <2> QED  BY <1>8, <1>9, <2>1, <2>2, StartsMore, Zenon
<1> QED  BY <1>12, <1>13, <1>14, Zenon DEF c, n, cl, m

\* addSenderReport adds two packets, or none.
LEMMA Added ==
    ASSUME NEW o, Named(o), NEW t \in Times, NEW order,
           order[o] \in Orders(DOMAIN out[o].SdesItems),
           NEW c, NEW n \in Nat, Compound(c, n), NEW m, Starts(c, m)
    PROVE  /\ Compound(addSenderReport(c, o, t, order), n + (32 + out[o].sdesChunkLen))
           /\ Starts(addSenderReport(c, o, t, order), m)
<1> DEFINE d == addSenderReport(c, o, t, order)
           s == out[o]
           cl == s.sdesChunkLen
           sr == SenderReport(o, s, 0, t)
           z == SrMeans(o, s, inp, <<>>, t)
           e == [bytes |-> c.bytes \o sr, meant |-> c.meant \o <<z>>]
<1>1. o \in Uint32s /\ s.packets \in Nat
  BY Zenon DEF Named
<1>2. /\ Parts(Sdes(o, order), SdesMeans(o)) /\ Bytes(Sdes(o, order), 4 + cl)
      /\ cl \in Nat
  BY SdesParts, Zenon
<1>3. Parts(sr, <<z>>) /\ Bytes(sr, 28)
  <2>1. Part(sr, z)
    BY <1>1, AddedPart, Zenon
  <2>2. 0 \in Nat /\ 0 < 32
    OBVIOUS
  <2>3. Bytes(sr, 28)
    BY <1>1, <2>2, ReportBytes, Zenon
  <2> QED  BY <2>1, <2>3, OnePart, Zenon
<1>4. IsSeq(c.meant) /\ IsSeq(<<z>>) /\ IsSeq(SdesMeans(o))
  BY <1>2, <1>3, Zenon DEF Compound, Parts
<1>5. CASE HasRoom(c.bytes, o)
  <2>1. d = [bytes |-> (c.bytes \o sr) \o Sdes(o, order),
             meant |-> (c.meant \o <<z>>) \o SdesMeans(o)]
    BY <1>5, Zenon DEF addSenderReport
  <2> DEFINE i == c.bytes \o sr
             j == c.meant \o <<z>>
  <2>2. d = [bytes |-> i \o Sdes(o, order), meant |-> j \o SdesMeans(o)]
    BY <2>1, Zenon
  <2> HIDE DEF d, i, j
  <2>3. d.bytes = i \o Sdes(o, order) /\ d.meant = j \o SdesMeans(o)
    BY <2>2
  <2>4. e.bytes = i /\ e.meant = j
    BY DEF i, j
  <2> HIDE DEF e, sr, z, cl
  <2>5. 28 \in Nat /\ n + 28 \in Nat /\ 4 + cl \in Nat
        /\ (n + 28) + (4 + cl) = n + (32 + cl)
    BY <1>2
  <2>6. Compound(e, n + 28)
    BY <1>3, <2>4, <2>5, CompoundMore, Zenon DEF i, j
  <2>7. Compound(d, (n + 28) + (4 + cl))
    BY <1>2, <2>3, <2>4, <2>5, <2>6, CompoundMore, Zenon
  <2>8. Starts(e, m) /\ IsSeq(e.meant)
    BY <1>4, <2>4, StartsMore, IsSeqConcatenated, Zenon DEF j
  <2>9. Starts(d, m)
    BY <1>4, <2>3, <2>4, <2>8, StartsMore, Zenon
  <2> QED  BY <2>5, <2>7, <2>9, Zenon DEF cl, d
<1>6. CASE ~HasRoom(c.bytes, o)
  <2>1. d = c
    BY <1>6, Zenon DEF addSenderReport
  <2> HIDE DEF cl, d
  <2>2. Parts(c.bytes, c.meant) /\ Len(c.bytes) <= n
    BY Zenon DEF Compound
  <2>3. c.bytes \in Seq(Byte)
    BY <2>2, Zenon DEF Parts
  <2> DEFINE l == Len(c.bytes)
  <2>4. l \in Nat /\ l <= n
    BY <2>2, <2>3
  <2> HIDE DEF l
  <2>5. l <= n + (32 + cl)
    BY <1>2, <2>4
  <2>6. Compound(c, n + (32 + cl))
    BY <2>2, <2>5, Zenon DEF Compound, l
  <2> QED  BY <2>1, <2>6, Zenon DEF cl, d
<1> QED  BY <1>5, <1>6

\* Compounds that fit a bound fit a larger one.
LEMMA CompoundWider ==
    ASSUME NEW c, NEW n \in Nat, Compound(c, n), NEW m \in Nat, n <= m
    PROVE  Compound(c, m)
<1> DEFINE l == Len(c.bytes)
<1>1. Parts(c.bytes, c.meant) /\ l <= n
  BY Zenon DEF Compound
<1>2. c.bytes \in Seq(Byte)
  BY <1>1, Zenon DEF Parts
<1>3. l \in Nat
  BY <1>2
<1> HIDE DEF l
<1>4. l <= m
  BY <1>1, <1>3
<1> QED  BY <1>1, <1>4, Zenon DEF Compound, l

\* The stream o may be named in this order, within R bytes.
Sayable(o, order, R) ==
    /\ Named(o) /\ order[o] \in Orders(DOMAIN out[o].SdesItems)
    /\ out[o].sdesChunkLen <= R

\* The compound of a report interval with sending streams.
LEMMA SendersBuilt ==
    ASSUME NEW sending, NEW n \in Nat, Len(sending) = n, n >= 1,
           NEW ins, NEW t, MayReport(ins, t), NEW order, NEW R \in Nat,
           \A k \in 1 .. n : Sayable(sending[k], order, R)
    PROVE  /\ Compound(SendersCompound(sending, ins, t, order),
                       24 * Len(ins) + n * (32 + R))
           /\ Starts(SendersCompound(sending, ins, t, order),
                     FirstMeans(sending[1], out[sending[1]], inp, ins, t))
<1> DEFINE L == 24 * Len(ins)
           U == 32 + R
           m == FirstMeans(sending[1], out[sending[1]], inp, ins, t)
<1>1. L \in Nat /\ t \in Times
  <2>1. ins \in Seq(InStreams) /\ t \in Times
    BY Zenon DEF MayReport
  <2> QED  BY <2>1
<1>2. U \in Nat
  OBVIOUS
<1>3. PICK f : /\ f = SendersBody(sending, ins, t, order, f)
               /\ SendersCompound(sending, ins, t, order) = f[n]
  BY SendersLoop, Zenon
<1>4. ASSUME NEW k \in 1 .. n
      PROVE  f[k] = IF k = 1 THEN buildRtcpPkt(sending[1], out[sending[1]], ins, t, order)
                    ELSE addSenderReport(f[k - 1], sending[k], t, order)
  BY <1>3, Zenon DEF SendersBody
<1> DEFINE Right(k) == Compound(f[k], L + k * U) /\ Starts(f[k], m)
           S == {k \in Nat : k + 1 <= n => Right(k + 1)}
<1>5. 0 \in S
  <2> DEFINE o == sending[1]
             cl == out[o].sdesChunkLen
  <2>1. 1 \in 1 .. n
    OBVIOUS
  <2>2. Named(o) /\ order[o] \in Orders(DOMAIN out[o].SdesItems) /\ cl <= R
    BY <2>1, Zenon DEF Sayable
  <2>3. out[o].packets \in Nat
    BY <2>2, Zenon DEF Named
  <2>4. Compound(f[1], 32 + L + cl) /\ Starts(f[1], m) /\ 32 + L + cl \in Nat
    <3> DEFINE s == out[o]
               c == buildRtcpPkt(o, s, ins, t, order)
    <3>1. Compound(c, 32 + L + cl) /\ Starts(c, FirstMeans(o, s, inp, ins, t))
          /\ 32 + L + cl \in Nat
      <4> HIDE DEF o
      <4> QED  BY <2>2, <2>3, Built, Zenon
    <3>2. f[1] = c
      BY <1>4, <2>1, Zenon
    <3> QED  BY <3>1, <3>2, Zenon
  <2>5. cl \in Nat
    BY <2>2, SdesParts, Zenon
  <2> HIDE DEF L, cl, m
  <2>6. 32 + L + cl <= L + 1 * U /\ L + 1 * U \in Nat
    BY <1>1, <2>2, <2>5
  <2>7. Compound(f[1], L + 1 * U)
    BY <2>4, <2>6, CompoundWider, Zenon
  <2>8. 0 + 1 = 1
    OBVIOUS
  <2> HIDE DEF U
  <2>9. Right(0 + 1)
    BY <2>4, <2>7, <2>8, Zenon
  <2> HIDE DEF Right
  <2> QED  BY <2>9
<1>6. ASSUME NEW k \in Nat, k \in S PROVE k + 1 \in S
  <2> SUFFICES ASSUME k + 2 <= n PROVE Right(k + 2)
    <3> HIDE DEF Right
    <3>1. (k + 1) + 1 = k + 2
      OBVIOUS
    <3> QED  BY <3>1
  <2> DEFINE j == k + 1
             i == k + 2
             o == sending[i]
             cl == out[o].sdesChunkLen
  <2>1. /\ j \in Nat /\ j <= n /\ i \in 1 .. n /\ i # 1 /\ i - 1 = j
    OBVIOUS
  <2>2. Right(j)
    <3> HIDE DEF Right
    <3> QED  BY <1>6, <2>1
  <2>3. Named(o) /\ order[o] \in Orders(DOMAIN out[o].SdesItems) /\ cl <= R
    <3> HIDE DEF i
    <3> QED  BY <2>1, Zenon DEF Sayable
  <2>4. f[i] = addSenderReport(f[j], o, t, order)
    <3> HIDE DEF i, j
    <3> QED  BY <1>4, <2>1, Zenon
  <2>5. cl \in Nat
    BY <2>3, SdesParts, Zenon
  <2>6. L + j * U \in Nat
    BY <1>1, <1>2, <2>1
  <2>7. i * U = j * U + U
    <3> HIDE DEF U
    <3> QED  BY <1>2
  <2> DEFINE x == j * U
  <2>8. x \in Nat
    BY <1>2, <2>1
  <2> HIDE DEF x, L, m, cl
  <2>9. /\ (L + x) + (32 + cl) \in Nat /\ (L + x) + (32 + cl) <= L + (x + U)
        /\ L + (x + U) \in Nat
    BY <1>1, <2>3, <2>5, <2>8
  <2> HIDE DEF i, j, U
  <2>10. Compound(f[i], (L + x) + (32 + cl)) /\ Starts(f[i], m)
    BY <1>1, <2>2, <2>3, <2>4, <2>6, Added, Zenon DEF x, cl
  <2>11. Compound(f[i], L + (x + U))
    BY <2>9, <2>10, CompoundWider, Zenon
  <2>12. Right(i)
    BY <2>7, <2>10, <2>11, Zenon DEF x
  <2> QED  BY <2>12, Zenon DEF i
<1> HIDE DEF S
<1>7. Nat \subseteq S
  BY <1>5, <1>6, SetInduction
<1>8. n - 1 \in Nat /\ (n - 1) + 1 = n /\ n <= n
  OBVIOUS
<1>9. n - 1 \in S
  BY <1>7, <1>8, Zenon
<1>10. Right(n)
  BY <1>8, <1>9, Zenon DEF S
<1> QED  BY <1>3, <1>10, Zenon

\* buildRtcpByePkt adds a third packet, the BYE.
LEMMA ByeBuilt ==
    ASSUME ShortReason, NEW o, NEW order, NEW R \in Nat, Sayable(o, order, R),
           NEW t, MayReport(<<>>, t)
    PROVE  Compound(buildRtcpByePkt(o, t, order), 40 + R + ReasonLen)
<1> DEFINE c == buildRtcpPkt(o, out[o], <<>>, t, order)
           d == buildRtcpByePkt(o, t, order)
           cl == out[o].sdesChunkLen
           m == ByeMeans(o)
<1>1. Named(o) /\ order[o] \in Orders(DOMAIN out[o].SdesItems) /\ cl <= R
  BY Zenon DEF Sayable
<1>2. o \in Uint32s /\ out[o].packets \in Nat
  BY <1>1, Zenon DEF Named
<1>3. Compound(c, 32 + 24 * Len(<<>>) + cl)
  BY <1>1, <1>2, Built, Zenon
<1>4. cl \in Nat /\ ReasonLen \in Nat
  BY <1>1, SdesParts, ReasonLenValue, Zenon
<1>5. Bytes(Bye(o), 8 + ReasonLen) /\ Part(Bye(o), m)
  BY <1>2, ByePart, Zenon
<1>6. Parts(Bye(o), <<m>>)
  BY <1>5, OnePart, Zenon
<1>7. d.bytes = c.bytes \o Bye(o) /\ d.meant = c.meant \o <<m>>
  <2>1. d = [bytes |-> c.bytes \o Bye(o), meant |-> Append(c.meant, m)]
    BY Zenon DEF buildRtcpByePkt
  <2>2. IsSeq(c.meant)
    BY <1>3, Zenon DEF Compound, Parts
  <2>3. PICK S : c.meant \in Seq(S)
    BY <2>2 DEF IsSeq
  <2> DEFINE x == c.bytes \o Bye(o)
             y == c.meant
  <2> HIDE DEF c, d, m, x, y
  <2>4. Append(y, m) = y \o <<m>>
    BY <2>3 DEF y
  <2>5. d = [bytes |-> x, meant |-> Append(y, m)]
    BY <2>1 DEF x, y
  <2>6. d.bytes = x /\ d.meant = Append(y, m)
    BY <2>5
  <2> QED  BY <2>4, <2>6, Zenon DEF x, y
<1> HIDE DEF c, d, cl, m
<1>8. 32 + 24 * Len(<<>>) + cl = 32 + cl /\ 32 + cl \in Nat /\ 8 + ReasonLen \in Nat
  BY <1>4
<1>9. Compound(d, (32 + cl) + (8 + ReasonLen))
  BY <1>3, <1>5, <1>6, <1>7, <1>8, CompoundMore, Zenon
<1>10. /\ (32 + cl) + (8 + ReasonLen) \in Nat /\ 40 + R + ReasonLen \in Nat
       /\ (32 + cl) + (8 + ReasonLen) <= 40 + R + ReasonLen
  BY <1>1, <1>4
<1>11. Compound(d, 40 + R + ReasonLen)
  BY <1>9, <1>10, CompoundWider, Zenon
<1> QED  BY <1>11 DEF d

-----------------------------------------------------------------------------
\* What may be sent.

\* Item texts and the reason have lengths that fit their length bytes, the
\* clock stays in the range of the 32 bits of an NTP time stamp.
ShortTexts == \A x \in Texts \cup {defaultCname, Reason} : Len(x) < 256

InTime == StartClock .. StartClock + MaxCompounds \subseteq Times

\* No stream can have an SDES chunk of more than R bytes.
ChunksWithin(R) == \A f \in Nameable : ChunkLen(f) <= R

\* The most bytes of a report with all its blocks and senders, and of a
\* compound with a BYE.
ReportRoom(R) == 24 * maxReports + Cardinality(OutStreams) * (32 + R)

ByeRoom(R) == 40 + R + ReasonLen

\* The input streams can be reported on.
LEMMA BuildingHears ==
    ASSUME Building
    PROVE  Hears(inp, InStreams, now + 1)
<1>1. InStreams \subseteq Uint32s
  BY RtcpCompoundAssumption
<1>2. ASSUME NEW x \in Receptions \cup {NoReception} PROVE x \in Stats
  <2>1. CASE x \in Receptions
    BY <2>1, RtcpCompoundAssumption, Zenon DEF Stats, Byte
  <2>2. CASE x = NoReception
    <3>1. 0 \in Uint32s /\ 0 \in Byte /\ 0 \in Nat
      <4>1. Wrap32(0) = 0
        BY DEF Wrap32, Two16
      <4> QED  BY <4>1 DEF Uint32s, Byte
    <3> QED  BY <2>2, <3>1 DEF NoReception, Stats
  <2> QED  BY <2>1, <2>2
<1>3. inp \in [InStreams -> InStatesAt(now)] /\ now \in Nat
  BY DEF Building
<1>4. ASSUME NEW i \in InStreams PROVE inp[i] \in InStates /\ inp[i].srTime <= now + 1
  <2> DEFINE s == inp[i]
             V == Receptions \cup {NoReception}
  <2>1. s \in InStatesAt(now)
    BY <1>3
  <2> HIDE DEF s, V
  <2>2. s \in [data : BOOLEAN, sender : BOOLEAN, srTime : 0 .. now, stats : V]
    BY <2>1 DEF InStatesAt, V
  <2>3. V \subseteq Stats
    BY <1>2 DEF V
  <2>4. s \in [data : BOOLEAN, sender : BOOLEAN, srTime : Nat, stats : Stats]
    BY <1>3, <2>2, <2>3
  <2>5. s.srTime <= now + 1
    BY <1>3, <2>2
  <2> QED  BY <2>4, <2>5 DEF InStates, s
<1> QED  BY <1>1, <1>4 DEF Hears

\* Nameable items are items that can be written.
LEMMA NameableItems ==
    ASSUME ShortTexts, NEW f \in Nameable
    PROVE  f \in Items /\ Sized(DOMAIN f) /\ DOMAIN f # {}
<1> DEFINE T == Texts \cup {defaultCname}
<1>1. PICK D \in SUBSET ItemTypes : f \in [D -> T]
  BY DEF Nameable
<1>2. DOMAIN f = D /\ DOMAIN f # {}
  BY <1>1 DEF Nameable
<1>3. D \in SUBSET (1 .. 9)
  <2>1. ItemTypes \subseteq 1 .. 9
    BY RtcpCompoundAssumption
  <2> QED  BY <2>1
<1>4. \A x \in T : x \in Seq(Byte) /\ Len(x) < 256
  BY RtcpCompoundAssumption DEF ShortTexts, Byte
<1> HIDE DEF T
<1>5. f \in [D -> Seq(Byte)] /\ \A y \in DOMAIN f : Len(f[y]) < 256
  BY <1>1, <1>4
<1>6. f \in Items
  BY <1>3, <1>5, Zenon DEF Items
<1>7. IsFiniteSet(1 .. 9)
  <2>1. 1 \in Int /\ 9 \in Int
    OBVIOUS
  <2> QED  BY <2>1, FS_Interval, Zenon
<1>8. Sized(D)
  <2>1. IsFiniteSet(D)
    BY <1>3, <1>7, FS_Subset, Zenon
  <2> QED  BY <2>1, FS_CardinalityType, Zenon DEF Sized
<1> QED  BY <1>2, <1>6, <1>8

\* The streams of the session can be named in a compound.
LEMMA BuildingSays ==
    ASSUME Building, ShortTexts, NEW R \in Nat, ChunksWithin(R), NEW order \in ItemOrders,
           NEW o \in OutStreams
    PROVE  Sayable(o, order, R)
<1> DEFINE s == out[o]
<1>1. s \in OutStates
  BY DEF Building
<1> HIDE DEF s
<1>2. s.packets \in Nat /\ s.SdesItems \in Nameable /\ s.sdesChunkLen = ChunkLen(s.SdesItems)
  BY <1>1 DEF OutStates
<1>3. /\ s.SdesItems \in Items /\ DOMAIN s.SdesItems # {}
      /\ Sized(DOMAIN s.SdesItems)
  BY <1>2, NameableItems, Zenon
<1>4. o \in Uint32s
  <2>1. OutStreams \subseteq Uint32s
    BY RtcpCompoundAssumption
  <2> QED  BY <2>1
<1>5. order[o] \in Orders(DOMAIN out[o].SdesItems)
  BY Zenon DEF ItemOrders
<1>6. s.sdesChunkLen <= R
  BY <1>2, Zenon DEF ChunksWithin
<1>7. Named(o)
  BY <1>2, <1>3, <1>4, Zenon DEF Named, s
<1> QED  BY <1>5, <1>6, <1>7, Zenon DEF Sayable, s

\* The reports of a session are due at times that can be told.
LEMMA BuildingReports ==
    ASSUME Building, InTime, Len(sent) < MaxCompounds
    PROVE  /\ \A ins \in ToReport : MayReport(ins, now + 1)
           /\ MayReport(<<>>, now + 1)
<1>1. now + 1 \in Times
  <2>1. now + 1 \in StartClock .. StartClock + MaxCompounds
    BY RtcpCompoundAssumption DEF Building
  <2> QED  BY <2>1 DEF InTime
<1>2. Hears(inp, InStreams, now + 1)
  BY BuildingHears
<1>3. ASSUME NEW ins \in ToReport PROVE ins \in Seq(InStreams) /\ Len(ins) < 32
  <2>1. ins \in Seq(InStreams) /\ Len(ins) \in Nat /\ Len(ins) <= maxReports
    BY ToReportTyped, Zenon
  <2>2. maxReports \in Nat /\ maxReports < 32
    BY RtcpCompoundAssumption
  <2> QED  BY <2>1, <2>2
<1>4. <<>> \in Seq(InStreams) /\ Len(<<>>) < 32
  OBVIOUS
<1> QED  BY <1>1, <1>2, <1>3, <1>4, Zenon DEF MayReport

\* A report is a compound of its parts, of at most so many bytes.
LEMMA ReportedBuilt ==
    ASSUME Building, ShortTexts, NEW R \in Nat, ChunksWithin(R), NEW order \in ItemOrders,
           NEW ins, NEW t, MayReport(ins, t), Len(ins) <= maxReports,
           NEW c, Reported(c, ins, t, order)
    PROVE  Compound(c, ReportRoom(R))
<1>1. \A o \in OutStreams : Sayable(o, order, R)
  BY BuildingSays, Zenon
<1>2. Active \in SUBSET OutStreams
  BY DEF Active
<1>3. Len(ins) \in Nat /\ maxReports \in Nat
  <2>1. ins \in Seq(InStreams)
    BY Zenon DEF MayReport
  <2>2. maxReports \in Nat
    BY RtcpCompoundAssumption
  <2> QED  BY <2>1, <2>2
<1>4. CASE \E A \in SUBSET Active : \E found \in Orders(A) :
              A # {} /\ c = SendersCompound(found, ins, t, order)
  <2>1. PICK A \in SUBSET Active : \E found \in Orders(A) :
            A # {} /\ c = SendersCompound(found, ins, t, order)
    BY <1>4, Zenon
  <2>2. PICK found \in Orders(A) : A # {} /\ c = SendersCompound(found, ins, t, order)
    BY <2>1, Zenon
  <2> DEFINE n == Len(found)
             N == Cardinality(OutStreams)
             U == 32 + R
             i == Len(ins)
  <2>3. n \in Nat /\ n >= 1 /\ n <= N /\ N \in Nat /\ \A k \in 1 .. n : found[k] \in A
    BY <1>2, <2>2, FoundTyped
  <2>4. \A k \in 1 .. n : Sayable(found[k], order, R)
    BY <1>1, <1>2, <2>3
  <2>5. Compound(c, 24 * i + n * (32 + R))
    BY <2>2, <2>3, <2>4, SendersBuilt
  <2>6. U \in Nat /\ i \in Nat /\ i <= maxReports
    BY <1>3
  <2> HIDE DEF n, N, U, i
  <2>7. n * U <= N * U /\ n * U \in Nat /\ N * U \in Nat
    BY <2>3, <2>6
  <2>8. /\ 24 * i + n * U <= 24 * maxReports + N * U
        /\ 24 * i + n * U \in Nat /\ 24 * maxReports + N * U \in Nat
    BY <1>3, <2>6, <2>7
  <2>9. Compound(c, 24 * i + n * U)
    BY <2>5, Zenon DEF U
  <2> DEFINE m == 24 * i + n * U
             M == 24 * maxReports + N * U
  <2>10. m \in Nat /\ M \in Nat /\ m <= M /\ Compound(c, m)
    BY <2>8, <2>9, Zenon
  <2> HIDE DEF m, M
  <2>11. Compound(c, M)
    BY <2>10, CompoundWider, Zenon
  <2> QED  BY <2>11, Zenon DEF M, N, U, ReportRoom
<1>5. CASE \E o \in Active :
              c = buildRtcpPkt(o, [out[o] EXCEPT !.sender = FALSE], ins, t, order)
  <2>1. PICK o \in Active :
            c = buildRtcpPkt(o, [out[o] EXCEPT !.sender = FALSE], ins, t, order)
    BY <1>5, Zenon
  <2> DEFINE s == [out[o] EXCEPT !.sender = FALSE]
             cl == out[o].sdesChunkLen
             N == Cardinality(OutStreams)
             i == Len(ins)
             m == 32 + 24 * i + cl
             M == 24 * maxReports + N * (32 + R)
  <2>2. o \in OutStreams
    BY <1>2
  <2>3. Named(o) /\ order[o] \in Orders(DOMAIN out[o].SdesItems) /\ cl <= R
    BY <1>1, <2>2, Zenon DEF Sayable
  <2>4. s.packets \in Nat
    <3>1. out[o] \in OutStates
      BY <2>2 DEF Building
    <3>2. s.packets = out[o].packets
      BY <3>1 DEF OutStates
    <3> QED  BY <2>3, <3>2, Zenon DEF Named
  <2>5. Compound(c, m) /\ m \in Nat
    BY <2>1, <2>3, <2>4, Built
  <2>6. N \in Nat /\ N >= 1
    <3>1. IsFiniteSet(OutStreams)
      BY RtcpCompoundAssumption
    <3>2. N \in Nat /\ N # 0
      BY <2>2, <3>1, FS_CardinalityType, FS_EmptySet
    <3> HIDE DEF N
    <3> QED  BY <3>2
  <2>7. cl \in Nat
    BY <2>3, ChunkLenValue DEF Named
  <2>8. M \in Nat /\ m <= M
    <3> HIDE DEF cl, N, i
    <3>1. N * (32 + R) >= 32 + R /\ N * (32 + R) \in Nat
      BY <2>6
    <3>2. i \in Nat /\ i <= maxReports
      BY <1>3 DEF i
    <3> QED  BY <1>3, <2>3, <2>7, <3>1, <3>2
  <2> HIDE DEF m, M
  <2>9. Compound(c, M)
    BY <2>5, <2>8, CompoundWider, Zenon
  <2> QED  BY <2>9, Zenon DEF M, ReportRoom
<1> QED  BY <1>4, <1>5, Zenon DEF Reported

\* What is sent is of another implementation, or made of its parts.
LEMMA SaidBuilt ==
    ASSUME Building, ShortTexts, InTime, Len(sent) < MaxCompounds,
           NEW R \in Nat, ChunksWithin(R), NEW c, Said(c)
    PROVE  c \in Foreign \/ Compound(c, ReportRoom(R)) \/ Compound(c, ByeRoom(R))
<1>1. ASSUME NEW order \in ItemOrders, NEW ins \in ToReport,
             Reported(c, ins, now + 1, order)
      PROVE  Compound(c, ReportRoom(R))
  <2>1. MayReport(ins, now + 1)
    BY BuildingReports, Zenon
  <2>2. Len(ins) <= maxReports
    BY ToReportTyped, Zenon
  <2> QED  BY <1>1, <2>1, <2>2, ReportedBuilt, Zenon
<1>2. ASSUME NEW order \in ItemOrders, NEW o \in OutStreams,
             c = buildRtcpByePkt(o, now + 1, order)
      PROVE  Compound(c, ByeRoom(R))
  <2>1. MayReport(<<>>, now + 1) /\ Sayable(o, order, R)
    BY BuildingReports, BuildingSays, Zenon
  <2>2. ShortReason
    BY DEF ShortTexts, ShortReason
  <2>3. Compound(c, 40 + R + ReasonLen)
    BY <1>2, <2>1, <2>2, ByeBuilt, Zenon
  <2> QED  BY <2>3, Zenon DEF ByeRoom
<1> QED  BY <1>1, <1>2, Zenon DEF Said

-----------------------------------------------------------------------------
\* Compounds are read as they were written.

\* Everything sent is of another implementation, or made of parts.
SentBuilt(R) ==
    \A k \in 1 .. Len(sent) :
        \/ sent[k] \in Foreign
        \/ Compound(sent[k], ReportRoom(R)) \/ Compound(sent[k], ByeRoom(R))

\* A step keeps it so.
LEMMA SentBuiltStep ==
    ASSUME Building, ShortTexts, InTime, NEW R \in Nat, ChunksWithin(R),
           SentBuilt(R), [Next]_vars
    PROVE  SentBuilt(R)'
<1>1. CASE sent' = sent
  <2>1. \A k \in 1 .. Len(sent') :
            \/ sent'[k] \in Foreign
            \/ Compound(sent'[k], ReportRoom(R)) \/ Compound(sent'[k], ByeRoom(R))
    BY <1>1, Zenon DEF SentBuilt
  <2> QED  BY <2>1, Zenon DEF SentBuilt, Compound
<1>2. ASSUME NEW c, sent' = Append(sent, c), Said(c), Len(sent) < MaxCompounds
      PROVE  SentBuilt(R)'
  <2>1. IsSeq(sent)
    BY Zenon DEF Building
  <2>2. \A k \in 1 .. Len(sent') :
            (k \in 1 .. Len(sent) /\ sent'[k] = sent[k]) \/ sent'[k] = c
    BY <1>2, <2>1, SentMore, Zenon
  <2>3. c \in Foreign \/ Compound(c, ReportRoom(R)) \/ Compound(c, ByeRoom(R))
    BY <1>2, SaidBuilt, Zenon
  <2>4. \A k \in 1 .. Len(sent') :
            \/ sent'[k] \in Foreign
            \/ Compound(sent'[k], ReportRoom(R)) \/ Compound(sent'[k], ByeRoom(R))
    BY <2>2, <2>3, Zenon DEF SentBuilt
  <2> QED  BY <2>4, Zenon DEF SentBuilt, Compound
<1> QED  BY <1>1, <1>2, Sends, Zenon

\* Every compound that is no longer than the buffer of a control packet.
FittingReadBack ==
    \A k \in 1 .. Len(sent) :
        Len(sent[k].bytes) <= BufferLen => ReadsBack(sent[k])

\* Other implementations send lists of packets that mean what they say.
ForeignReadsBack == \A m \in Foreign : IsSeq(m.meant) /\ ReadsBack(m)

\* What is made of parts and fits is read back.
LEMMA SentBuiltReadBack ==
    ASSUME ForeignReadsBack, NEW R, SentBuilt(R)
    PROVE  FittingReadBack
<1> SUFFICES ASSUME NEW k \in 1 .. Len(sent), Len(sent[k].bytes) <= BufferLen
             PROVE  ReadsBack(sent[k])
  BY Zenon DEF FittingReadBack
<1> DEFINE c == sent[k]
<1>1. c \in Foreign \/ Parts(c.bytes, c.meant)
  BY Zenon DEF SentBuilt, Compound
<1>2. Len(c.bytes) <= BufferLen
  OBVIOUS
<1> HIDE DEF c
<1>3. ReadsBack(c)
  BY <1>1, <1>2, PartsReadBack, Zenon DEF ForeignReadsBack
<1> QED  BY <1>3, Zenon DEF c

\* A chunk has at most nine items of 255 bytes.
LEMMA ChunkLenBound == ShortTexts => ChunksWithin(2321)
<1> SUFFICES ASSUME ShortTexts, NEW f \in Nameable PROVE ChunkLen(f) <= 2321
  BY Zenon DEF ChunksWithin
<1>1. f \in Items
  BY NameableItems, Zenon
<1> DEFINE D == DOMAIN f
           size(y) == Size(f, D, y)
<1>2. \A y : size(y) \in Nat /\ size(y) <= 257
  <2> SUFFICES ASSUME NEW y PROVE size(y) \in Nat /\ size(y) <= 257
    OBVIOUS
  <2>1. y \in D => Len(f[y]) \in Nat /\ Len(f[y]) < 256
    BY <1>1, ItemTyped
  <2> QED  BY <2>1 DEF Size
<1>3. ItemsLen(f) = Sum(f, D)
  BY <1>1, ItemsLenIsSum, Zenon
<1>4. ItemsLen(f) = 4 + size(1) + size(2) + size(3) + size(4) + size(5)
                      + size(6) + size(7) + size(8) + size(9)
  BY <1>3, Zenon DEF Sum
<1> HIDE DEF size
<1>5. ItemsLen(f) \in Nat /\ ItemsLen(f) <= 2317
  BY <1>2, <1>4
<1>6. ChunkLen(f) \in Nat /\ ChunkLen(f) <= ItemsLen(f) + 4
  BY <1>1, ChunkLenValue, Zenon
<1> QED  BY <1>5, <1>6

\* Whatever the streams, their names, counters, statistics and the orders in
\* which the maps are walked: a compound that buildRtcpPkt, addSenderReport
\* or buildRtcpByePkt wrote and that is no longer than the buffer is read by
\* OnRecvCtrl's loop to its last byte, packet by packet as it was meant.
THEOREM CompoundsThatFitAreReadBack ==
    ASSUME ShortTexts, InTime, ForeignReadsBack
    PROVE  Spec => []FittingReadBack
<1> DEFINE R == 2321
           Inv == Building /\ SentBuilt(R)
<1>1. R \in Nat /\ ChunksWithin(R)
  BY ChunkLenBound
<1> HIDE DEF R
<1>2. Init => Inv
  <2> SUFFICES ASSUME Init PROVE Inv
    OBVIOUS
  <2>1. sent = <<>>
    BY Zenon DEF Init
  <2>2. SentBuilt(R)
    BY <2>1 DEF SentBuilt
  <2> QED  BY <2>2, BuildingInit, Zenon
<1>3. Inv /\ [Next]_vars => Inv'
  BY <1>1, BuildingStep, SentBuiltStep, Zenon
<1>4. Inv => FittingReadBack
  BY SentBuiltReadBack, Zenon
<1> QED  BY <1>2, <1>3, <1>4, PTL DEF Spec

-----------------------------------------------------------------------------
\* Both sessions.

\* Whatever bytes OnRecvCtrl is given, it can work with the packets it finds.
LEMMA BytesLegible ==
    ASSUME NEW b \in Seq(Byte)
    PROVE  LegibleBytes(b)
<1>1. 0 \in 0 .. BufferLen
  BY Buffer
<1> DEFINE w == Walk(b)
<1>2. w \in Walks(b)
  BY <1>1, WalkMoves, Zenon DEF Walk
<1> HIDE DEF w
<1> DEFINE xs == w.packets
           P == Readable(b)
<1>3. xs \in Seq(P)
  <2> HIDE DEF P
  <2>1. w \in [end : Nat, packets : Seq(P)]
    BY <1>2, Zenon DEF Walks, P
  <2> QED  BY <2>1
<1>4. ASSUME NEW p \in P PROVE Legible(p)
  BY <1>4, PacketLegible, Zenon DEF Readable
<1> HIDE DEF P, xs
<1>5. IsSeq(xs) /\ Range(xs) \subseteq P
  <2>1. Range(xs) \subseteq P
    BY <1>3 DEF Range
  <2> QED  BY <1>3, <2>1, Zenon DEF IsSeq
<1>6. IsSeq(xs) /\ \A p \in Range(xs) : Legible(p)
  BY <1>4, <1>5, Zenon
<1> QED  BY <1>6, Zenon DEF LegibleBytes, xs, w

\* All that is sent is bytes, which OnRecvCtrl can work with.
LEMMA SentBytes ==
    ASSUME NEW R, SentBuilt(R)
    PROVE  \A k \in 1 .. Len(sent) :
               sent[k].bytes \in Seq(Byte) /\ LegibleBytes(sent[k].bytes)
<1> SUFFICES ASSUME NEW k \in 1 .. Len(sent)
             PROVE  sent[k].bytes \in Seq(Byte) /\ LegibleBytes(sent[k].bytes)
  BY Zenon
<1>1. CASE sent[k] \in Foreign
  <2>1. sent[k].bytes \in Seq(Byte)
    BY <1>1, RtcpCompoundAssumption, Zenon DEF Byte
  <2> QED  BY <2>1, BytesLegible, Zenon
<1>2. CASE Compound(sent[k], ReportRoom(R)) \/ Compound(sent[k], ByeRoom(R))
  <2>1. sent[k].bytes \in Seq(Byte)
    BY <1>2, Zenon DEF Compound, Parts
  <2> QED  BY <2>1, BytesLegible, Zenon
<1> QED  BY <1>1, <1>2, Zenon DEF SentBuilt

\* The invariant of both sessions: streams in their states, compounds made of
\* parts, and nothing stored that was not read.
Sound(R) == Building /\ SentBuilt(R) /\ Reading

\* It holds when the sessions start,
LEMMA SoundInit ==
    ASSUME Init, NEW R
    PROVE  Sound(R)
<1>1. sent = <<>>
  BY Zenon DEF Init
<1>2. SentBuilt(R)
  BY <1>1 DEF SentBuilt
<1> QED  BY <1>2, BuildingInit, ReadingInit, Zenon DEF Sound

\* and every step keeps it.
LEMMA SoundStep ==
    ASSUME ShortTexts, InTime, NEW R \in Nat, ChunksWithin(R), Sound(R), [Next]_vars
    PROVE  Sound(R)'
<1>1. Building /\ SentBuilt(R) /\ Reading
  BY Zenon DEF Sound
<1>2. Building' /\ SentBuilt(R)'
  BY <1>1, BuildingStep, SentBuiltStep, Zenon
<1>3. Reading'
  BY <1>1, SentBytes, ReadingStep, Zenon
<1> QED  BY <1>2, <1>3, Zenon DEF Sound

\* A buffer with room for all that may be said at once has room for every
\* compound, which is read back.
LEMMA RoomyReadBack ==
    ASSUME ForeignReadsBack, NEW R \in Nat, ReportRoom(R) <= BufferLen,
           ByeRoom(R) <= BufferLen, SentBuilt(R)
    PROVE  \A k \in 1 .. Len(sent) : IsSeq(sent[k].meant) /\ ReadsBack(sent[k])
<1> SUFFICES ASSUME NEW k \in 1 .. Len(sent)
             PROVE  IsSeq(sent[k].meant) /\ ReadsBack(sent[k])
  BY Zenon
<1> DEFINE c == sent[k]
<1>1. CASE c \in Foreign
  BY <1>1, Zenon DEF ForeignReadsBack
<1>2. CASE Compound(c, ReportRoom(R)) \/ Compound(c, ByeRoom(R))
  <2>1. Parts(c.bytes, c.meant) /\ (Len(c.bytes) <= ReportRoom(R) \/ Len(c.bytes) <= ByeRoom(R))
    BY <1>2, Zenon DEF Compound
  <2> HIDE DEF c
  <2>2. c.bytes \in Seq(Byte)
    BY <2>1, Zenon DEF Parts
  <2>3. ReportRoom(R) \in Int /\ ByeRoom(R) \in Int /\ BufferLen \in Int
    <3>1. IsFiniteSet(OutStreams) /\ maxReports \in Nat /\ BufferLen \in Nat
      BY RtcpCompoundAssumption, Buffer
    <3>2. Cardinality(OutStreams) \in Nat
      BY <3>1, FS_CardinalityType
    <3>3. ReasonLen \in Nat
      BY ReasonLenValue
    <3> QED  BY <3>1, <3>2, <3>3 DEF ReportRoom, ByeRoom
  <2>4. Len(c.bytes) \in Nat
    BY <2>2
  <2>5. Len(c.bytes) <= BufferLen
    BY <2>1, <2>3, <2>4
  <2>6. IsSeq(c.meant) /\ ReadsBack(c)
    BY <2>1, <2>5, PartsReadBack, Zenon DEF Parts
  <2> QED  BY <2>6, Zenon DEF c
<1> QED  BY <1>1, <1>2, Zenon DEF SentBuilt

\* It has all types.
LEMMA SoundTypes ==
    ASSUME ShortTexts, NEW R, Sound(R)
    PROVE  TypeOK
<1>0. Building /\ SentBuilt(R) /\ Reading
  BY Zenon DEF Sound
<1>1. /\ out \in [OutStreams -> OutStates] /\ inp \in [InStreams -> InStatesAt(now)]
      /\ \A o \in OutStreams : out[o].packets <= calls
      /\ now \in Nat /\ StartClock <= now /\ now <= StartClock + Len(sent)
      /\ calls \in Nat /\ calls <= MaxCalls
      /\ IsSeq(sent) /\ Len(sent) \in Nat /\ Len(sent) <= MaxCompounds
  BY <1>0, Zenon DEF Building
<1>2. StartClock \in Nat /\ MaxCalls \in Nat /\ MaxCompounds \in Nat
  BY RtcpCompoundAssumption
<1>3. ASSUME NEW o \in OutStreams
      PROVE  /\ out[o].status \in {"active", "isClosing"}
             /\ out[o].sender \in BOOLEAN /\ out[o].packets \in 0 .. MaxCalls
             /\ DOMAIN out[o].SdesItems \subseteq ItemTypes
             /\ out[o].sdesChunkLen % 4 = 0
  <2> DEFINE s == out[o]
  <2>1. s \in OutStates /\ s.packets <= calls
    BY <1>1
  <2> HIDE DEF s
  <2>2. /\ s.status \in {"active", "isClosing"} /\ s.sender \in BOOLEAN
        /\ s.packets \in Nat /\ s.SdesItems \in Nameable
        /\ s.sdesChunkLen = ChunkLen(s.SdesItems)
    BY <2>1, OutState, Zenon
  <2>3. s.packets \in 0 .. MaxCalls
    BY <1>1, <1>2, <2>1, <2>2
  <2>4. DOMAIN s.SdesItems \subseteq ItemTypes
    BY <2>2 DEF Nameable
  <2>5. ChunkLen(s.SdesItems) % 4 = 0
    <3>1. s.SdesItems \in Items
      BY <2>2, NameableItems, Zenon
    <3> QED  BY <3>1, ChunkLenValue, Zenon
  <2>6. s.sdesChunkLen % 4 = 0
    BY <2>2, <2>5, Zenon
  <2> QED  BY <2>2, <2>3, <2>4, <2>6, Zenon DEF s
<1>4. ASSUME NEW i \in InStreams
      PROVE  /\ inp[i].data \in BOOLEAN /\ inp[i].sender \in BOOLEAN
             /\ inp[i].stats \in Receptions \cup {NoReception} /\ inp[i].srTime \in 0 .. now
  BY <1>1 DEF InStatesAt
<1>5. now \in StartClock .. StartClock + MaxCompounds /\ calls \in 0 .. MaxCalls
  BY <1>1, <1>2
<1>6. DOMAIN sent = 1 .. Len(sent)
  BY <1>1, ListMembers, Zenon
<1>7. \A k \in DOMAIN sent : sent[k].bytes \in Seq(Byte)
  BY <1>0, <1>6, SentBytes, Zenon
<1>8. /\ \A o \in DOMAIN streamsIn : streamsIn[o].status \in {"active", "isClosing"}
      /\ DOMAIN reports = InStreams
      /\ panicked \in BOOLEAN /\ orderly \in BOOLEAN
  BY <1>0, Zenon DEF Reading, Stores, StreamsRead, StreamRead, ReportsRead
<1>9. newest \in 0 .. Len(sent)
  BY <1>0, <1>1 DEF Reading
<1> QED  BY <1>3, <1>4, <1>5, <1>7, <1>8, <1>9, Zenon DEF TypeOK

\* When chunks have at most R bytes and the buffer has room for all that may
\* be said at once, every compound is read back.
THEOREM CompoundsAreReadBack ==
    ASSUME ShortTexts, InTime, ForeignReadsBack, NEW R \in Nat, ChunksWithin(R),
           ReportRoom(R) <= BufferLen, ByeRoom(R) <= BufferLen
    PROVE  Spec => []CompoundReadBack
<1>1. Init => Sound(R)
  BY SoundInit, Zenon
<1>2. Sound(R) /\ [Next]_vars => Sound(R)'
  BY SoundStep, Zenon
<1>3. Sound(R) => CompoundReadBack
  <2> SUFFICES ASSUME Building, SentBuilt(R), sent # <<>>
               PROVE  ReadsBack(sent[Len(sent)])
    BY Zenon DEF CompoundReadBack, Sound
  <2>1. Len(sent) \in 1 .. Len(sent)
    <3>1. PICK S : sent \in Seq(S)
      BY Zenon DEF Building, IsSeq
    <3> QED  BY <3>1
  <2> QED  BY <2>1, RoomyReadBack, Zenon
<1> QED  BY <1>1, <1>2, <1>3, PTL DEF Spec

\* TypeOK, for every session: whatever calls its applications make and
\* whatever compounds arrive, streams, statistics and clocks stay in their
\* types, every compound written is a sequence of bytes, and OnRecvCtrl
\* stores only streams in a known status.
THEOREM CompoundTyped ==
    ASSUME ShortTexts, InTime
    PROVE  Spec => []TypeOK
<1> DEFINE R == 2321
<1>1. R \in Nat /\ ChunksWithin(R)
  BY ChunkLenBound
<1> HIDE DEF R
<1>2. Init => Sound(R)
  BY SoundInit, Zenon
<1>3. Sound(R) /\ [Next]_vars => Sound(R)'
  BY <1>1, SoundStep, Zenon
<1>4. Sound(R) => TypeOK
  BY SoundTypes, Zenon
<1> QED  BY <1>2, <1>3, <1>4, PTL DEF Spec

\* All that is read of a compound was meant.
LEMMA HeardWasMeant ==
    ASSUME Building, \A k \in 1 .. Len(sent) : /\ IsSeq(sent[k].meant) /\ ReadsBack(sent[k])
                                              /\ LegibleBytes(sent[k].bytes)
    PROVE  \A p \in PacketsOf(sent, Len(sent)) : Legible(p) /\ \E k \in DOMAIN sent :
               \E q \in Range(sent[k].meant) : Agrees(p, q)
<1> SUFFICES ASSUME NEW p \in PacketsOf(sent, Len(sent))
             PROVE  Legible(p) /\ \E k \in DOMAIN sent :
                        \E q \in Range(sent[k].meant) : Agrees(p, q)
  BY Zenon
<1>1. PICK k \in 1 .. Len(sent) : p \in Range(Walk(sent[k].bytes).packets)
  BY Zenon DEF PacketsOf
<1>2. k \in DOMAIN sent
  BY <1>1, ListMembers, Zenon DEF Building
<1> DEFINE xs == Walk(sent[k].bytes).packets
           ms == sent[k].meant
<1>3. IsSeq(xs) /\ Legible(p)
  BY <1>1, Zenon DEF LegibleBytes
<1>4. IsSeq(ms) /\ Len(xs) = Len(ms) /\ \A n \in DOMAIN xs : Agrees(xs[n], ms[n])
  BY Zenon DEF ReadsBack
<1>5. PICK i \in 1 .. Len(xs) : p = xs[i]
  BY <1>1, <1>3, ListMembers, Zenon
<1> HIDE DEF xs, ms
<1>6. i \in DOMAIN xs
  BY <1>3, <1>5, ListMembers, Zenon
<1>7. Agrees(p, ms[i])
  BY <1>4, <1>5, <1>6, Zenon
<1>8. ms[i] \in Range(ms)
  BY <1>4, <1>5, ListMembers, Zenon
<1> QED  BY <1>2, <1>3, <1>7, <1>8, Zenon DEF ms

\* HoldsWhatWasSaid, for every session: when the buffer has room for what may
\* be said at once, what OnRecvCtrl stores of a stream (its SDES items, its
\* sender info, its closing) and of the reports on one was said by a compound
\* that was sent, whatever was lost, repeated or read out of order.
THEOREM StoredAsSaid ==
    ASSUME ShortTexts, InTime, ForeignReadsBack, NEW R \in Nat, ChunksWithin(R),
           ReportRoom(R) <= BufferLen, ByeRoom(R) <= BufferLen
    PROVE  Spec => []HoldsWhatWasSaid
<1>1. Init => Sound(R)
  BY SoundInit, Zenon
<1>2. Sound(R) /\ [Next]_vars => Sound(R)'
  BY SoundStep, Zenon
<1>3. Sound(R) => HoldsWhatWasSaid
  <2> SUFFICES ASSUME Building, SentBuilt(R), Reading PROVE HoldsWhatWasSaid
    BY Zenon DEF Sound
  <2>1. \A k \in 1 .. Len(sent) : /\ IsSeq(sent[k].meant) /\ ReadsBack(sent[k])
                                  /\ LegibleBytes(sent[k].bytes)
    BY RoomyReadBack, SentBytes, Zenon
  <2> QED  BY <2>1, HeardWasMeant, StoredWasSaid, Zenon DEF Reading
<1> QED  BY <1>1, <1>2, <1>3, PTL DEF Spec

\* OrderlyNeverPanics, for every session: under the same conditions, if no
\* stream is closed twice, other implementations (with SSRCs in F, none of
\* OutStreams) do not leave, and the limit of input streams leaves room for
\* all of them, then OnRecvCtrl never uses the nil stream of a rejected
\* sender while compounds are read in the order in which they were sent.
THEOREM InOrderWithoutPanic ==
    ASSUME ShortTexts, InTime, ForeignReadsBack, NEW R \in Nat, ChunksWithin(R),
           ReportRoom(R) <= BufferLen, ByeRoom(R) <= BufferLen,
           ~ClosesTwice, NEW F, IsFiniteSet(F), F \cap OutStreams = {}, ForeignStays(F),
           Cardinality(OutStreams \cup F) <= MaxNumberInStreams + 1
    PROVE  Spec => []OrderlyNeverPanics
<1> DEFINE A == OutStreams \cup F
           Inv == Sound(R) /\ Parted(A) /\ InOrder
<1>1. IsFiniteSet(A)
  BY RtcpCompoundAssumption, FS_Union, Zenon
<1>2. Init => Inv
  <2> SUFFICES ASSUME Init PROVE Inv
    OBVIOUS
  <2>1. sent = <<>>
    BY Zenon DEF Init
  <2>2. 1 .. Len(sent) = {}
    BY <2>1
  <2>3. Parted(A)
    BY <2>2, Zenon DEF Parted
  <2> QED  BY <2>3, SoundInit, InOrderInit, Zenon
<1>3. Inv /\ [Next]_vars => Inv'
  <2> SUFFICES ASSUME Building, SentBuilt(R), Reading, Parted(A), InOrder, [Next]_vars
               PROVE  Inv'
    BY Zenon DEF Sound
  <2>1. Sound(R)'
    BY SoundStep, Zenon DEF Sound
  <2>2. Parted(A)'
    BY PartedStep, Zenon
  <2>3. \A k \in 1 .. Len(sent) : ReadsBack(sent[k]) /\ LegibleBytes(sent[k].bytes)
    BY RoomyReadBack, SentBytes, Zenon
  <2>4. HeardParted(A)
    BY <2>3, ReadBackParted, Zenon
  <2>5. \A k \in 1 .. Len(sent) : LegibleBytes(sent[k].bytes)
    BY <2>3, Zenon
  <2>6. InOrder'
    BY <1>1, <2>4, <2>5, InOrderStep, Zenon
  <2> QED  BY <2>1, <2>2, <2>6, Zenon
<1>4. Inv => OrderlyNeverPanics
  BY Zenon DEF InOrder, OrderlyNeverPanics
<1> QED  BY <1>2, <1>3, <1>4, PTL DEF Spec
=============================================================================
