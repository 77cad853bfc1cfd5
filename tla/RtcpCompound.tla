---------------------------- MODULE RtcpCompound ----------------------------
(***************************************************************************)
(* RTCP compounds, from the session that builds them to the session that   *)
(* reads them (sessionlocal.go buildRtcpPkt and its helpers, stream.go;    *)
(* session.go OnRecvCtrl).  One session has the output streams OutStreams  *)
(* and hears the streams InStreams of the other.  Compounds travel by UDP: *)
(* any compound ever sent may arrive, late, again or never.                *)
(***************************************************************************)
EXTENDS RtcpPackets

CONSTANTS
    OutStreams,          \* SSRCs of the building session's output streams
    InStreams,           \* SSRCs of its input streams
    ItemTypes, Texts,    \* what applications pass to SetSdesItem
    defaultCname,        \* the name a new stream has
    Receptions,          \* statistics an input stream may have
    maxReports,          \* report blocks in a compound: 31
    MaxNumberInStreams,
    ClosesTwice,         \* TRUE: streams may be closed while they close
    Foreign,             \* compounds of other implementations
    StartClock,          \* the time at which the session starts
    MaxCalls, MaxCompounds   \* bounds of the instance

ASSUME RtcpCompoundAssumption ==
    /\ OutStreams \cap InStreams = {} /\ OutStreams \cup InStreams \subseteq Uint32s
    /\ IsFiniteSet(OutStreams) /\ IsFiniteSet(InStreams)
    /\ ItemTypes \subseteq 1 .. 9 /\ 1 \in ItemTypes
    /\ Texts \cup {defaultCname} \subseteq Seq(0 .. 255)
    /\ \A x \in Receptions : x \in [lost : Nat, frac : 0 .. 255,
                                    highest : Uint32s, jitter : Uint32s]
    /\ {StartClock, MaxCalls, MaxCompounds, MaxNumberInStreams} \subseteq Nat
    /\ maxReports \in 1 .. 31
    /\ ClosesTwice \in BOOLEAN
    /\ \A m \in Foreign : m.bytes \in Seq(0 .. 255)

VARIABLES
    out,        \* output streams of the building session
    inp,        \* its input streams
    now,        \* its clock
    calls,      \* number of calls that changed its streams
    sent,       \* every compound sent: its bytes and what they mean
    streamsIn,  \* input streams of the reading session, by SSRC
    reports,    \* RecvReportData of its output streams
    events,     \* the last slice of control events for its application
    panicked,   \* OnRecvCtrl used the nil stream of a rejected packet
    newest, orderly   \* latest compound read; none was read out of order

vars == <<out, inp, now, calls, sent, streamsIn, reports, events, panicked,
          newest, orderly>>

-----------------------------------------------------------------------------
\* The parts of a compound.

SdesChunk(o, items, order) ==
    LET said == ItemsWritten(o, items, order)[Len(order)]
    IN  said \o Repeat(0, out[o].sdesChunkLen - Len(said))

Sdes(o, order) ==
    IF out[o].sdesChunkLen = 0 THEN <<>>
    ELSE Header(RtcpSdes, 1, 4 + out[o].sdesChunkLen)
         \o SdesChunk(o, out[o].SdesItems, order[o])

SdesMeans(o) ==
    IF out[o].sdesChunkLen = 0 THEN <<>>
    ELSE <<[type |-> RtcpSdes,
            chunks |-> <<[ssrc |-> o, items |-> out[o].SdesItems]>>]>>

\* The first packets of a compound: SR or RR with the blocks of the input
\* streams in ins, then the SDES of the stream.  s is the stream after the
\* sender timeout.
buildRtcpPkt(o, s, ins, t, order) ==
    LET first == IF s.sender THEN SenderReport(o, s, Len(ins), t)
                             ELSE ReceiverReport(o, Len(ins))
    IN  [bytes |-> first \o RecvReports(inp, ins, t) \o Sdes(o, order),
         meant |-> <<FirstMeans(o, s, inp, ins, t)>> \o SdesMeans(o)]

\* The other sending streams add an SR without blocks, if the buffer has
\* room by the code's estimate.
HasRoom(b, o) == Len(b) + out[o].sdesChunkLen + 8 <= BufferLen

addSenderReport(c, o, t, order) ==
    IF HasRoom(c.bytes, o)
    THEN [bytes |-> c.bytes \o SenderReport(o, out[o], 0, t) \o Sdes(o, order),
          meant |-> c.meant \o <<SrMeans(o, out[o], inp, <<>>, t)>> \o SdesMeans(o)]
    ELSE c

\* The compound of a report interval in which the streams sending are found
\* in this order.
SendersCompound(sending, ins, t, order) ==
    LET compound[k \in 1 .. Len(sending)] ==
            IF k = 1 THEN buildRtcpPkt(sending[1], out[sending[1]], ins, t, order)
            ELSE addSenderReport(compound[k - 1], sending[k], t, order)
    IN  compound[Len(sending)]

buildRtcpByePkt(o, t, order) ==
    LET c == buildRtcpPkt(o, out[o], <<>>, t, order)
    IN  [bytes |-> c.bytes \o Bye(o), meant |-> Append(c.meant, ByeMeans(o))]

-----------------------------------------------------------------------------
\* What OnRecvCtrl does with each packet.  r is the reading session.

Rejected(r, ssrc) ==
    IF ssrc \in DOMAIN r.streamsIn
    THEN r.streamsIn[ssrc].status # "active"
    ELSE Cardinality(DOMAIN r.streamsIn) > MaxNumberInStreams

NoReception == [lost |-> 0, frac |-> 0, highest |-> 0, jitter |-> 0]

NewStream == [status |-> "active", items |-> <<>>, info |-> <<>>]

Event(type, ssrc, reason) == [type |-> type, ssrc |-> ssrc, reason |-> reason]

\* rtcpSenderCheck creates the stream of a new SSRC; SR and RR tell the
\* application.
KnowSender(r, p) ==
    IF p.ssrc \in DOMAIN r.streamsIn THEN r
    ELSE [r EXCEPT !.streamsIn = Put(@, p.ssrc, NewStream),
                   !.events = IF p.type \in {RtcpSR, RtcpRR}
                              THEN Append(@, Event("NewStreamCtrl", p.ssrc, <<>>))
                              ELSE @]

ReadInfo(r, p) ==
    [r EXCEPT !.streamsIn[p.ssrc].info = <<p.time, p.stamp, p.packets, p.octets>>,
              !.events = Append(@, Event(RtcpSR, p.ssrc, <<>>))]

ReadBlock(r, block) ==
    IF block.ssrc \in DOMAIN r.reports
    THEN [r EXCEPT !.reports[block.ssrc] = block,
                   !.events = Append(@, Event(RtcpRR, block.ssrc, <<>>))]
    ELSE r

\* ReadItems is processSdesChunk; ItemsOfAnyone gives the items to every
\* stream.
ItemsOfAnyone(r, chunk) ==
    LET streams == r.streamsIn
        told(str) == [str EXCEPT !.items = Merged(chunk.items, @)]
    IN  [r EXCEPT !.streamsIn = [o \in DOMAIN streams |-> told(streams[o])],
                  !.events = Append(@, Event(RtcpSdes, chunk.ssrc, <<>>))]

ReadItems(r, chunk) ==
    LET streams == r.streamsIn
        told(str) == [str EXCEPT !.items = Merged(chunk.items, @)]
    IN  [r EXCEPT !.streamsIn = [o \in DOMAIN streams |->
                      IF o = chunk.ssrc THEN told(streams[o]) ELSE streams[o]],
                  !.events = Append(@, Event(RtcpSdes, chunk.ssrc, <<>>))]

\* The loops over the report blocks and over the chunks of a packet.
ReadBlocks(r, blocks) ==
    LET read[k \in 0 .. Len(blocks)] ==
            IF k = 0 THEN r ELSE ReadBlock(read[k - 1], blocks[k])
    IN  read[Len(blocks)]

ReadChunks(r, chunks) ==
    LET read[k \in 0 .. Len(chunks)] ==
            IF k = 0 THEN r ELSE ReadItems(read[k - 1], chunks[k])
    IN  read[Len(chunks)]

ReadBye(r, p) ==
    IF p.ssrc \in DOMAIN r.streamsIn
    THEN [r EXCEPT !.streamsIn[p.ssrc].status = "isClosing",
                   !.events = Append(@, Event(RtcpBye, p.ssrc, p.reason))]
    ELSE r

ReadPacket(r, p) ==
    CASE r.nil -> r
      [] ~r.nil /\ p.type \in {RtcpSR, RtcpRR, RtcpRtpfb, RtcpPsfb} ->
           IF Rejected(r, p.ssrc) THEN [r EXCEPT !.nil = TRUE]
           ELSE LET k == KnowSender(r, p)
                IN  IF p.type = RtcpSR THEN ReadBlocks(ReadInfo(k, p), p.blocks)
                    ELSE IF p.type = RtcpRR THEN ReadBlocks(k, p.blocks)
                    ELSE [k EXCEPT !.events =
                             Append(@, Event(p.type, p.ssrc, p.reason))]
      [] ~r.nil /\ p.type = RtcpSdes -> ReadChunks(r, p.chunks)
      [] ~r.nil /\ p.type = RtcpBye -> ReadBye(r, p)
      [] OTHER -> r

ReadPackets(r, packets) ==
    LET read[k \in 0 .. Len(packets)] ==
            IF k = 0 THEN r ELSE ReadPacket(read[k - 1], packets[k])
    IN  read[Len(packets)]

-----------------------------------------------------------------------------
DefaultItems == Put(<<>>, SdesCname, defaultCname)

Init ==
    /\ out = [o \in OutStreams |-> [status |-> "active", sender |-> FALSE,
                                    packets |-> 0, SdesItems |-> DefaultItems,
                                    sdesChunkLen |-> ChunkLen(DefaultItems)]]
    /\ inp = [i \in InStreams |-> [data |-> FALSE, sender |-> FALSE,
                                   srTime |-> 0, stats |-> NoReception]]
    /\ now = StartClock
    /\ calls = 0
    /\ sent = <<>>
    /\ streamsIn = <<>>
    /\ reports = [i \in InStreams |-> <<>>]
    /\ events = <<>>
    /\ panicked = FALSE
    /\ newest = 0
    /\ orderly = TRUE

building == <<out, inp, now, calls, sent>>
reading == <<streamsIn, reports, events, panicked, newest, orderly>>

Call ==
    /\ calls < MaxCalls /\ Len(sent) < MaxCompounds
    /\ calls' = calls + 1

\* The application names a stream.
SetSdesItem(o, type, text) ==
    LET items == Put(out[o].SdesItems, type, text)
    IN  /\ Call
        /\ items # out[o].SdesItems
        /\ out' = [out EXCEPT ![o].SdesItems = items,
                              ![o].sdesChunkLen = ChunkLen(items)]
        /\ UNCHANGED <<inp, now, sent, reading>>

\* The application sends a data packet.
WriteData(o) ==
    /\ out[o].status = "active"
    /\ Call
    /\ out' = [out EXCEPT ![o].packets = @ + 1, ![o].sender = TRUE]
    /\ UNCHANGED <<inp, now, sent, reading>>

\* A data packet of input stream i arrives and changes its statistics.
ReceiveData(i) ==
    /\ Call
    /\ \E x \in Receptions :
           inp' = [inp EXCEPT ![i].data = TRUE, ![i].sender = TRUE, ![i].stats = x]
    /\ UNCHANGED <<out, now, sent, reading>>

\* A sender report of input stream i arrives.
ReceiveSr(i) ==
    /\ Call
    /\ inp' = [inp EXCEPT ![i].srTime = now]
    /\ UNCHANGED <<out, now, sent, reading>>

Write(c) == sent' = Append(sent, c)

\* Time passes between compounds.
Later == {now + 1}

Senders ==
    {o \in OutStreams : out[o].sender} \cup {i \in InStreams : inp[i].sender}

\* An order for the SDES items of each stream.
ItemOrders ==
    {f \in [OutStreams -> UNION {Orders(S) : S \in SUBSET ItemTypes}] :
        \A o \in OutStreams : f[o] \in Orders(DOMAIN out[o].SdesItems)}

\* The orders in which a report interval may find the input streams to
\* report on: as many as sent data while they counted as senders.
ToReport ==
    LET with == {i \in InStreams : inp[i].data}
        counted == {i \in with : inp[i].sender}
        limit == IF Cardinality(counted) < maxReports
                 THEN Cardinality(counted) ELSE maxReports
    IN  UNION {Orders(S) : S \in {T \in SUBSET with : Cardinality(T) = limit}}

\* buildRtcpPkt resets the flag of the streams it reports.  ClearAll resets
\* the ones over the limit too.
ClearAll(ins, idle) ==
    [i \in InStreams |-> [inp[i] EXCEPT !.data = FALSE,
                                        !.sender = @ /\ i \notin idle]]

AfterReport(ins, idle) ==
    [i \in InStreams |-> [inp[i] EXCEPT !.data = @ /\ i \notin Range(ins),
                                        !.sender = @ /\ i \notin idle]]

\* A report interval of rtcpService at time t.  The streams in idle have not
\* sent for two intervals; maps are walked in any order.  Without a sending
\* stream one of the active ones, the last that was found, reports.
rtcpService ==
    \E t \in Later, idle \in SUBSET Senders, order \in ItemOrders, ins \in ToReport :
        LET active == {o \in OutStreams : out[o].status = "active"}
            sending == {o \in active : out[o].sender /\ o \notin idle}
        IN  /\ Len(sent) < MaxCompounds
            /\ out' = [o \in OutStreams |->
                          [out[o] EXCEPT !.sender = @ /\ o \notin idle \cap active]]
            /\ \/ /\ active = {}
                  /\ inp' = [i \in InStreams |->
                                [inp[i] EXCEPT !.sender = @ /\ i \notin idle]]
                  /\ UNCHANGED <<now, sent>>
               \/ /\ active # {} /\ now' = t
                  /\ inp' = AfterReport(ins, idle)
                  /\ \/ \E found \in Orders(sending) :
                           /\ sending # {}
                           /\ Write(SendersCompound(found, ins, t, order))
                     \/ \E o \in active :
                           /\ sending = {}
                           /\ Write(buildRtcpPkt(o, [out[o] EXCEPT !.sender = FALSE],
                                                 ins, t, order))
            /\ UNCHANGED <<calls, reading>>

\* SsrcStreamCloseForIndex sends SR or RR, SDES and BYE and marks the stream.
\* CloseUnmarked leaves it active.
SendBye(o) ==
    \E t \in Later, order \in ItemOrders :
        /\ Len(sent) < MaxCompounds
        /\ now' = t
        /\ Write(buildRtcpByePkt(o, t, order))

CloseUnmarked(o) ==
    /\ ClosesTwice \/ out[o].status = "active"
    /\ SendBye(o)
    /\ UNCHANGED <<out, inp, calls, reading>>

SsrcStreamClose(o) ==
    /\ ClosesTwice \/ out[o].status = "active"
    /\ SendBye(o)
    /\ out' = [out EXCEPT ![o].status = "isClosing"]
    /\ UNCHANGED <<inp, calls, reading>>

\* Another implementation sends a compound to the reading session.
OtherSends ==
    /\ Len(sent) < MaxCompounds
    /\ \E m \in Foreign : Write(m)
    /\ UNCHANGED <<out, inp, now, calls, reading>>

\* A compound arrives.  Building does not look at the reading session, and a
\* compound may be lost: nothing is left out by reading when all are sent.
OnRecvCtrl(k) ==
    LET b == sent[k].bytes
        walk == Walk(b)
        r == ReadPackets([streamsIn |-> streamsIn, reports |-> reports,
                          events |-> <<>>, nil |-> FALSE], walk.packets)
    IN  /\ ~panicked
        /\ Len(sent) = MaxCompounds
        /\ newest' = k
        /\ orderly' = (orderly /\ k > newest)
        /\ IF At(b, 1) \in {RtcpSR, RtcpRR, RtcpPsfb, RtcpRtpfb}
           THEN /\ streamsIn' = r.streamsIn
                /\ reports' = r.reports
                /\ panicked' = r.nil
                /\ events' = IF r.nil \/ walk.end < Len(b) THEN events ELSE r.events
           ELSE UNCHANGED <<streamsIn, reports, panicked, events>>
        /\ UNCHANGED building

Next ==
    \/ \E o \in OutStreams, type \in ItemTypes, text \in Texts :
           SetSdesItem(o, type, text)
    \/ \E o \in OutStreams : WriteData(o) \/ SsrcStreamClose(o)
    \/ \E i \in InStreams : ReceiveData(i) \/ ReceiveSr(i)
    \/ rtcpService
    \/ OtherSends
    \/ \E k \in DOMAIN sent : OnRecvCtrl(k)

Spec == Init /\ [][Next]_vars

-----------------------------------------------------------------------------
\* Streams, statistics and compounds have their types; every byte is one.
TypeOK ==
    /\ \A o \in OutStreams :
          /\ out[o].status \in {"active", "isClosing"}
          /\ out[o].sender \in BOOLEAN /\ out[o].packets \in 0 .. MaxCalls
          /\ DOMAIN out[o].SdesItems \subseteq ItemTypes
          /\ out[o].sdesChunkLen % 4 = 0
    /\ \A i \in InStreams :
          /\ inp[i].data \in BOOLEAN /\ inp[i].sender \in BOOLEAN
          /\ inp[i].stats \in Receptions \cup {NoReception} /\ inp[i].srTime \in 0 .. now
    /\ now \in StartClock .. StartClock + MaxCompounds /\ calls \in 0 .. MaxCalls
    /\ \A k \in DOMAIN sent : sent[k].bytes \in Seq(Byte)
    /\ \A o \in DOMAIN streamsIn : streamsIn[o].status \in {"active", "isClosing"}
    /\ DOMAIN reports = InStreams
    /\ panicked \in BOOLEAN /\ orderly \in BOOLEAN /\ newest \in 0 .. Len(sent)

\* Whatever the streams, names, counters and map orders, OnRecvCtrl's loop
\* over a compound of this stack (or a well-formed one of another) ends at
\* its last byte and finds the packets, report blocks, SDES items and reason
\* that buildRtcpPkt, addSenderReport and buildRtcpByePkt put in.
CompoundReadBack == sent # <<>> => ReadsBack(sent[Len(sent)])

\* What OnRecvCtrl stores for a stream was said of that stream: its SDES
\* items, its packet count, its closing and the report on it are those of
\* some compound sent, in whatever order compounds are read.
HoldsWhatWasSaid ==
    LET said == UNION {Range(sent[k].meant) : k \in DOMAIN sent}
        chunks == UNION {Range(p.chunks) : p \in {q \in said : q.type = RtcpSdes}}
        blocks == UNION {Range(p.blocks) : p \in {q \in said : q.type \in {RtcpSR, RtcpRR}}}
    IN  /\ \A o \in DOMAIN streamsIn :
              LET str == streamsIn[o]
              IN  /\ \A y \in DOMAIN str.items : \E c \in chunks :
                        /\ c.ssrc = o /\ y \in DOMAIN c.items
                        /\ c.items[y] = str.items[y]
                  /\ str.info # <<>> => \E p \in said :
                        /\ p.type = RtcpSR /\ p.ssrc = o
                        /\ <<p.stamp, p.packets, p.octets>> = Tail(str.info)
                  /\ str.status = "isClosing" =>
                        \E p \in said : p.type = RtcpBye /\ p.ssrc = o
        /\ \A i \in InStreams : reports[i] # <<>> => \E c \in blocks :
              /\ c.ssrc = i /\ c.highest = reports[i].highest
              /\ c.frac = reports[i].frac /\ c.jitter = reports[i].jitter

\* buildRtcpPkt gives up dataAfterLastReport only for a stream whose block,
\* with its statistics of that moment, is in a compound that is sent: no
\* reception is forgotten because of the limit of 31 blocks.
ClearedMeansReported ==
    [][\A i \in InStreams : inp[i].data /\ ~inp'[i].data =>
           /\ Len(sent') > Len(sent)
           /\ \E k \in DOMAIN sent'[Len(sent')].meant[1].blocks :
                  LET block == sent'[Len(sent')].meant[1].blocks[k]
                  IN  block.ssrc = i /\ block.highest = inp[i].stats.highest
      ]_vars

\* Read in the order they were sent, each at most once and with any losses,
\* the compounds never make OnRecvCtrl use the nil stream of a rejected
\* sender: the BYE of a stream is the last that is heard of it.
OrderlyNeverPanics == panicked => ~orderly
=============================================================================
