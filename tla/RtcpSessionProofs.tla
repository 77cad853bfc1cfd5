------------------------- MODULE RtcpSessionProofs -------------------------
(***************************************************************************)
(* Proofs about the sessions of RtcpCompound, for any streams, names,      *)
(* texts, statistics and limits: what the building session keeps of its    *)
(* streams, says of what it heard and says goodbye to, and what the        *)
(* reading session stores of the packets it finds.                         *)
(***************************************************************************)
EXTENDS RtcpCompound, FiniteSetTheorems, TLAPS

-----------------------------------------------------------------------------
\* The state of the building session.

\* The items that applications can give a stream, and the states of streams.
Nameable ==
    {f \in UNION {[D -> Texts \cup {defaultCname}] : D \in SUBSET ItemTypes} :
        DOMAIN f # {}}

OutStates ==
    {s \in [status : {"active", "isClosing"}, sender : BOOLEAN, packets : Nat,
            SdesItems : Nameable, sdesChunkLen : {ChunkLen(f) : f \in Nameable}] :
        s.sdesChunkLen = ChunkLen(s.SdesItems)}

InStatesAt(t) ==
    [data : BOOLEAN, sender : BOOLEAN, srTime : 0 .. t,
     stats : Receptions \cup {NoReception}]

Building ==
    /\ out \in [OutStreams -> OutStates]
    /\ \A o \in OutStreams : out[o].packets <= calls
    /\ inp \in [InStreams -> InStatesAt(now)]
    /\ now \in Nat /\ StartClock <= now /\ now <= StartClock + Len(sent)
    /\ calls \in Nat /\ calls <= MaxCalls
    /\ IsSeq(sent) /\ Len(sent) \in Nat /\ Len(sent) <= MaxCompounds

\* One item more is nameable.
LEMMA PutNameable ==
    ASSUME NEW f \in Nameable, NEW y \in ItemTypes, NEW text \in Texts
    PROVE  Put(f, y, text) \in Nameable
<1> DEFINE T == Texts \cup {defaultCname}
           E == DOMAIN f \cup {y}
           g == Put(f, y, text)
<1>1. DOMAIN f \in SUBSET ItemTypes /\ \A k \in DOMAIN f : f[k] \in T
  BY DEF Nameable
<1>2. g = [k \in E |-> IF k = y THEN text ELSE f[k]]
  BY Zenon DEF Put
<1>3. \A k \in E : (IF k = y THEN text ELSE f[k]) \in T
  BY <1>1
<1> HIDE DEF T
<1>4. g \in [E -> T] /\ DOMAIN g = E
  BY <1>2, <1>3
<1>5. E \in SUBSET ItemTypes /\ E # {}
  BY <1>1
<1> HIDE DEF E, g
<1> QED  BY <1>4, <1>5 DEF Nameable, T, g

\* The default name is nameable.
LEMMA DefaultNameable == DefaultItems \in Nameable
<1> DEFINE T == Texts \cup {defaultCname}
           g == DefaultItems
<1>1. g = [k \in DOMAIN <<>> \cup {SdesCname} |->
              IF k = SdesCname THEN defaultCname ELSE <<>>[k]]
  BY Zenon DEF DefaultItems, Put
<1>2. DOMAIN g = {SdesCname} /\ g \in [{SdesCname} -> T]
  BY <1>1
<1>3. {SdesCname} \in SUBSET ItemTypes
  BY RtcpCompoundAssumption DEF SdesCname
<1> HIDE DEF g, T
<1> QED  BY <1>2, <1>3 DEF Nameable, T, g

\* A list of compounds after one more.
LEMMA OneMore ==
    ASSUME NEW s, IsSeq(s), NEW c
    PROVE  /\ IsSeq(Append(s, c)) /\ Len(s) \in Nat /\ Len(Append(s, c)) = Len(s) + 1
           /\ \A k \in 1 .. Len(s) : Append(s, c)[k] = s[k]
           /\ Append(s, c)[Len(s) + 1] = c
<1>1. PICK S : s \in Seq(S)
  BY DEF IsSeq
<1> DEFINE T == S \cup {c}
<1>2. s \in Seq(T) /\ c \in T
  BY <1>1
<1> HIDE DEF T
<1>3. Append(s, c) \in Seq(T)
  BY <1>2
<1>4. IsSeq(Append(s, c))
  BY <1>3, Zenon DEF IsSeq
<1> QED  BY <1>2, <1>4

\* A stream starts in one of the states.
LEMMA BuildingInit ==
    ASSUME Init
    PROVE  Building
<1>1. /\ out = [o \in OutStreams |-> [status |-> "active", sender |-> FALSE,
                   packets |-> 0, SdesItems |-> DefaultItems,
                   sdesChunkLen |-> ChunkLen(DefaultItems)]]
      /\ inp = [i \in InStreams |-> [data |-> FALSE, sender |-> FALSE,
                                     srTime |-> 0, stats |-> NoReception]]
      /\ now = StartClock /\ calls = 0 /\ sent = <<>>
  BY Zenon DEF Init
<1>2. StartClock \in Nat /\ MaxCalls \in Nat /\ MaxCompounds \in Nat
  BY RtcpCompoundAssumption
<1> DEFINE s == [status |-> "active", sender |-> FALSE, packets |-> 0,
                 SdesItems |-> DefaultItems, sdesChunkLen |-> ChunkLen(DefaultItems)]
<1>3. s \in OutStates
  <2>1. ChunkLen(DefaultItems) \in {ChunkLen(f) : f \in Nameable}
    BY DefaultNameable, Zenon
  <2> QED  BY <2>1, DefaultNameable DEF OutStates
<1>4. s.packets = 0
  OBVIOUS
<1> HIDE DEF s
<1>5. out \in [OutStreams -> OutStates] /\ \A o \in OutStreams : out[o].packets <= calls
  BY <1>1, <1>3, <1>4 DEF s
<1>6. inp \in [InStreams -> InStatesAt(now)]
  BY <1>1, <1>2 DEF InStatesAt
<1>7. IsSeq(sent) /\ Len(sent) = 0
  <2>1. sent \in Seq({}) /\ Len(sent) = 0
    BY <1>1
  <2> QED  BY <2>1, Zenon DEF IsSeq
<1>8. /\ now \in Nat /\ StartClock <= now /\ now <= StartClock + Len(sent)
      /\ calls \in Nat /\ calls <= MaxCalls /\ Len(sent) \in Nat /\ Len(sent) <= MaxCompounds
  BY <1>1, <1>2, <1>7
<1> QED  BY <1>5, <1>6, <1>7, <1>8 DEF Building

\* What an output stream's state is made of.
LEMMA OutState ==
    ASSUME NEW s \in OutStates
    PROVE  /\ s = [status |-> s.status, sender |-> s.sender, packets |-> s.packets,
                   SdesItems |-> s.SdesItems, sdesChunkLen |-> s.sdesChunkLen]
           /\ s.status \in {"active", "isClosing"} /\ s.sender \in BOOLEAN
           /\ s.packets \in Nat /\ s.SdesItems \in Nameable
           /\ s.sdesChunkLen = ChunkLen(s.SdesItems)
BY DEF OutStates

\* A stream that is named, that sends, that stops sending or that closes is
\* in one of the states.
LEMMA StreamNamed ==
    ASSUME NEW s \in OutStates, NEW f \in Nameable
    PROVE  /\ [s EXCEPT !.SdesItems = f, !.sdesChunkLen = ChunkLen(f)] \in OutStates
           /\ [s EXCEPT !.SdesItems = f, !.sdesChunkLen = ChunkLen(f)].packets = s.packets
<1>1. ChunkLen(f) \in {ChunkLen(g) : g \in Nameable}
  BY Zenon
<1> QED  BY <1>1 DEF OutStates

\* A stream that wrote data is a sender with the new packet count.
LEMMA StreamSends ==
    ASSUME NEW s \in OutStates, NEW m \in Nat
    PROVE  /\ [s EXCEPT !.packets = m, !.sender = TRUE] \in OutStates
           /\ [s EXCEPT !.packets = m, !.sender = TRUE].packets = m
BY DEF OutStates

\* A pass of the service may only change the sender flag of an output stream.
LEMMA StreamStops ==
    ASSUME NEW s \in OutStates, NEW b \in BOOLEAN
    PROVE  /\ [s EXCEPT !.sender = b] \in OutStates
           /\ [s EXCEPT !.sender = b].packets = s.packets
           /\ [s EXCEPT !.sender = b].status = s.status
BY DEF OutStates

\* Closing changes the status of a stream only.
LEMMA StreamCloses ==
    ASSUME NEW s \in OutStates
    PROVE  /\ [s EXCEPT !.status = "isClosing"] \in OutStates
           /\ [s EXCEPT !.status = "isClosing"].packets = s.packets
           /\ [s EXCEPT !.status = "isClosing"].status = "isClosing"
BY DEF OutStates

\* Input streams stay in their states while time passes.
LEMMA InStatesLater ==
    ASSUME NEW t \in Nat, NEW u \in Nat, t <= u, NEW s \in InStatesAt(t)
    PROVE  s \in InStatesAt(u)
BY DEF InStatesAt

\* A call of the application or of a transport changes one stream.
LEMMA CallStep ==
    ASSUME Building, Call, UNCHANGED <<now, sent>>,
           out' \in [OutStreams -> OutStates],
           \A o \in OutStreams : out'[o].packets <= out[o].packets + 1,
           inp' \in [InStreams -> InStatesAt(now)]
    PROVE  Building'
<1>1. calls' = calls + 1 /\ calls < MaxCalls
  BY DEF Call
<1>2. MaxCalls \in Nat
  BY RtcpCompoundAssumption
<1>3. ASSUME NEW o \in OutStreams PROVE out'[o].packets <= calls'
  <2>1. out[o] \in OutStates /\ out'[o] \in OutStates /\ out[o].packets <= calls
        /\ calls \in Nat
    BY DEF Building
  <2>2. out[o].packets \in Nat /\ out'[o].packets \in Nat
    BY <2>1, OutState
  <2> DEFINE a == out[o].packets
             b == out'[o].packets
  <2>3. b <= a + 1 /\ a <= calls
    BY <2>1
  <2> HIDE DEF a, b
  <2>4. b <= calls'
    BY <1>1, <2>1, <2>2, <2>3 DEF a, b
  <2> QED  BY <2>4 DEF b
<1>4. calls' \in Nat /\ calls' <= MaxCalls
  BY <1>1, <1>2 DEF Building
<1> QED  BY <1>3, <1>4 DEF Building

\* SetSdesItem keeps the streams and compounds in their types.
LEMMA SetSdesItemBuilding ==
    ASSUME Building, NEW o \in OutStreams, NEW y \in ItemTypes, NEW text \in Texts,
           SetSdesItem(o, y, text)
    PROVE  Building'
<1> DEFINE s == out[o]
           f == Put(s.SdesItems, y, text)
           n == [s EXCEPT !.SdesItems = f, !.sdesChunkLen = ChunkLen(f)]
<1>1. /\ Call /\ UNCHANGED <<inp, now, sent>>
      /\ out' = [out EXCEPT ![o].SdesItems = f, ![o].sdesChunkLen = ChunkLen(f)]
  BY DEF SetSdesItem
<1>2. out \in [OutStreams -> OutStates] /\ s \in OutStates
  BY DEF Building
<1>3. s.SdesItems \in Nameable
  BY <1>2, OutState, Zenon
<1>4. f \in Nameable
  BY <1>3, PutNameable, Zenon
<1>5. out' = [out EXCEPT ![o] = n]
  BY <1>1, <1>2, Zenon
<1> HIDE DEF f
<1>6. n \in OutStates /\ n.packets = s.packets
  <2> HIDE DEF s
  <2> QED  BY <1>2, <1>4, StreamNamed, Zenon
<1> HIDE DEF n
<1>7. out' \in [OutStreams -> OutStates]
  BY <1>2, <1>5, <1>6
<1>8. ASSUME NEW k \in OutStreams PROVE out'[k].packets <= out[k].packets + 1
  <2>1. out'[k].packets = out[k].packets
    BY <1>2, <1>5, <1>6
  <2>2. out[k].packets \in Nat
    BY <1>2, OutState
  <2> QED  BY <2>1, <2>2
<1>9. inp' \in [InStreams -> InStatesAt(now)]
  BY <1>1 DEF Building
<1> QED  BY <1>1, <1>7, <1>8, <1>9, CallStep

\* So does WriteData, which counts a packet and makes the stream a sender.
LEMMA WriteDataBuilding ==
    ASSUME Building, NEW o \in OutStreams, WriteData(o)
    PROVE  Building'
<1> DEFINE s == out[o]
           m == s.packets + 1
           n == [s EXCEPT !.packets = m, !.sender = TRUE]
<1>1. /\ Call /\ UNCHANGED <<inp, now, sent>>
      /\ out' = [out EXCEPT ![o].packets = @ + 1, ![o].sender = TRUE]
  BY DEF WriteData
<1>2. out \in [OutStreams -> OutStates] /\ s \in OutStates
  BY DEF Building
<1>3. s.packets \in Nat
  BY <1>2, OutState, Zenon
<1>4. m \in Nat
  BY <1>3
<1>5. out' = [out EXCEPT ![o] = n]
  BY <1>1, <1>2, Zenon
<1>6. n \in OutStates /\ n.packets = m
  <2> HIDE DEF s, m
  <2> QED  BY <1>2, <1>4, StreamSends, Zenon
<1> HIDE DEF n
<1>7. out' \in [OutStreams -> OutStates]
  BY <1>2, <1>5, <1>6
<1>8. ASSUME NEW k \in OutStreams PROVE out'[k].packets <= out[k].packets + 1
  <2>1. out[k].packets \in Nat
    BY <1>2, OutState
  <2>2. CASE k = o
    <3>1. out'[k].packets = out[k].packets + 1
      BY <1>2, <1>5, <1>6, <2>2
    <3> QED  BY <2>1, <3>1
  <2>3. CASE k # o
    <3>1. out'[k].packets = out[k].packets
      BY <1>2, <1>5, <2>3
    <3> QED  BY <2>1, <3>1
  <2> QED  BY <2>2, <2>3
<1>9. inp' \in [InStreams -> InStatesAt(now)]
  BY <1>1 DEF Building
<1> QED  BY <1>1, <1>7, <1>8, <1>9, CallStep

\* So does the reception of data or of a sender report from an input stream.
LEMMA ReceiveBuilding ==
    ASSUME Building, NEW i \in InStreams, ReceiveData(i) \/ ReceiveSr(i)
    PROVE  Building'
<1>1. Call /\ UNCHANGED <<out, now, sent>>
  BY DEF ReceiveData, ReceiveSr
<1>2. inp \in [InStreams -> InStatesAt(now)] /\ now \in Nat
  BY DEF Building
<1>3. inp' \in [InStreams -> InStatesAt(now)]
  <2>1. CASE ReceiveData(i)
    <3>1. PICK x \in Receptions : inp' = [inp EXCEPT ![i].data = TRUE,
                                              ![i].sender = TRUE, ![i].stats = x]
      BY <2>1 DEF ReceiveData
    <3> DEFINE v == [inp[i] EXCEPT !.data = TRUE, !.sender = TRUE, !.stats = x]
    <3>2. v \in InStatesAt(now)
      BY <1>2 DEF InStatesAt
    <3>3. inp' = [inp EXCEPT ![i] = v]
      BY <1>2, <3>1, Zenon
    <3> HIDE DEF v
    <3> QED  BY <1>2, <3>2, <3>3
  <2>2. CASE ReceiveSr(i)
    <3>1. inp' = [inp EXCEPT ![i].srTime = now]
      BY <2>2 DEF ReceiveSr
    <3> DEFINE v == [inp[i] EXCEPT !.srTime = now]
    <3>2. v \in InStatesAt(now)
      BY <1>2 DEF InStatesAt
    <3>3. inp' = [inp EXCEPT ![i] = v]
      BY <1>2, <3>1, Zenon
    <3> HIDE DEF v
    <3> QED  BY <1>2, <3>2, <3>3
  <2> QED  BY <2>1, <2>2
<1>4. out' \in [OutStreams -> OutStates]
  BY <1>1 DEF Building
<1>5. ASSUME NEW k \in OutStreams PROVE out'[k].packets <= out[k].packets + 1
  <2>1. out'[k].packets = out[k].packets
    BY <1>1
  <2>2. out[k].packets \in Nat
    BY OutState DEF Building
  <2> QED  BY <2>1, <2>2
<1> QED  BY <1>1, <1>3, <1>4, <1>5, CallStep

\* A step of the building session that sends at most one compound, in a tick.
LEMMA SendStep ==
    ASSUME Building, calls' = calls, out' \in [OutStreams -> OutStates],
           \A o \in OutStreams : out'[o].packets = out[o].packets,
           inp' \in [InStreams -> InStatesAt(now)],
           \/ now' = now /\ sent' = sent
           \/ /\ Len(sent) < MaxCompounds /\ now' \in {now, now + 1}
              /\ \E c : sent' = Append(sent, c)
    PROVE  Building'
<1>1. MaxCompounds \in Nat /\ StartClock \in Nat
  BY RtcpCompoundAssumption
<1>2. /\ now \in Nat /\ StartClock <= now /\ now <= StartClock + Len(sent)
      /\ Len(sent) \in Nat /\ Len(sent) <= MaxCompounds /\ IsSeq(sent)
      /\ calls \in Nat /\ calls <= MaxCalls
  BY DEF Building
<1> DEFINE l == Len(sent)
           m == Len(sent')
<1>3. /\ IsSeq(sent') /\ m \in Nat /\ m <= MaxCompounds
      /\ now' \in Nat /\ now <= now' /\ now' <= StartClock + m
  <2>1. CASE now' = now /\ sent' = sent
    BY <1>2, <2>1
  <2>2. CASE /\ l < MaxCompounds /\ now' \in {now, now + 1}
             /\ \E c : sent' = Append(sent, c)
    <3>1. IsSeq(sent') /\ m = l + 1
      BY <1>2, <2>2, OneMore
    <3> HIDE DEF l, m
    <3>2. l \in Nat /\ now <= StartClock + l
      BY <1>2 DEF l
    <3> QED  BY <1>1, <1>2, <2>2, <3>1, <3>2
  <2> QED  BY <2>1, <2>2
<1>4. StartClock <= now'
  BY <1>1, <1>2, <1>3
<1>5. inp' \in [InStreams -> InStatesAt(now')]
  <2>1. \A s \in InStatesAt(now) : s \in InStatesAt(now')
    BY <1>2, <1>3, InStatesLater
  <2> DEFINE A == InStatesAt(now)
             B == InStatesAt(now')
  <2>2. \A s \in A : s \in B
    BY <2>1
  <2>3. inp' \in [InStreams -> A]
    OBVIOUS
  <2> HIDE DEF A, B
  <2>4. inp' \in [InStreams -> B]
    BY <2>2, <2>3
  <2> QED  BY <2>4 DEF B
<1>6. \A o \in OutStreams : out'[o].packets <= calls'
  BY DEF Building
<1> QED  BY <1>2, <1>3, <1>4, <1>5, <1>6 DEF Building

\* So does SsrcStreamCloseForIndex, with the BYE it sends.
LEMMA CloseBuilding ==
    ASSUME Building, NEW o \in OutStreams, SsrcStreamClose(o)
    PROVE  Building'
<1> DEFINE s == out[o]
           n == [s EXCEPT !.status = "isClosing"]
<1>1. /\ SendBye(o) /\ out' = [out EXCEPT ![o].status = "isClosing"]
      /\ inp' = inp /\ calls' = calls
  BY DEF SsrcStreamClose
<1>2. PICK t \in Later, order \in ItemOrders :
          /\ Len(sent) < MaxCompounds /\ now' = t
          /\ Write(buildRtcpByePkt(o, t, order))
  BY <1>1, Zenon DEF SendBye
<1>3. now' = now + 1 /\ \E c : sent' = Append(sent, c)
  BY <1>2, Zenon DEF Later, Write
<1>4. out \in [OutStreams -> OutStates] /\ s \in OutStates
  BY DEF Building
<1>5. out' = [out EXCEPT ![o] = n]
  BY <1>1, <1>4, Zenon
<1>6. n \in OutStates /\ n.packets = s.packets
  <2> HIDE DEF s
  <2> QED  BY <1>4, StreamCloses, Zenon
<1> HIDE DEF n
<1>7. out' \in [OutStreams -> OutStates] /\ \A k \in OutStreams : out'[k].packets = out[k].packets
  BY <1>4, <1>5, <1>6
<1>8. inp' \in [InStreams -> InStatesAt(now)]
  BY <1>1 DEF Building
<1> QED  BY <1>1, <1>2, <1>3, <1>7, <1>8, SendStep

\* So does a compound of another session.
LEMMA OtherBuilding ==
    ASSUME Building, OtherSends
    PROVE  Building'
<1>1. /\ Len(sent) < MaxCompounds /\ now' = now /\ \E c : sent' = Append(sent, c)
      /\ out' = out /\ inp' = inp /\ calls' = calls
  BY DEF OtherSends, Write
<1>2. out' \in [OutStreams -> OutStates] /\ \A k \in OutStreams : out'[k].packets = out[k].packets
  BY <1>1 DEF Building
<1>3. inp' \in [InStreams -> InStatesAt(now)]
  BY <1>1 DEF Building
<1> QED  BY <1>1, <1>2, <1>3, SendStep

-----------------------------------------------------------------------------
\* Report intervals.

Active == {o \in OutStreams : out[o].status = "active"}

\* The compound of a report interval at time t.
Reported(c, ins, t, order) ==
    \/ \E A \in SUBSET Active : \E found \in Orders(A) :
           A # {} /\ c = SendersCompound(found, ins, t, order)
    \/ \E o \in Active :
           c = buildRtcpPkt(o, [out[o] EXCEPT !.sender = FALSE], ins, t, order)

\* A compound that may be sent next.
Said(c) ==
    \/ c \in Foreign
    \/ \E order \in ItemOrders :
           \/ \E ins \in ToReport : Reported(c, ins, now + 1, order)
           \/ \E o \in OutStreams :
                  /\ ClosesTwice \/ out[o].status = "active"
                  /\ c = buildRtcpByePkt(o, now + 1, order)

\* What a report interval does to the streams and to what was sent.
ServiceEffect(ins, idle, order) ==
    /\ Len(sent) < MaxCompounds /\ calls' = calls /\ UNCHANGED reading
    /\ out' \in [OutStreams -> OutStates]
    /\ \A o \in OutStreams : out'[o].packets = out[o].packets
                             /\ out'[o].status = out[o].status
    /\ inp' \in [InStreams -> InStatesAt(now)]
    /\ \/ /\ now' = now /\ sent' = sent
          /\ \A i \in InStreams : inp'[i].data = inp[i].data
       \/ /\ now' = now + 1 /\ inp' = AfterReport(ins, idle)
          /\ \E c : sent' = Append(sent, c) /\ Reported(c, ins, now + 1, order)

\* Streams that stop sending, and streams that were reported.
LEMMA InStops ==
    ASSUME NEW t, NEW s \in InStatesAt(t), NEW b \in BOOLEAN
    PROVE  /\ [s EXCEPT !.sender = b] \in InStatesAt(t)
           /\ [s EXCEPT !.sender = b].data = s.data
BY DEF InStatesAt

\* A report changes the two reception flags of an input stream only.
LEMMA InReported ==
    ASSUME NEW t, NEW s \in InStatesAt(t), NEW a \in BOOLEAN, NEW b \in BOOLEAN
    PROVE  /\ [s EXCEPT !.data = a, !.sender = b] \in InStatesAt(t)
           /\ [s EXCEPT !.data = a, !.sender = b].data = a
<1>1. [s EXCEPT !.data = a, !.sender = b] \in InStatesAt(t)
  BY DEF InStatesAt
<1>2. [s EXCEPT !.data = a, !.sender = b].data = a
  BY DEF InStatesAt
<1> QED  BY <1>1, <1>2

\* A function with values in a set.
LEMMA FunctionTyped ==
    ASSUME NEW f, NEW S, NEW T, f = [x \in S |-> f[x]], \A x \in S : f[x] \in T
    PROVE  f \in [S -> T]
OBVIOUS

\* A report interval has that effect.
LEMMA ServiceStep ==
    ASSUME Building, rtcpService
    PROVE  \E order \in ItemOrders, ins \in ToReport :
               \E idle : ServiceEffect(ins, idle, order)
<1>1. PICK t \in Later, idle \in SUBSET Senders, order \in ItemOrders, ins \in ToReport :
        LET active == {o \in OutStreams : out[o].status = "active"}
            sending == {o \in active : out[o].sender /\ o \notin idle}
        IN  /\ Len(sent) < MaxCompounds
            /\ out' = [o \in OutStreams |->
                          [out[o] EXCEPT !.sender = @ /\ o \notin idle \cap active]]
            /\ \/ /\ active = {}
                  /\ inp' = [i \in InStreams |->
                                [inp[i] EXCEPT !.sender = @ /\ i \notin idle]]
                  /\ UNCHANGED <<now, sent>>
               \/ /\ active # {} /\ now' = t
                  /\ inp' = AfterReport(ins, idle)
                  /\ \/ \E found \in Orders(sending) :
                           /\ sending # {}
                           /\ Write(SendersCompound(found, ins, t, order))
                     \/ \E o \in active :
                           /\ sending = {}
                           /\ Write(buildRtcpPkt(o, [out[o] EXCEPT !.sender = FALSE],
                                                 ins, t, order))
            /\ UNCHANGED <<calls, reading>>
  BY Zenon DEF rtcpService
<1> DEFINE A == {o \in Active : out[o].sender /\ o \notin idle}
<1>2. /\ Len(sent) < MaxCompounds /\ calls' = calls /\ UNCHANGED reading
      /\ out' = [o \in OutStreams |-> [out[o] EXCEPT !.sender = @ /\ o \notin idle \cap Active]]
  BY <1>1, Zenon DEF Active
<1>3. \/ /\ inp' = [i \in InStreams |-> [inp[i] EXCEPT !.sender = @ /\ i \notin idle]]
         /\ UNCHANGED <<now, sent>>
      \/ /\ now' = t /\ inp' = AfterReport(ins, idle)
         /\ \/ \E found \in Orders(A) :
                  A # {} /\ Write(SendersCompound(found, ins, t, order))
            \/ \E o \in Active :
                  Write(buildRtcpPkt(o, [out[o] EXCEPT !.sender = FALSE], ins, t, order))
  BY <1>1, Zenon DEF Active
<1>4. t = now + 1
  BY Zenon DEF Later
<1>5. out \in [OutStreams -> OutStates] /\ inp \in [InStreams -> InStatesAt(now)]
  BY DEF Building
<1>6. ASSUME NEW o \in OutStreams
      PROVE  /\ out'[o] \in OutStates /\ out'[o].packets = out[o].packets
             /\ out'[o].status = out[o].status
  <2> DEFINE s == out[o]
             b == s.sender /\ o \notin idle \cap Active
  <2>1. out'[o] = [s EXCEPT !.sender = b]
    BY <1>2, Zenon
  <2>2. s \in OutStates /\ b \in BOOLEAN
    BY <1>5
  <2>3. out[o].packets = s.packets /\ out[o].status = s.status
    OBVIOUS
  <2> HIDE DEF b, s
  <2> QED  BY <2>1, <2>2, <2>3, StreamStops
<1>7. out' \in [OutStreams -> OutStates]
  <2>1. out' = [o \in OutStreams |-> out'[o]]
    BY <1>2, Zenon
  <2> QED  BY <1>6, <2>1, FunctionTyped, Zenon
<1>8. ASSUME inp' = [i \in InStreams |-> [inp[i] EXCEPT !.sender = @ /\ i \notin idle]]
      PROVE  /\ inp' \in [InStreams -> InStatesAt(now)]
             /\ \A i \in InStreams : inp'[i].data = inp[i].data
  <2>1. ASSUME NEW i \in InStreams
        PROVE  inp'[i] \in InStatesAt(now) /\ inp'[i].data = inp[i].data
    <3> DEFINE s == inp[i]
               b == s.sender /\ i \notin idle
    <3>1. inp'[i] = [s EXCEPT !.sender = b]
      BY <1>8, Zenon
    <3>2. s \in InStatesAt(now) /\ b \in BOOLEAN
      BY <1>5
    <3>3. inp[i].data = s.data
      OBVIOUS
    <3> HIDE DEF b, s
    <3> QED  BY <3>1, <3>2, <3>3, InStops
  <2>2. inp' = [i \in InStreams |-> inp'[i]]
    BY <1>8, Zenon
  <2>3. inp' \in [InStreams -> InStatesAt(now)]
    BY <2>1, <2>2, FunctionTyped, Zenon
  <2> QED  BY <2>1, <2>3
<1>9. ASSUME inp' = AfterReport(ins, idle)
      PROVE  inp' \in [InStreams -> InStatesAt(now)]
  <2>0. inp' = [i \in InStreams |-> [inp[i] EXCEPT !.data = @ /\ i \notin Range(ins),
                                                   !.sender = @ /\ i \notin idle]]
    BY <1>9, Zenon DEF AfterReport
  <2>1. ASSUME NEW i \in InStreams PROVE inp'[i] \in InStatesAt(now)
    <3> DEFINE s == inp[i]
               a == s.data /\ i \notin Range(ins)
               b == s.sender /\ i \notin idle
    <3>1. inp'[i] = [s EXCEPT !.data = a, !.sender = b]
      BY <2>0, Zenon
    <3>2. s \in InStatesAt(now) /\ a \in BOOLEAN /\ b \in BOOLEAN
      BY <1>5
    <3> HIDE DEF a, b, s
    <3>3. [s EXCEPT !.data = a, !.sender = b] \in InStatesAt(now)
      BY <3>2, InReported, Zenon
    <3> QED  BY <3>1, <3>3, Zenon
  <2>2. inp' = [i \in InStreams |-> inp'[i]]
    BY <2>0, Zenon
  <2> QED  BY <2>1, <2>2, FunctionTyped, Zenon
<1>10. ServiceEffect(ins, idle, order)
  <2>1. CASE /\ inp' = [i \in InStreams |-> [inp[i] EXCEPT !.sender = @ /\ i \notin idle]]
             /\ UNCHANGED <<now, sent>>
    BY <1>2, <1>6, <1>7, <1>8, <2>1, Zenon DEF ServiceEffect
  <2>2. CASE /\ now' = t /\ inp' = AfterReport(ins, idle)
             /\ \/ \E found \in Orders(A) :
                      A # {} /\ Write(SendersCompound(found, ins, t, order))
                \/ \E o \in Active :
                      Write(buildRtcpPkt(o, [out[o] EXCEPT !.sender = FALSE], ins, t, order))
    <3>1. \E c : sent' = Append(sent, c) /\ Reported(c, ins, now + 1, order)
      <4>1. CASE \E found \in Orders(A) :
                    A # {} /\ Write(SendersCompound(found, ins, t, order))
        <5>1. PICK found \in Orders(A) :
                  A # {} /\ sent' = Append(sent, SendersCompound(found, ins, t, order))
          BY <4>1, Zenon DEF Write
        <5>2. A \in SUBSET Active
          OBVIOUS
        <5> HIDE DEF A
        <5> QED  BY <1>4, <5>1, <5>2, Zenon DEF Reported
      <4>2. CASE \E o \in Active :
                    Write(buildRtcpPkt(o, [out[o] EXCEPT !.sender = FALSE], ins, t, order))
        BY <1>4, <4>2, Zenon DEF Reported, Write
      <4> QED  BY <2>2, <4>1, <4>2, Zenon
    <3> QED  BY <1>2, <1>4, <1>6, <1>7, <1>9, <2>2, <3>1, Zenon DEF ServiceEffect
  <2> QED  BY <1>3, <2>1, <2>2, Zenon
<1> QED  BY <1>10, Zenon

\* A pass of the service keeps them in their types, with its report and the
\* receptions that it clears.
LEMMA ServiceBuilding ==
    ASSUME Building, rtcpService
    PROVE  Building'
<1>1. PICK order \in ItemOrders, ins \in ToReport : \E idle : ServiceEffect(ins, idle, order)
  BY ServiceStep, Zenon
<1>2. /\ Len(sent) < MaxCompounds /\ calls' = calls
      /\ out' \in [OutStreams -> OutStates]
      /\ \A o \in OutStreams : out'[o].packets = out[o].packets
      /\ inp' \in [InStreams -> InStatesAt(now)]
      /\ \/ now' = now /\ sent' = sent
         \/ now' = now + 1 /\ \E c : sent' = Append(sent, c)
  BY <1>1, Zenon DEF ServiceEffect
<1>3. now' \in {now, now + 1}
  BY <1>2, Zenon
<1> QED  BY <1>2, <1>3, SendStep, Zenon

\* The building session stays in its states.
LEMMA BuildingStep ==
    ASSUME Building, [Next]_vars
    PROVE  Building'
<1>1. ASSUME NEW o \in OutStreams, NEW y \in ItemTypes, NEW text \in Texts,
             SetSdesItem(o, y, text)
      PROVE  Building'
  BY <1>1, SetSdesItemBuilding, Zenon
<1>2. ASSUME NEW o \in OutStreams, WriteData(o) \/ SsrcStreamClose(o)
      PROVE  Building'
  BY <1>2, WriteDataBuilding, CloseBuilding, Zenon
<1>3. ASSUME NEW i \in InStreams, ReceiveData(i) \/ ReceiveSr(i)
      PROVE  Building'
  BY <1>3, ReceiveBuilding, Zenon
<1>4. CASE rtcpService
  BY <1>4, ServiceBuilding, Zenon
<1>5. CASE OtherSends
  BY <1>5, OtherBuilding, Zenon
<1>6. ASSUME NEW k \in DOMAIN sent, OnRecvCtrl(k)
      PROVE  Building'
  <2>1. UNCHANGED building
    BY <1>6, Zenon DEF OnRecvCtrl
  <2> QED  BY <2>1 DEF building, Building
<1>7. CASE UNCHANGED vars
  BY <1>7 DEF vars, Building
<1> QED  BY <1>1, <1>2, <1>3, <1>4, <1>5, <1>6, <1>7, Zenon DEF Next

\* What is sent is what the builders and other implementations say.
LEMMA Sends ==
    ASSUME Building, [Next]_vars
    PROVE  \/ sent' = sent
           \/ \E c : sent' = Append(sent, c) /\ Said(c) /\ Len(sent) < MaxCompounds
<1>1. CASE rtcpService
  <2>1. PICK order \in ItemOrders, ins \in ToReport : \E idle : ServiceEffect(ins, idle, order)
    BY <1>1, ServiceStep, Zenon
  <2>2. /\ Len(sent) < MaxCompounds
        /\ \/ sent' = sent
           \/ \E c : sent' = Append(sent, c) /\ Reported(c, ins, now + 1, order)
    BY <2>1, Zenon DEF ServiceEffect
  <2> QED  BY <2>2, Zenon DEF Said
<1>2. ASSUME NEW o \in OutStreams, SsrcStreamClose(o)
      PROVE  \E c : sent' = Append(sent, c) /\ Said(c) /\ Len(sent) < MaxCompounds
  <2>1. SendBye(o) /\ (ClosesTwice \/ out[o].status = "active")
    BY <1>2, Zenon DEF SsrcStreamClose
  <2>2. PICK t \in Later, order \in ItemOrders :
            /\ Len(sent) < MaxCompounds
            /\ Write(buildRtcpByePkt(o, t, order))
    BY <2>1, Zenon DEF SendBye
  <2>3. t = now + 1
    BY Zenon DEF Later
  <2> QED  BY <2>1, <2>2, <2>3, Zenon DEF Said, Write
<1>3. CASE OtherSends
  BY <1>3, Zenon DEF OtherSends, Said, Write
<1>4. ASSUME NEW o \in OutStreams, NEW y \in ItemTypes, NEW text \in Texts,
             SetSdesItem(o, y, text)
      PROVE  sent' = sent
  BY <1>4 DEF SetSdesItem
<1>5. ASSUME NEW o \in OutStreams, WriteData(o)
      PROVE  sent' = sent
  BY <1>5 DEF WriteData
<1>6. ASSUME NEW i \in InStreams, ReceiveData(i) \/ ReceiveSr(i)
      PROVE  sent' = sent
  BY <1>6 DEF ReceiveData, ReceiveSr
<1>7. ASSUME NEW k \in DOMAIN sent, OnRecvCtrl(k)
      PROVE  sent' = sent
  <2>1. UNCHANGED building
    BY <1>7, Zenon DEF OnRecvCtrl
  <2> QED  BY <2>1 DEF building
<1>8. CASE UNCHANGED vars
  BY <1>8 DEF vars
<1> QED  BY <1>1, <1>2, <1>3, <1>4, <1>5, <1>6, <1>7, <1>8, Zenon DEF Next

\* Orders of the items.
LEMMA OrderListed ==
    ASSUME NEW D, IsFiniteSet(D), NEW order \in Orders(D)
    PROVE  /\ order \in Seq(D) /\ Len(order) = Cardinality(D) /\ Len(order) \in Nat
           /\ \A k \in 1 .. Len(order) : order[k] \in D
           /\ \A y \in D : \E k \in 1 .. Len(order) : order[k] = y
           /\ \A j, k \in 1 .. Len(order) : order[j] = order[k] => j = k
<1> DEFINE n == Cardinality(D)
<1>1. n \in Nat
  BY FS_CardinalityType
<1>2. order \in Bijection(1 .. n, D)
  BY DEF Orders
<1> HIDE DEF n
<1>3. order \in [1 .. n -> D]
  BY <1>2 DEF Bijection, Injection, Surjection
<1>4. order \in Seq(D) /\ Len(order) = n
  BY <1>1, <1>3
<1>5. \A y \in D : \E k \in 1 .. n : order[k] = y
  BY <1>2 DEF Bijection, Surjection
<1>6. \A j, k \in 1 .. n : order[j] = order[k] => j = k
  BY <1>2, Zenon DEF Bijection, Injection, IsInjective
<1> QED  BY <1>1, <1>3, <1>4, <1>5, <1>6 DEF n

\* The input streams that a report interval reports on.
LEMMA ToReportTyped ==
    ASSUME NEW ins \in ToReport
    PROVE  /\ ins \in Seq(InStreams) /\ Len(ins) \in Nat /\ Len(ins) <= maxReports
           /\ \A k \in 1 .. Len(ins) : inp[ins[k]].data
<1> DEFINE with == {i \in InStreams : inp[i].data}
           counted == {i \in with : inp[i].sender}
           limit == IF Cardinality(counted) < maxReports
                    THEN Cardinality(counted) ELSE maxReports
<1>1. PICK T \in SUBSET with : Cardinality(T) = limit /\ ins \in Orders(T)
  <2>1. ins \in UNION {Orders(S) : S \in {T \in SUBSET with : Cardinality(T) = limit}}
    BY Zenon DEF ToReport
  <2> HIDE DEF with, limit
  <2> QED  BY <2>1, Zenon
<1>2. IsFiniteSet(InStreams) /\ maxReports \in Nat
  BY RtcpCompoundAssumption
<1>3. T \in SUBSET InStreams /\ counted \in SUBSET InStreams
      /\ \A i \in T : inp[i].data
  BY <1>1
<1>4. IsFiniteSet(T) /\ IsFiniteSet(counted)
  <2> HIDE DEF counted
  <2> QED  BY <1>2, <1>3, FS_Subset, Zenon
<1>5. limit <= maxReports
  <2>1. Cardinality(counted) \in Nat
    BY <1>4, FS_CardinalityType, Zenon
  <2> HIDE DEF counted
  <2> QED  BY <1>2, <2>1
<1> HIDE DEF with, counted, limit
<1>6. /\ ins \in Seq(T) /\ Len(ins) = Cardinality(T) /\ Len(ins) \in Nat
      /\ \A k \in 1 .. Len(ins) : ins[k] \in T
  BY <1>1, <1>4, OrderListed, Zenon
<1>7. ins \in Seq(InStreams)
  BY <1>3, <1>6
<1>8. Len(ins) <= maxReports
  BY <1>1, <1>5, <1>6, Zenon
<1> QED  BY <1>3, <1>6, <1>7, <1>8, Zenon

\* A list of streams is not longer than there are streams.
LEMMA FoundTyped ==
    ASSUME NEW A \in SUBSET OutStreams, A # {}, NEW found \in Orders(A)
    PROVE  /\ Len(found) \in Nat /\ Len(found) >= 1
           /\ Len(found) <= Cardinality(OutStreams) /\ Cardinality(OutStreams) \in Nat
           /\ \A k \in 1 .. Len(found) : found[k] \in A
<1>1. IsFiniteSet(OutStreams)
  BY RtcpCompoundAssumption
<1>2. IsFiniteSet(A) /\ Cardinality(A) <= Cardinality(OutStreams)
  BY <1>1, FS_Subset
<1>3. /\ Len(found) = Cardinality(A) /\ Len(found) \in Nat
      /\ \A k \in 1 .. Len(found) : found[k] \in A
      /\ \A o \in A : \E k \in 1 .. Len(found) : found[k] = o
  BY <1>2, OrderListed, Zenon
<1>4. Len(found) >= 1
  BY <1>3
<1>5. Cardinality(OutStreams) \in Nat
  BY <1>1, FS_CardinalityType
<1> QED  BY <1>2, <1>3, <1>4, <1>5

\* One compound more.
LEMMA SentMore ==
    ASSUME IsSeq(sent), NEW c, sent' = Append(sent, c)
    PROVE  /\ Len(sent) \in Nat /\ Len(sent') = Len(sent) + 1 /\ sent'[Len(sent')] = c
           /\ \A k \in 1 .. Len(sent') :
                 (k \in 1 .. Len(sent) /\ sent'[k] = sent[k]) \/ sent'[k] = c
<1>1. PICK S : sent \in Seq(S)
  BY Zenon DEF IsSeq
<1> QED  BY <1>1

\* A set that has 0 and with each natural the next one has them all.
LEMMA Induction ==
    \A S :
          /\ 0 \in S
          /\ \A n \in Nat : n \in S => n + 1 \in S
          =>
          Nat \subseteq S
\* A nonempty set of naturals has a least element.
<1>LeastNatural. ASSUME NEW T, T \subseteq Nat, T # {}
                 PROVE  \E x \in T : \A y \in T : x <= y
  <2> USE <1>LeastNatural
  <2>1. IsWellFoundedOn(OpToRel(<, Nat), Nat)
    BY NatLessThanWellFounded
  <2>2. PICK x \in T : \A y \in T : ~ (<<y, x>> \in OpToRel(<, Nat))
    BY <2>1, WFMin
  <2>3. \A y \in T : ~ (y < x)
    BY <2>2 DEF OpToRel
  <2> QED  BY <2>3
<1> SUFFICES ASSUME NEW S, 0 \in S, \A n \in Nat : n \in S => n + 1 \in S
             PROVE  Nat \subseteq S
  BY Zenon
<1> SUFFICES ASSUME Nat \ S # {} PROVE FALSE
  OBVIOUS
<1>1. PICK x \in Nat \ S : \A y \in Nat \ S : x <= y
  BY <1>LeastNatural
<1>2. x # 0
  BY <1>1
<1>3. x - 1 \in Nat
  BY <1>1, <1>2
<1>4. x - 1 \in S
  BY <1>1, <1>3
<1>5. (x - 1) + 1 \in S
  BY <1>3, <1>4
<1> QED  BY <1>1, <1>5

\* A list of what packets mean may be continued.
LEMMA ListsJoined ==
    ASSUME NEW m, NEW n, IsSeq(m), IsSeq(n)
    PROVE  IsSeq(m \o n) /\ \E S : m \in Seq(S) /\ n \in Seq(S)
<1>1. PICK A : m \in Seq(A)
  BY DEF IsSeq
<1>2. PICK B : n \in Seq(B)
  BY DEF IsSeq
<1> DEFINE S == A \cup B
<1>3. m \in Seq(S) /\ n \in Seq(S)
  BY <1>1, <1>2
<1> HIDE DEF S
<1>4. m \o n \in Seq(S)
  BY <1>3
<1> QED  BY <1>3, <1>4, Zenon DEF IsSeq

\* A list of one.
LEMMA ListOfOne ==
    ASSUME NEW m
    PROVE  IsSeq(<<m>>) /\ Len(<<m>>) = 1 /\ <<m>>[1] = m
<1>1. <<m>> \in Seq({m}) /\ Len(<<m>>) = 1 /\ <<m>>[1] = m
  OBVIOUS
<1> QED  BY <1>1, Zenon DEF IsSeq

-----------------------------------------------------------------------------
\* No reception is forgotten.

\* The first packet of a compound means m.
Starts(c, m) == Len(c.meant) >= 1 /\ c.meant[1] = m

\* They do not change how it starts.
LEMMA StartsMore ==
    ASSUME NEW c, NEW n, NEW d, NEW m, Starts(c, m), IsSeq(c.meant), IsSeq(n),
           d.meant = c.meant \o n
    PROVE  Starts(d, m)
<1> DEFINE x == c.meant
<1>1. PICK S : x \in Seq(S) /\ n \in Seq(S)
  BY ListsJoined, Zenon
<1>2. Len(x) >= 1 /\ x[1] = m
  BY Zenon DEF Starts
<1> HIDE DEF x
<1>3. Len(x \o n) >= 1 /\ (x \o n)[1] = m
  BY <1>1, <1>2
<1>4. d.meant = x \o n
  BY DEF x
<1> QED  BY <1>3, <1>4, Zenon DEF Starts

\* The loop over the other sending streams.
SendersBody(sending, ins, t, order, f) ==
    [k \in 1 .. Len(sending) |->
        IF k = 1 THEN buildRtcpPkt(sending[1], out[sending[1]], ins, t, order)
        ELSE addSenderReport(f[k - 1], sending[k], t, order)]

\* The compound of the sending streams is what this loop ends with.
LEMMA SendersLoop ==
    ASSUME NEW sending, Len(sending) \in Nat, NEW ins, NEW t, NEW order
    PROVE  \E f : /\ f = SendersBody(sending, ins, t, order, f)
                  /\ SendersCompound(sending, ins, t, order) = f[Len(sending)]
<1> DEFINE first == buildRtcpPkt(sending[1], out[sending[1]], ins, t, order)
           add(c, k) == addSenderReport(c, sending[k], t, order)
           Body(f, n) == [k \in 1 .. n |-> IF k = 1 THEN first ELSE add(f[k - 1], k)]
           S == {n \in Nat : \E f : f = Body(f, n)}
           N == Len(sending)
<1> HIDE DEF first, add
<1>1. 0 \in S
  <2> DEFINE f == [k \in 1 .. 0 |-> first]
  <2>1. f = Body(f, 0)
    OBVIOUS
  <2> HIDE DEF f
  <2>2. \E g : g = Body(g, 0)
    BY <2>1, Zenon
  <2>3. 0 \in Nat
    OBVIOUS
  <2> QED  BY <2>2, <2>3, Zenon
<1>2. ASSUME NEW n \in Nat, n \in S PROVE n + 1 \in S
  <2>1. PICK g : g = Body(g, n)
    BY <1>2
  <2> DEFINE v(k) == IF k = 1 THEN first ELSE add(g[k - 1], k)
             f == [k \in 1 .. n + 1 |-> v(k)]
  <2>2. ASSUME NEW k \in 1 .. n PROVE g[k] = v(k)
    BY <2>1, Zenon
  <2>3. ASSUME NEW k \in 1 .. n + 1 PROVE f[k] = IF k = 1 THEN first ELSE add(f[k - 1], k)
    <3>1. CASE k = 1
      BY <3>1
    <3>2. CASE k # 1
      <4>1. k - 1 \in 1 .. n /\ k - 1 \in 1 .. n + 1
        BY <3>2
      <4>2. f[k - 1] = v(k - 1)
        BY <4>1, Zenon
      <4>3. f[k - 1] = g[k - 1]
        BY <2>2, <4>1, <4>2, Zenon
      <4>4. f[k] = add(g[k - 1], k)
        BY <3>2, Zenon
      <4> QED  BY <3>2, <4>3, <4>4, Zenon
    <3> QED  BY <3>1, <3>2, Zenon
  <2>4. f = [k \in 1 .. n + 1 |-> f[k]]
    BY Zenon
  <2> HIDE DEF f
  <2>5. f = Body(f, n + 1)
    BY <2>3, <2>4, Zenon
  <2>6. \E h : h = Body(h, n + 1)
    BY <2>5, Zenon
  <2>7. n + 1 \in Nat
    OBVIOUS
  <2> QED  BY <2>6, <2>7, Zenon
<1>3. Nat \subseteq S
  <2> HIDE DEF S
  <2> QED  BY <1>1, <1>2, Induction
<1>4. N \in S
  <2> HIDE DEF S
  <2> QED  BY <1>3
<1>5. PICK g : g = Body(g, N)
  BY <1>4
<1> DEFINE w == CHOOSE f : f = SendersBody(sending, ins, t, order, f)
<1>6. g = SendersBody(sending, ins, t, order, g)
  BY <1>5, Zenon DEF SendersBody, first, add
<1>7. w = SendersBody(sending, ins, t, order, w)
  BY <1>6, Zenon
<1>8. SendersCompound(sending, ins, t, order) = w[N]
  BY Zenon DEF SendersCompound, SendersBody
<1> QED  BY <1>7, <1>8, Zenon

\* A compound says something, and m first.
Opens(c, m) == IsSeq(c.meant) /\ Starts(c, m)

\* Packets behind a compound do not change how it opens.
LEMMA OpensMore ==
    ASSUME NEW c, NEW m, Opens(c, m), NEW n, IsSeq(n), NEW d, d.meant = c.meant \o n
    PROVE  Opens(d, m)
<1>1. IsSeq(c.meant) /\ Starts(c, m)
  BY Zenon DEF Opens
<1>2. PICK S : c.meant \in Seq(S) /\ n \in Seq(S)
  BY <1>1, ListsJoined, Zenon
<1>3. c.meant \o n \in Seq(S)
  BY <1>2
<1>4. IsSeq(d.meant)
  BY <1>3, Zenon DEF IsSeq
<1> QED  BY <1>1, <1>4, StartsMore, Zenon DEF Opens

\* What an SDES packet means, and one packet.
LEMMA SdesMeansIsSeq ==
    ASSUME NEW o
    PROVE  IsSeq(SdesMeans(o))
<1>1. <<>> \in Seq({})
  OBVIOUS
<1>2. IsSeq(<<>>)
  BY <1>1, Zenon DEF IsSeq
<1> QED  BY <1>2, ListOfOne, Zenon DEF SdesMeans

\* buildRtcpPkt opens with the report of the stream.
LEMMA BuiltOpens ==
    ASSUME NEW o, NEW s, NEW ins, NEW t, NEW order
    PROVE  Opens(buildRtcpPkt(o, s, ins, t, order), FirstMeans(o, s, inp, ins, t))
<1> DEFINE c == buildRtcpPkt(o, s, ins, t, order)
           m == FirstMeans(o, s, inp, ins, t)
           y == <<m>> \o SdesMeans(o)
           d == [meant |-> <<m>>]
<1>1. PICK x : c = [bytes |-> x, meant |-> y]
  BY Zenon DEF buildRtcpPkt
<1> HIDE DEF m
<1>2. d.meant = <<m>> /\ Len(<<m>>) >= 1 /\ <<m>>[1] = m
  OBVIOUS
<1> HIDE DEF d
<1>3. Opens(d, m)
  BY <1>2, ListOfOne, Zenon DEF Opens, Starts
<1>4. c.meant = d.meant \o SdesMeans(o)
  <2> HIDE DEF c, y
  <2>1. c.meant = y
    BY <1>1
  <2> QED  BY <1>2, <2>1, Zenon DEF y
<1> HIDE DEF c
<1>5. Opens(c, m)
  BY <1>3, <1>4, SdesMeansIsSeq, OpensMore, Zenon
<1> QED  BY <1>5, Zenon DEF c, m

\* addSenderReport does not change how a compound opens.
LEMMA AddedOpens ==
    ASSUME NEW o, NEW t, NEW order, NEW c, NEW m, Opens(c, m)
    PROVE  Opens(addSenderReport(c, o, t, order), m)
<1> DEFINE d == addSenderReport(c, o, t, order)
           q == SrMeans(o, out[o], inp, <<>>, t)
           y == (c.meant \o <<q>>) \o SdesMeans(o)
           e == [meant |-> c.meant \o <<q>>]
<1>1. d = c \/ \E x : d = [bytes |-> x, meant |-> y]
  BY Zenon DEF addSenderReport
<1>2. CASE d = c
  BY <1>2, Zenon
<1>3. ASSUME NEW x, d = [bytes |-> x, meant |-> y] PROVE Opens(d, m)
  <2> HIDE DEF d, q
  <2>1. e.meant = c.meant \o <<q>>
    OBVIOUS
  <2>2. d.meant = e.meant \o SdesMeans(o)
    <3> HIDE DEF e, y
    <3>1. d.meant = y
      BY <1>3
    <3> QED  BY <2>1, <3>1, Zenon DEF y
  <2> HIDE DEF e
  <2>3. Opens(e, m)
    BY <2>1, ListOfOne, OpensMore, Zenon
  <2> QED  BY <2>2, <2>3, SdesMeansIsSeq, OpensMore, Zenon
<1> HIDE DEF d
<1>4. Opens(d, m)
  BY <1>1, <1>2, <1>3, Zenon
<1> QED  BY <1>4, Zenon DEF d

\* The compound of a report interval opens with the report of one stream.
LEMMA SendersOpens ==
    ASSUME NEW sending, NEW n \in Nat, Len(sending) = n, n >= 1, NEW ins, NEW t, NEW order
    PROVE  Opens(SendersCompound(sending, ins, t, order),
                 FirstMeans(sending[1], out[sending[1]], inp, ins, t))
<1> DEFINE m == FirstMeans(sending[1], out[sending[1]], inp, ins, t)
<1>1. PICK f : /\ f = SendersBody(sending, ins, t, order, f)
               /\ SendersCompound(sending, ins, t, order) = f[n]
  BY SendersLoop, Zenon
<1>2. ASSUME NEW k \in 1 .. n
      PROVE  f[k] = IF k = 1 THEN buildRtcpPkt(sending[1], out[sending[1]], ins, t, order)
                    ELSE addSenderReport(f[k - 1], sending[k], t, order)
  BY <1>1, Zenon DEF SendersBody
<1> DEFINE S == {k \in Nat : k + 1 <= n => Opens(f[k + 1], m)}
<1>3. 0 \in S
  <2>1. 1 \in 1 .. n /\ 0 + 1 = 1 /\ 0 \in Nat
    OBVIOUS
  <2>2. Opens(f[1], m)
    BY <1>2, <2>1, BuiltOpens, Zenon
  <2> HIDE DEF m
  <2> QED  BY <2>1, <2>2, Zenon
<1>4. ASSUME NEW k \in Nat, k \in S PROVE k + 1 \in S
  <2> HIDE DEF m
  <2> SUFFICES ASSUME (k + 1) + 1 <= n PROVE Opens(f[(k + 1) + 1], m)
    OBVIOUS
  <2> DEFINE i == (k + 1) + 1
  <2>1. i \in 1 .. n /\ i # 1 /\ i - 1 = k + 1 /\ k + 1 <= n
    OBVIOUS
  <2>2. Opens(f[k + 1], m)
    BY <1>4, <2>1, Zenon
  <2> HIDE DEF i
  <2>3. f[i] = addSenderReport(f[k + 1], sending[i], t, order)
    BY <1>2, <2>1, Zenon
  <2>4. Opens(f[i], m)
    BY <2>2, <2>3, AddedOpens, Zenon
  <2> QED  BY <2>4, Zenon DEF i
<1> HIDE DEF m, S
<1>5. Nat \subseteq S
  BY <1>3, <1>4, Induction
<1>6. n - 1 \in Nat /\ (n - 1) + 1 = n /\ n <= n
  OBVIOUS
<1>7. n - 1 \in S
  BY <1>5, <1>6, Zenon
<1>8. Opens(f[n], m)
  BY <1>6, <1>7, Zenon DEF S
<1> QED  BY <1>1, <1>8, Zenon DEF m

\* A report opens with the blocks of the streams it reports on.
LEMMA ReportedOpens ==
    ASSUME NEW ins, NEW t, NEW order, NEW c, Reported(c, ins, t, order)
    PROVE  c.meant[1].blocks = [k \in DOMAIN ins |-> Report(ins[k], inp[ins[k]], t)]
<1>1. PICK o, s : Opens(c, FirstMeans(o, s, inp, ins, t))
  <2>1. ASSUME NEW A \in SUBSET Active, NEW found \in Orders(A), A # {},
               c = SendersCompound(found, ins, t, order)
        PROVE  \E o, s : Opens(c, FirstMeans(o, s, inp, ins, t))
    <3>1. A \in SUBSET OutStreams
      BY DEF Active
    <3>2. Len(found) \in Nat /\ Len(found) >= 1
      BY <2>1, <3>1, FoundTyped, Zenon
    <3> QED  BY <2>1, <3>2, SendersOpens, Zenon
  <2> QED  BY <2>1, BuiltOpens, Zenon DEF Reported
<1> DEFINE bs == [k \in DOMAIN ins |-> Report(ins[k], inp[ins[k]], t)]
           m == FirstMeans(o, s, inp, ins, t)
<1>2. c.meant[1] = m
  BY <1>1, Zenon DEF Opens, Starts
<1>3. m.blocks = bs
  <2>1. SrMeans(o, s, inp, ins, t).blocks = bs
    <3> DEFINE w == Wrap32(RtpStamp(t))
               x == Wrap32(s.packets)
               y == Wrap32(s.packets * PayloadLen)
    <3>1. SrMeans(o, s, inp, ins, t) =
            [type |-> RtcpSR, ssrc |-> o, time |-> t, stamp |-> w,
             packets |-> x, octets |-> y, blocks |-> bs]
      BY Zenon DEF SrMeans
    <3> HIDE DEF w, x, y, bs
    <3> QED  BY <3>1
  <2>2. [type |-> RtcpRR, ssrc |-> o, blocks |-> bs].blocks = bs
    <3> HIDE DEF bs
    <3> QED  OBVIOUS
  <2> QED  BY <2>1, <2>2, Zenon DEF FirstMeans
<1> QED  BY <1>2, <1>3, Zenon

\* A step that gives up dataAfterLastReport of a stream reports it.
LEMMA ClearingStep ==
    ASSUME Building, [Next]_vars, NEW i \in InStreams, inp[i].data, ~inp'[i].data
    PROVE  /\ Len(sent') > Len(sent)
           /\ \E k \in DOMAIN sent'[Len(sent')].meant[1].blocks :
                  LET block == sent'[Len(sent')].meant[1].blocks[k]
                  IN  block.ssrc = i /\ block.highest = inp[i].stats.highest
<1>1. inp \in [InStreams -> InStatesAt(now)] /\ IsSeq(sent)
  BY Zenon DEF Building
<1>2. inp' # inp
  BY Zenon
<1>3. ASSUME NEW j \in InStreams, ReceiveData(j) \/ ReceiveSr(j)
      PROVE  FALSE
  <2>1. inp[i] \in InStatesAt(now) /\ inp[j] \in InStatesAt(now)
    BY <1>1
  <2>2. PICK s \in InStatesAt(now) :
            inp' = [inp EXCEPT ![j] = s] /\ (s.data \/ s.data = inp[j].data)
    <3>1. ASSUME NEW x \in Receptions,
                 inp' = [inp EXCEPT ![j].data = TRUE, ![j].sender = TRUE, ![j].stats = x]
          PROVE  \E s \in InStatesAt(now) : inp' = [inp EXCEPT ![j] = s] /\ s.data
      <4> DEFINE s == [inp[j] EXCEPT !.data = TRUE, !.sender = TRUE, !.stats = x]
      <4>1. inp' = [inp EXCEPT ![j] = s]
        BY <3>1, Zenon
      <4>2. s \in InStatesAt(now) /\ s.data
        BY <2>1 DEF InStatesAt
      <4> QED  BY <4>1, <4>2, Zenon
    <3>2. ASSUME inp' = [inp EXCEPT ![j].srTime = now]
          PROVE  \E s \in InStatesAt(now) : inp' = [inp EXCEPT ![j] = s] /\ s.data = inp[j].data
      <4> DEFINE s == [inp[j] EXCEPT !.srTime = now]
      <4>1. inp' = [inp EXCEPT ![j] = s]
        BY <3>2, Zenon
      <4>2. now \in 0 .. now
        BY DEF Building
      <4>3. s \in InStatesAt(now) /\ s.data = inp[j].data
        BY <2>1, <4>2 DEF InStatesAt
      <4> QED  BY <4>1, <4>3, Zenon
    <3> QED  BY <1>3, <3>1, <3>2, Zenon DEF ReceiveData, ReceiveSr
  <2>3. inp'[i] = IF i = j THEN s ELSE inp[i]
    BY <1>1, <2>2, Zenon
  <2> QED  BY <2>2, <2>3
<1>4. CASE rtcpService
  <2>1. PICK order \in ItemOrders, ins \in ToReport : \E idle : ServiceEffect(ins, idle, order)
    BY <1>4, ServiceStep, Zenon
  <2>2. PICK idle : ServiceEffect(ins, idle, order)
    BY <2>1, Zenon
  <2>3. ~ \A j \in InStreams : inp'[j].data = inp[j].data
    BY Zenon
  <2>4. PICK c : /\ inp' = AfterReport(ins, idle) /\ sent' = Append(sent, c)
                 /\ Reported(c, ins, now + 1, order)
    BY <2>2, <2>3, Zenon DEF ServiceEffect
  <2>5. /\ Len(sent) \in Nat /\ Len(sent') = Len(sent) + 1 /\ sent'[Len(sent')] = c
    BY <1>1, <2>4, SentMore, Zenon
  <2>6. c.meant[1].blocks = [k \in DOMAIN ins |-> Report(ins[k], inp[ins[k]], now + 1)]
    <3> DEFINE t == now + 1
    <3>1. Reported(c, ins, t, order)
      BY <2>4, Zenon
    <3> HIDE DEF t
    <3>2. c.meant[1].blocks = [k \in DOMAIN ins |-> Report(ins[k], inp[ins[k]], t)]
      BY <3>1, ReportedOpens
    <3> QED  BY <3>2, Zenon DEF t
  <2>7. i \in Range(ins)
    <3> DEFINE a == inp[i].data /\ i \notin Range(ins)
               b == inp[i].sender /\ i \notin idle
    <3>1. inp'[i] = [inp[i] EXCEPT !.data = a, !.sender = b]
      BY <2>4, Zenon DEF AfterReport
    <3>2. a \in BOOLEAN /\ b \in BOOLEAN
      BY Zenon
    <3>3. inp[i] \in InStatesAt(now)
      BY <1>1
    <3> HIDE DEF a, b
    <3>4. [inp[i] EXCEPT !.data = a, !.sender = b].data = a
      BY <3>2, <3>3, InReported
    <3>5. inp'[i].data = a
      BY <3>1, <3>4, Zenon
    <3> QED  BY <3>5, Zenon DEF a
  <2>8. PICK k \in DOMAIN ins : ins[k] = i
    BY <2>7 DEF Range
  <2> DEFINE block == Report(i, inp[i], now + 1)
  <2>9. block.ssrc = i /\ block.highest = inp[i].stats.highest
    BY DEF Report
  <2>10. k \in DOMAIN c.meant[1].blocks /\ c.meant[1].blocks[k] = block
    BY <2>6, <2>8, Zenon
  <2>11. Len(sent') > Len(sent)
    BY <2>5
  <2> HIDE DEF block
  <2> QED  BY <2>5, <2>9, <2>10, <2>11, Zenon
<1>5. ASSUME NEW o \in OutStreams, WriteData(o) \/ SsrcStreamClose(o)
             \/ \E y \in ItemTypes, text \in Texts : SetSdesItem(o, y, text)
      PROVE  inp' = inp
  BY <1>5 DEF WriteData, SsrcStreamClose, SetSdesItem
<1>6. ASSUME OtherSends \/ \E k \in DOMAIN sent : OnRecvCtrl(k)
      PROVE  inp' = inp
  BY <1>6 DEF OtherSends, OnRecvCtrl, building
<1>7. CASE UNCHANGED vars
  BY <1>2, <1>7 DEF vars
<1> QED  BY <1>2, <1>3, <1>4, <1>5, <1>6, <1>7, Zenon DEF Next

\* buildRtcpPkt forgets that a stream sent data only when it writes the block
\* of that stream, whatever the limit of blocks and the order of the map.
THEOREM ClearedIsReported == Spec => ClearedMeansReported
<1>1. Init => Building
  BY BuildingInit, Zenon
<1>2. Building /\ [Next]_vars => Building'
  BY BuildingStep, Zenon
<1> DEFINE Step ==
        \A i \in InStreams : inp[i].data /\ ~inp'[i].data =>
           /\ Len(sent') > Len(sent)
           /\ \E k \in DOMAIN sent'[Len(sent')].meant[1].blocks :
                  LET block == sent'[Len(sent')].meant[1].blocks[k]
                  IN  block.ssrc = i /\ block.highest = inp[i].stats.highest
<1>3. Building /\ [Next]_vars => [Step]_vars
  BY ClearingStep, Zenon
<1>4. Spec => [][Step]_vars
  BY <1>1, <1>2, <1>3, PTL DEF Spec
<1> QED  BY <1>4 DEF ClearedMeansReported

-----------------------------------------------------------------------------
\* The reading session.  What it stores it has read: P is the set of packets
\* that were read.

ItemsRead(items, o, P) ==
    \A y \in DOMAIN items : \E p \in P : \E c \in Range(p.chunks) :
        p.type = RtcpSdes /\ c.ssrc = o /\ y \in DOMAIN c.items /\ c.items[y] = items[y]

InfoRead(info, o, P) ==
    info # <<>> => \E p \in P :
        /\ p.type = RtcpSR /\ p.ssrc = o
        /\ info = <<p.time, p.stamp, p.packets, p.octets>>

ByeRead(o, P) == \E p \in P : p.type = RtcpBye /\ p.ssrc = o

SenderTypes == {RtcpSR, RtcpRR, RtcpRtpfb, RtcpPsfb}

SenderRead(o, P) == \E p \in P : p.type \in SenderTypes /\ p.ssrc = o

BlockRead(block, i, P) == \E p \in P : \E c \in Range(p.blocks) :
    p.type \in {RtcpSR, RtcpRR} /\ c.ssrc = i /\ c = block

\* A stream, the streams and reports of a session, and the session.
StreamRead(str, o, P) ==
    /\ {"status", "items", "info"} \subseteq DOMAIN str
    /\ str.status \in {"active", "isClosing"}
    /\ SenderRead(o, P)
    /\ ItemsRead(str.items, o, P)
    /\ InfoRead(str.info, o, P)
    /\ str.status = "isClosing" => ByeRead(o, P)

StreamsRead(streams, P) == \A o \in DOMAIN streams : StreamRead(streams[o], o, P)

ReportsRead(reps, P) ==
    /\ DOMAIN reps = InStreams
    /\ \A i \in InStreams : reps[i] # <<>> => BlockRead(reps[i], i, P)

Stored(r, P) ==
    /\ {"streamsIn", "reports", "events", "nil"} \subseteq DOMAIN r
    /\ r.nil \in BOOLEAN
    /\ StreamsRead(r.streamsIn, P) /\ ReportsRead(r.reports, P)

\* What was stored stays so when more is read.
LEMMA StoredMore ==
    ASSUME NEW P, NEW Q, P \subseteq Q
    PROVE  /\ \A s : StreamsRead(s, P) => StreamsRead(s, Q)
           /\ \A s : ReportsRead(s, P) => ReportsRead(s, Q)
           /\ \A r : Stored(r, P) => Stored(r, Q)
<1>1. \A items, o : ItemsRead(items, o, P) => ItemsRead(items, o, Q)
  BY Zenon DEF ItemsRead
<1>2. \A info, o : InfoRead(info, o, P) => InfoRead(info, o, Q)
  BY Zenon DEF InfoRead
<1>3. \A o : /\ ByeRead(o, P) => ByeRead(o, Q)
             /\ SenderRead(o, P) => SenderRead(o, Q)
  BY Zenon DEF ByeRead, SenderRead
<1>4. \A block, i : BlockRead(block, i, P) => BlockRead(block, i, Q)
  BY Zenon DEF BlockRead
<1>5. \A s : StreamsRead(s, P) => StreamsRead(s, Q)
  BY <1>1, <1>2, <1>3, Zenon DEF StreamsRead, StreamRead
<1>6. \A s : ReportsRead(s, P) => ReportsRead(s, Q)
  BY <1>4, Zenon DEF ReportsRead
<1> QED  BY <1>5, <1>6, Zenon DEF Stored

\* One stream changes.
LEMMA StreamChanges ==
    ASSUME NEW streams, NEW P, StreamsRead(streams, P), NEW o, NEW str, StreamRead(str, o, P)
    PROVE  StreamsRead([streams EXCEPT ![o] = str], P)
BY Zenon DEF StreamsRead

\* The session after its streams or its reports changed.
Restreamed(d, r, s) == \E e : d = [r EXCEPT !.streamsIn = s, !.events = e]

Rereported(d, r, s) == \E e : d = [r EXCEPT !.reports = s, !.events = e]

\* It still stores what it has read.
LEMMA StoredStreams ==
    ASSUME NEW r, NEW P, Stored(r, P), NEW s, StreamsRead(s, P),
           NEW d, Restreamed(d, r, s)
    PROVE  Stored(d, P) /\ d.streamsIn = s /\ d.nil = r.nil
<1>1. {"streamsIn", "reports", "events", "nil"} \subseteq DOMAIN r
  BY Zenon DEF Stored
<1>2. PICK e : d = [r EXCEPT !.streamsIn = s, !.events = e]
  BY Zenon DEF Restreamed
<1>3. DOMAIN d = DOMAIN r
  BY <1>2
<1>4. d.streamsIn = s /\ d.reports = r.reports /\ d.nil = r.nil
  BY <1>1, <1>2
<1>5. Stored(d, P)
  BY <1>1, <1>3, <1>4, Zenon DEF Stored
<1> QED  BY <1>4, <1>5, Zenon

\* It still stores what it has read.
LEMMA StoredReports ==
    ASSUME NEW r, NEW P, Stored(r, P), NEW s, ReportsRead(s, P),
           NEW d, Rereported(d, r, s)
    PROVE  Stored(d, P) /\ d.nil = r.nil
<1>1. {"streamsIn", "reports", "events", "nil"} \subseteq DOMAIN r
  BY Zenon DEF Stored
<1>2. PICK e : d = [r EXCEPT !.reports = s, !.events = e]
  BY Zenon DEF Rereported
<1>3. DOMAIN d = DOMAIN r
  BY <1>2
<1>4. d.reports = s /\ d.streamsIn = r.streamsIn /\ d.nil = r.nil
  BY <1>1, <1>2
<1>5. Stored(d, P)
  BY <1>1, <1>3, <1>4, Zenon DEF Stored
<1> QED  BY <1>4, <1>5, Zenon

\* So it does when only its events change, or a stream is missing.
LEMMA StoredOther ==
    ASSUME NEW r, NEW P, Stored(r, P), NEW e
    PROVE  /\ Stored([r EXCEPT !.events = e], P) /\ [r EXCEPT !.events = e].nil = r.nil
           /\ Stored([r EXCEPT !.nil = TRUE], P)
<1> DEFINE c == [r EXCEPT !.events = e]
           d == [r EXCEPT !.nil = TRUE]
<1>1. {"streamsIn", "reports", "events", "nil"} \subseteq DOMAIN r
  BY Zenon DEF Stored
<1>2. DOMAIN d = DOMAIN r /\ DOMAIN c = DOMAIN r
  OBVIOUS
<1>3. /\ c.reports = r.reports /\ c.streamsIn = r.streamsIn /\ c.nil = r.nil
      /\ d.reports = r.reports /\ d.streamsIn = r.streamsIn /\ d.nil = TRUE
  BY <1>1
<1> HIDE DEF c, d
<1>4. Stored(c, P) /\ Stored(d, P)
  BY <1>1, <1>2, <1>3, Zenon DEF Stored
<1> QED  BY <1>3, <1>4, Zenon DEF c, d

\* A stream that a sender makes known.
LEMMA NewStreamRead ==
    ASSUME NEW P, NEW o, SenderRead(o, P)
    PROVE  StreamRead(NewStream, o, P) /\ NewStream.status = "active"
<1> DEFINE n == NewStream
<1>1. /\ {"status", "items", "info"} \subseteq DOMAIN n
      /\ n.status = "active" /\ n.items = <<>> /\ n.info = <<>>
  BY DEF NewStream
<1>2. ItemsRead(<<>>, o, P) /\ InfoRead(<<>>, o, P)
  BY DEF ItemsRead, InfoRead
<1> HIDE DEF n
<1>3. StreamRead(n, o, P)
  BY <1>1, <1>2 DEF StreamRead
<1> QED  BY <1>1, <1>3, Zenon DEF n

\* The stream that rtcpSenderCheck creates is of a sender that was read.
LEMMA KnownSender ==
    ASSUME NEW P, NEW p \in P, p.type \in SenderTypes, NEW r, Stored(r, P)
    PROVE  /\ Stored(KnowSender(r, p), P) /\ p.ssrc \in DOMAIN KnowSender(r, p).streamsIn
           /\ KnowSender(r, p).nil = r.nil
<1>1. CASE p.ssrc \in DOMAIN r.streamsIn
  BY <1>1, Zenon DEF KnowSender
<1>2. CASE p.ssrc \notin DOMAIN r.streamsIn
  <2> DEFINE o == p.ssrc
             s == r.streamsIn
             n == Put(s, o, NewStream)
             d == KnowSender(r, p)
  <2>1. Restreamed(d, r, n)
    BY <1>2, Zenon DEF KnowSender, Restreamed
  <2>2. SenderRead(o, P)
    BY Zenon DEF SenderRead
  <2>3. StreamRead(NewStream, o, P) /\ StreamsRead(s, P)
    BY <2>2, NewStreamRead, Zenon DEF Stored
  <2>4. n = [k \in DOMAIN s \cup {o} |-> IF k = o THEN NewStream ELSE s[k]]
    BY Zenon DEF Put
  <2> HIDE DEF n, o, s, d
  <2>5. /\ DOMAIN n = DOMAIN s \cup {o}
        /\ \A k \in DOMAIN n : \/ n[k] = NewStream /\ k = o
                               \/ n[k] = s[k] /\ k \in DOMAIN s
    <3> DEFINE v == NewStream
    <3> HIDE DEF v
    <3>1. n = [k \in DOMAIN s \cup {o} |-> IF k = o THEN v ELSE s[k]]
      BY <2>4 DEF v
    <3>2. DOMAIN n = DOMAIN s \cup {o}
      BY <3>1, Zenon
    <3>3. \A k \in DOMAIN s \cup {o} : n[k] = IF k = o THEN v ELSE s[k]
      BY <3>1, Zenon
    <3> QED  BY <3>2, <3>3, Zenon DEF v
  <2>6. StreamsRead(n, P)
    BY <2>3, <2>5, Zenon DEF StreamsRead
  <2>7. Stored(d, P) /\ d.streamsIn = n /\ d.nil = r.nil
    BY <2>1, <2>6, StoredStreams, SMT
  <2>8. o \in DOMAIN n
    BY <2>5, Zenon
  <2> QED  BY <2>7, <2>8, Zenon DEF o, d
<1> QED  BY <1>1, <1>2

\* The sender's information, a BYE, and the items of a chunk are stored.
LEMMA StoredInfo ==
    ASSUME NEW P, NEW p \in P, p.type = RtcpSR, NEW r, Stored(r, P),
           p.ssrc \in DOMAIN r.streamsIn
    PROVE  Stored(ReadInfo(r, p), P) /\ ReadInfo(r, p).nil = r.nil
<1> DEFINE o == p.ssrc
           s == r.streamsIn
           v == <<p.time, p.stamp, p.packets, p.octets>>
           str == [s[o] EXCEPT !.info = v]
           n == [s EXCEPT ![o] = str]
           d == ReadInfo(r, p)
<1>1. Restreamed(d, r, n)
  BY Zenon DEF ReadInfo, Restreamed
<1>2. StreamsRead(s, P) /\ StreamRead(s[o], o, P)
  BY Zenon DEF Stored, StreamsRead
<1>3. {"status", "items", "info"} \subseteq DOMAIN s[o]
  BY <1>2, Zenon DEF StreamRead
<1>4. InfoRead(v, o, P)
  BY Zenon DEF InfoRead
<1> HIDE DEF v
<1>5. /\ DOMAIN str = DOMAIN s[o] /\ str.info = v
      /\ str.status = s[o].status /\ str.items = s[o].items
  <2> DEFINE x == s[o]
  <2> HIDE DEF x
  <2>1. {"status", "items", "info"} \subseteq DOMAIN x
    BY <1>3 DEF x
  <2>2. /\ DOMAIN [x EXCEPT !.info = v] = DOMAIN x /\ [x EXCEPT !.info = v].info = v
        /\ [x EXCEPT !.info = v].status = x.status /\ [x EXCEPT !.info = v].items = x.items
    BY <2>1
  <2> QED  BY <2>2 DEF x
<1> HIDE DEF str, s, o
<1>6. StreamRead(str, o, P)
  BY <1>2, <1>4, <1>5 DEF StreamRead
<1>7. StreamsRead(n, P)
  BY <1>2, <1>6, StreamChanges, Zenon
<1> HIDE DEF n, d
<1>0. Stored(d, P) /\ d.nil = r.nil
  BY <1>1, <1>7, StoredStreams, SMT
<1> QED  BY <1>0, Zenon DEF d

\* A BYE closes the stream it was sent for.
LEMMA StoredBye ==
    ASSUME NEW P, NEW p \in P, p.type = RtcpBye, NEW r, Stored(r, P)
    PROVE  Stored(ReadBye(r, p), P) /\ ReadBye(r, p).nil = r.nil
<1>1. CASE p.ssrc \notin DOMAIN r.streamsIn
  BY <1>1, Zenon DEF ReadBye
<1>2. CASE p.ssrc \in DOMAIN r.streamsIn
  <2> DEFINE o == p.ssrc
             s == r.streamsIn
             str == [s[o] EXCEPT !.status = "isClosing"]
             n == [s EXCEPT ![o] = str]
             d == ReadBye(r, p)
  <2>1. Restreamed(d, r, n)
    BY <1>2, Zenon DEF ReadBye, Restreamed
  <2>2. StreamsRead(s, P) /\ StreamRead(s[o], o, P)
    BY <1>2, Zenon DEF Stored, StreamsRead
  <2>3. {"status", "items", "info"} \subseteq DOMAIN s[o]
    BY <2>2, Zenon DEF StreamRead
  <2>4. ByeRead(o, P)
    BY Zenon DEF ByeRead
  <2>5. /\ DOMAIN str = DOMAIN s[o] /\ str.info = s[o].info
        /\ str.status = "isClosing" /\ str.items = s[o].items
    <3> DEFINE x == s[o]
               y == [x EXCEPT !.status = "isClosing"]
    <3> HIDE DEF x
    <3>1. {"status", "items", "info"} \subseteq DOMAIN x
      BY <2>3 DEF x
    <3>2. /\ DOMAIN y = DOMAIN x /\ y.info = x.info
          /\ y.status = "isClosing" /\ y.items = x.items
      BY <3>1
    <3> QED  BY <3>2 DEF x
  <2> HIDE DEF str, s, o
  <2>6. StreamRead(str, o, P)
    BY <2>2, <2>4, <2>5 DEF StreamRead
  <2>7. StreamsRead(n, P)
    BY <2>2, <2>6, StreamChanges, Zenon
  <2> HIDE DEF n, d
  <2>0. Stored(d, P) /\ d.nil = r.nil
    BY <2>1, <2>7, StoredStreams, SMT
  <2> QED  BY <2>0, Zenon DEF d
<1> QED  BY <1>1, <1>2

\* A chunk gives its items to the stream with its SSRC.
LEMMA StoredItems ==
    ASSUME NEW P, NEW p \in P, p.type = RtcpSdes, NEW chunk \in Range(p.chunks),
           NEW r, Stored(r, P)
    PROVE  Stored(ReadItems(r, chunk), P) /\ ReadItems(r, chunk).nil = r.nil
<1> DEFINE s == r.streamsIn
           merged(o) == [s[o] EXCEPT !.items = Merged(chunk.items, @)]
           n == [o \in DOMAIN s |-> IF o = chunk.ssrc THEN merged(o) ELSE s[o]]
           d == ReadItems(r, chunk)
<1>1. Restreamed(d, r, n)
  BY Zenon DEF ReadItems, Restreamed
<1>2. StreamsRead(s, P)
  BY Zenon DEF Stored
<1> HIDE DEF s
<1>3. ASSUME NEW o \in DOMAIN s, o = chunk.ssrc PROVE StreamRead(merged(o), o, P)
  <2> DEFINE x == s[o]
             i == Merged(chunk.items, x.items)
             y == [x EXCEPT !.items = i]
  <2>1. StreamRead(x, o, P)
    BY <1>2, Zenon DEF StreamsRead
  <2>2. {"status", "items", "info"} \subseteq DOMAIN x
    BY <2>1, Zenon DEF StreamRead
  <2>3. i = [k \in DOMAIN chunk.items \cup DOMAIN x.items |->
                IF k \in DOMAIN chunk.items THEN chunk.items[k] ELSE x.items[k]]
    BY Zenon DEF Merged
  <2>4. \A k \in DOMAIN i : \/ k \in DOMAIN chunk.items /\ i[k] = chunk.items[k]
                            \/ k \in DOMAIN x.items /\ i[k] = x.items[k]
    BY <2>3, Zenon
  <2>5. ItemsRead(x.items, o, P)
    BY <2>1, Zenon DEF StreamRead
  <2>6. merged(o) = y
    BY Zenon
  <2> HIDE DEF i, x
  <2>7. ItemsRead(i, o, P)
    BY <1>3, <2>4, <2>5, Zenon DEF ItemsRead
  <2>8. /\ DOMAIN y = DOMAIN x /\ y.info = x.info
        /\ y.status = x.status /\ y.items = i
    BY <2>2
  <2> HIDE DEF y, merged
  <2>9. StreamRead(y, o, P)
    BY <2>1, <2>7, <2>8 DEF StreamRead
  <2> QED  BY <2>6, <2>9, Zenon
<1>4. \A o \in DOMAIN s : StreamRead(s[o], o, P)
  BY <1>2, Zenon DEF StreamsRead
<1> HIDE DEF merged
<1>5. StreamsRead(n, P)
  BY <1>3, <1>4, Zenon DEF StreamsRead
<1> HIDE DEF n, d
<1>0. Stored(d, P) /\ d.nil = r.nil
  BY <1>1, <1>5, StoredStreams, SMT
<1> QED  BY <1>0, Zenon DEF d

\* A report block is stored.
LEMMA StoredBlock ==
    ASSUME NEW P, NEW p \in P, p.type \in {RtcpSR, RtcpRR}, NEW block \in Range(p.blocks),
           NEW r, Stored(r, P)
    PROVE  Stored(ReadBlock(r, block), P) /\ ReadBlock(r, block).nil = r.nil
<1>1. CASE block.ssrc \notin DOMAIN r.reports
  BY <1>1, Zenon DEF ReadBlock
<1>2. CASE block.ssrc \in DOMAIN r.reports
  <2> DEFINE i == block.ssrc
             s == r.reports
             n == [s EXCEPT ![i] = block]
             d == ReadBlock(r, block)
  <2>1. Rereported(d, r, n)
    BY <1>2, Zenon DEF ReadBlock, Rereported
  <2>2. BlockRead(block, i, P)
    BY Zenon DEF BlockRead
  <2>3. ReportsRead(s, P)
    BY Zenon DEF Stored
  <2> HIDE DEF i, s
  <2>4. ReportsRead(n, P)
    BY <2>2, <2>3, Zenon DEF ReportsRead
  <2> HIDE DEF n, d
  <2>0. Stored(d, P) /\ d.nil = r.nil
    BY <2>1, <2>4, StoredReports, Zenon
  <2> QED  BY <2>0, Zenon DEF d
<1> QED  BY <1>1, <1>2

-----------------------------------------------------------------------------
\* The loops of the reader.

\* What SdesChunks has after one chunk more.
ChunkMore(s, b) ==
    LET l == chunkLen(b, s.at, s.left)
    IN  IF s.at + s.left > BufferLen \/ l = -1 THEN s
        ELSE [at |-> s.at + l, left |-> s.left - l,
              chunks |-> Append(s.chunks, [ssrc |-> Uint32(b, s.at),
                                           items |-> parseSdesChunk(b, s.at, s.left)])]

\* One turn of the loop over blocks, chunks or packets, or over the bytes of
\* an SDES packet.
Turn(loop, r, x) ==
    IF loop = "blocks" THEN ReadBlock(r, x)
    ELSE IF loop = "chunks" THEN ReadItems(r, x)
    ELSE IF loop = "packets" THEN ReadPacket(r, x)
    ELSE ChunkMore(r, x)

\* f[k] is where the loop over xs is after k turns.
Loops(loop, first, xs, N, f) ==
    f = [k \in 0 .. N |-> IF k = 0 THEN first ELSE Turn(loop, f[k - 1], xs[k])]

\* Every loop runs.
LEMMA LoopRuns ==
    ASSUME NEW loop, NEW first, NEW xs, NEW N \in Nat
    PROVE  \E f : Loops(loop, first, xs, N, f)
<1> DEFINE turn(c, k) == Turn(loop, c, xs[k])
           Body(f, n) == [k \in 0 .. n |-> IF k = 0 THEN first ELSE turn(f[k - 1], k)]
           S == {n \in Nat : \E f : f = Body(f, n)}
<1> HIDE DEF turn
<1>1. 0 \in S
  <2> DEFINE f == [k \in 0 .. 0 |-> first]
  <2>1. f = Body(f, 0)
    OBVIOUS
  <2> HIDE DEF f
  <2>2. \E g : g = Body(g, 0)
    BY <2>1, Zenon
  <2> QED  BY <2>2
<1>2. ASSUME NEW n \in Nat, n \in S PROVE n + 1 \in S
  <2>1. PICK g : g = Body(g, n)
    BY <1>2
  <2> DEFINE v(k) == IF k = 0 THEN first ELSE turn(g[k - 1], k)
             f == [k \in 0 .. n + 1 |-> v(k)]
  <2>2. ASSUME NEW k \in 0 .. n PROVE g[k] = v(k)
    BY <2>1, Zenon
  <2>3. ASSUME NEW k \in 0 .. n + 1 PROVE f[k] = IF k = 0 THEN first ELSE turn(f[k - 1], k)
    <3>1. CASE k = 0
      BY <3>1, Zenon
    <3>2. CASE k # 0
      <4>1. k - 1 \in 0 .. n /\ k - 1 \in 0 .. n + 1
        BY <3>2
      <4>2. f[k - 1] = v(k - 1)
        BY <4>1, Zenon
      <4>3. f[k - 1] = g[k - 1]
        BY <2>2, <4>1, <4>2, Zenon
      <4>4. f[k] = turn(g[k - 1], k)
        BY <3>2, Zenon
      <4> QED  BY <3>2, <4>3, <4>4, Zenon
    <3> QED  BY <3>1, <3>2, Zenon
  <2>4. f = [k \in 0 .. n + 1 |-> f[k]]
    BY Zenon
  <2> HIDE DEF f
  <2>5. f = Body(f, n + 1)
    BY <2>3, <2>4, Zenon
  <2>6. n + 1 \in Nat
    OBVIOUS
  <2> QED  BY <2>5, <2>6, Zenon
<1>3. Nat \subseteq S
  <2> HIDE DEF S
  <2> QED  BY <1>1, <1>2, Induction
<1>4. N \in S
  <2> HIDE DEF S
  <2> QED  BY <1>3
<1>5. PICK f : f = Body(f, N)
  BY <1>4
<1> QED  BY <1>5, Zenon DEF Loops, turn

\* The same for its values.
Runs(loop, first, xs, N, f) ==
    f[0] = first /\ \A k \in 1 .. N : f[k] = Turn(loop, f[k - 1], xs[k])

\* The loops of the model are loops of that kind.
LEMMA LoopsOfReader ==
    ASSUME NEW r, NEW xs, Len(xs) \in Nat
    PROVE  /\ \E f : Runs("blocks", r, xs, Len(xs), f) /\ ReadBlocks(r, xs) = f[Len(xs)]
           /\ \E f : Runs("chunks", r, xs, Len(xs), f) /\ ReadChunks(r, xs) = f[Len(xs)]
           /\ \E f : Runs("packets", r, xs, Len(xs), f) /\ ReadPackets(r, xs) = f[Len(xs)]
<1> DEFINE N == Len(xs)
           wb == CHOOSE f : f = [k \in 0 .. N |->
                     IF k = 0 THEN r ELSE ReadBlock(f[k - 1], xs[k])]
           wc == CHOOSE f : f = [k \in 0 .. N |->
                     IF k = 0 THEN r ELSE ReadItems(f[k - 1], xs[k])]
           wp == CHOOSE f : f = [k \in 0 .. N |->
                     IF k = 0 THEN r ELSE ReadPacket(f[k - 1], xs[k])]
<1>1. /\ ReadBlocks(r, xs) = wb[N] /\ ReadChunks(r, xs) = wc[N]
      /\ ReadPackets(r, xs) = wp[N]
  BY Zenon DEF ReadBlocks, ReadChunks, ReadPackets
<1>2. \A c, x : /\ Turn("blocks", c, x) = ReadBlock(c, x)
                /\ Turn("chunks", c, x) = ReadItems(c, x)
                /\ Turn("packets", c, x) = ReadPacket(c, x)
  <2>1. "chunks" # "blocks" /\ "packets" # "blocks" /\ "packets" # "chunks"
    OBVIOUS
  <2> QED  BY <2>1, Zenon DEF Turn
<1>3. 0 \in 0 .. N /\ \A k \in 1 .. N : k \in 0 .. N /\ k # 0
  OBVIOUS
<1>4. Runs("blocks", r, xs, N, wb)
  <2>1. PICK g : Loops("blocks", r, xs, N, g)
    BY LoopRuns, Zenon
  <2>2. \A k \in 0 .. N : g[k] = IF k = 0 THEN r ELSE ReadBlock(g[k - 1], xs[k])
    BY <1>2, <2>1, Zenon DEF Loops
  <2>3. g = [k \in 0 .. N |-> g[k]]
    BY <2>1, Zenon DEF Loops
  <2>4. g = [k \in 0 .. N |-> IF k = 0 THEN r ELSE ReadBlock(g[k - 1], xs[k])]
    BY <2>2, <2>3, Zenon
  <2>5. wb = [k \in 0 .. N |-> IF k = 0 THEN r ELSE ReadBlock(wb[k - 1], xs[k])]
    BY <2>4, Zenon
  <2> HIDE DEF wb
  <2>6. \A k \in 0 .. N : wb[k] = IF k = 0 THEN r ELSE ReadBlock(wb[k - 1], xs[k])
    BY <2>5, Zenon
  <2>7. wb[0] = r
    BY <1>3, <2>6, Zenon
  <2>8. \A k \in 1 .. N : wb[k] = ReadBlock(wb[k - 1], xs[k])
    BY <1>3, <2>6, Zenon
  <2> QED  BY <1>2, <2>7, <2>8, Zenon DEF Runs
<1>5. Runs("chunks", r, xs, N, wc)
  <2>1. PICK g : Loops("chunks", r, xs, N, g)
    BY LoopRuns, Zenon
  <2>2. \A k \in 0 .. N : g[k] = IF k = 0 THEN r ELSE ReadItems(g[k - 1], xs[k])
    BY <1>2, <2>1, Zenon DEF Loops
  <2>3. g = [k \in 0 .. N |-> g[k]]
    BY <2>1, Zenon DEF Loops
  <2>4. g = [k \in 0 .. N |-> IF k = 0 THEN r ELSE ReadItems(g[k - 1], xs[k])]
    BY <2>2, <2>3, Zenon
  <2>5. wc = [k \in 0 .. N |-> IF k = 0 THEN r ELSE ReadItems(wc[k - 1], xs[k])]
    BY <2>4, Zenon
  <2> HIDE DEF wc
  <2>6. \A k \in 0 .. N : wc[k] = IF k = 0 THEN r ELSE ReadItems(wc[k - 1], xs[k])
    BY <2>5, Zenon
  <2>7. wc[0] = r
    BY <1>3, <2>6, Zenon
  <2>8. \A k \in 1 .. N : wc[k] = ReadItems(wc[k - 1], xs[k])
    BY <1>3, <2>6, Zenon
  <2> QED  BY <1>2, <2>7, <2>8, Zenon DEF Runs
<1>6. Runs("packets", r, xs, N, wp)
  <2>1. PICK g : Loops("packets", r, xs, N, g)
    BY LoopRuns, Zenon
  <2>2. \A k \in 0 .. N : g[k] = IF k = 0 THEN r ELSE ReadPacket(g[k - 1], xs[k])
    BY <1>2, <2>1, Zenon DEF Loops
  <2>3. g = [k \in 0 .. N |-> g[k]]
    BY <2>1, Zenon DEF Loops
  <2>4. g = [k \in 0 .. N |-> IF k = 0 THEN r ELSE ReadPacket(g[k - 1], xs[k])]
    BY <2>2, <2>3, Zenon
  <2>5. wp = [k \in 0 .. N |-> IF k = 0 THEN r ELSE ReadPacket(wp[k - 1], xs[k])]
    BY <2>4, Zenon
  <2> HIDE DEF wp
  <2>6. \A k \in 0 .. N : wp[k] = IF k = 0 THEN r ELSE ReadPacket(wp[k - 1], xs[k])
    BY <2>5, Zenon
  <2>7. wp[0] = r
    BY <1>3, <2>6, Zenon
  <2>8. \A k \in 1 .. N : wp[k] = ReadPacket(wp[k - 1], xs[k])
    BY <1>3, <2>6, Zenon
  <2> QED  BY <1>2, <2>7, <2>8, Zenon DEF Runs
<1> HIDE DEF wb, wc, wp
<1> QED  BY <1>1, <1>4, <1>5, <1>6, Zenon

\* What holds at the start of a loop and is kept by its turns holds at its end.
LEMMA LoopKeeps ==
    ASSUME NEW f, NEW N \in Nat, NEW G, f[0] \in G,
           \A k \in 1 .. N : f[k - 1] \in G => f[k] \in G
    PROVE  f[N] \in G
<1> DEFINE S == {n \in Nat : n <= N => f[n] \in G}
<1>1. 0 \in S
  OBVIOUS
<1>2. ASSUME NEW n \in Nat, n \in S PROVE n + 1 \in S
  <2>1. n + 1 <= N => n + 1 \in 1 .. N /\ (n + 1) - 1 = n /\ n <= N
    OBVIOUS
  <2> QED  BY <1>2, <2>1
<1>3. Nat \subseteq S
  <2> HIDE DEF S
  <2> QED  BY <1>1, <1>2, Induction
<1> QED  BY <1>3

-----------------------------------------------------------------------------
\* What OnRecvCtrl reads is what it can work with.

BlockFields == {"ssrc", "frac", "lost", "highest", "jitter"}

Legible(p) ==
    /\ p.type \in {RtcpSR, RtcpRR} =>
          /\ {"ssrc", "blocks"} \subseteq DOMAIN p /\ IsSeq(p.blocks)
          /\ \A k \in DOMAIN p.blocks : BlockFields \subseteq DOMAIN p.blocks[k]
    /\ p.type = RtcpSR => {"stamp", "packets", "octets"} \subseteq DOMAIN p
    /\ p.type = RtcpSdes => IsSeq(p.chunks)

\* The chunks of an SDES packet are a list, whatever its bytes are.
LEMMA SdesChunksListed ==
    ASSUME NEW b, NEW o, NEW len, NEW n \in Nat
    PROVE  IsSeq(SdesChunks(b, o, len, n))
<1> DEFINE first == [at |-> o, left |-> len, chunks |-> <<>>]
           w == CHOOSE f : f = [k \in 0 .. n |->
                    IF k = 0 THEN first ELSE ChunkMore(f[k - 1], b)]
           xs == [k \in 0 .. n |-> b]
<1>1. SdesChunks(b, o, len, n) = w[n].chunks
  BY Zenon DEF SdesChunks, ChunkMore
<1>2. \A c, x : Turn("bytes", c, x) = ChunkMore(c, x)
  <2>1. "bytes" # "blocks" /\ "bytes" # "chunks" /\ "bytes" # "packets"
    OBVIOUS
  <2> QED  BY <2>1, Zenon DEF Turn
<1>4. 0 \in 0 .. n /\ \A k \in 1 .. n : k \in 0 .. n /\ k # 0 /\ k - 1 \in 0 .. n
  OBVIOUS
<1>5. first.chunks = <<>>
  OBVIOUS
<1> HIDE DEF first
<1>6. w = [k \in 0 .. n |-> IF k = 0 THEN first ELSE ChunkMore(w[k - 1], b)]
  <2>1. PICK g : Loops("bytes", first, xs, n, g)
    BY LoopRuns, Zenon
  <2>2. \A k \in 0 .. n : xs[k] = b
    BY Zenon
  <2> HIDE DEF xs
  <2>3. \A k \in 0 .. n : g[k] = IF k = 0 THEN first ELSE Turn("bytes", g[k - 1], xs[k])
    BY <2>1, Zenon DEF Loops
  <2>4. \A k \in 0 .. n : g[k] = IF k = 0 THEN first ELSE ChunkMore(g[k - 1], b)
    <3> SUFFICES ASSUME NEW k \in 0 .. n
                 PROVE  g[k] = IF k = 0 THEN first ELSE ChunkMore(g[k - 1], b)
      BY Zenon
    <3>1. Turn("bytes", g[k - 1], xs[k]) = ChunkMore(g[k - 1], b)
      BY <1>2, <2>2, Zenon
    <3> QED  BY <2>3, <3>1, Zenon
  <2>5. g = [k \in 0 .. n |-> g[k]]
    BY <2>1, Zenon DEF Loops
  <2>6. g = [k \in 0 .. n |-> IF k = 0 THEN first ELSE ChunkMore(g[k - 1], b)]
    BY <2>4, <2>5, Zenon
  <2> QED  BY <2>6, Zenon
<1> HIDE DEF w
<1>7. \A k \in 0 .. n : w[k] = IF k = 0 THEN first ELSE ChunkMore(w[k - 1], b)
  BY <1>6, Zenon
<1>8. w[0] = first
  BY <1>4, <1>7, Zenon
<1>9. \A k \in 1 .. n : w[k] = ChunkMore(w[k - 1], b)
  BY <1>4, <1>7, Zenon
<1>10. ASSUME NEW s, IsSeq(s.chunks) PROVE IsSeq(ChunkMore(s, b).chunks)
  <2> DEFINE l == chunkLen(b, s.at, s.left)
             c == [ssrc |-> Uint32(b, s.at), items |-> parseSdesChunk(b, s.at, s.left)]
             d == [at |-> s.at + l, left |-> s.left - l, chunks |-> Append(s.chunks, c)]
  <2>1. ChunkMore(s, b) = s \/ ChunkMore(s, b) = d
    BY Zenon DEF ChunkMore
  <2>2. d.chunks = Append(s.chunks, c)
    OBVIOUS
  <2> DEFINE x == s.chunks
  <2> HIDE DEF d, c, x
  <2>3. IsSeq(x)
    BY <1>10 DEF x
  <2>4. IsSeq(Append(x, c))
    BY <2>3, OneMore, Zenon
  <2>5. IsSeq(d.chunks)
    BY <2>2, <2>4, Zenon DEF x
  <2> QED  BY <1>10, <2>1, <2>5, Zenon
<1> DEFINE G == {c \in {w[k] : k \in 0 .. n} : IsSeq(c.chunks)}
<1>11. w[0] \in G
  <2>1. <<>> \in Seq({})
    OBVIOUS
  <2>2. IsSeq(<<>>)
    BY <2>1, Zenon DEF IsSeq
  <2> QED  BY <1>4, <1>5, <1>8, <2>2, Zenon
<1>12. \A k \in 1 .. n : w[k - 1] \in G => w[k] \in G
  BY <1>4, <1>9, <1>10, Zenon
<1>13. w[n] \in G
  <2> HIDE DEF G
  <2> QED  BY <1>11, <1>12, LoopKeeps, Zenon
<1> QED  BY <1>1, <1>13, Zenon

\* So is every packet that OnRecvCtrl finds legible.
LEMMA PacketLegible ==
    ASSUME NEW b \in Seq(Byte), NEW o \in Nat, NEW len
    PROVE  Legible(Packet(b, o, len))
<1> DEFINE p == Packet(b, o, len)
           type == At(b, o + 1)
           n == At(b, o) % 32
<1>1. n \in Nat
  <2>1. Stale \in Byte
    BY RtcpPacketAssumption DEF Byte
  <2>2. At(b, o) \in Byte
    BY <2>1 DEF At
  <2>3. \A a \in Byte : a % 32 \in Nat
    BY DEF Byte
  <2> QED  BY <2>2, <2>3, Zenon
<1> HIDE DEF n
<1>2. ASSUME NEW x
      PROVE  /\ IsSeq(Blocks(b, x, n))
             /\ \A k \in DOMAIN Blocks(b, x, n) : BlockFields \subseteq DOMAIN Blocks(b, x, n)[k]
  <2> DEFINE q == Blocks(b, x, n)
             R == {readRecvReport(b, x + 24 * (k - 1)) : k \in 1 .. n}
  <2>1. q = [k \in 1 .. n |-> readRecvReport(b, x + 24 * (k - 1))]
    BY Zenon DEF Blocks
  <2>2. q \in [1 .. n -> R]
    BY <2>1
  <2>3. \A r \in R : BlockFields \subseteq DOMAIN r
    BY DEF readRecvReport, BlockFields
  <2> HIDE DEF q, R
  <2>4. q \in Seq(R) /\ DOMAIN q = 1 .. n
    BY <1>1, <2>2
  <2>5. IsSeq(q)
    BY <2>4, Zenon DEF IsSeq
  <2>6. \A k \in DOMAIN q : BlockFields \subseteq DOMAIN q[k]
    BY <2>2, <2>3, <2>4
  <2> QED  BY <2>5, <2>6 DEF q
<1>3. IsSeq(SdesChunks(b, o + 4, len - 4, n))
  BY <1>1, SdesChunksListed, Zenon
<1> DEFINE bytes(l) == [k \in 1 .. l |-> At(b, o + 11 + k)]
           sr == [type |-> type, ssrc |-> Uint32(b, o + 4),
                  time |-> fromNtp(Uint32(b, o + 8), Uint32(b, o + 12)),
                  stamp |-> Uint32(b, o + 16), packets |-> Uint32(b, o + 20),
                  octets |-> Uint32(b, o + 24), blocks |-> Blocks(b, o + 28, n)]
           rr == [type |-> type, ssrc |-> Uint32(b, o + 4),
                  blocks |-> Blocks(b, o + 8, n)]
           sdes == [type |-> type, chunks |-> SdesChunks(b, o + 4, len - 4, n)]
           bye == [type |-> type, ssrc |-> Uint32(b, o + 4),
                   reason |-> getReason(b, o + 4, len - 4, n)]
           fb == [type |-> type, ssrc |-> Uint32(b, o + 4), reason |-> bytes(len - 12)]
           ps == [type |-> type, ssrc |-> Uint32(b, o + 4), reason |-> bytes(8)]
           other == [type |-> type]
<1>8. p = CASE type = RtcpSR -> sr [] type = RtcpRR -> rr [] type = RtcpSdes -> sdes
            [] type = RtcpBye -> bye [] type = RtcpRtpfb -> fb [] type = RtcpPsfb -> ps
            [] OTHER -> other
  BY Zenon DEF Packet, n
<1>9. bye.type = type /\ fb.type = type /\ ps.type = type /\ other.type = type
  OBVIOUS
<1>10. /\ {"ssrc", "blocks", "stamp", "packets", "octets"} \subseteq DOMAIN sr
       /\ sr.type = type /\ sr.blocks = Blocks(b, o + 28, n)
  OBVIOUS
<1>11. /\ {"ssrc", "blocks"} \subseteq DOMAIN rr
       /\ rr.type = type /\ rr.blocks = Blocks(b, o + 8, n)
  OBVIOUS
<1>12. sdes.type = type /\ sdes.chunks = SdesChunks(b, o + 4, len - 4, n)
  OBVIOUS
<1> HIDE DEF p, sr, rr, sdes, bye, fb, ps, other, type
<1>4. CASE type = RtcpSR
  <2> DEFINE blocks == Blocks(b, o + 28, n)
  <2> HIDE DEF blocks
  <2>0. p = sr
    BY <1>4, <1>8 DEF RtcpSR, RtcpRR, RtcpSdes, RtcpBye, RtcpRtpfb, RtcpPsfb
  <2>1. /\ {"ssrc", "blocks", "stamp", "packets", "octets"} \subseteq DOMAIN p
        /\ p.type = RtcpSR /\ p.blocks = blocks
    BY <1>4, <2>0, <1>10, Zenon DEF blocks
  <2>2. /\ IsSeq(p.blocks)
        /\ \A k \in DOMAIN p.blocks : BlockFields \subseteq DOMAIN p.blocks[k]
    BY <1>2, <2>1, Zenon DEF blocks
  <2>3. p.type # RtcpSdes
    BY <2>1 DEF RtcpSR, RtcpSdes
  <2>4. Legible(p)
    BY <2>1, <2>2, <2>3 DEF Legible
  <2> QED  BY <2>4, Zenon DEF p
<1>5. CASE type = RtcpRR
  <2> DEFINE blocks == Blocks(b, o + 8, n)
  <2> HIDE DEF blocks
  <2>0. p = rr
    BY <1>5, <1>8 DEF RtcpSR, RtcpRR, RtcpSdes, RtcpBye, RtcpRtpfb, RtcpPsfb
  <2>1. /\ {"ssrc", "blocks"} \subseteq DOMAIN p
        /\ p.type = RtcpRR /\ p.blocks = blocks
    BY <1>5, <2>0, <1>11, Zenon DEF blocks
  <2>2. /\ IsSeq(p.blocks)
        /\ \A k \in DOMAIN p.blocks : BlockFields \subseteq DOMAIN p.blocks[k]
    BY <1>2, <2>1, Zenon DEF blocks
  <2>3. p.type # RtcpSdes /\ p.type # RtcpSR
    BY <2>1 DEF RtcpSR, RtcpRR, RtcpSdes
  <2>4. Legible(p)
    BY <2>1, <2>2, <2>3 DEF Legible
  <2> QED  BY <2>4, Zenon DEF p
<1>6. CASE type = RtcpSdes
  <2> DEFINE chunks == SdesChunks(b, o + 4, len - 4, n)
  <2> HIDE DEF chunks
  <2>0. p = sdes
    BY <1>6, <1>8 DEF RtcpSR, RtcpRR, RtcpSdes, RtcpBye, RtcpRtpfb, RtcpPsfb
  <2>1. p.type = RtcpSdes /\ p.chunks = chunks
    BY <1>6, <2>0, <1>12, Zenon DEF chunks
  <2>2. IsSeq(p.chunks)
    BY <1>3, <2>1, Zenon DEF chunks
  <2>3. p.type \notin {RtcpSR, RtcpRR}
    BY <2>1 DEF RtcpSR, RtcpRR, RtcpSdes
  <2>4. Legible(p)
    BY <2>2, <2>3 DEF Legible
  <2> QED  BY <2>4, Zenon DEF p
<1>7. CASE type \notin {RtcpSR, RtcpRR, RtcpSdes}
  <2>1. p.type = type
    BY <1>7, <1>8, <1>9
  <2>2. Legible(p)
    BY <1>7, <2>1 DEF Legible
  <2> QED  BY <2>2, Zenon DEF p
<1> QED  BY <1>4, <1>5, <1>6, <1>7

\* The members of a list.
LEMMA ListMembers ==
    ASSUME NEW s, IsSeq(s)
    PROVE  /\ Len(s) \in Nat /\ DOMAIN s = 1 .. Len(s)
           /\ \A k \in 1 .. Len(s) : s[k] \in Range(s)
           /\ \A x \in Range(s) : \E k \in 1 .. Len(s) : x = s[k]
<1>1. PICK S : s \in Seq(S)
  BY Zenon DEF IsSeq
<1>2. Len(s) \in Nat /\ DOMAIN s = 1 .. Len(s)
  BY <1>1
<1> QED  BY <1>2, Zenon DEF Range

-----------------------------------------------------------------------------
\* A packet is read.

\* The blocks of a report are stored, one after the other.
LEMMA StoredBlocks ==
    ASSUME NEW P, NEW p \in P, p.type \in {RtcpSR, RtcpRR}, IsSeq(p.blocks),
           NEW r, Stored(r, P)
    PROVE  Stored(ReadBlocks(r, p.blocks), P) /\ ReadBlocks(r, p.blocks).nil = r.nil
<1> DEFINE xs == p.blocks
           N == Len(xs)
<1>1. N \in Nat /\ \A k \in 1 .. N : xs[k] \in Range(xs)
  BY ListMembers, Zenon
<1>2. PICK f : Runs("blocks", r, xs, N, f) /\ ReadBlocks(r, xs) = f[N]
  BY <1>1, LoopsOfReader, Zenon
<1>3. f[0] = r /\ \A k \in 1 .. N : f[k] = ReadBlock(f[k - 1], xs[k])
  BY <1>2, Zenon DEF Runs, Turn
<1>4. ASSUME NEW c, NEW k \in 1 .. N, Stored(c, P), c.nil = r.nil
      PROVE  Stored(ReadBlock(c, xs[k]), P) /\ ReadBlock(c, xs[k]).nil = r.nil
  <2>1. xs[k] \in Range(p.blocks)
    BY <1>1, Zenon
  <2>2. Stored(ReadBlock(c, xs[k]), P) /\ ReadBlock(c, xs[k]).nil = c.nil
    BY <1>4, <2>1, StoredBlock, Zenon
  <2> QED  BY <1>4, <2>2, Zenon
<1> HIDE DEF N, xs
<1> DEFINE G == {c \in {f[k] : k \in 0 .. N} : Stored(c, P) /\ c.nil = r.nil}
<1>5. 0 \in 0 .. N /\ \A k \in 1 .. N : k \in 0 .. N
  BY <1>1
<1>6. f[0] \in G
  BY <1>3, <1>5, Zenon
<1>7. ASSUME NEW k \in 1 .. N, f[k - 1] \in G PROVE f[k] \in G
  <2>1. Stored(f[k - 1], P) /\ f[k - 1].nil = r.nil
    BY <1>7, Zenon
  <2> DEFINE c == f[k - 1]
  <2>2. f[k] = ReadBlock(c, xs[k])
    BY <1>3, Zenon
  <2> HIDE DEF c
  <2>3. Stored(ReadBlock(c, xs[k]), P) /\ ReadBlock(c, xs[k]).nil = r.nil
    BY <1>4, <2>1, Zenon DEF c
  <2> QED  BY <1>5, <2>2, <2>3, Zenon
<1>8. f[N] \in G
  <2> HIDE DEF G
  <2> QED  BY <1>1, <1>6, <1>7, LoopKeeps, Zenon
<1> QED  BY <1>2, <1>8, Zenon DEF N, xs

\* So are the items of the chunks of an SDES packet.
LEMMA StoredChunks ==
    ASSUME NEW P, NEW p \in P, p.type = RtcpSdes, IsSeq(p.chunks),
           NEW r, Stored(r, P)
    PROVE  Stored(ReadChunks(r, p.chunks), P) /\ ReadChunks(r, p.chunks).nil = r.nil
<1> DEFINE xs == p.chunks
           N == Len(xs)
<1>1. N \in Nat /\ \A k \in 1 .. N : xs[k] \in Range(xs)
  BY ListMembers, Zenon
<1>2. PICK f : Runs("chunks", r, xs, N, f) /\ ReadChunks(r, xs) = f[N]
  BY <1>1, LoopsOfReader, Zenon
<1>3. f[0] = r /\ \A k \in 1 .. N : f[k] = ReadItems(f[k - 1], xs[k])
  <2>1. "chunks" # "blocks"
    OBVIOUS
  <2> QED  BY <1>2, <2>1, Zenon DEF Runs, Turn
<1>4. ASSUME NEW c, NEW k \in 1 .. N, Stored(c, P), c.nil = r.nil
      PROVE  Stored(ReadItems(c, xs[k]), P) /\ ReadItems(c, xs[k]).nil = r.nil
  <2>1. xs[k] \in Range(p.chunks)
    BY <1>1, Zenon
  <2>2. Stored(ReadItems(c, xs[k]), P) /\ ReadItems(c, xs[k]).nil = c.nil
    BY <1>4, <2>1, StoredItems, Zenon
  <2> QED  BY <1>4, <2>2, Zenon
<1> HIDE DEF N, xs
<1> DEFINE G == {c \in {f[k] : k \in 0 .. N} : Stored(c, P) /\ c.nil = r.nil}
<1>5. 0 \in 0 .. N /\ \A k \in 1 .. N : k \in 0 .. N
  BY <1>1
<1>6. f[0] \in G
  BY <1>3, <1>5, Zenon
<1>7. ASSUME NEW k \in 1 .. N, f[k - 1] \in G PROVE f[k] \in G
  <2>1. Stored(f[k - 1], P) /\ f[k - 1].nil = r.nil
    BY <1>7, Zenon
  <2> DEFINE c == f[k - 1]
  <2>2. f[k] = ReadItems(c, xs[k])
    BY <1>3, Zenon
  <2> HIDE DEF c
  <2>3. Stored(ReadItems(c, xs[k]), P) /\ ReadItems(c, xs[k]).nil = r.nil
    BY <1>4, <2>1, Zenon DEF c
  <2> QED  BY <1>5, <2>2, <2>3, Zenon
<1>8. f[N] \in G
  <2> HIDE DEF G
  <2> QED  BY <1>1, <1>6, <1>7, LoopKeeps, Zenon
<1> QED  BY <1>2, <1>8, Zenon DEF N, xs

\* Whatever a packet is, what the session stores it has read; it misses a
\* stream only when a sender is rejected.
LEMMA StoredPacket ==
    ASSUME NEW P, NEW p \in P, Legible(p), NEW r, Stored(r, P)
    PROVE  /\ Stored(ReadPacket(r, p), P)
           /\ ReadPacket(r, p).nil =>
                 r.nil \/ (p.type \in SenderTypes /\ Rejected(r, p.ssrc))
<1> DEFINE q == ReadPacket(r, p)
           k == KnowSender(r, p)
           said == [k EXCEPT !.events = Append(@, Event(p.type, p.ssrc, p.reason))]
           sender == IF Rejected(r, p.ssrc) THEN [r EXCEPT !.nil = TRUE]
                     ELSE IF p.type = RtcpSR THEN ReadBlocks(ReadInfo(k, p), p.blocks)
                     ELSE IF p.type = RtcpRR THEN ReadBlocks(k, p.blocks)
                     ELSE said
           chunks == ReadChunks(r, p.chunks)
           bye == ReadBye(r, p)
<1>1. q = CASE r.nil -> r
            [] ~r.nil /\ p.type \in SenderTypes -> sender
            [] ~r.nil /\ p.type = RtcpSdes -> chunks
            [] ~r.nil /\ p.type = RtcpBye -> bye
            [] OTHER -> r
  BY Zenon DEF ReadPacket, SenderTypes
<1>2. ASSUME p.type \in SenderTypes, ~Rejected(r, p.ssrc)
      PROVE  Stored(sender, P) /\ sender.nil = r.nil
  <2>1. Stored(k, P) /\ p.ssrc \in DOMAIN k.streamsIn /\ k.nil = r.nil
    BY <1>2, KnownSender, Zenon
  <2> HIDE DEF k
  <2>2. CASE p.type = RtcpSR
    <3>1. p.type \in {RtcpSR, RtcpRR} /\ IsSeq(p.blocks)
      BY <2>2, Zenon DEF Legible
    <3>2. Stored(ReadInfo(k, p), P) /\ ReadInfo(k, p).nil = r.nil
      BY <2>1, <2>2, StoredInfo, Zenon
    <3>3. sender = ReadBlocks(ReadInfo(k, p), p.blocks)
      BY <1>2, <2>2, Zenon
    <3> HIDE DEF sender
    <3> QED  BY <3>1, <3>2, <3>3, StoredBlocks, Zenon
  <2>3. CASE p.type = RtcpRR
    <3>1. p.type \in {RtcpSR, RtcpRR} /\ IsSeq(p.blocks)
      BY <2>3, Zenon DEF Legible
    <3>2. sender = ReadBlocks(k, p.blocks)
      <4>1. RtcpSR # RtcpRR
        BY DEF RtcpSR, RtcpRR
      <4> QED  BY <1>2, <2>3, <4>1, Zenon
    <3> HIDE DEF sender
    <3> QED  BY <2>1, <3>1, <3>2, StoredBlocks, Zenon
  <2>4. CASE p.type # RtcpSR /\ p.type # RtcpRR
    <3>1. sender = said
      BY <1>2, <2>4, Zenon
    <3> DEFINE e == Append(k.events, Event(p.type, p.ssrc, p.reason))
    <3>2. said = [k EXCEPT !.events = e]
      BY Zenon
    <3> HIDE DEF sender, said, e
    <3>3. Stored(said, P) /\ said.nil = k.nil
      BY <2>1, <3>2, StoredOther, Zenon
    <3> QED  BY <2>1, <3>1, <3>3, Zenon
  <2> QED  BY <2>2, <2>3, <2>4, Zenon
<1>3. ASSUME p.type \in SenderTypes, Rejected(r, p.ssrc)
      PROVE  Stored(sender, P)
  <2>1. sender = [r EXCEPT !.nil = TRUE]
    BY <1>3, Zenon
  <2> HIDE DEF sender
  <2> QED  BY <2>1, StoredOther, Zenon
<1>4. ASSUME p.type = RtcpSdes PROVE Stored(chunks, P) /\ chunks.nil = r.nil
  <2>1. IsSeq(p.chunks)
    BY <1>4, Zenon DEF Legible
  <2> QED  BY <1>4, <2>1, StoredChunks, Zenon
<1>5. ASSUME p.type = RtcpBye PROVE Stored(bye, P) /\ bye.nil = r.nil
  BY <1>5, StoredBye, Zenon
<1>6. r.nil \in BOOLEAN
  BY Zenon DEF Stored
<1> HIDE DEF q, sender, chunks, bye
<1>7. \/ r.nil /\ q = r
      \/ p.type \in SenderTypes /\ q = sender
      \/ p.type = RtcpSdes /\ q = chunks
      \/ p.type = RtcpBye /\ q = bye
      \/ q = r
  <2>1. CASE r.nil
    BY <1>1, <2>1, Zenon
  <2>2. CASE ~r.nil
    BY <1>1, <2>2 DEF SenderTypes, RtcpSR, RtcpRR, RtcpRtpfb, RtcpPsfb, RtcpSdes, RtcpBye
  <2> QED  BY <2>1, <2>2
<1>8. Stored(q, P) /\ (q.nil => r.nil \/ (p.type \in SenderTypes /\ Rejected(r, p.ssrc)))
  BY <1>2, <1>3, <1>4, <1>5, <1>7, Zenon
<1> QED  BY <1>8, Zenon DEF q

-----------------------------------------------------------------------------
\* Compounds are read.

\* The packets that can be read from the first n compounds of the list s.
PacketsOf(s, n) == UNION {Range(Walk(s[k].bytes).packets) : k \in 1 .. n}

\* OnRecvCtrl can work with what it finds in the bytes b.
LegibleBytes(b) ==
    IsSeq(Walk(b).packets) /\ \A p \in Range(Walk(b).packets) : Legible(p)

\* The streams and reports of the reading session.
Stores(P) == StreamsRead(streamsIn, P) /\ ReportsRead(reports, P)

\* The session with which OnRecvCtrl starts.
reader == [streamsIn |-> streamsIn, reports |-> reports, events |-> <<>>, nil |-> FALSE]

\* More compounds have more packets.
LEMMA PacketsMore ==
    ASSUME NEW s, NEW t, NEW m, NEW n, \A k \in 1 .. m : k \in 1 .. n /\ t[k] = s[k]
    PROVE  PacketsOf(s, m) \subseteq PacketsOf(t, n)
BY Zenon DEF PacketsOf

\* What the reading session stores is what OnRecvCtrl starts with.
LEMMA ReaderStored ==
    ASSUME NEW P, Stores(P)
    PROVE  Stored(reader, P) /\ ~reader.nil
<1> DEFINE r == reader
<1>1. /\ DOMAIN r = {"streamsIn", "reports", "events", "nil"}
      /\ r.streamsIn = streamsIn /\ r.reports = reports /\ r.nil = FALSE
  BY DEF reader
<1> HIDE DEF r
<1>2. Stored(r, P) /\ ~r.nil
  BY <1>1 DEF Stored, Stores
<1> QED  BY <1>2, Zenon DEF r

\* All packets of a compound are stored.
LEMMA StoredPackets ==
    ASSUME NEW P, NEW xs, IsSeq(xs), \A p \in Range(xs) : p \in P /\ Legible(p),
           NEW r, Stored(r, P)
    PROVE  Stored(ReadPackets(r, xs), P)
<1> DEFINE N == Len(xs)
<1>1. N \in Nat /\ \A k \in 1 .. N : xs[k] \in Range(xs)
  BY ListMembers, Zenon
<1>2. PICK f : Runs("packets", r, xs, N, f) /\ ReadPackets(r, xs) = f[N]
  BY <1>1, LoopsOfReader, Zenon
<1>3. f[0] = r /\ \A k \in 1 .. N : f[k] = ReadPacket(f[k - 1], xs[k])
  <2>1. "packets" # "blocks" /\ "packets" # "chunks"
    OBVIOUS
  <2> QED  BY <1>2, <2>1, Zenon DEF Runs, Turn
<1>4. ASSUME NEW c, NEW k \in 1 .. N, Stored(c, P)
      PROVE  Stored(ReadPacket(c, xs[k]), P)
  <2>1. xs[k] \in P /\ Legible(xs[k])
    BY <1>1, Zenon
  <2> QED  BY <1>4, <2>1, StoredPacket, Zenon
<1> HIDE DEF N
<1> DEFINE G == {c \in {f[k] : k \in 0 .. N} : Stored(c, P)}
<1>5. 0 \in 0 .. N /\ \A k \in 1 .. N : k \in 0 .. N
  BY <1>1
<1>6. f[0] \in G
  BY <1>3, <1>5, Zenon
<1>7. ASSUME NEW k \in 1 .. N, f[k - 1] \in G PROVE f[k] \in G
  <2> DEFINE c == f[k - 1]
  <2>1. Stored(c, P) /\ f[k] = ReadPacket(c, xs[k])
    BY <1>3, <1>7, Zenon
  <2> HIDE DEF c
  <2>2. Stored(ReadPacket(c, xs[k]), P)
    BY <1>4, <2>1, Zenon
  <2> QED  BY <1>5, <2>1, <2>2, Zenon
<1>8. f[N] \in G
  <2> HIDE DEF G
  <2> QED  BY <1>1, <1>6, <1>7, LoopKeeps, Zenon
<1> QED  BY <1>2, <1>8, Zenon DEF N

\* What OnRecvCtrl does to the reading session.
LEMMA CompoundRead ==
    ASSUME NEW k, OnRecvCtrl(k)
    PROVE  LET r == ReadPackets(reader, Walk(sent[k].bytes).packets)
           IN  /\ ~panicked /\ sent' = sent /\ newest' = k
               /\ orderly' = (orderly /\ k > newest)
               /\ \/ streamsIn' = r.streamsIn /\ reports' = r.reports /\ panicked' = r.nil
                  \/ streamsIn' = streamsIn /\ reports' = reports /\ panicked' = panicked
<1> DEFINE b == sent[k].bytes
           r == ReadPackets(reader, Walk(b).packets)
           first == At(b, 1) \in {RtcpSR, RtcpRR, RtcpPsfb, RtcpRtpfb}
           over == r.nil \/ Walk(b).end < Len(b)
<1>1. /\ ~panicked /\ newest' = k /\ orderly' = (orderly /\ k > newest)
      /\ IF first
         THEN /\ streamsIn' = r.streamsIn /\ reports' = r.reports /\ panicked' = r.nil
              /\ events' = IF over THEN events ELSE r.events
         ELSE UNCHANGED <<streamsIn, reports, panicked, events>>
      /\ UNCHANGED building
  BY Zenon DEF OnRecvCtrl, reader
<1> HIDE DEF r, first, over
<1>2. sent' = sent
  BY <1>1 DEF building
<1>3. \/ streamsIn' = r.streamsIn /\ reports' = r.reports /\ panicked' = r.nil
      \/ streamsIn' = streamsIn /\ reports' = reports /\ panicked' = panicked
  <2>1. CASE first
    BY <1>1, <2>1, Zenon
  <2>2. CASE ~first
    BY <1>1, <2>2
  <2> QED  BY <2>1, <2>2
<1> QED  BY <1>1, <1>2, <1>3 DEF r

-----------------------------------------------------------------------------
\* The invariant of the reading session: it stores what was sent.
Reading ==
    /\ Stores(PacketsOf(sent, Len(sent)))
    /\ panicked \in BOOLEAN /\ orderly \in BOOLEAN
    /\ newest \in Nat /\ newest <= Len(sent)

\* Only OnRecvCtrl changes the reading session.
LEMMA ReaderUnmoved ==
    ASSUME [Next]_vars
    PROVE  UNCHANGED reading \/ \E k \in DOMAIN sent : OnRecvCtrl(k)
<1>1. ASSUME NEW o \in OutStreams, NEW y \in ItemTypes, NEW text \in Texts,
             SetSdesItem(o, y, text)
      PROVE  UNCHANGED reading
  BY <1>1 DEF SetSdesItem
<1>2. ASSUME NEW o \in OutStreams, WriteData(o) \/ SsrcStreamClose(o)
      PROVE  UNCHANGED reading
  BY <1>2 DEF WriteData, SsrcStreamClose
<1>3. ASSUME NEW i \in InStreams, ReceiveData(i) \/ ReceiveSr(i)
      PROVE  UNCHANGED reading
  BY <1>3 DEF ReceiveData, ReceiveSr
<1>4. ASSUME rtcpService PROVE UNCHANGED reading
  <2>1. UNCHANGED <<calls, reading>>
    BY <1>4, Zenon DEF rtcpService
  <2> QED  BY <2>1
<1>5. ASSUME OtherSends PROVE UNCHANGED reading
  BY <1>5 DEF OtherSends
<1>6. ASSUME UNCHANGED vars PROVE UNCHANGED reading
  BY <1>6 DEF vars, reading
<1> QED  BY <1>1, <1>2, <1>3, <1>4, <1>5, <1>6, Zenon DEF Next

\* A session that has not read anything stores nothing.
LEMMA NothingStored ==
    ASSUME Init, NEW P
    PROVE  Stores(P)
<1>1. streamsIn = <<>> /\ reports = [i \in InStreams |-> <<>>]
  BY Zenon DEF Init
<1>2. DOMAIN streamsIn = {}
  BY <1>1
<1>3. StreamsRead(streamsIn, P)
  BY <1>2 DEF StreamsRead
<1>4. DOMAIN reports = InStreams /\ \A i \in InStreams : reports[i] = <<>>
  BY <1>1
<1>5. ReportsRead(reports, P)
  BY <1>4, Zenon DEF ReportsRead
<1> QED  BY <1>3, <1>5, Zenon DEF Stores

\* The invariant holds when the session starts.
LEMMA ReadingInit ==
    ASSUME Init
    PROVE  Reading
<1>1. sent = <<>> /\ panicked = FALSE /\ newest = 0 /\ orderly = TRUE
  BY Zenon DEF Init
<1>2. newest \in Nat /\ newest <= Len(sent)
  BY <1>1
<1>3. Stores(PacketsOf(sent, Len(sent)))
  BY NothingStored, Zenon
<1> QED  BY <1>1, <1>2, <1>3, Zenon DEF Reading

\* A compound that is sent does not take away what was stored.
LEMMA SentStores ==
    ASSUME Building, [Next]_vars, NEW P, P = PacketsOf(sent, Len(sent)),
           NEW n \in Nat, n <= Len(sent)
    PROVE  /\ P \subseteq PacketsOf(sent', Len(sent'))
           /\ PacketsOf(sent, n) \subseteq PacketsOf(sent', n)
           /\ Len(sent') \in Nat /\ Len(sent) <= Len(sent')
<1>1. Len(sent) \in Nat /\ IsSeq(sent)
  BY Zenon DEF Building
<1>2. CASE sent' = sent
  <2>1. \A s, m : PacketsOf(s, m) \subseteq PacketsOf(s, m)
    OBVIOUS
  <2>2. Len(sent') = Len(sent)
    BY <1>2, Zenon
  <2> QED  BY <1>1, <1>2, <2>1, <2>2, SMT
<1>3. CASE \E c : sent' = Append(sent, c)
  <2>1. PICK c : sent' = Append(sent, c)
    BY <1>3
  <2>2. Len(sent') = Len(sent) + 1 /\ \A k \in 1 .. Len(sent) : sent'[k] = sent[k]
    BY <1>1, <2>1, OneMore, Zenon
  <2>3. /\ Len(sent') \in Nat /\ Len(sent) <= Len(sent')
        /\ \A k \in 1 .. Len(sent) : k \in 1 .. Len(sent')
        /\ \A k \in 1 .. n : k \in 1 .. Len(sent)
    BY <1>1, <2>2
  <2>4. PacketsOf(sent, Len(sent)) \subseteq PacketsOf(sent', Len(sent'))
    BY <2>2, <2>3, PacketsMore, Zenon
  <2>5. PacketsOf(sent, n) \subseteq PacketsOf(sent', n)
    BY <2>2, <2>3, PacketsMore, Zenon
  <2> QED  BY <2>3, <2>4, <2>5, Zenon
<1> QED  BY <1>2, <1>3, Sends, Zenon

\* A step keeps it, if OnRecvCtrl can work with what it finds.
LEMMA ReadingStep ==
    ASSUME Building, Reading, \A k \in 1 .. Len(sent) : LegibleBytes(sent[k].bytes),
           [Next]_vars
    PROVE  Reading'
<1> DEFINE P == PacketsOf(sent, Len(sent))
           Q == PacketsOf(sent', Len(sent'))
<1>1. Len(sent) \in Nat /\ IsSeq(sent)
  BY Zenon DEF Building
<1>2. P \subseteq Q /\ Len(sent') \in Nat /\ Len(sent) <= Len(sent')
  BY <1>1, SentStores
<1>3. Stores(P) /\ panicked \in BOOLEAN /\ orderly \in BOOLEAN
      /\ newest \in Nat /\ newest <= Len(sent)
  BY Zenon DEF Reading
<1>4. CASE UNCHANGED reading
  <2>1. /\ streamsIn' = streamsIn /\ reports' = reports /\ panicked' = panicked
        /\ newest' = newest /\ orderly' = orderly
    BY <1>4 DEF reading
  <2> HIDE DEF P, Q
  <2>2. StreamsRead(streamsIn, Q) /\ ReportsRead(reports, Q)
    BY <1>2, <1>3, StoredMore, Zenon DEF Stores
  <2>3. StreamsRead(streamsIn', Q) /\ ReportsRead(reports', Q)
    BY <2>1, <2>2, Zenon
  <2>4. newest' \in Nat /\ newest' <= Len(sent')
    BY <1>1, <1>2, <1>3, <2>1
  <2> QED  BY <1>3, <2>1, <2>3, <2>4, Zenon DEF Reading, Stores, Q
<1>5. ASSUME NEW k \in DOMAIN sent, OnRecvCtrl(k)
      PROVE  Reading'
  <2> DEFINE xs == Walk(sent[k].bytes).packets
             r == ReadPackets(reader, xs)
  <2>1. /\ ~panicked /\ sent' = sent /\ newest' = k
        /\ orderly' = (orderly /\ k > newest)
        /\ \/ streamsIn' = r.streamsIn /\ reports' = r.reports /\ panicked' = r.nil
           \/ streamsIn' = streamsIn /\ reports' = reports /\ panicked' = panicked
    BY <1>5, CompoundRead, Zenon
  <2>2. k \in 1 .. Len(sent)
    BY <1>1, ListMembers, Zenon
  <2>3. IsSeq(xs) /\ \A p \in Range(xs) : p \in P /\ Legible(p)
    BY <2>2, Zenon DEF LegibleBytes, PacketsOf
  <2>4. Stored(r, P)
    BY <1>3, <2>3, ReaderStored, StoredPackets, Zenon
  <2>5. StreamsRead(r.streamsIn, P) /\ ReportsRead(r.reports, P) /\ r.nil \in BOOLEAN
    BY <2>4, Zenon DEF Stored
  <2> HIDE DEF r
  <2>6. StreamsRead(streamsIn', P) /\ ReportsRead(reports', P) /\ panicked' \in BOOLEAN
    BY <1>3, <2>1, <2>5, Zenon DEF Stores
  <2>7. Q = P
    BY <2>1, Zenon
  <2>8. newest' \in Nat /\ newest' <= Len(sent') /\ orderly' \in BOOLEAN
    BY <1>1, <2>1, <2>2
  <2> HIDE DEF P
  <2> QED  BY <2>6, <2>7, <2>8, Zenon DEF Reading, Stores
<1> QED  BY <1>4, <1>5, ReaderUnmoved, Zenon

-----------------------------------------------------------------------------
\* A legible packet that agrees with a meant one says the same.
LEMMA AgreesSays ==
    ASSUME NEW p, Legible(p), NEW q, Agrees(p, q)
    PROVE  /\ p.type = q.type
           /\ p.type \notin {RtcpSR, RtcpRR} => p = q
           /\ p.type \in {RtcpSR, RtcpRR} =>
                 /\ p.ssrc = q.ssrc
                 /\ \A c \in Range(p.blocks) : \E d \in Range(q.blocks) :
                       /\ d.ssrc = c.ssrc /\ d.highest = c.highest
                       /\ d.frac = c.frac /\ d.jitter = c.jitter
           /\ p.type = RtcpSR =>
                 p.stamp = q.stamp /\ p.packets = q.packets /\ p.octets = q.octets
<1> DEFINE bare(x) == [k \in DOMAIN x.blocks |-> [x.blocks[k] EXCEPT !.lost = 0]]
           rest(x) == [f \in DOMAIN x \ {"time"} |-> IF f # "blocks" THEN x[f] ELSE bare(x)]
<1>1. p.type = q.type
  BY Zenon DEF Agrees
<1>2. CASE p.type \notin {RtcpSR, RtcpRR}
  <2>1. p = q
    BY <1>1, <1>2, Zenon DEF Agrees
  <2>2. p.type # RtcpSR
    BY <1>2
  <2> QED  BY <1>1, <1>2, <2>1, <2>2, Zenon
<1>3. CASE p.type \in {RtcpSR, RtcpRR}
  <2>1. rest(p) = rest(q)
    BY <1>1, <1>3, Zenon DEF Agrees
  <2> HIDE DEF bare
  <2>2. DOMAIN p \ {"time"} = DOMAIN q \ {"time"}
    BY <2>1, Zenon
  <2>3. \A f \in DOMAIN p \ {"time"} :
            (IF f # "blocks" THEN p[f] ELSE bare(p)) = (IF f # "blocks" THEN q[f] ELSE bare(q))
    <3> SUFFICES ASSUME NEW f \in DOMAIN p \ {"time"}
                 PROVE  (IF f # "blocks" THEN p[f] ELSE bare(p))
                        = (IF f # "blocks" THEN q[f] ELSE bare(q))
      BY Zenon
    <3>1. f \in DOMAIN q \ {"time"}
      BY <2>2, Zenon
    <3>2. rest(p)[f] = (IF f # "blocks" THEN p[f] ELSE bare(p))
      BY Zenon
    <3>3. rest(q)[f] = (IF f # "blocks" THEN q[f] ELSE bare(q))
      BY <3>1, Zenon
    <3> QED  BY <2>1, <3>2, <3>3, Zenon
  <2>4. /\ {"ssrc", "blocks"} \subseteq DOMAIN p
        /\ \A k \in DOMAIN p.blocks : BlockFields \subseteq DOMAIN p.blocks[k]
        /\ p.type = RtcpSR => {"stamp", "packets", "octets"} \subseteq DOMAIN p
    BY <1>3, Zenon DEF Legible
  <2>5. p.ssrc = q.ssrc
    <3>1. "ssrc" \in DOMAIN p \ {"time"} /\ "ssrc" # "blocks"
      BY <2>4
    <3> QED  BY <2>3, <3>1, Zenon
  <2>6. p.type = RtcpSR => p.stamp = q.stamp /\ p.packets = q.packets /\ p.octets = q.octets
    <3>1. p.type = RtcpSR => \A f \in {"stamp", "packets", "octets"} :
              f \in DOMAIN p \ {"time"} /\ f # "blocks"
      BY <2>4
    <3>2. p.type = RtcpSR => \A f \in {"stamp", "packets", "octets"} : p[f] = q[f]
      BY <2>3, <3>1, Zenon
    <3> QED  BY <3>2, Zenon
  <2>7. bare(p) = bare(q)
    <3>1. "blocks" \in DOMAIN p \ {"time"}
      BY <2>4
    <3> QED  BY <2>3, <3>1, Zenon
  <2> DEFINE B == p.blocks
             C == q.blocks
  <2>8. DOMAIN B = DOMAIN C
        /\ \A k \in DOMAIN B : [B[k] EXCEPT !.lost = 0] = [C[k] EXCEPT !.lost = 0]
    <3>1. DOMAIN bare(p) = DOMAIN B /\ DOMAIN bare(q) = DOMAIN C
      BY Zenon DEF bare
    <3>2. DOMAIN B = DOMAIN C
      BY <2>7, <3>1, Zenon
    <3>3. /\ \A k \in DOMAIN B : bare(p)[k] = [B[k] EXCEPT !.lost = 0]
          /\ \A k \in DOMAIN C : bare(q)[k] = [C[k] EXCEPT !.lost = 0]
      BY Zenon DEF bare
    <3> QED  BY <2>7, <3>2, <3>3, Zenon
  <2>9. \A k \in DOMAIN B : BlockFields \subseteq DOMAIN B[k]
    BY <2>4, Zenon
  <2> HIDE DEF B, C
  <2>10. ASSUME NEW b, NEW c, [b EXCEPT !.lost = 0] = [c EXCEPT !.lost = 0],
                BlockFields \subseteq DOMAIN b
         PROVE  /\ c.ssrc = b.ssrc /\ c.highest = b.highest
                /\ c.frac = b.frac /\ c.jitter = b.jitter
    <3>1. /\ [b EXCEPT !.lost = 0] = [f \in DOMAIN b |-> IF f = "lost" THEN 0 ELSE b[f]]
          /\ [c EXCEPT !.lost = 0] = [f \in DOMAIN c |-> IF f = "lost" THEN 0 ELSE c[f]]
      BY Zenon
    <3>2. DOMAIN b = DOMAIN c
      BY <2>10, <3>1, Zenon
    <3>3. \A f \in DOMAIN b : f # "lost" => b[f] = c[f]
      BY <2>10, <3>1, <3>2, Zenon
    <3>4. \A f \in {"ssrc", "highest", "frac", "jitter"} : f \in DOMAIN b /\ f # "lost"
      BY <2>10 DEF BlockFields
    <3> QED  BY <3>3, <3>4, Zenon
  <2>11. ASSUME NEW k \in DOMAIN B
         PROVE  /\ C[k] \in Range(C)
                /\ C[k].ssrc = B[k].ssrc /\ C[k].highest = B[k].highest
                /\ C[k].frac = B[k].frac /\ C[k].jitter = B[k].jitter
    <3>1. C[k] \in Range(C)
      BY <2>8, Zenon DEF Range
    <3> QED  BY <2>8, <2>9, <2>10, <3>1, Zenon
  <2>12. \A c \in Range(B) : \E d \in Range(C) :
            /\ d.ssrc = c.ssrc /\ d.highest = c.highest
            /\ d.frac = c.frac /\ d.jitter = c.jitter
    <3> SUFFICES ASSUME NEW c \in Range(B)
                 PROVE  \E d \in Range(C) : /\ d.ssrc = c.ssrc /\ d.highest = c.highest
                                            /\ d.frac = c.frac /\ d.jitter = c.jitter
      BY Zenon
    <3>1. PICK k \in DOMAIN B : c = B[k]
      BY Zenon DEF Range
    <3> QED  BY <2>11, <3>1, Zenon
  <2> QED  BY <1>1, <1>3, <2>5, <2>6, <2>12, Zenon DEF B, C
<1> QED  BY <1>2, <1>3, Zenon

\* What is stored was said, if all that was read was meant.
LEMMA StoredWasSaid ==
    ASSUME NEW P, Stores(P),
           \A p \in P : Legible(p) /\ \E k \in DOMAIN sent :
                            \E q \in Range(sent[k].meant) : Agrees(p, q)
    PROVE  HoldsWhatWasSaid
<1> DEFINE said == UNION {Range(sent[k].meant) : k \in DOMAIN sent}
           chunks == UNION {Range(p.chunks) : p \in {q \in said : q.type = RtcpSdes}}
           blocks == UNION {Range(p.blocks) : p \in {q \in said : q.type \in {RtcpSR, RtcpRR}}}
<1>1. \A p \in P : Legible(p) /\ \E q \in said : Agrees(p, q)
  BY Zenon
<1> HIDE DEF said
<1>2. RtcpSdes \notin {RtcpSR, RtcpRR} /\ RtcpBye \notin {RtcpSR, RtcpRR}
      /\ RtcpSR \in {RtcpSR, RtcpRR}
  BY DEF RtcpSdes, RtcpBye, RtcpSR, RtcpRR
<1>3. ASSUME NEW o \in DOMAIN streamsIn, NEW y \in DOMAIN streamsIn[o].items
      PROVE  \E c \in chunks : /\ c.ssrc = o /\ y \in DOMAIN c.items
                               /\ c.items[y] = streamsIn[o].items[y]
  <2>1. PICK p \in P : \E c \in Range(p.chunks) :
            /\ p.type = RtcpSdes /\ c.ssrc = o /\ y \in DOMAIN c.items
            /\ c.items[y] = streamsIn[o].items[y]
    BY Zenon DEF Stores, StreamsRead, StreamRead, ItemsRead
  <2>2. p \in said
    BY <1>1, <1>2, <2>1, AgreesSays, Zenon
  <2>3. Range(p.chunks) \subseteq chunks
    BY <2>1, <2>2, Zenon
  <2> QED  BY <2>1, <2>3, Zenon
<1>4. ASSUME NEW o \in DOMAIN streamsIn, streamsIn[o].info # <<>>
      PROVE  \E p \in said : /\ p.type = RtcpSR /\ p.ssrc = o
                             /\ <<p.stamp, p.packets, p.octets>> = Tail(streamsIn[o].info)
  <2>1. PICK p \in P : /\ p.type = RtcpSR /\ p.ssrc = o
                       /\ streamsIn[o].info = <<p.time, p.stamp, p.packets, p.octets>>
    BY <1>4, Zenon DEF Stores, StreamsRead, StreamRead, InfoRead
  <2>2. PICK q \in said : Agrees(p, q)
    BY <1>1, Zenon
  <2>3. /\ q.type = RtcpSR /\ q.ssrc = o
        /\ p.stamp = q.stamp /\ p.packets = q.packets /\ p.octets = q.octets
    BY <1>1, <1>2, <2>1, <2>2, AgreesSays, Zenon
  <2>4. ASSUME NEW a, NEW b, NEW c, NEW d, NEW x, x = <<a, b, c, d>>
        PROVE  Tail(x) = <<b, c, d>>
    BY <2>4
  <2>5. <<q.stamp, q.packets, q.octets>> = Tail(streamsIn[o].info)
    <3>1. Tail(streamsIn[o].info) = <<p.stamp, p.packets, p.octets>>
      <4> DEFINE x == streamsIn[o].info
                 a == p.time
                 b == p.stamp
                 c == p.packets
                 d == p.octets
      <4>1. x = <<a, b, c, d>>
        BY <2>1, Zenon
      <4> HIDE DEF x, a, b, c, d
      <4>2. Tail(x) = <<b, c, d>>
        BY <2>4, <4>1, SMT
      <4> QED  BY <4>2, Zenon DEF x, b, c, d
    <3>2. \A a, b, c, x, y, z : a = x /\ b = y /\ c = z => <<a, b, c>> = <<x, y, z>>
      OBVIOUS
    <3>3. <<q.stamp, q.packets, q.octets>> = <<p.stamp, p.packets, p.octets>>
      BY <2>3, <3>2, Zenon
    <3> QED  BY <3>1, <3>3, Zenon
  <2> QED  BY <2>3, <2>5, Zenon
<1>5. ASSUME NEW o \in DOMAIN streamsIn, streamsIn[o].status = "isClosing"
      PROVE  \E p \in said : p.type = RtcpBye /\ p.ssrc = o
  <2>1. PICK p \in P : p.type = RtcpBye /\ p.ssrc = o
    BY <1>5, Zenon DEF Stores, StreamsRead, StreamRead, ByeRead
  <2> QED  BY <1>1, <1>2, <2>1, AgreesSays, Zenon
<1>6. ASSUME NEW i \in InStreams, reports[i] # <<>>
      PROVE  \E c \in blocks : /\ c.ssrc = i /\ c.highest = reports[i].highest
                               /\ c.frac = reports[i].frac /\ c.jitter = reports[i].jitter
  <2>1. PICK p \in P : \E c \in Range(p.blocks) :
            p.type \in {RtcpSR, RtcpRR} /\ c.ssrc = i /\ c = reports[i]
    BY <1>6, Zenon DEF Stores, ReportsRead, BlockRead
  <2>2. PICK q \in said : Agrees(p, q)
    BY <1>1, Zenon
  <2>3. /\ q.type \in {RtcpSR, RtcpRR}
        /\ \A c \in Range(p.blocks) : \E d \in Range(q.blocks) :
              /\ d.ssrc = c.ssrc /\ d.highest = c.highest
              /\ d.frac = c.frac /\ d.jitter = c.jitter
    BY <1>1, <2>1, <2>2, AgreesSays, Zenon
  <2>4. Range(q.blocks) \subseteq blocks
    BY <2>3, Zenon
  <2>5. PICK c \in Range(p.blocks) : c.ssrc = i /\ c = reports[i]
    BY <2>1, Zenon
  <2>6. PICK d \in Range(q.blocks) : /\ d.ssrc = c.ssrc /\ d.highest = c.highest
                                     /\ d.frac = c.frac /\ d.jitter = c.jitter
    BY <2>3, Zenon
  <2>7. d \in blocks
    BY <2>4, <2>6, Zenon
  <2> QED  BY <2>5, <2>6, <2>7, Zenon
<1> DEFINE held(o) ==
        LET str == streamsIn[o]
        IN  /\ \A y \in DOMAIN str.items : \E c \in chunks :
                  /\ c.ssrc = o /\ y \in DOMAIN c.items
                  /\ c.items[y] = str.items[y]
            /\ str.info # <<>> => \E p \in said :
                  /\ p.type = RtcpSR /\ p.ssrc = o
                  /\ <<p.stamp, p.packets, p.octets>> = Tail(str.info)
            /\ str.status = "isClosing" => \E p \in said : p.type = RtcpBye /\ p.ssrc = o
           reported(i) ==
        reports[i] # <<>> => \E c \in blocks :
            /\ c.ssrc = i /\ c.highest = reports[i].highest
            /\ c.frac = reports[i].frac /\ c.jitter = reports[i].jitter
<1> HIDE DEF chunks, blocks
<1>7. \A o \in DOMAIN streamsIn : held(o)
  <2> SUFFICES ASSUME NEW o \in DOMAIN streamsIn PROVE held(o)
    BY Zenon
  <2>1. \A y \in DOMAIN streamsIn[o].items : \E c \in chunks :
            /\ c.ssrc = o /\ y \in DOMAIN c.items
            /\ c.items[y] = streamsIn[o].items[y]
    BY <1>3, Zenon
  <2> QED  BY <1>4, <1>5, <2>1, Zenon
<1>8. \A i \in InStreams : reported(i)
  BY <1>6, Zenon
<1>9. HoldsWhatWasSaid <=> (\A o \in DOMAIN streamsIn : held(o))
                           /\ \A i \in InStreams : reported(i)
  BY DEF HoldsWhatWasSaid, said, chunks, blocks
<1> HIDE DEF held, reported
<1> QED  BY <1>7, <1>8, <1>9, Zenon

-----------------------------------------------------------------------------
\* The BYE of a stream is the last that is sent of it.

\* A packet that is no BYE and, if it makes its sender known, is of S; a list
\* of such packets.
Mannered(m, S) == m.type # RtcpBye /\ (m.type \in SenderTypes => m.ssrc \in S)

Quiet(l, S) == IsSeq(l) /\ \A i \in 1 .. Len(l) : Mannered(l[i], S)

\* Quiet lists joined are quiet.
LEMMA QuietJoined ==
    ASSUME NEW S, NEW m, Quiet(m, S), NEW n, Quiet(n, S)
    PROVE  Quiet(m \o n, S)
<1>1. IsSeq(m) /\ IsSeq(n) /\ IsSeq(m \o n)
  BY ListsJoined, Zenon DEF Quiet
<1>2. PICK T : m \in Seq(T) /\ n \in Seq(T)
  BY <1>1, ListsJoined, Zenon
<1>3. ASSUME NEW i \in 1 .. Len(m \o n)
      PROVE  \/ i \in 1 .. Len(m) /\ (m \o n)[i] = m[i]
             \/ \E j \in 1 .. Len(n) : (m \o n)[i] = n[j]
  <2>1. CASE i <= Len(m)
    BY <1>2, <2>1
  <2>2. CASE i > Len(m)
    <3>1. i - Len(m) \in 1 .. Len(n) /\ (m \o n)[i] = n[i - Len(m)]
      BY <1>2, <2>2
    <3> QED  BY <3>1, Zenon
  <2>3. i \in Nat /\ Len(m) \in Nat
    BY <1>2
  <2> QED  BY <2>1, <2>2, <2>3
<1>4. ASSUME NEW i \in 1 .. Len(m \o n) PROVE Mannered((m \o n)[i], S)
  <2> DEFINE x == (m \o n)[i]
  <2>1. (i \in 1 .. Len(m) /\ x = m[i]) \/ \E j \in 1 .. Len(n) : x = n[j]
    BY <1>3, Zenon
  <2> HIDE DEF x
  <2>2. Mannered(x, S)
    BY <2>1, Zenon DEF Quiet
  <2> QED  BY <2>2, Zenon DEF x
<1> QED  BY <1>1, <1>4, Zenon DEF Quiet

\* A list of one such packet is quiet.
LEMMA QuietOne ==
    ASSUME NEW S, NEW m, Mannered(m, S)
    PROVE  Quiet(<<m>>, S)
<1> DEFINE l == <<m>>
<1>1. IsSeq(l) /\ Len(l) = 1 /\ l[1] = m
  BY ListOfOne, Zenon
<1> HIDE DEF l
<1>2. \A i \in 1 .. Len(l) : i = 1
  BY <1>1
<1>3. Quiet(l, S)
  BY <1>1, <1>2, Zenon DEF Quiet
<1> QED  BY <1>3, Zenon DEF l

\* The packets of buildRtcpPkt and addSenderReport are of the stream they
\* report on.
LEMMA QuietMeans ==
    ASSUME NEW S, NEW o \in S
    PROVE  /\ \A s, ins, t : Mannered(SrMeans(o, s, inp, ins, t), S)
           /\ \A s, ins, t : Mannered(FirstMeans(o, s, inp, ins, t), S)
           /\ Quiet(SdesMeans(o), S)
<1>1. /\ RtcpSR # RtcpBye /\ RtcpRR # RtcpBye /\ RtcpSdes # RtcpBye
      /\ RtcpSdes \notin SenderTypes
  BY DEF RtcpSR, RtcpRR, RtcpBye, RtcpSdes, RtcpRtpfb, RtcpPsfb, SenderTypes
<1>2. ASSUME NEW m, NEW y, y \in {RtcpSR, RtcpRR, RtcpSdes}, m.type = y,
             y = RtcpSdes \/ m.ssrc = o
      PROVE  Mannered(m, S)
  BY <1>1, <1>2 DEF Mannered
<1>3. ASSUME NEW s, NEW ins, NEW t
      PROVE  Mannered(SrMeans(o, s, inp, ins, t), S)
  <2> DEFINE m == SrMeans(o, s, inp, ins, t)
  <2>1. m.type = RtcpSR /\ m.ssrc = o
    BY DEF SrMeans
  <2> HIDE DEF m
  <2>2. Mannered(m, S)
    BY <1>2, <2>1
  <2> QED  BY <2>2, Zenon DEF m
<1>4. ASSUME NEW s, NEW ins, NEW t
      PROVE  Mannered(FirstMeans(o, s, inp, ins, t), S)
  <2> DEFINE bs == [k \in DOMAIN ins |-> Report(ins[k], inp[ins[k]], t)]
             m == [type |-> RtcpRR, ssrc |-> o, blocks |-> bs]
  <2>1. FirstMeans(o, s, inp, ins, t) = m \/ FirstMeans(o, s, inp, ins, t) = SrMeans(o, s, inp, ins, t)
    BY Zenon DEF FirstMeans
  <2> HIDE DEF bs
  <2>2. m.type = RtcpRR /\ m.ssrc = o
    OBVIOUS
  <2> HIDE DEF m
  <2>3. Mannered(m, S)
    BY <1>2, <2>2
  <2> QED  BY <1>3, <2>1, <2>3, Zenon
<1>5. Quiet(SdesMeans(o), S)
  <2> DEFINE m == [type |-> RtcpSdes, chunks |-> <<[ssrc |-> o, items |-> out[o].SdesItems]>>]
  <2>1. SdesMeans(o) = <<>> \/ SdesMeans(o) = <<m>>
    BY Zenon DEF SdesMeans
  <2>2. m.type = RtcpSdes
    OBVIOUS
  <2> HIDE DEF m
  <2>3. Mannered(m, S)
    BY <1>2, <2>2
  <2>4. <<>> \in Seq({}) /\ \A i \in 1 .. Len(<<>>) : FALSE
    OBVIOUS
  <2>5. Quiet(<<>>, S)
    BY <2>4, Zenon DEF Quiet, IsSeq
  <2> QED  BY <2>1, <2>3, <2>5, QuietOne, Zenon
<1> QED  BY <1>3, <1>4, <1>5, Zenon

\* So buildRtcpPkt is quiet,
LEMMA QuietBuilt ==
    ASSUME NEW S, NEW o \in S, NEW s, NEW ins, NEW t, NEW order
    PROVE  Quiet(buildRtcpPkt(o, s, ins, t, order).meant, S)
<1> DEFINE c == buildRtcpPkt(o, s, ins, t, order)
           m == FirstMeans(o, s, inp, ins, t)
           y == <<m>> \o SdesMeans(o)
<1>1. PICK x : c = [bytes |-> x, meant |-> y]
  BY Zenon DEF buildRtcpPkt
<1>2. Quiet(y, S)
  BY QuietMeans, QuietOne, QuietJoined, Zenon
<1> HIDE DEF c, y
<1>3. c.meant = y
  BY <1>1
<1> QED  BY <1>2, <1>3, Zenon DEF c

\* addSenderReport keeps a compound so,
LEMMA QuietAdded ==
    ASSUME NEW S, NEW o \in S, NEW t, NEW order, NEW c, Quiet(c.meant, S)
    PROVE  Quiet(addSenderReport(c, o, t, order).meant, S)
<1> DEFINE d == addSenderReport(c, o, t, order)
           q == SrMeans(o, out[o], inp, <<>>, t)
           y == (c.meant \o <<q>>) \o SdesMeans(o)
<1>1. d = c \/ \E x : d = [bytes |-> x, meant |-> y]
  BY Zenon DEF addSenderReport
<1>2. Quiet(y, S)
  BY QuietMeans, QuietOne, QuietJoined, Zenon
<1> HIDE DEF d, y
<1>3. ASSUME NEW x, d = [bytes |-> x, meant |-> y] PROVE d.meant = y
  BY <1>3
<1>4. Quiet(d.meant, S)
  BY <1>1, <1>2, <1>3, Zenon
<1> QED  BY <1>4, Zenon DEF d

\* and so is the compound of a report interval.
LEMMA QuietSenders ==
    ASSUME NEW S, NEW sending, NEW n \in Nat, Len(sending) = n, n >= 1,
           \A k \in 1 .. n : sending[k] \in S, NEW ins, NEW t, NEW order
    PROVE  Quiet(SendersCompound(sending, ins, t, order).meant, S)
<1>1. PICK f : /\ f = SendersBody(sending, ins, t, order, f)
               /\ SendersCompound(sending, ins, t, order) = f[n]
  BY SendersLoop, Zenon
<1>2. ASSUME NEW k \in 1 .. n
      PROVE  f[k] = IF k = 1 THEN buildRtcpPkt(sending[1], out[sending[1]], ins, t, order)
                    ELSE addSenderReport(f[k - 1], sending[k], t, order)
  BY <1>1, Zenon DEF SendersBody
<1> DEFINE T == {k \in Nat : k + 1 <= n => Quiet(f[k + 1].meant, S)}
<1>3. 0 \in T
  <2>1. 1 \in 1 .. n /\ 0 + 1 = 1 /\ 0 \in Nat
    OBVIOUS
  <2>2. f[1] = buildRtcpPkt(sending[1], out[sending[1]], ins, t, order)
    BY <1>2, <2>1, Zenon
  <2>3. Quiet(f[1].meant, S)
    BY <2>1, <2>2, QuietBuilt, Zenon
  <2> QED  BY <2>1, <2>3, Zenon
<1>4. ASSUME NEW k \in Nat, k \in T PROVE k + 1 \in T
  <2> SUFFICES ASSUME (k + 1) + 1 <= n PROVE Quiet(f[(k + 1) + 1].meant, S)
    OBVIOUS
  <2> DEFINE i == (k + 1) + 1
  <2>1. i \in 1 .. n /\ i # 1 /\ i - 1 = k + 1 /\ k + 1 <= n
    OBVIOUS
  <2>2. Quiet(f[k + 1].meant, S)
    BY <1>4, <2>1, Zenon
  <2> HIDE DEF i
  <2>3. f[i] = addSenderReport(f[k + 1], sending[i], t, order)
    BY <1>2, <2>1, Zenon
  <2>4. Quiet(f[i].meant, S)
    BY <2>1, <2>2, <2>3, QuietAdded, Zenon
  <2> QED  BY <2>4, Zenon DEF i
<1> HIDE DEF T
<1>5. Nat \subseteq T
  BY <1>3, <1>4, Induction
<1>6. n - 1 \in Nat /\ (n - 1) + 1 = n /\ n <= n
  OBVIOUS
<1>7. n - 1 \in T
  BY <1>5, <1>6, Zenon
<1>8. Quiet(f[n].meant, S)
  BY <1>6, <1>7, Zenon DEF T
<1> QED  BY <1>1, <1>8, Zenon

\* Only active streams report.
LEMMA QuietReported ==
    ASSUME NEW ins, NEW t, NEW order, NEW c, Reported(c, ins, t, order)
    PROVE  Quiet(c.meant, Active)
<1>1. ASSUME NEW A \in SUBSET Active, NEW found \in Orders(A), A # {},
             c = SendersCompound(found, ins, t, order)
      PROVE  Quiet(c.meant, Active)
  <2>1. A \in SUBSET OutStreams
    BY DEF Active
  <2>2. Len(found) \in Nat /\ Len(found) >= 1 /\ \A k \in 1 .. Len(found) : found[k] \in A
    BY <1>1, <2>1, FoundTyped, Zenon
  <2>3. \A k \in 1 .. Len(found) : found[k] \in Active
    BY <2>2, Zenon
  <2> QED  BY <1>1, <2>2, <2>3, QuietSenders, Zenon
<1> QED  BY <1>1, QuietBuilt, Zenon DEF Reported

\* A compound that parts from o: its BYE behind packets of o.
PartsFrom(c, o) == \E l : Quiet(l, {o}) /\ c.meant = Append(l, ByeMeans(o))

\* Packets in c that a stream says goodbye with, or makes itself known with.
ByeIn(c, o) == \E i \in 1 .. Len(c.meant) :
    c.meant[i].type = RtcpBye /\ c.meant[i].ssrc = o

SenderIn(c, o) == \E i \in 1 .. Len(c.meant) :
    c.meant[i].type \in SenderTypes /\ c.meant[i].ssrc = o

\* A compound whose senders are of A and come before its BYE.
Polite(c, A) ==
    \A i \in 1 .. Len(c.meant) : c.meant[i].type \in SenderTypes =>
        /\ c.meant[i].ssrc \in A
        /\ \A j \in 1 .. Len(c.meant) : c.meant[j].type = RtcpBye => i < j

\* What is quiet is polite.
LEMMA QuietPolite ==
    ASSUME NEW c, NEW S, \A i \in 1 .. Len(c.meant) : Mannered(c.meant[i], S)
    PROVE  Polite(c, S) /\ \A o : ~ByeIn(c, o) /\ (SenderIn(c, o) => o \in S)
<1>1. \A i \in 1 .. Len(c.meant) : /\ c.meant[i].type # RtcpBye
                                   /\ c.meant[i].type \in SenderTypes => c.meant[i].ssrc \in S
  BY Zenon DEF Mannered
<1>2. Polite(c, S)
  BY <1>1, Zenon DEF Polite
<1>3. \A o : ~ByeIn(c, o) /\ (SenderIn(c, o) => o \in S)
  BY <1>1, Zenon DEF ByeIn, SenderIn
<1> QED  BY <1>2, <1>3, Zenon

\* What parts is polite, and parts from one stream.
LEMMA PartingPolite ==
    ASSUME NEW c, NEW o, PartsFrom(c, o)
    PROVE  Polite(c, {o}) /\ \A x : (ByeIn(c, x) => x = o) /\ (SenderIn(c, x) => x = o)
<1> DEFINE b == ByeMeans(o)
<1>1. b.type = RtcpBye /\ b.ssrc = o /\ RtcpBye \notin SenderTypes
  BY DEF ByeMeans, RtcpSR, RtcpRR, RtcpBye, RtcpRtpfb, RtcpPsfb, SenderTypes
<1>2. PICK l : Quiet(l, {o}) /\ c.meant = Append(l, b)
  BY Zenon DEF PartsFrom
<1> HIDE DEF b
<1> DEFINE m == c.meant
           n == Len(l)
<1>3. IsSeq(l) /\ \A i \in 1 .. n : Mannered(l[i], {o})
  BY <1>2, Zenon DEF Quiet
<1>4. n \in Nat /\ Len(m) = n + 1 /\ (\A i \in 1 .. n : m[i] = l[i]) /\ m[n + 1] = b
  <2> DEFINE y == Append(l, b)
  <2>1. n \in Nat /\ Len(y) = n + 1 /\ (\A i \in 1 .. n : y[i] = l[i]) /\ y[n + 1] = b
    BY <1>3, OneMore
  <2>2. m = y
    BY <1>2, Zenon
  <2> HIDE DEF m, y
  <2> QED  BY <2>1, <2>2, Zenon
<1>5. \A i \in 1 .. n : /\ m[i].type # RtcpBye
                        /\ m[i].type \in SenderTypes => m[i].ssrc = o
  <2>1. \A x : x \in {o} => x = o
    OBVIOUS
  <2>2. \A i \in 1 .. n : /\ l[i].type # RtcpBye
                          /\ l[i].type \in SenderTypes => l[i].ssrc = o
    BY <1>3, <2>1, Zenon DEF Mannered
  <2> HIDE DEF m
  <2> QED  BY <1>4, <2>2, Zenon
<1> HIDE DEF m, n
<1>6. /\ \A i \in 1 .. Len(m) : i \in 1 .. n \/ i = n + 1
      /\ \A i \in 1 .. n : i < n + 1
  BY <1>4
<1>7. /\ \A i \in 1 .. Len(m) : m[i].type \in SenderTypes => i \in 1 .. n
      /\ \A i \in 1 .. Len(m) : m[i].type = RtcpBye => i = n + 1
  BY <1>1, <1>4, <1>5, <1>6, Zenon
<1>8. \A i \in 1 .. Len(m) : m[i].type \in SenderTypes =>
        /\ m[i].ssrc \in {o}
        /\ \A j \in 1 .. Len(m) : m[j].type = RtcpBye => i < j
  <2> SUFFICES ASSUME NEW i \in 1 .. Len(m), m[i].type \in SenderTypes
               PROVE  /\ m[i].ssrc \in {o}
                      /\ \A j \in 1 .. Len(m) : m[j].type = RtcpBye => i < j
    BY Zenon
  <2>1. i \in 1 .. n
    BY <1>7, Zenon
  <2>2. m[i].ssrc = o /\ i < n + 1
    BY <1>5, <1>6, <2>1, Zenon
  <2>3. \A j \in 1 .. Len(m) : m[j].type = RtcpBye => i < j
    BY <1>7, <2>2, Zenon
  <2> QED  BY <2>2, <2>3, Zenon
<1>9. Polite(c, {o})
  BY <1>8, Zenon DEF Polite, m
<1>10. ASSUME NEW x PROVE (ByeIn(c, x) => x = o) /\ (SenderIn(c, x) => x = o)
  <2>1. ASSUME NEW i \in 1 .. Len(m), m[i].type = RtcpBye PROVE m[i].ssrc = o
    BY <1>1, <1>4, <1>7, <2>1, Zenon
  <2>2. ASSUME NEW i \in 1 .. Len(m), m[i].type \in SenderTypes PROVE m[i].ssrc = o
    BY <1>5, <1>7, <2>2, Zenon
  <2> QED  BY <2>1, <2>2, Zenon DEF ByeIn, SenderIn, m
<1> QED  BY <1>9, <1>10, Zenon

\* A step that sends: who says it.
Voices(c) ==
    \/ c \in Foreign
    \/ Quiet(c.meant, Active)
    \/ \E o \in Active : PartsFrom(c, o) /\ out'[o].status = "isClosing"

\* Streams that close stay so, and say goodbye when they begin to.
LEMMA StatusStays ==
    ASSUME Building, ~ClosesTwice, [Next]_vars
    PROVE  /\ \A k \in OutStreams : out[k].status = "isClosing" => out'[k].status = "isClosing"
           /\ sent' = sent \/ \E c : sent' = Append(sent, c) /\ Voices(c)
<1> DEFINE Stays == \A k \in OutStreams :
                        out[k].status = "isClosing" => out'[k].status = "isClosing"
<1>0. out \in [OutStreams -> OutStates]
  BY Zenon DEF Building
<1>1. ASSUME NEW o \in OutStreams, NEW n \in OutStates, out' = [out EXCEPT ![o] = n],
             out[o].status = "isClosing" => n.status = "isClosing"
      PROVE  Stays
  BY <1>0, <1>1
<1>2. ASSUME NEW o \in OutStreams, NEW y \in ItemTypes, NEW text \in Texts,
             SetSdesItem(o, y, text)
      PROVE  Stays /\ sent' = sent
  <2> DEFINE s == out[o]
             f == Put(s.SdesItems, y, text)
             n == [s EXCEPT !.SdesItems = f, !.sdesChunkLen = ChunkLen(f)]
  <2>1. /\ UNCHANGED <<inp, now, sent>>
        /\ out' = [out EXCEPT ![o].SdesItems = f, ![o].sdesChunkLen = ChunkLen(f)]
    BY <1>2 DEF SetSdesItem
  <2>2. s \in OutStates
    BY <1>0
  <2>3. out' = [out EXCEPT ![o] = n]
    BY <1>0, <2>1, Zenon
  <2>4. f \in Nameable
    BY <2>2, OutState, PutNameable, Zenon
  <2> HIDE DEF f
  <2>5. n \in OutStates
    <3> HIDE DEF s
    <3> QED  BY <2>2, <2>4, StreamNamed, Zenon
  <2>6. n.status = s.status
    <3> HIDE DEF s
    <3> QED  BY <2>2 DEF OutStates
  <2> HIDE DEF n
  <2>7. Stays
    BY <1>1, <2>3, <2>5, <2>6, Zenon
  <2> QED  BY <2>1, <2>7
<1>3. ASSUME NEW o \in OutStreams, WriteData(o)
      PROVE  Stays /\ sent' = sent
  <2> DEFINE s == out[o]
             m == s.packets + 1
             n == [s EXCEPT !.packets = m, !.sender = TRUE]
  <2>1. /\ UNCHANGED <<inp, now, sent>>
        /\ out' = [out EXCEPT ![o].packets = @ + 1, ![o].sender = TRUE]
    BY <1>3 DEF WriteData
  <2>2. s \in OutStates
    BY <1>0
  <2>3. out' = [out EXCEPT ![o] = n]
    BY <1>0, <2>1, Zenon
  <2>4. m \in Nat
    <3>1. s.packets \in Nat
      BY <2>2, OutState, Zenon
    <3> QED  BY <3>1
  <2> HIDE DEF m
  <2>5. n \in OutStates
    <3> HIDE DEF s
    <3> QED  BY <2>2, <2>4, StreamSends, Zenon
  <2>6. n.status = s.status
    <3> HIDE DEF s
    <3> QED  BY <2>2 DEF OutStates
  <2> HIDE DEF n
  <2>7. Stays
    BY <1>1, <2>3, <2>5, <2>6, Zenon
  <2> QED  BY <2>1, <2>7
<1>4. ASSUME out' = out PROVE Stays
  BY <1>4, Zenon
<1>5. ASSUME NEW i \in InStreams, ReceiveData(i) \/ ReceiveSr(i)
      PROVE  Stays /\ sent' = sent
  <2>1. out' = out /\ sent' = sent
    BY <1>5 DEF ReceiveData, ReceiveSr
  <2> QED  BY <1>4, <2>1, Zenon
<1>6. ASSUME OtherSends
      PROVE  Stays /\ \E c : sent' = Append(sent, c) /\ Voices(c)
  <2>1. out' = out
    BY <1>6 DEF OtherSends
  <2>2. \E c : sent' = Append(sent, c) /\ c \in Foreign
    BY <1>6, Zenon DEF OtherSends, Write
  <2> QED  BY <1>4, <2>1, <2>2, Zenon DEF Voices
<1>7. ASSUME NEW k \in DOMAIN sent, OnRecvCtrl(k)
      PROVE  Stays /\ sent' = sent
  <2>1. UNCHANGED building
    BY <1>7, Zenon DEF OnRecvCtrl
  <2>2. out' = out /\ sent' = sent
    BY <2>1 DEF building
  <2> QED  BY <1>4, <2>2, Zenon
<1>8. ASSUME UNCHANGED vars PROVE Stays /\ sent' = sent
  <2>1. out' = out /\ sent' = sent
    BY <1>8 DEF vars
  <2> QED  BY <1>4, <2>1, Zenon
<1>9. ASSUME rtcpService
      PROVE  Stays /\ (sent' = sent \/ \E c : sent' = Append(sent, c) /\ Voices(c))
  <2>1. PICK order \in ItemOrders, ins \in ToReport : \E idle : ServiceEffect(ins, idle, order)
    BY <1>9, ServiceStep, Zenon
  <2>2. /\ \A o \in OutStreams : out'[o].status = out[o].status
        /\ \/ sent' = sent
           \/ \E c : sent' = Append(sent, c) /\ Reported(c, ins, now + 1, order)
    BY <2>1, Zenon DEF ServiceEffect
  <2> QED  BY <2>2, QuietReported, Zenon DEF Voices
<1>10. ASSUME NEW o \in OutStreams, SsrcStreamClose(o)
       PROVE  Stays /\ \E c : sent' = Append(sent, c) /\ Voices(c)
  <2> DEFINE s == out[o]
             n == [s EXCEPT !.status = "isClosing"]
  <2>1. /\ SendBye(o) /\ out' = [out EXCEPT ![o].status = "isClosing"]
        /\ out[o].status = "active"
    BY <1>10, Zenon DEF SsrcStreamClose
  <2>2. s \in OutStates
    BY <1>0
  <2>3. out' = [out EXCEPT ![o] = n]
    BY <1>0, <2>1, Zenon
  <2>4. n \in OutStates /\ n.status = "isClosing"
    <3> HIDE DEF s
    <3> QED  BY <2>2, StreamCloses, Zenon
  <2> HIDE DEF n
  <2>5. Stays /\ out'[o].status = "isClosing"
    BY <1>0, <1>1, <2>3, <2>4
  <2>6. PICK t \in Later, order \in ItemOrders : sent' = Append(sent, buildRtcpByePkt(o, t, order))
    BY <2>1, Zenon DEF SendBye, Write
  <2> DEFINE c == buildRtcpPkt(o, out[o], <<>>, t, order)
             d == buildRtcpByePkt(o, t, order)
  <2>7. PICK x : d = [bytes |-> x, meant |-> Append(c.meant, ByeMeans(o))]
    BY Zenon DEF buildRtcpByePkt
  <2>8. Quiet(c.meant, {o})
    BY QuietBuilt, Zenon
  <2> HIDE DEF c, d
  <2>9. d.meant = Append(c.meant, ByeMeans(o))
    BY <2>7
  <2>10. PartsFrom(d, o)
    BY <2>8, <2>9, Zenon DEF PartsFrom
  <2>11. o \in Active
    BY <2>1 DEF Active
  <2> QED  BY <2>5, <2>6, <2>10, <2>11, Zenon DEF Voices, d
<1> QED  BY <1>2, <1>3, <1>5, <1>6, <1>7, <1>8, <1>9, <1>10, Zenon DEF Next

\* No stream is heard of after its BYE: the invariant of what was sent.  The
\* other implementations use the SSRCs in F.
Parted(A) ==
    /\ \A k \in 1 .. Len(sent) : Polite(sent[k], A)
    /\ \A k \in 1 .. Len(sent) : \A o : ByeIn(sent[k], o) =>
          o \in OutStreams /\ out[o].status = "isClosing"
    /\ \A j, k \in 1 .. Len(sent) : \A o : j < k /\ ByeIn(sent[j], o) => ~SenderIn(sent[k], o)

\* Compounds of other implementations: no BYE, and senders in F.
ForeignStays(F) ==
    \A m \in Foreign : \A i \in 1 .. Len(m.meant) : Mannered(m.meant[i], F)

\* More senders may be polite too.
LEMMA PoliteMore ==
    ASSUME NEW c, NEW A, Polite(c, A), NEW B, A \subseteq B
    PROVE  Polite(c, B)
BY Zenon DEF Polite

\* The compound that is sent next is polite, and no stream that closes is
\* heard of in it.
LEMMA VoicesPolite ==
    ASSUME NEW F, ForeignStays(F), F \cap OutStreams = {}, NEW c, Voices(c)
    PROVE  /\ Polite(c, OutStreams \cup F)
           /\ \A o : ByeIn(c, o) => o \in OutStreams /\ out'[o].status = "isClosing"
           /\ \A o \in OutStreams : out[o].status = "isClosing" => ~SenderIn(c, o)
<1>1. Active \subseteq OutStreams /\ \A o \in Active : out[o].status = "active"
  BY DEF Active
<1>2. "active" # "isClosing"
  OBVIOUS
<1>3. CASE c \in Foreign
  <2>1. \A i \in 1 .. Len(c.meant) : Mannered(c.meant[i], F)
    BY <1>3, Zenon DEF ForeignStays
  <2>2. Polite(c, F) /\ \A o : ~ByeIn(c, o) /\ (SenderIn(c, o) => o \in F)
    BY <2>1, QuietPolite, Zenon
  <2>3. F \subseteq OutStreams \cup F /\ \A o \in OutStreams : o \notin F
    BY Zenon
  <2> QED  BY <2>2, <2>3, PoliteMore, Zenon
<1>4. CASE Quiet(c.meant, Active)
  <2>1. Polite(c, Active) /\ \A o : ~ByeIn(c, o) /\ (SenderIn(c, o) => o \in Active)
    BY <1>4, QuietPolite, Zenon DEF Quiet
  <2>2. Active \subseteq OutStreams \cup F
    BY <1>1, Zenon
  <2> QED  BY <1>1, <1>2, <2>1, <2>2, PoliteMore, Zenon
<1>5. ASSUME NEW p \in Active, PartsFrom(c, p), out'[p].status = "isClosing"
      PROVE  /\ Polite(c, OutStreams \cup F)
             /\ \A o : ByeIn(c, o) => o \in OutStreams /\ out'[o].status = "isClosing"
             /\ \A o \in OutStreams : out[o].status = "isClosing" => ~SenderIn(c, o)
  <2>1. Polite(c, {p}) /\ \A x : (ByeIn(c, x) => x = p) /\ (SenderIn(c, x) => x = p)
    BY <1>5, PartingPolite, Zenon
  <2>2. {p} \subseteq OutStreams \cup F /\ p \in OutStreams /\ out[p].status = "active"
    BY <1>1
  <2>3. Polite(c, OutStreams \cup F)
    BY <2>1, <2>2, PoliteMore, Zenon
  <2>4. \A o : ByeIn(c, o) => o \in OutStreams /\ out'[o].status = "isClosing"
    BY <1>5, <2>1, <2>2, Zenon
  <2>5. \A o \in OutStreams : out[o].status = "isClosing" => ~SenderIn(c, o)
    BY <1>2, <2>1, <2>2, Zenon
  <2> QED  BY <2>3, <2>4, <2>5, Zenon
<1> QED  BY <1>3, <1>4, <1>5, Zenon DEF Voices

\* A step keeps the invariant.
LEMMA PartedStep ==
    ASSUME Building, ~ClosesTwice, NEW F, ForeignStays(F), F \cap OutStreams = {},
           Parted(OutStreams \cup F), [Next]_vars
    PROVE  Parted(OutStreams \cup F)'
<1> DEFINE A == OutStreams \cup F
<1>1. /\ \A k \in OutStreams : out[k].status = "isClosing" => out'[k].status = "isClosing"
      /\ sent' = sent \/ \E c : sent' = Append(sent, c) /\ Voices(c)
  BY StatusStays, Zenon
<1>2. /\ \A k \in 1 .. Len(sent) : Polite(sent[k], A)
      /\ \A k \in 1 .. Len(sent) : \A o : ByeIn(sent[k], o) =>
            o \in OutStreams /\ out[o].status = "isClosing"
      /\ \A j, k \in 1 .. Len(sent) : \A o : j < k /\ ByeIn(sent[j], o) => ~SenderIn(sent[k], o)
  BY Zenon DEF Parted
<1> HIDE DEF A
<1>3. CASE sent' = sent
  <2>1. /\ \A k \in 1 .. Len(sent') : Polite(sent'[k], A)
        /\ \A k \in 1 .. Len(sent') : \A o : ByeIn(sent'[k], o) =>
              o \in OutStreams /\ out'[o].status = "isClosing"
        /\ \A j, k \in 1 .. Len(sent') : \A o :
              j < k /\ ByeIn(sent'[j], o) => ~SenderIn(sent'[k], o)
    BY <1>1, <1>2, <1>3, Zenon
  <2> QED  BY <2>1, Zenon DEF Parted, A, Polite, ByeIn, SenderIn
<1>4. ASSUME NEW c, sent' = Append(sent, c), Voices(c)
      PROVE  Parted(OutStreams \cup F)'
  <2> DEFINE n == Len(sent)
  <2>1. IsSeq(sent)
    BY Zenon DEF Building
  <2>2. n \in Nat /\ Len(sent') = n + 1 /\ (\A k \in 1 .. n : sent'[k] = sent[k])
        /\ sent'[n + 1] = c
    BY <1>4, <2>1, OneMore, Zenon
  <2> HIDE DEF n
  <2>3. \A k \in 1 .. Len(sent') : k \in 1 .. n \/ k = n + 1
    BY <2>2
  <2>4. \A j \in 1 .. Len(sent'), k \in 1 .. Len(sent') : j < k => j \in 1 .. n
    BY <2>2
  <2>5. /\ Polite(c, A)
        /\ \A o : ByeIn(c, o) => o \in OutStreams /\ out'[o].status = "isClosing"
        /\ \A o \in OutStreams : out[o].status = "isClosing" => ~SenderIn(c, o)
    BY <1>4, VoicesPolite, Zenon DEF A
  <2>6. \A k \in 1 .. Len(sent') : Polite(sent'[k], A)
    BY <1>2, <2>2, <2>3, <2>5, Zenon DEF n
  <2>7. \A k \in 1 .. Len(sent') : \A o : ByeIn(sent'[k], o) =>
            o \in OutStreams /\ out'[o].status = "isClosing"
    BY <1>1, <1>2, <2>2, <2>3, <2>5, Zenon DEF n
  <2>8. ASSUME NEW j \in 1 .. Len(sent'), NEW k \in 1 .. Len(sent'), NEW o,
               j < k, ByeIn(sent'[j], o)
        PROVE  ~SenderIn(sent'[k], o)
    <3>1. j \in 1 .. n
      BY <2>4, <2>8, Zenon
    <3>2. ByeIn(sent[j], o)
      BY <2>2, <2>8, <3>1, Zenon
    <3>3. o \in OutStreams /\ out[o].status = "isClosing"
      BY <1>2, <3>1, <3>2, Zenon DEF n
    <3>4. CASE k = n + 1
      BY <2>2, <2>5, <3>3, <3>4, Zenon
    <3>5. CASE k \in 1 .. n
      BY <1>2, <2>2, <2>8, <3>1, <3>2, <3>5, Zenon DEF n
    <3> QED  BY <2>3, <3>4, <3>5, Zenon
  <2>9. \A j, k \in 1 .. Len(sent') : \A o :
            j < k /\ ByeIn(sent'[j], o) => ~SenderIn(sent'[k], o)
    BY <2>8, Zenon
  <2> QED  BY <2>6, <2>7, <2>9, Zenon DEF Parted, A, Polite, ByeIn, SenderIn
<1> QED  BY <1>1, <1>3, <1>4, Zenon

-----------------------------------------------------------------------------
\* Compounds read in order.

\* What is read of the compound sent as number k.
Heard(k) == Walk(sent[k].bytes).packets

\* No stream is heard of after its BYE.
HeardParted(A) ==
    /\ \A k \in 1 .. Len(sent) : \A i \in 1 .. Len(Heard(k)) :
          Heard(k)[i].type \in SenderTypes =>
             /\ Heard(k)[i].ssrc \in A
             /\ \A j \in 1 .. Len(Heard(k)) : Heard(k)[j].type = RtcpBye => i < j
    /\ \A j, k \in 1 .. Len(sent) : j < k =>
          \A p \in Range(Heard(j)), q \in Range(Heard(k)) :
             p.type = RtcpBye /\ q.type \in SenderTypes => p.ssrc # q.ssrc

\* What is read back parts as it was sent.
LEMMA ReadBackParted ==
    ASSUME NEW A, Parted(A), \A k \in 1 .. Len(sent) :
               ReadsBack(sent[k]) /\ LegibleBytes(sent[k].bytes)
    PROVE  HeardParted(A)
<1>1. RtcpBye \notin {RtcpSR, RtcpRR}
  BY DEF RtcpSR, RtcpRR, RtcpBye
<1>2. ASSUME NEW k \in 1 .. Len(sent), NEW i \in 1 .. Len(Heard(k))
      PROVE  LET p == Heard(k)[i]
                 q == sent[k].meant[i]
             IN  /\ i \in 1 .. Len(sent[k].meant) /\ p.type = q.type
                 /\ p.type \in SenderTypes \cup {RtcpBye} => p.ssrc = q.ssrc
  <2> DEFINE xs == Heard(k)
             p == xs[i]
             q == sent[k].meant[i]
  <2>1. IsSeq(xs) /\ \A x \in Range(xs) : Legible(x)
    BY Zenon DEF LegibleBytes, Heard
  <2>2. Len(xs) = Len(sent[k].meant) /\ \A n \in DOMAIN xs : Agrees(xs[n], sent[k].meant[n])
    BY Zenon DEF ReadsBack, Heard
  <2> HIDE DEF xs
  <2>3. i \in 1 .. Len(xs)
    BY Zenon DEF xs
  <2>4. i \in DOMAIN xs /\ xs[i] \in Range(xs)
    BY <2>1, <2>3, ListMembers, Zenon
  <2>5. Legible(p) /\ Agrees(p, q)
    BY <2>1, <2>2, <2>4, Zenon
  <2>6. i \in 1 .. Len(sent[k].meant)
    BY <2>2, <2>3, Zenon
  <2> HIDE DEF p, q
  <2>7. p.type = q.type /\ p.ssrc = q.ssrc
    BY <2>5, AgreesSays, Zenon
  <2> QED  BY <2>6, <2>7, Zenon DEF p, q, xs
<1>3. ASSUME NEW k \in 1 .. Len(sent), NEW i \in 1 .. Len(Heard(k)),
             Heard(k)[i].type \in SenderTypes
      PROVE  /\ Heard(k)[i].ssrc \in A
             /\ \A j \in 1 .. Len(Heard(k)) : Heard(k)[j].type = RtcpBye => i < j
             /\ SenderIn(sent[k], Heard(k)[i].ssrc)
  <2>1. /\ i \in 1 .. Len(sent[k].meant) /\ sent[k].meant[i].type \in SenderTypes
        /\ Heard(k)[i].ssrc = sent[k].meant[i].ssrc
    BY <1>2, <1>3, Zenon
  <2>2. /\ sent[k].meant[i].ssrc \in A
        /\ \A j \in 1 .. Len(sent[k].meant) : sent[k].meant[j].type = RtcpBye => i < j
    BY <2>1, Zenon DEF Parted, Polite
  <2>3. \A j \in 1 .. Len(Heard(k)) : Heard(k)[j].type = RtcpBye => i < j
    BY <1>2, <2>2, Zenon
  <2> QED  BY <2>1, <2>2, <2>3, Zenon DEF SenderIn
<1>4. ASSUME NEW k \in 1 .. Len(sent), NEW i \in 1 .. Len(Heard(k)), Heard(k)[i].type = RtcpBye
      PROVE  ByeIn(sent[k], Heard(k)[i].ssrc)
  <2>1. /\ i \in 1 .. Len(sent[k].meant) /\ sent[k].meant[i].type = RtcpBye
        /\ Heard(k)[i].ssrc = sent[k].meant[i].ssrc
    BY <1>2, <1>4, Zenon
  <2> QED  BY <2>1, Zenon DEF ByeIn
<1>5. ASSUME NEW k \in 1 .. Len(sent), NEW p \in Range(Heard(k))
      PROVE  \E i \in 1 .. Len(Heard(k)) : p = Heard(k)[i]
  <2>1. IsSeq(Heard(k))
    BY Zenon DEF LegibleBytes, Heard
  <2> QED  BY <2>1, ListMembers, Zenon
<1>6. ASSUME NEW j \in 1 .. Len(sent), NEW k \in 1 .. Len(sent), j < k,
             NEW p \in Range(Heard(j)), NEW q \in Range(Heard(k)),
             p.type = RtcpBye, q.type \in SenderTypes
      PROVE  p.ssrc # q.ssrc
  <2>1. ByeIn(sent[j], p.ssrc)
    BY <1>4, <1>5, <1>6, Zenon
  <2>2. SenderIn(sent[k], q.ssrc)
    BY <1>3, <1>5, <1>6, Zenon
  <2> QED  BY <1>6, <2>1, <2>2, Zenon DEF Parted
<1>7. \A k \in 1 .. Len(sent) : \A i \in 1 .. Len(Heard(k)) :
          Heard(k)[i].type \in SenderTypes =>
             /\ Heard(k)[i].ssrc \in A
             /\ \A j \in 1 .. Len(Heard(k)) : Heard(k)[j].type = RtcpBye => i < j
  BY <1>3, Zenon
<1>8. \A j, k \in 1 .. Len(sent) : j < k =>
          \A p \in Range(Heard(j)), q \in Range(Heard(k)) :
             p.type = RtcpBye /\ q.type \in SenderTypes => p.ssrc # q.ssrc
  BY <1>6, Zenon
<1> QED  BY <1>7, <1>8, Zenon DEF HeardParted

\* A sender that did not part is not rejected while there is room for all.
LEMMA NotRejected ==
    ASSUME NEW A, IsFiniteSet(A), Cardinality(A) <= MaxNumberInStreams + 1,
           NEW P, NEW r, Stored(r, P),
           \A p \in P : p.type \in SenderTypes => p.ssrc \in A,
           NEW o \in A, ~ByeRead(o, P)
    PROVE  ~Rejected(r, o)
<1> DEFINE S == r.streamsIn
           D == DOMAIN S
<1>1. \A x \in D : StreamRead(S[x], x, P)
  BY Zenon DEF Stored, StreamsRead
<1>2. CASE o \in D
  <2>1. S[o].status \in {"active", "isClosing"} /\ S[o].status # "isClosing"
    BY <1>1, <1>2, Zenon DEF StreamRead
  <2>2. S[o].status = "active"
    BY <2>1
  <2> QED  BY <1>2, <2>2, Zenon DEF Rejected
<1>3. CASE o \notin D
  <2>1. D \subseteq A
    BY <1>1, Zenon DEF StreamRead, SenderRead
  <2>2. D \in SUBSET (A \ {o})
    BY <1>3, <2>1, Zenon
  <2>3. IsFiniteSet(A \ {o}) /\ Cardinality(A \ {o}) = Cardinality(A) - 1
    BY FS_RemoveElement, Zenon
  <2> HIDE DEF D
  <2>4. IsFiniteSet(D) /\ Cardinality(D) <= Cardinality(A \ {o})
    BY <2>2, <2>3, FS_Subset, Zenon
  <2>5. Cardinality(D) \in Nat /\ Cardinality(A) \in Nat
    BY <2>4, FS_CardinalityType, Zenon
  <2>6. MaxNumberInStreams \in Nat
    BY RtcpCompoundAssumption
  <2>7. ~(Cardinality(D) > MaxNumberInStreams)
    BY <2>3, <2>4, <2>5, <2>6
  <2> QED  BY <1>3, <2>7, Zenon DEF Rejected, D
<1> QED  BY <1>2, <1>3, Zenon

\* Reading a compound after earlier ones meets no rejected sender.
LEMMA ReadInOrder ==
    ASSUME NEW A, IsFiniteSet(A), Cardinality(A) <= MaxNumberInStreams + 1,
           HeardParted(A), Len(sent) \in Nat,
           \A k \in 1 .. Len(sent) : LegibleBytes(sent[k].bytes),
           NEW k \in 1 .. Len(sent), NEW n \in Nat, n < k, Stores(PacketsOf(sent, n))
    PROVE  LET r == ReadPackets(reader, Heard(k))
           IN  ~r.nil /\ Stored(r, PacketsOf(sent, k))
<1> DEFINE xs == Heard(k)
           N == Len(xs)
           r == reader
           Q == PacketsOf(sent, n)
           P(i) == Q \cup {xs[m] : m \in 1 .. i}
<1>1. IsSeq(xs) /\ \A p \in Range(xs) : Legible(p)
  BY Zenon DEF LegibleBytes, Heard
<1>2. N \in Nat /\ \A i \in 1 .. N : xs[i] \in Range(xs)
  BY <1>1, ListMembers, Zenon
<1>3. PICK f : Runs("packets", r, xs, N, f) /\ ReadPackets(r, xs) = f[N]
  BY <1>2, LoopsOfReader, Zenon
<1>4. f[0] = r /\ \A i \in 1 .. N : f[i] = ReadPacket(f[i - 1], xs[i])
  <2>1. "packets" # "blocks" /\ "packets" # "chunks"
    OBVIOUS
  <2> QED  BY <1>3, <2>1, Zenon DEF Runs, Turn
<1>5. Stored(r, Q) /\ ~r.nil
  BY ReaderStored, Zenon
<1>6. \A i \in 1 .. n : i \in 1 .. Len(sent) /\ i < k
  OBVIOUS
<1>7. ASSUME NEW p \in Q PROVE \E j \in 1 .. Len(sent) : j < k /\ p \in Range(Heard(j))
  BY <1>6, Zenon DEF PacketsOf, Heard
<1>8. ASSUME NEW i \in 1 .. Len(sent), NEW p \in Range(Heard(i)), p.type \in SenderTypes
      PROVE  p.ssrc \in A
  <2>1. IsSeq(Heard(i))
    BY Zenon DEF LegibleBytes, Heard
  <2>2. PICK m \in 1 .. Len(Heard(i)) : p = Heard(i)[m]
    BY <2>1, ListMembers, Zenon
  <2> QED  BY <1>8, <2>2, Zenon DEF HeardParted
<1>9. \A p \in Q \cup Range(xs) : p.type \in SenderTypes => p.ssrc \in A
  BY <1>7, <1>8, Zenon
<1> HIDE DEF r, Q
<1>10. ASSUME NEW i \in 1 .. N, xs[i].type \in SenderTypes
       PROVE  ~ByeRead(xs[i].ssrc, P(i - 1) \cup {xs[i]})
  <2> DEFINE o == xs[i].ssrc
  <2>1. ASSUME NEW p \in Q, p.type = RtcpBye PROVE p.ssrc # o
    BY <1>2, <1>7, <1>10, <2>1, Zenon DEF HeardParted
  <2>2. ASSUME NEW m \in 1 .. i, m \in 1 .. N, xs[m].type = RtcpBye PROVE FALSE
    <3>1. i < m
      BY <1>10, <2>2, Zenon DEF HeardParted
    <3> QED  BY <3>1, <2>2
  <2>3. ASSUME NEW p \in P(i - 1) \cup {xs[i]} PROVE p \in Q \/ \E m \in 1 .. i : m \in 1 .. N /\ p = xs[m]
    <3>1. \A m \in 1 .. i - 1 : m \in 1 .. i /\ m \in 1 .. N
      BY <1>2
    <3>2. i \in 1 .. i
      OBVIOUS
    <3> QED  BY <3>1, <3>2, Zenon
  <2> QED  BY <2>1, <2>2, <2>3, Zenon DEF ByeRead
<1>11. ASSUME NEW i \in 1 .. N, Stored(f[i - 1], P(i - 1)), ~f[i - 1].nil
       PROVE  Stored(f[i], P(i - 1) \cup {xs[i]}) /\ ~f[i].nil
  <2> DEFINE c == f[i - 1]
             x == xs[i]
             V == P(i - 1)
             U == V \cup {x}
  <2>1. f[i] = ReadPacket(c, x) /\ Legible(x)
    BY <1>1, <1>2, <1>4, Zenon
  <2>2. V \subseteq U /\ x \in U
    BY Zenon
  <2>3. U \subseteq Q \cup Range(xs)
    <3>1. \A m \in 1 .. i - 1 : m \in 1 .. N
      BY <1>2
    <3> QED  BY <1>2, <3>1, Zenon
  <2>4. \A p \in U : p.type \in SenderTypes => p.ssrc \in A
    BY <1>9, <2>3, Zenon
  <2>5. x.type \in SenderTypes => ~ByeRead(x.ssrc, U)
    BY <1>10, Zenon
  <2>6. Stored(c, V) /\ ~c.nil
    BY <1>11
  <2> HIDE DEF c, x, U, V
  <2>7. Stored(c, U)
    BY <2>2, <2>6, StoredMore, Zenon
  <2>8. x.type \in SenderTypes => ~Rejected(c, x.ssrc)
    BY <2>2, <2>4, <2>5, <2>7, NotRejected, Zenon
  <2>9. Stored(ReadPacket(c, x), U) /\ ~ReadPacket(c, x).nil
    BY <2>1, <2>2, <2>6, <2>7, <2>8, StoredPacket, Zenon
  <2>10. Stored(f[i], U) /\ ~f[i].nil
    BY <2>1, <2>9, Zenon
  <2> QED  BY <2>10, Zenon DEF U, V, x
<1> HIDE DEF N, xs
<1> DEFINE T == {i \in Nat : i <= N => Stored(f[i], P(i)) /\ ~f[i].nil}
<1>12. 0 \in T
  <2>1. Q \subseteq P(0) /\ 0 \in Nat
    OBVIOUS
  <2> HIDE DEF P
  <2>2. Stored(f[0], P(0)) /\ ~f[0].nil
    BY <1>4, <1>5, <2>1, StoredMore, Zenon
  <2> QED  BY <2>1, <2>2, Zenon
<1>13. ASSUME NEW i \in Nat, i \in T PROVE i + 1 \in T
  <2>1. P(i) \cup {xs[i + 1]} \subseteq P(i + 1)
    <3>1. i + 1 \in 1 .. i + 1 /\ \A m \in 1 .. i : m \in 1 .. i + 1
      OBVIOUS
    <3> QED  BY <3>1, Zenon
  <2> DEFINE g == i + 1
  <2>2. g \in Nat /\ (g <= N => g \in 1 .. N /\ g - 1 = i /\ i <= N)
    BY <1>2
  <2>3. P(g - 1) = P(i) /\ f[g - 1] = f[i]
    BY <2>2
  <2> HIDE DEF g
  <2>4. ASSUME g <= N PROVE Stored(f[g], P(i) \cup {xs[g]}) /\ ~f[g].nil
    BY <1>11, <1>13, <2>2, <2>3, <2>4, Zenon
  <2>5. g <= N => Stored(f[g], P(g)) /\ ~f[g].nil
    BY <2>1, <2>4, StoredMore, Zenon DEF g
  <2>6. g \in T
    BY <2>2, <2>5, Zenon
  <2> QED  BY <2>6, Zenon DEF g
<1> HIDE DEF T
<1>14. Nat \subseteq T
  BY <1>12, <1>13, Induction
<1>15. N \in T /\ N <= N
  BY <1>2, <1>14
<1>16. Stored(f[N], P(N)) /\ ~f[N].nil
  BY <1>15, Zenon DEF T
<1>17. P(N) \subseteq PacketsOf(sent, k)
  <2>1. k \in 1 .. k /\ \A i \in 1 .. n : i \in 1 .. k
    OBVIOUS
  <2>2. Q \subseteq PacketsOf(sent, k)
    BY <2>1, PacketsMore, Zenon DEF Q
  <2>3. Range(xs) \subseteq PacketsOf(sent, k)
    BY <2>1, Zenon DEF PacketsOf, xs, Heard
  <2> QED  BY <1>2, <2>2, <2>3, Zenon
<1> HIDE DEF P
<1>18. Stored(f[N], PacketsOf(sent, k))
  BY <1>16, <1>17, StoredMore, Zenon
<1> QED  BY <1>3, <1>16, <1>18, Zenon DEF r, xs

\* While compounds are read in order, what is stored is of those up to the
\* latest one read, and nothing was rejected.
InOrder == orderly => ~panicked /\ Stores(PacketsOf(sent, newest))

\* It holds when the session starts,
LEMMA InOrderInit ==
    ASSUME Init
    PROVE  InOrder
<1>1. panicked = FALSE
  BY Zenon DEF Init
<1> QED  BY <1>1, NothingStored, Zenon DEF InOrder

\* and every step keeps it so.
LEMMA InOrderStep ==
    ASSUME NEW A, IsFiniteSet(A), Cardinality(A) <= MaxNumberInStreams + 1,
           HeardParted(A), Building, Reading, InOrder,
           \A k \in 1 .. Len(sent) : LegibleBytes(sent[k].bytes), [Next]_vars
    PROVE  InOrder'
<1>1. Len(sent) \in Nat /\ IsSeq(sent)
  BY Zenon DEF Building
<1>2. newest \in Nat /\ newest <= Len(sent) /\ orderly \in BOOLEAN
  BY Zenon DEF Reading
<1>3. CASE UNCHANGED reading
  <2> DEFINE P == PacketsOf(sent, newest)
             Q == PacketsOf(sent', newest)
  <2>1. /\ streamsIn' = streamsIn /\ reports' = reports /\ panicked' = panicked
        /\ newest' = newest /\ orderly' = orderly
    BY <1>3 DEF reading
  <2>2. P \subseteq Q
    BY <1>2, SentStores, Zenon
  <2>3. ASSUME orderly PROVE ~panicked /\ StreamsRead(streamsIn, P) /\ ReportsRead(reports, P)
    BY <2>3, Zenon DEF InOrder, Stores
  <2> HIDE DEF P
  <2>4. ASSUME orderly PROVE ~panicked /\ StreamsRead(streamsIn, Q) /\ ReportsRead(reports, Q)
    BY <2>2, <2>3, <2>4, StoredMore, Zenon
  <2>5. Q = PacketsOf(sent', newest')
    BY <2>1, Zenon
  <2> HIDE DEF Q
  <2>6. ASSUME orderly'
        PROVE  ~panicked' /\ StreamsRead(streamsIn', Q) /\ ReportsRead(reports', Q)
    BY <2>1, <2>4, <2>6, Zenon
  <2> QED  BY <2>5, <2>6, Zenon DEF InOrder, Stores
<1>4. ASSUME NEW k \in DOMAIN sent, OnRecvCtrl(k)
      PROVE  InOrder'
  <2> DEFINE r == ReadPackets(reader, Heard(k))
             P == PacketsOf(sent, k)
  <2>1. /\ ~panicked /\ sent' = sent /\ newest' = k
        /\ orderly' = (orderly /\ k > newest)
        /\ \/ streamsIn' = r.streamsIn /\ reports' = r.reports /\ panicked' = r.nil
           \/ streamsIn' = streamsIn /\ reports' = reports /\ panicked' = panicked
    BY <1>4, CompoundRead, Zenon DEF Heard
  <2>2. k \in 1 .. Len(sent)
    BY <1>1, ListMembers, Zenon
  <2>3. ASSUME orderly' PROVE ~panicked' /\ StreamsRead(streamsIn', P) /\ ReportsRead(reports', P)
    <3>1. orderly /\ k > newest
      BY <2>1, <2>3, Zenon
    <3>2. newest < k /\ \A i \in 1 .. newest : i \in 1 .. k
      BY <1>2, <2>2, <3>1
    <3>3. Stores(PacketsOf(sent, newest))
      BY <3>1, Zenon DEF InOrder
    <3>4. ~r.nil /\ Stored(r, P)
      BY <1>1, <1>2, <2>2, <3>2, <3>3, ReadInOrder, Zenon
    <3>5. PacketsOf(sent, newest) \subseteq P
      BY <3>2, PacketsMore, Zenon
    <3> HIDE DEF r, P
    <3>6. StreamsRead(streamsIn, P) /\ ReportsRead(reports, P)
      BY <3>3, <3>5, StoredMore, Zenon DEF Stores
    <3>7. StreamsRead(r.streamsIn, P) /\ ReportsRead(r.reports, P)
      BY <3>4, Zenon DEF Stored
    <3>8. CASE streamsIn' = r.streamsIn /\ reports' = r.reports /\ panicked' = r.nil
      BY <3>4, <3>7, <3>8, Zenon
    <3>9. CASE streamsIn' = streamsIn /\ reports' = reports /\ panicked' = panicked
      BY <2>1, <3>6, <3>9, Zenon
    <3> QED  BY <2>1, <3>8, <3>9, Zenon
  <2>4. P = PacketsOf(sent', newest')
    BY <2>1, Zenon
  <2> HIDE DEF P
  <2> QED  BY <2>3, <2>4, Zenon DEF InOrder, Stores
<1> QED  BY <1>3, <1>4, ReaderUnmoved, Zenon
=============================================================================
