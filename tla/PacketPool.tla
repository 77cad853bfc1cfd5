----------------------------- MODULE PacketPool -----------------------------
(***************************************************************************)
(* The life of RTP and RTCP packets: the two global free lists, and the    *)
(* goroutines that take packets from them, hand them on and free them.     *)
(* The data reader of a transport fills a packet and OnRecvData queues it  *)
(* for the application or frees it; goroutines of the application receive  *)
(* or create packets, change them, write and free them; the control        *)
(* reader, the RTCP service and whoever sends a BYE use control packets.   *)
(*                                                                         *)
(* A packet is its identity, its isFree flag and the buffer it points to:  *)
(* SetCsrcList and SetExtension exchange buffers with a packet they take   *)
(* from the pool.  Which packet of a list or channel is received first     *)
(* makes no difference here, so both are sets.  Memory nobody refers to is *)
(* collected and may come back as a new packet.                            *)
(***************************************************************************)
EXTENDS Integers, FiniteSets

CONSTANTS
    DataPackets, CtrlPackets,   \* identities of packets, by Go type
    Buffers,                    \* identities of byte slices
    DataReaders,                \* goroutines that run readDataPacket
    AppTasks,                   \* goroutines of the application
    CtrlTasks,                  \* control readers, service, senders of BYE
    ListLength,                 \* freeListLengthRtp, freeListLengthRtcp
    ChanLength,                 \* dataReceiveChanLen
    FreesAgain,                 \* the application keeps what it has freed
    None

Packets == DataPackets \cup CtrlPackets
Tasks == DataReaders \cup AppTasks \cup CtrlTasks
Kinds == {"rtp", "rtcp"}
PacketsOf(k) == IF k = "rtp" THEN DataPackets ELSE CtrlPackets
KindOf(g) == IF g \in CtrlTasks THEN "rtcp" ELSE "rtp"
Chan == "dataReceiveChan"

ASSUME PoolAssumption ==
    /\ DataPackets \cap CtrlPackets = {}
    /\ None \notin Packets /\ None \notin Buffers
    /\ CtrlTasks \cap (DataReaders \cup AppTasks) = {}
    /\ DataReaders \cap AppTasks = {}
    /\ Chan \notin Tasks
    /\ ListLength \in [Kinds -> Nat] /\ ChanLength \in Nat
    /\ FreesAgain \in BOOLEAN

VARIABLES
    freeList,          \* kind -> packets on freeListRtp, freeListRtcp
    isFree,            \* the isFree flag of each packet
    buffer,            \* the buffer of each packet
    pkt,               \* the packet each goroutine works on, or None
    tmp,               \* its temporary packet in SetCsrcList, SetExtension
    freeing,           \* the packet its FreePacket has marked, but not yet
                       \* put on the list
    last,              \* packet an application task has freed and still
                       \* has a pointer to
    dataReceiveChan

vars == <<freeList, isFree, buffer, pkt, tmp, freeing, last,
          dataReceiveChan>>

-----------------------------------------------------------------------------
Pointed == {p \in Packets : \/ \E g \in Tasks : p \in {pkt[g], tmp[g], freeing[g]}
                            \/ \E g \in AppTasks : p = last[g]}
Live == freeList["rtp"] \cup freeList["rtcp"] \cup dataReceiveChan \cup Pointed

Works(g) == pkt[g] # None /\ tmp[g] = None /\ freeing[g] = None
Idle(g) == pkt[g] = None /\ tmp[g] = None /\ freeing[g] = None

KeepsMark(k, p) ==   \* mutant: newDataPacket does not clear isFree either
    /\ p \in freeList[k]
    /\ freeList' = [freeList EXCEPT ![k] = @ \ {p}]
    /\ UNCHANGED <<isFree, buffer>>

\* A packet of the free list if there is one, and a new packet otherwise.
\* newDataPacket clears isFree, newCtrlPacket leaves it as it is.
FromList(k, p) ==
    /\ p \in freeList[k]
    /\ freeList' = [freeList EXCEPT ![k] = @ \ {p}]
    /\ isFree' = IF k = "rtp" THEN [isFree EXCEPT ![p] = FALSE] ELSE isFree
    /\ UNCHANGED buffer

\* Memory that nobody refers to.
UnusedPackets(k) == PacketsOf(k) \ Live
UnusedBuffers == Buffers \ {buffer[q] : q \in Live}

FromHeap(k, p) ==
    /\ freeList[k] = {}
    /\ p \in UnusedPackets(k)
    /\ \E b \in UnusedBuffers : buffer' = [buffer EXCEPT ![p] = b]
    /\ isFree' = [isFree EXCEPT ![p] = FALSE]
    /\ UNCHANGED freeList

Obtain(k, p) == FromList(k, p) \/ FromHeap(k, p)

NewPacket(g) ==
    /\ Idle(g)
    /\ \E p \in PacketsOf(KindOf(g)) :
          /\ Obtain(KindOf(g), p)
          /\ pkt' = [pkt EXCEPT ![g] = p]
    /\ UNCHANGED <<tmp, freeing, last, dataReceiveChan>>

-----------------------------------------------------------------------------
(* FreePacket: a packet marked as free is ignored; any other one is marked  *)
(* and then sent to its list, or left to the collector if the list is full. *)

MarkFree(g, p) ==
    IF isFree[p]
    THEN UNCHANGED <<isFree, freeing>>
    ELSE /\ isFree' = [isFree EXCEPT ![p] = TRUE]
         /\ freeing' = [freeing EXCEPT ![g] = p]

FreeKeepsUsing(g) ==   \* mutant: the goroutine works on with a freed packet
    /\ Works(g)
    /\ MarkFree(g, pkt[g])
    /\ UNCHANGED <<freeList, buffer, pkt, tmp, last, dataReceiveChan>>

FreePacket(g) ==
    /\ Works(g)
    /\ MarkFree(g, pkt[g])
    /\ pkt' = [pkt EXCEPT ![g] = None]
    /\ last' = IF FreesAgain /\ g \in AppTasks
               THEN [last EXCEPT ![g] = pkt[g]] ELSE last
    /\ UNCHANGED <<freeList, buffer, tmp, dataReceiveChan>>

HasRoom(k) == Cardinality(freeList[k]) < ListLength[k]

PutOnData(g) ==   \* mutant: control packets are put on the list of data packets
    LET p == freeing[g] IN
    /\ p # None
    /\ freeList' = [freeList EXCEPT !["rtp"] = @ \cup {p}]
    /\ freeing' = [freeing EXCEPT ![g] = None]
    /\ UNCHANGED <<isFree, buffer, pkt, tmp, last, dataReceiveChan>>

PutOnList(g) ==
    LET p == freeing[g] IN
    /\ p # None
    /\ freeList' = [k \in Kinds |-> IF p \in PacketsOf(k) /\ HasRoom(k)
                                    THEN freeList[k] \cup {p} ELSE freeList[k]]
    /\ freeing' = [freeing EXCEPT ![g] = None]
    /\ UNCHANGED <<isFree, buffer, pkt, tmp, last, dataReceiveChan>>

\* The application calls FreePacket once more for the packet it freed last.
FreePacketAgain(g) ==
    /\ freeing[g] = None /\ last[g] # None
    /\ MarkFree(g, last[g])
    /\ UNCHANGED <<freeList, buffer, pkt, tmp, last, dataReceiveChan>>

-----------------------------------------------------------------------------
(* OnRecvData, and what becomes of packets nobody frees.                    *)

\* The packet is queued for the application unless the channel is full.
Forward(g) ==
    /\ Works(g)
    /\ Cardinality(dataReceiveChan) < ChanLength
    /\ dataReceiveChan' = dataReceiveChan \cup {pkt[g]}
    /\ pkt' = [pkt EXCEPT ![g] = None]
    /\ UNCHANGED <<freeList, isFree, buffer, tmp, freeing, last>>

ReceiveData(g) ==
    /\ Idle(g)
    /\ \E p \in dataReceiveChan :
          /\ dataReceiveChan' = dataReceiveChan \ {p}
          /\ pkt' = [pkt EXCEPT ![g] = p]
    /\ UNCHANGED <<freeList, isFree, buffer, tmp, freeing, last>>

\* The control reader returns early, a BYE has been written, or the
\* application lets a packet go.
Forget(g) ==
    /\ Works(g)
    /\ pkt' = [pkt EXCEPT ![g] = None]
    /\ UNCHANGED <<freeList, isFree, buffer, tmp, freeing, last,
                   dataReceiveChan>>

-----------------------------------------------------------------------------
(* SetCsrcList and SetExtension build the new contents in the buffer of a   *)
(* temporary packet, exchange the buffers and free the temporary packet.    *)

NewTmp(g) ==
    /\ Works(g)
    /\ \E p \in DataPackets : /\ Obtain("rtp", p)
                              /\ tmp' = [tmp EXCEPT ![g] = p]
    /\ UNCHANGED <<pkt, freeing, last, dataReceiveChan>>

KeepBuffer(p, q) ==   \* mutant: the temporary packet keeps its buffer
    [buffer EXCEPT ![p] = buffer[q]]

SwitchBuffers(p, q) == [buffer EXCEPT ![p] = buffer[q], ![q] = buffer[p]]

Switch(g) ==
    /\ tmp[g] # None /\ freeing[g] = None
    /\ buffer' = SwitchBuffers(pkt[g], tmp[g])
    /\ MarkFree(g, tmp[g])
    /\ tmp' = [tmp EXCEPT ![g] = None]
    /\ UNCHANGED <<freeList, pkt, last, dataReceiveChan>>

-----------------------------------------------------------------------------
Init ==
    /\ freeList = [k \in Kinds |-> {}]
    /\ isFree = [p \in Packets |-> FALSE]
    /\ buffer = [p \in Packets |-> None]
    /\ pkt = [g \in Tasks |-> None]
    /\ tmp = [g \in Tasks |-> None]
    /\ freeing = [g \in Tasks |-> None]
    /\ last = [g \in AppTasks |-> None]
    /\ dataReceiveChan = {}

Next ==
    \/ \E g \in Tasks : NewPacket(g) \/ FreePacket(g) \/ PutOnList(g)
    \/ \E g \in DataReaders : Forward(g)
    \/ \E g \in AppTasks :
          ReceiveData(g) \/ NewTmp(g) \/ Switch(g)
    \/ \E g \in AppTasks \cup CtrlTasks : Forget(g)

Spec == Init /\ [][Next]_vars

\* With an application that relies on repeated calls of FreePacket.
SpecAgain == Init /\ [][Next \/ \E g \in AppTasks : FreePacketAgain(g)]_vars

-----------------------------------------------------------------------------
TypeOK ==
    /\ freeList \in [Kinds -> SUBSET Packets]
    /\ \A k \in Kinds : freeList[k] \subseteq PacketsOf(k)
    /\ isFree \in [Packets -> BOOLEAN]
    /\ buffer \in [Packets -> Buffers \cup {None}]
    /\ pkt \in [Tasks -> Packets \cup {None}]
    /\ tmp \in [Tasks -> Packets \cup {None}]
    /\ freeing \in [Tasks -> Packets \cup {None}]
    /\ last \in [AppTasks -> Packets \cup {None}]
    /\ dataReceiveChan \subseteq DataPackets

\* Who works with a packet, and who works with a buffer: the goroutine that
\* has the packet in hand, or the channel that transports it.
PacketHolders(p) ==
    {g \in Tasks : pkt[g] = p \/ tmp[g] = p}
        \cup {c \in {Chan} : p \in dataReceiveChan}

BufferHolders(b) ==
    UNION {PacketHolders(p) : p \in {q \in Packets : buffer[q] = b}}

PacketsOwned == INSTANCE Ownership WITH
    Resources <- Packets, Holders <- Tasks \cup {Chan},
    holders <- [p \in Packets |-> PacketHolders(p)]

BuffersOwned == INSTANCE Ownership WITH
    Resources <- Buffers, Holders <- Tasks \cup {Chan},
    holders <- [b \in Buffers |-> BufferHolders(b)]

\* The pool keeps its promise for packets: whatever the goroutines do at the
\* same time, newDataPacket and newCtrlPacket give out only packets nobody
\* works with, and FreePacket takes back a packet from its only user.
PacketsAreOwned == PacketsOwned!Spec

\* It keeps the promise for the memory, too, although packets exchange their
\* buffers: no two goroutines ever fill or read the same byte slice.
BuffersAreOwned == BuffersOwned!Spec

\* A data packet in somebody's hands is not marked as free, so that the
\* FreePacket that is due for it is not ignored.  (A control packet that was
\* reused is still marked, and is never put on its list again.)
InUseNotMarked ==
    \A g \in Tasks, p \in DataPackets : p \in {pkt[g], tmp[g]} => ~isFree[p]

-----------------------------------------------------------------------------
(* What the documentation says and the code does not do.                    *)

\* "A packet marked as free is ignored, thus calling FreePacket multiple
\* times for the same packet is possible": it has no effect on the other
\* users of the pool, so that no packet ever has two of them.
OneUser ==
    \A p \in Packets : \A g, h \in PacketHolders(p) : g = h
=============================================================================
