-------------------------- MODULE PacketPoolProofs --------------------------
(***************************************************************************)
(* The pool implements Ownership, for packets and for their buffers, for   *)
(* any number of goroutines, packets and buffers and any length of the     *)
(* lists, as long as no packet is freed twice.                             *)
(*                                                                         *)
(* The inductive invariant says that the places a packet can be in - the   *)
(* local variables of the goroutines, the free lists and the channel - are *)
(* pairwise different, and that no two packets in such a place share a     *)
(* buffer.                                                                 *)
(***************************************************************************)
EXTENDS PacketPool, TLAPS

Has(g, p) == p \in {pkt[g], tmp[g], freeing[g]}
Queued == freeList["rtp"] \cup freeList["rtcp"] \cup dataReceiveChan

\* Every local variable and every queue holds a packet for itself.
Apart ==
    /\ \A g, h \in Tasks, p \in Packets : Has(g, p) /\ Has(h, p) => g = h
    /\ \A g \in Tasks, p \in Packets :
          /\ pkt[g] = p => tmp[g] # p /\ freeing[g] # p
          /\ tmp[g] = p => freeing[g] # p
          /\ Has(g, p) => p \notin Queued
    /\ freeList["rtp"] \cap dataReceiveChan = {}
    /\ last = [g \in AppTasks |-> None]

\* Goroutines refer to packets of their own kind, and to a temporary packet
\* only while they work on another one.
KindsKept ==
    /\ \A g \in Tasks, p \in Packets : Has(g, p) => p \in PacketsOf(KindOf(g))
    /\ \A g \in Tasks : tmp[g] # None => pkt[g] # None

\* Packets in use have a buffer, each one for itself.
BuffersApart ==
    /\ \A p \in Live : buffer[p] \in Buffers
    /\ \A p, q \in Live : buffer[p] = buffer[q] => p = q

Inv == TypeOK /\ Apart /\ KindsKept /\ BuffersApart

\* The invariant holds when the program starts, with empty lists.
LEMMA InitInv == Init => Inv
<1> SUFFICES ASSUME Init PROVE Inv OBVIOUS
<1>1. TypeOK BY PoolAssumption DEF Init, TypeOK, PacketsOf, Packets, Kinds
<1>2. Apart BY PoolAssumption DEF Init, Apart, Has, Queued, Packets, Kinds
<1>3. KindsKept BY PoolAssumption DEF Init, KindsKept, Has, Packets
<1>4. Live = {} BY PoolAssumption DEF Init, Live, Pointed, Packets, Kinds
<1>5. BuffersApart BY <1>4 DEF BuffersApart
<1> QED BY <1>1, <1>2, <1>3, <1>5 DEF Inv

-----------------------------------------------------------------------------
\* newDataPacket and newCtrlPacket give out a packet that is nowhere in use,
\* with a buffer that no packet in use has.
LEMMA ObtainGives ==
    ASSUME Inv, NEW k \in Kinds, NEW p \in PacketsOf(k), Obtain(k, p)
    PROVE  /\ p \in Packets
           /\ \A g \in Tasks : ~Has(g, p)
           /\ p \notin dataReceiveChan
           /\ freeList' \in [Kinds -> SUBSET Packets]
           /\ \A j \in Kinds : freeList'[j] \subseteq freeList[j] \ {p}
           /\ isFree' \in [Packets -> BOOLEAN]
           /\ buffer' \in [Packets -> Buffers \cup {None}]
           /\ buffer'[p] \in Buffers
           /\ \A q \in Live \ {p} : buffer'[q] = buffer[q] /\ buffer[q] # buffer'[p]
<1> p \in Packets BY DEF PacketsOf, Packets
<1>1. CASE FromList(k, p)
  <2>1. p \in Queued /\ p \in Live
    BY <1>1 DEF FromList, Queued, Live, Kinds
  <2>2. (\A g \in Tasks : ~Has(g, p)) /\ p \notin dataReceiveChan
    BY <1>1, <2>1, PoolAssumption
       DEF Inv, Apart, TypeOK, FromList, PacketsOf, Kinds
  <2>3. \A j \in Kinds : freeList'[j] \subseteq freeList[j] \ {p}
    BY <1>1, PoolAssumption DEF FromList, Inv, TypeOK, Kinds, PacketsOf
  <2>4. freeList' \in [Kinds -> SUBSET Packets] /\ isFree' \in [Packets -> BOOLEAN]
    BY <1>1 DEF FromList, Inv, TypeOK
  <2> QED BY <1>1, <2>1, <2>2, <2>3, <2>4 DEF FromList, Inv, TypeOK, BuffersApart
<1>2. CASE FromHeap(k, p)
  <2>1. p \notin Live BY <1>2 DEF FromHeap, UnusedPackets
  <2>2. (\A g \in Tasks : ~Has(g, p)) /\ p \notin dataReceiveChan
    BY <2>1 DEF Live, Pointed, Has
  <2>3. \A j \in Kinds : freeList'[j] \subseteq freeList[j] \ {p}
    BY <1>2, <2>1 DEF FromHeap, Live, Kinds
  <2>4. PICK b \in UnusedBuffers : buffer' = [buffer EXCEPT ![p] = b]
    BY <1>2, Zenon DEF FromHeap
  <2>5. b \in Buffers /\ \A q \in Live : buffer[q] # b
    BY DEF UnusedBuffers
  <2>6. Live \subseteq Packets
    BY DEF Live, Pointed, Inv, TypeOK, Kinds, Packets
  <2> QED BY <1>2, <2>1, <2>2, <2>3, <2>4, <2>5, <2>6 DEF FromHeap, Inv, TypeOK
<1> QED BY <1>1, <1>2 DEF Obtain

\* The invariant survives the reception of a packet from the pool, into
\* either local variable of a goroutine.
LEMMA NewPacketInv ==
    ASSUME Inv, NEW g \in Tasks, NEW k \in Kinds, k = KindOf(g),
           NEW p \in PacketsOf(k), Obtain(k, p),
           \/ /\ Idle(g)
              /\ pkt' = [pkt EXCEPT ![g] = p]
              /\ UNCHANGED tmp
           \/ /\ Works(g)
              /\ tmp' = [tmp EXCEPT ![g] = p]
              /\ UNCHANGED pkt,
           UNCHANGED <<freeing, last, dataReceiveChan>>
    PROVE  Inv'
<1> USE ObtainGives
<1>1. TypeOK' BY DEF Inv, TypeOK
<1>2. Queued' \subseteq Queued \ {p}
  BY DEF Queued, Kinds
<1>3. \A h \in Tasks, q \in Packets :
         Has(h, q)' <=> Has(h, q) \/ (h = g /\ q = p)
  BY PoolAssumption DEF Has, Inv, TypeOK, Idle, Works, Packets
<1>4. Apart'
  <2>1. \A h, j \in Tasks, q \in Packets : Has(h, q)' /\ Has(j, q)' => h = j
    BY <1>3 DEF Inv, Apart
  <2>2. \A h \in Tasks, q \in Packets :
           /\ pkt'[h] = q => tmp'[h] # q /\ freeing'[h] # q
           /\ tmp'[h] = q => freeing'[h] # q
    BY PoolAssumption DEF Inv, Apart, TypeOK, Has, Idle, Works, Packets
  <2>3. \A h \in Tasks, q \in Packets : Has(h, q)' => q \notin Queued'
    BY <1>2, <1>3 DEF Inv, Apart
  <2>4. freeList'["rtp"] \cap dataReceiveChan' = {}
    BY DEF Inv, Apart, Kinds
  <2> QED BY <2>1, <2>2, <2>3, <2>4 DEF Apart, Inv
<1>5. KindsKept'
  <2>1. \A h \in Tasks, q \in Packets : Has(h, q)' => q \in PacketsOf(KindOf(h))
    BY <1>3 DEF Inv, KindsKept
  <2>2. \A h \in Tasks : tmp'[h] # None => pkt'[h] # None
    BY PoolAssumption DEF Inv, KindsKept, TypeOK, Idle, Works, Packets
  <2> QED BY <2>1, <2>2 DEF KindsKept
<1>6. Live' \subseteq Live \cup {p}
  <2>1. Pointed' \subseteq Pointed \cup {p}
    BY <1>3 DEF Pointed, Has
  <2> QED BY <2>1 DEF Live, Kinds
<1>7. BuffersApart'
  BY <1>6 DEF BuffersApart, Inv
<1> QED BY <1>1, <1>4, <1>5, <1>7 DEF Inv

\* It survives a FreePacket, which moves the packet to be put on its list or
\* leaves it to the collector.
LEMMA FreePacketInv ==
    ASSUME Inv, NEW g \in Tasks, FreePacket(g), ~FreesAgain
    PROVE  Inv'
<1> DEFINE p == pkt[g]
<1>1. /\ p \in Packets /\ p # None
      /\ tmp[g] = None /\ freeing[g] = None
      /\ pkt' = [pkt EXCEPT ![g] = None]
      /\ UNCHANGED <<freeList, buffer, tmp, last, dataReceiveChan>>
      /\ freeing' = freeing \/ freeing' = [freeing EXCEPT ![g] = p]
      /\ isFree' \in [Packets -> BOOLEAN]
  BY Zenon DEF FreePacket, Works, MarkFree, Inv, TypeOK
<1> HIDE DEF p
<1>2. TypeOK' BY <1>1 DEF Inv, TypeOK
<1>3. \A h \in Tasks, q \in Packets : Has(h, q)' => Has(h, q)
  BY <1>1, PoolAssumption DEF Has, Inv, TypeOK, Packets, p
<1>4. Apart'
  <2>1. \A h \in Tasks, q \in Packets :
           /\ pkt'[h] = q => tmp'[h] # q /\ freeing'[h] # q
           /\ tmp'[h] = q => freeing'[h] # q
    BY <1>1, PoolAssumption DEF Inv, Apart, TypeOK, Packets
  <2> QED BY <1>1, <1>3, <2>1 DEF Apart, Inv, Queued
<1>5. KindsKept'
  BY <1>1, <1>3 DEF Inv, KindsKept, TypeOK
<1>6. Live' \subseteq Live
  BY <1>1, <1>3 DEF Live, Pointed, Has
<1>7. BuffersApart' BY <1>1, <1>6 DEF BuffersApart, Inv
<1> QED BY <1>2, <1>4, <1>5, <1>7 DEF Inv

\* It survives the second half of FreePacket.
LEMMA PutOnListInv ==
    ASSUME Inv, NEW g \in Tasks, PutOnList(g)
    PROVE  Inv'
<1> DEFINE p == freeing[g]
<1>1. /\ p \in Packets /\ p # None
      /\ freeList' \in [Kinds -> SUBSET Packets]
      /\ \A k \in Kinds : freeList'[k] \subseteq freeList[k] \cup ({p} \cap PacketsOf(k))
      /\ freeing' = [freeing EXCEPT ![g] = None]
      /\ UNCHANGED <<isFree, buffer, pkt, tmp, last, dataReceiveChan>>
  BY DEF PutOnList, Inv, TypeOK
<1> HIDE DEF p
<1>2. TypeOK' BY <1>1 DEF Inv, TypeOK
<1>3. Has(g, p) /\ p \notin Queued /\ p # pkt[g] /\ p # tmp[g]
  BY <1>1 DEF Has, p, Inv, Apart
<1>4. \A h \in Tasks, q \in Packets : Has(h, q)' => Has(h, q) /\ q # p
  BY <1>1, <1>3, PoolAssumption DEF Has, Inv, Apart, TypeOK, Packets
<1>5. Queued' \subseteq Queued \cup {p}
  BY <1>1 DEF Queued, Kinds
<1>6. Apart'
  <2>1. \A h \in Tasks, q \in Packets :
           /\ pkt'[h] = q => tmp'[h] # q /\ freeing'[h] # q
           /\ tmp'[h] = q => freeing'[h] # q
    BY <1>1, PoolAssumption DEF Inv, Apart, TypeOK, Packets
  <2>2. freeList'["rtp"] \cap dataReceiveChan' = {}
    BY <1>1, <1>3 DEF Inv, Apart, Kinds, Queued
  <2> QED BY <1>1, <1>4, <1>5, <2>1, <2>2 DEF Apart, Inv
<1>7. KindsKept'
  BY <1>1, <1>4 DEF Inv, KindsKept, TypeOK
<1>8. Live' \subseteq Live
  <2>1. Pointed' \subseteq Pointed BY <1>1, <1>4 DEF Pointed, Has
  <2>2. p \in Pointed BY <1>1, <1>3 DEF Pointed, Has
  <2>3. Live = Queued \cup Pointed /\ Live' = Queued' \cup Pointed'
    BY DEF Live, Queued
  <2> QED BY <1>5, <2>1, <2>2, <2>3
<1>9. BuffersApart' BY <1>1, <1>8 DEF BuffersApart, Inv
<1> QED BY <1>2, <1>6, <1>7, <1>9 DEF Inv

\* It survives that a packet goes from the data reader to the channel, from
\* the channel to the application, or to the collector.
LEMMA PassInv ==
    ASSUME Inv, NEW g \in Tasks,
           \/ g \in DataReaders /\ Forward(g)
           \/ g \in AppTasks /\ ReceiveData(g)
           \/ Forget(g)
    PROVE  Inv'
<1> KindOf(g) \in Kinds BY DEF KindOf, Kinds
<1>1. PICK p \in Packets :
        /\ \/ /\ pkt[g] = p /\ pkt' = [pkt EXCEPT ![g] = None]
              /\ tmp[g] = None
              /\ \/ dataReceiveChan' = dataReceiveChan
                 \/ /\ p \in DataPackets
                    /\ dataReceiveChan' = dataReceiveChan \cup {p}
           \/ /\ KindOf(g) = "rtp"
              /\ pkt' = [pkt EXCEPT ![g] = p]
              /\ tmp[g] = None /\ freeing[g] = None
              /\ p \in dataReceiveChan
              /\ dataReceiveChan' = dataReceiveChan \ {p}
        /\ UNCHANGED <<freeList, isFree, buffer, tmp, freeing, last>>
  <2>1. CASE g \in DataReaders /\ Forward(g)
    <3>1. pkt[g] \in Packets /\ Has(g, pkt[g])
      BY <2>1 DEF Forward, Works, Inv, TypeOK, Has
    <3>2. pkt[g] \in DataPackets
      BY <2>1, <3>1, PoolAssumption DEF Inv, KindsKept, KindOf, PacketsOf
    <3> QED BY <2>1, <3>1, <3>2 DEF Forward, Works
  <2>2. CASE g \in AppTasks /\ ReceiveData(g)
    BY <2>2, PoolAssumption, Zenon DEF ReceiveData, Idle, Inv, TypeOK, Packets, KindOf
  <2>3. CASE Forget(g)
    BY <2>3 DEF Forget, Works, Inv, TypeOK
  <2> QED BY <2>1, <2>2, <2>3
<1>2. TypeOK' BY <1>1, PoolAssumption DEF Inv, TypeOK, Packets
<1>3. \A h \in Tasks, q \in Packets :
        /\ Has(h, q)' => (Has(h, q) /\ q # p) \/ (q = p /\ h = g /\ p \in dataReceiveChan)
                         \/ (Has(h, q) /\ q = p /\ p \notin dataReceiveChan')
        /\ Has(h, q) /\ q # p => q \notin Queued'
  <2>1. \A q \in Packets : q \in Queued' /\ q # p => q \in Queued
    BY <1>1 DEF Queued
  <2>2. \A h \in Tasks, q \in Packets : Has(h, q) /\ q # p => q \notin Queued'
    BY <2>1 DEF Inv, Apart
  <2>3. \A h \in Tasks, q \in Packets :
         Has(h, q)' => Has(h, q) \/ (q = p /\ h = g /\ p \in dataReceiveChan)
    BY <1>1, PoolAssumption DEF Has, Inv, TypeOK, Packets
  <2>4. ASSUME NEW h \in Tasks, Has(h, p)', Has(h, p) PROVE p \notin dataReceiveChan'
    BY <1>1, <2>4, PoolAssumption DEF Has, Inv, Apart, TypeOK, Packets, Queued
  <2> QED BY <2>2, <2>3, <2>4
<1>4. Apart'
  <2>1. \A h \in Tasks, q \in Packets :
           /\ pkt'[h] = q => tmp'[h] # q /\ freeing'[h] # q
           /\ tmp'[h] = q => freeing'[h] # q
    BY <1>1, PoolAssumption DEF Inv, Apart, TypeOK, Packets, Has, Queued
  <2>2. freeList'["rtp"] \cap dataReceiveChan' = {}
    BY <1>1 DEF Inv, Apart, Queued, Has
  <2>3. \A h, j \in Tasks, q \in Packets : Has(h, q)' /\ Has(j, q)' => h = j
    BY <1>3 DEF Inv, Apart, Queued
  <2>4. \A h \in Tasks, q \in Packets : Has(h, q)' => q \notin Queued'
    <3> SUFFICES ASSUME NEW h \in Tasks, Has(h, p)' PROVE p \notin Queued'
      BY <1>3
    <3>1. CASE p \in dataReceiveChan
      <4>1. p \notin freeList["rtp"] /\ p \notin freeList["rtcp"]
        BY <3>1, PoolAssumption DEF Inv, Apart, TypeOK, PacketsOf, Kinds
      <4>2. p \notin dataReceiveChan'
        <5>1. pkt[g] # p BY <3>1 DEF Inv, Apart, Has, Queued
        <5> QED BY <1>1, <5>1
      <4> QED BY <1>1, <4>1, <4>2 DEF Queued
    <3>2. CASE p \notin dataReceiveChan
      BY <1>1, <1>3, <3>2 DEF Inv, Apart, Queued
    <3> QED BY <3>1, <3>2
  <2> QED BY <1>1, <2>1, <2>2, <2>3, <2>4 DEF Apart, Inv
<1>5. KindsKept'
  <2>1. \A h \in Tasks, q \in Packets : Has(h, q)' => q \in PacketsOf(KindOf(h))
    BY <1>1, <1>3 DEF Inv, KindsKept, PacketsOf, TypeOK, Queued, Apart, Has
  <2>2. \A h \in Tasks : tmp'[h] # None => pkt'[h] # None
    BY <1>1, PoolAssumption DEF Inv, KindsKept, TypeOK, Packets
  <2> QED BY <2>1, <2>2 DEF KindsKept
<1>6. Live' \subseteq Live
  <2>1. Pointed' \subseteq Live BY <1>1, <1>3 DEF Pointed, Has, Live
  <2>2. dataReceiveChan' \subseteq Live BY <1>1 DEF Live, Pointed
  <2> QED BY <1>1, <2>1, <2>2 DEF Live
<1>7. BuffersApart' BY <1>1, <1>6 DEF BuffersApart, Inv
<1> QED BY <1>2, <1>4, <1>5, <1>7 DEF Inv

\* The exchange of buffers at the end of SetCsrcList and SetExtension, with
\* the facts about the two packets that the other proofs use.
LEMMA SwitchGives ==
    ASSUME Inv, NEW g \in AppTasks, Switch(g)
    PROVE  /\ g \in Tasks
           /\ pkt[g] \in Packets /\ tmp[g] \in Packets /\ pkt[g] # tmp[g]
           /\ pkt[g] \in Live /\ tmp[g] \in Live
           /\ freeing[g] = None
           /\ isFree' \in [Packets -> BOOLEAN]
           /\ freeing' = freeing \/ freeing' = [freeing EXCEPT ![g] = tmp[g]]
<1>1. g \in Tasks BY DEF Tasks
<1>2. pkt[g] \in Packets /\ tmp[g] \in Packets
  BY <1>1 DEF Switch, Inv, TypeOK, KindsKept
<1>3. pkt[g] # tmp[g] BY <1>1, <1>2 DEF Inv, Apart
<1>4. pkt[g] \in Live /\ tmp[g] \in Live
  BY <1>1, <1>2 DEF Live, Pointed
<1> QED BY <1>1, <1>2, <1>3, <1>4, Zenon DEF Switch, MarkFree, Inv, TypeOK

\* The invariant survives the exchange: buffers change places, none is lost
\* and none is shared.
LEMMA SwitchInv ==
    ASSUME Inv, NEW g \in AppTasks, Switch(g)
    PROVE  Inv'
<1> DEFINE p == pkt[g]
           q == tmp[g]
<1>1. /\ g \in Tasks /\ p \in Packets /\ q \in Packets /\ p # q
      /\ p \in Live /\ q \in Live
      /\ freeing[g] = None
      /\ isFree' \in [Packets -> BOOLEAN]
      /\ freeing' = freeing \/ freeing' = [freeing EXCEPT ![g] = q]
  BY SwitchGives
<1>2. /\ buffer' = [buffer EXCEPT ![p] = buffer[q], ![q] = buffer[p]]
      /\ tmp' = [tmp EXCEPT ![g] = None]
      /\ UNCHANGED <<freeList, pkt, last, dataReceiveChan>>
  BY DEF Switch, SwitchBuffers
<1>3. buffer' \in [Packets -> Buffers \cup {None}]
  BY <1>1, <1>2 DEF Inv, TypeOK
<1>4. TypeOK'
  BY <1>1, <1>2, <1>3 DEF Inv, TypeOK
<1>5. \A h \in Tasks, r \in Packets : Has(h, r)' => Has(h, r)
  BY <1>1, <1>2, PoolAssumption DEF Has, Inv, TypeOK, Packets
<1>6. Apart'
  <2>1. \A h \in Tasks, r \in Packets :
           /\ pkt'[h] = r => tmp'[h] # r /\ freeing'[h] # r
           /\ tmp'[h] = r => freeing'[h] # r
    BY <1>1, <1>2, PoolAssumption DEF Inv, Apart, TypeOK, Packets, Has
  <2> QED BY <1>1, <1>2, <1>5, <2>1 DEF Apart, Inv, Queued
<1>7. KindsKept'
  BY <1>1, <1>2, <1>5 DEF Inv, KindsKept, TypeOK
<1>8. Live' \subseteq Live
  BY <1>1, <1>2, <1>5 DEF Live, Pointed, Has
<1> HIDE DEF p, q
<1>9. BuffersApart'
  <2>1. Live \subseteq Packets
    BY DEF Live, Pointed, Inv, TypeOK, Kinds, Packets
  <2>2. \A r \in Live : buffer'[r] = IF r = p THEN buffer[q]
                                     ELSE IF r = q THEN buffer[p] ELSE buffer[r]
    BY <1>1, <1>2, <2>1 DEF Inv, TypeOK
  <2> QED BY <1>1, <1>8, <2>2 DEF BuffersApart, Inv
<1> QED BY <1>4, <1>6, <1>7, <1>9 DEF Inv

\* Every step keeps the invariant, if nobody frees a packet twice.
LEMMA NextInv ==
    ASSUME Inv, ~FreesAgain, [Next]_vars
    PROVE  Inv'
<1>1. ASSUME NEW g \in Tasks, NewPacket(g) PROVE Inv'
  <2>1. KindOf(g) \in Kinds BY DEF KindOf, Kinds
  <2> QED BY <1>1, <2>1, NewPacketInv, Zenon DEF NewPacket
<1>2. ASSUME NEW g \in Tasks, FreePacket(g) PROVE Inv'
  BY <1>2, FreePacketInv
<1>3. ASSUME NEW g \in Tasks, PutOnList(g) PROVE Inv'
  BY <1>3, PutOnListInv
<1>4. ASSUME NEW g \in DataReaders, Forward(g) PROVE Inv'
  BY <1>4, PassInv DEF Tasks
<1>5. ASSUME NEW g \in AppTasks, ReceiveData(g) PROVE Inv'
  BY <1>5, PassInv DEF Tasks
<1>6. ASSUME NEW g \in AppTasks, NewTmp(g) PROVE Inv'
  <2>1. g \in Tasks /\ KindOf(g) = "rtp" /\ "rtp" \in Kinds
    BY PoolAssumption DEF Tasks, KindOf, Kinds
  <2>2. PICK p \in PacketsOf("rtp") : Obtain("rtp", p) /\ tmp' = [tmp EXCEPT ![g] = p]
    BY <1>6, Zenon DEF NewTmp, PacketsOf
  <2> QED BY <1>6, <2>1, <2>2, NewPacketInv, Zenon DEF NewTmp
<1>7. ASSUME NEW g \in AppTasks, Switch(g) PROVE Inv'
  BY <1>7, SwitchInv
<1>8. ASSUME NEW g \in AppTasks \cup CtrlTasks, Forget(g) PROVE Inv'
  BY <1>8, PassInv DEF Tasks
<1>9. CASE UNCHANGED vars
  <2>1. TypeOK'
    BY <1>9 DEF vars, Inv, TypeOK
  <2>2. Apart'
    BY <1>9, Zenon DEF vars, Inv, Apart, Queued, Has
  <2>3. KindsKept'
    BY <1>9, Zenon DEF vars, Inv, KindsKept, Has
  <2>4. Live' = Live
    BY <1>9, Zenon DEF vars, Live, Pointed
  <2>5. BuffersApart'
    BY <1>9, <2>4, Zenon DEF vars, Inv, BuffersApart
  <2> QED BY <2>1, <2>2, <2>3, <2>5 DEF Inv
<1> QED BY <1>1, <1>2, <1>3, <1>4, <1>5, <1>6, <1>7, <1>8, <1>9 DEF Next

-----------------------------------------------------------------------------
(* The steps of the pool as steps of Ownership.                             *)

Users == Tasks \cup {Chan}

\* A step takes a resource from its users X to its users Y.
Legal(X, Y) ==
    \E h \in Users : \/ X = {} /\ Y = {h}
                     \/ X = {h} /\ Y = {}
                     \/ \E k \in Users : X = {h} /\ Y = {k}

MovesPacket(p, X, Y) ==
    /\ PacketHolders(p) = X /\ PacketHolders(p)' = Y
    /\ \A q \in Packets \ {p} : PacketHolders(q)' = PacketHolders(q)

MovesBuffer(b, X, Y) ==
    /\ BufferHolders(b) = X /\ BufferHolders(b)' = Y
    /\ \A c \in Buffers \ {b} : BufferHolders(c)' = BufferHolders(c)

\* A legal move of one packet is a step of Ownership.
LEMMA PacketStep ==
    ASSUME NEW p \in Packets, NEW X, NEW Y, Legal(X, Y), MovesPacket(p, X, Y)
    PROVE  PacketsOwned!Next
<1> DEFINE H == [q \in Packets |-> PacketHolders(q)]
<1>1. H[p] = X /\ H' = [H EXCEPT ![p] = Y]
  BY Zenon DEF MovesPacket
<1>2. \E h \in Users : \/ PacketsOwned!Acquire(p, h) \/ PacketsOwned!Release(p, h)
                       \/ \E k \in Users : PacketsOwned!Pass(p, h, k)
  BY <1>1, Zenon DEF Legal, PacketsOwned!Acquire, PacketsOwned!Release, PacketsOwned!Pass
<1> QED BY <1>2 DEF PacketsOwned!Next, Users

\* A legal move of one buffer is a step of Ownership.
LEMMA BufferStep ==
    ASSUME NEW b \in Buffers, NEW X, NEW Y, Legal(X, Y), MovesBuffer(b, X, Y)
    PROVE  BuffersOwned!Next
<1> DEFINE H == [c \in Buffers |-> BufferHolders(c)]
<1>1. H[b] = X /\ H' = [H EXCEPT ![b] = Y]
  BY Zenon DEF MovesBuffer
<1>2. \E h \in Users : \/ BuffersOwned!Acquire(b, h) \/ BuffersOwned!Release(b, h)
                       \/ \E k \in Users : BuffersOwned!Pass(b, h, k)
  BY <1>1, Zenon DEF Legal, BuffersOwned!Acquire, BuffersOwned!Release, BuffersOwned!Pass
<1> QED BY <1>2 DEF BuffersOwned!Next, Users

\* A packet with a user is referred to, so that the invariant protects its
\* buffer.
LEMMA HeldIsLive ==
    ASSUME Inv, NEW p \in Packets, PacketHolders(p) # {}
    PROVE  p \in Live
BY DEF PacketHolders, Live, Pointed

\* When a packet is moved and the packets in use keep their buffers, its
\* buffer makes the same move.
LEMMA BufferMoves ==
    ASSUME Inv, NEW p \in Packets, NEW b, NEW X, NEW Y, MovesPacket(p, X, Y),
           buffer'[p] = b, X # {} => buffer[p] = b,
           \A q \in Live \ {p} : buffer'[q] = buffer[q] /\ buffer[q] # b
    PROVE  MovesBuffer(b, X, Y)
<1>1. \A q \in Packets \ {p} : PacketHolders(q) # {} =>
         buffer'[q] = buffer[q] /\ buffer[q] # b
  BY HeldIsLive
<1>2. \A c, x : x \in BufferHolders(c) <=>
                \E q \in Packets : buffer[q] = c /\ x \in PacketHolders(q)
  BY DEF BufferHolders
<1>3. \A c, x : x \in BufferHolders(c)' <=>
                \E q \in Packets : buffer'[q] = c /\ x \in PacketHolders(q)'
  BY DEF BufferHolders
<1>4. BufferHolders(b) = X BY <1>1, <1>2 DEF MovesPacket
<1>5. BufferHolders(b)' = Y BY <1>1, <1>3 DEF MovesPacket
<1>6. ASSUME NEW c \in Buffers \ {b} PROVE BufferHolders(c)' = BufferHolders(c)
  <2>1. ASSUME NEW x \in BufferHolders(c) PROVE x \in BufferHolders(c)'
    <3>1. PICK q \in Packets : buffer[q] = c /\ x \in PacketHolders(q)
      BY <1>2
    <3>2. q # p BY <3>1 DEF MovesPacket
    <3> QED BY <1>1, <1>3, <3>1, <3>2 DEF MovesPacket
  <2>2. ASSUME NEW x \in BufferHolders(c)' PROVE x \in BufferHolders(c)
    <3>1. PICK q \in Packets : buffer'[q] = c /\ x \in PacketHolders(q)'
      BY <1>3
    <3>2. q # p BY <3>1
    <3> QED BY <1>1, <1>2, <3>1, <3>2 DEF MovesPacket
  <2> QED BY <2>1, <2>2, Zenon
<1> QED BY <1>4, <1>5, <1>6 DEF MovesBuffer

\* What a step of each action does to the users of packets and of buffers.
LEMMA ObtainMoves ==
    ASSUME Inv, NEW g \in Tasks, NEW k \in Kinds, NEW p \in PacketsOf(k),
           Obtain(k, p), UNCHANGED dataReceiveChan,
           \/ Idle(g) /\ pkt' = [pkt EXCEPT ![g] = p] /\ UNCHANGED tmp
           \/ Works(g) /\ tmp' = [tmp EXCEPT ![g] = p] /\ UNCHANGED pkt
    PROVE  PacketsOwned!Next /\ BuffersOwned!Next
<1>0. /\ p \in Packets /\ p \notin dataReceiveChan
      /\ \A h \in Tasks : pkt[h] # p /\ tmp[h] # p
      /\ buffer'[p] \in Buffers
      /\ \A q \in Live \ {p} : buffer'[q] = buffer[q] /\ buffer[q] # buffer'[p]
  BY ObtainGives DEF Has
<1>1. MovesPacket(p, {}, {g})
  <2>1. PacketHolders(p) = {} BY <1>0 DEF PacketHolders
  <2>2. \A h \in Tasks : (pkt'[h] = p \/ tmp'[h] = p) <=> h = g
    <3>1. pkt \in [Tasks -> Packets \cup {None}] /\ tmp \in [Tasks -> Packets \cup {None}]
      BY DEF Inv, TypeOK
    <3>2. CASE pkt' = [pkt EXCEPT ![g] = p] /\ UNCHANGED tmp
      BY <1>0, <3>1, <3>2
    <3>3. CASE tmp' = [tmp EXCEPT ![g] = p] /\ UNCHANGED pkt
      BY <1>0, <3>1, <3>3
    <3> QED BY <3>2, <3>3
  <2>3. PacketHolders(p)' = {g}
    <3>1. p \notin dataReceiveChan' BY <1>0
    <3>2. PacketHolders(p)' = {h \in Tasks : pkt'[h] = p \/ tmp'[h] = p}
      BY <3>1 DEF PacketHolders
    <3> QED BY <2>2, <3>2
  <2>4. \A h \in Tasks, q \in Packets \ {p} :
           (pkt'[h] = q \/ tmp'[h] = q) <=> (pkt[h] = q \/ tmp[h] = q)
    BY PoolAssumption DEF Inv, TypeOK, Idle, Works, Packets
  <2>5. \A q \in Packets \ {p} : PacketHolders(q)' = PacketHolders(q)
    BY <2>4 DEF PacketHolders
  <2> QED BY <2>1, <2>3, <2>5 DEF MovesPacket
<1>2. Legal({}, {g}) BY DEF Legal, Users
<1>3. PICK b \in Buffers : buffer'[p] = b BY <1>0
<1>4. MovesBuffer(b, {}, {g}) BY <1>0, <1>1, <1>3, BufferMoves, Zenon
<1>5. PacketsOwned!Next BY <1>0, <1>1, <1>2, PacketStep
<1>6. BuffersOwned!Next BY <1>2, <1>4, BufferStep
<1> QED BY <1>5, <1>6

\* FreePacket and Forget take a packet from its only user.
LEMMA ReleaseMoves ==
    ASSUME Inv, NEW g \in Tasks, FreePacket(g) \/ Forget(g)
    PROVE  PacketsOwned!Next /\ BuffersOwned!Next
<1>1. PICK p \in Packets : p = pkt[g]
  BY DEF FreePacket, Forget, Works, Inv, TypeOK
<1>2. /\ tmp[g] = None /\ pkt' = [pkt EXCEPT ![g] = None]
      /\ UNCHANGED <<tmp, buffer, dataReceiveChan>>
  BY DEF FreePacket, Forget, Works
<1>3. Has(g, p) /\ p \in Live
  BY <1>1 DEF Has, Live, Pointed
<1>4. MovesPacket(p, {g}, {})
  <2>1. \A h \in Tasks : pkt[h] = p \/ tmp[h] = p <=> h = g
    BY <1>1, <1>3 DEF Inv, Apart, Has
  <2>2. p \notin dataReceiveChan BY <1>3 DEF Inv, Apart, Queued
  <2>3. PacketHolders(p) = {g} BY <2>1, <2>2 DEF PacketHolders
  <2>4. \A h \in Tasks : pkt'[h] # p /\ tmp'[h] # p
    BY <1>1, <1>2, <2>1, PoolAssumption DEF Inv, TypeOK, Packets
  <2>5. PacketHolders(p)' = {} BY <1>2, <2>2, <2>4 DEF PacketHolders
  <2>6. \A h \in Tasks, q \in Packets \ {p} :
           (pkt'[h] = q \/ tmp'[h] = q) <=> (pkt[h] = q \/ tmp[h] = q)
    BY <1>1, <1>2, PoolAssumption DEF Inv, TypeOK, Packets
  <2>7. \A q \in Packets \ {p} : PacketHolders(q)' = PacketHolders(q)
    BY <1>2, <2>6 DEF PacketHolders
  <2> QED BY <2>3, <2>5, <2>7 DEF MovesPacket
<1>5. Legal({g}, {}) BY DEF Legal, Users
<1>6. PICK b \in Buffers : buffer[p] = b BY <1>3 DEF Inv, BuffersApart
<1>7. MovesBuffer(b, {g}, {})
  BY <1>2, <1>3, <1>4, <1>6, BufferMoves DEF Inv, BuffersApart
<1> QED BY <1>4, <1>5, <1>7, PacketStep, BufferStep

\* Forward and ReceiveData pass a packet to the channel and on from there.
LEMMA ChannelMoves ==
    ASSUME Inv, NEW g \in Tasks, Forward(g) \/ ReceiveData(g)
    PROVE  PacketsOwned!Next /\ BuffersOwned!Next
<1>1. PICK p \in Packets :
        /\ \/ /\ p = pkt[g] /\ pkt' = [pkt EXCEPT ![g] = None]
              /\ dataReceiveChan' = dataReceiveChan \cup {p}
           \/ /\ pkt[g] = None /\ pkt' = [pkt EXCEPT ![g] = p]
              /\ p \in dataReceiveChan
              /\ dataReceiveChan' = dataReceiveChan \ {p}
        /\ tmp[g] = None /\ UNCHANGED <<tmp, buffer>>
  BY DEF Forward, ReceiveData, Works, Idle, Inv, TypeOK, Packets
<1>2. p \in Live BY <1>1 DEF Live, Pointed
<1>3. \A q \in Packets \ {p} : PacketHolders(q)' = PacketHolders(q)
  <2>1. \A h \in Tasks, q \in Packets \ {p} :
           (pkt'[h] = q \/ tmp'[h] = q) <=> (pkt[h] = q \/ tmp[h] = q)
    BY <1>1, PoolAssumption DEF Inv, TypeOK, Packets
  <2>2. \A q \in Packets \ {p} : q \in dataReceiveChan' <=> q \in dataReceiveChan
    BY <1>1
  <2> QED BY <2>1, <2>2 DEF PacketHolders
<1>4. Legal({g}, {Chan}) /\ Legal({Chan}, {g}) BY DEF Legal, Users
<1>5. PICK b \in Buffers : buffer[p] = b BY <1>2 DEF Inv, BuffersApart
<1>6. \A q \in Live \ {p} : buffer'[q] = buffer[q] /\ buffer[q] # b
  BY <1>1, <1>2, <1>5 DEF Inv, BuffersApart
<1>7. CASE p = pkt[g]
  <2>1. Has(g, p) BY <1>7 DEF Has
  <2>2. p \notin dataReceiveChan BY <2>1 DEF Inv, Apart, Queued
  <2>3. \A h \in Tasks : pkt[h] = p \/ tmp[h] = p <=> h = g
    BY <1>7, <2>1 DEF Inv, Apart, Has
  <2>4. PacketHolders(p) = {g} BY <2>2, <2>3 DEF PacketHolders
  <2>5. \A h \in Tasks : pkt'[h] # p /\ tmp'[h] # p
    BY <1>1, <1>7, <2>2, <2>3, PoolAssumption DEF Inv, TypeOK, Packets
  <2>6. PacketHolders(p)' = {Chan} BY <1>1, <2>2, <2>5 DEF PacketHolders
  <2>7. MovesPacket(p, {g}, {Chan}) BY <1>3, <2>4, <2>6 DEF MovesPacket
  <2>8. MovesBuffer(b, {g}, {Chan}) BY <1>1, <1>5, <1>6, <2>7, BufferMoves
  <2> QED BY <1>4, <2>7, <2>8, PacketStep, BufferStep
<1>8. CASE p \in dataReceiveChan
  <2>1. \A h \in Tasks : pkt[h] # p /\ tmp[h] # p
    BY <1>8 DEF Inv, Apart, Has, Queued
  <2>2. PacketHolders(p) = {Chan} BY <1>8, <2>1 DEF PacketHolders
  <2>3. \A h \in Tasks : pkt'[h] = p \/ tmp'[h] = p <=> h = g
    BY <1>1, <2>1 DEF Inv, TypeOK
  <2>4. p \notin dataReceiveChan' BY <1>1, <2>1
  <2>5. PacketHolders(p)' = {g} BY <2>3, <2>4 DEF PacketHolders
  <2>6. MovesPacket(p, {Chan}, {g}) BY <1>3, <2>2, <2>5 DEF MovesPacket
  <2>7. MovesBuffer(b, {Chan}, {g}) BY <1>1, <1>5, <1>6, <2>6, BufferMoves
  <2> QED BY <1>4, <2>6, <2>7, PacketStep, BufferStep
<1> QED BY <1>1, <1>7, <1>8

\* The exchange of buffers gives back the temporary packet, and with it the
\* former buffer of the packet that was changed.
LEMMA SwitchMoves ==
    ASSUME Inv, NEW g \in AppTasks, Switch(g)
    PROVE  PacketsOwned!Next /\ BuffersOwned!Next
<1>1. g \in Tasks BY DEF Tasks
<1>2. PICK p \in Packets, q \in Packets : p = pkt[g] /\ q = tmp[g]
  BY SwitchGives
<1>3. /\ p # q /\ p \in Live /\ q \in Live
      /\ buffer' = [buffer EXCEPT ![p] = buffer[q], ![q] = buffer[p]]
      /\ tmp' = [tmp EXCEPT ![g] = None]
      /\ UNCHANGED <<pkt, dataReceiveChan>>
  BY <1>2, SwitchGives, Zenon DEF Switch, SwitchBuffers
<1>4. Has(g, p) /\ Has(g, q) BY <1>2 DEF Has
<1>5. PacketHolders(p) = {g} /\ PacketHolders(q) = {g}
  <2>1. \A h \in Tasks : (Has(h, p) => h = g) /\ (Has(h, q) => h = g)
    BY <1>1, <1>4 DEF Inv, Apart
  <2>2. p \notin dataReceiveChan /\ q \notin dataReceiveChan
    BY <1>1, <1>4 DEF Inv, Apart, Queued
  <2> QED BY <1>1, <1>2, <2>1, <2>2 DEF PacketHolders, Has
<1>6. PacketHolders(q)' = {}
  <2>1. \A h \in Tasks : (Has(h, q) => h = g)
    BY <1>1, <1>4 DEF Inv, Apart
  <2>2. \A h \in Tasks : pkt'[h] # q /\ tmp'[h] # q
    BY <1>1, <1>2, <1>3, <2>1, PoolAssumption DEF Has, Inv, TypeOK, Packets
  <2>3. q \notin dataReceiveChan' BY <1>1, <1>3, <1>4 DEF Inv, Apart, Queued
  <2> QED BY <2>2, <2>3 DEF PacketHolders
<1>7. \A r \in Packets \ {q} : PacketHolders(r)' = PacketHolders(r)
  <2>1. \A h \in Tasks, r \in Packets \ {q} :
           (pkt'[h] = r \/ tmp'[h] = r) <=> (pkt[h] = r \/ tmp[h] = r)
    BY <1>1, <1>2, <1>3, PoolAssumption DEF Inv, TypeOK, Packets
  <2> QED BY <1>3, <2>1 DEF PacketHolders
<1>8. Legal({g}, {}) BY <1>1 DEF Legal, Users
<1>9. PacketsOwned!Next
  BY <1>5, <1>6, <1>7, <1>8, PacketStep DEF MovesPacket
<1>10. PICK b \in Buffers, c \in Buffers : b = buffer[p] /\ c = buffer[q]
  BY <1>3 DEF Inv, BuffersApart
<1>11. b # c BY <1>3, <1>10 DEF Inv, BuffersApart
<1>12. /\ buffer'[p] = c /\ buffer'[q] = b
       /\ \A r \in Packets \ {p, q} : buffer'[r] = buffer[r]
  BY <1>3, <1>10 DEF Inv, TypeOK
<1>13. \A r \in Packets \ {p, q} :
          PacketHolders(r) # {} => buffer[r] # b /\ buffer[r] # c
  BY <1>3, <1>10, HeldIsLive DEF Inv, BuffersApart
<1>14. \A d, x : x \in BufferHolders(d) <=>
                 \E r \in Packets : buffer[r] = d /\ x \in PacketHolders(r)
  BY DEF BufferHolders
<1>15. \A d, x : x \in BufferHolders(d)' <=>
                 \E r \in Packets : buffer'[r] = d /\ x \in PacketHolders(r)'
  BY DEF BufferHolders
<1>16. BufferHolders(b) = {g} /\ BufferHolders(c) = {g}
  BY <1>5, <1>10, <1>11, <1>13, <1>14
<1>17. BufferHolders(b)' = {}
  BY <1>6, <1>7, <1>11, <1>12, <1>13, <1>15
<1>18. BufferHolders(c)' = {g}
  <2>1. PacketHolders(p)' = {g} BY <1>3, <1>5, <1>7
  <2>2. g \in BufferHolders(c)' BY <1>12, <1>15, <2>1
  <2>3. ASSUME NEW x \in BufferHolders(c)' PROVE x = g
    <3>1. PICK r \in Packets : buffer'[r] = c /\ x \in PacketHolders(r)'
      BY <1>15
    <3>2. r # q BY <1>6, <3>1
    <3>3. r = p BY <1>7, <1>12, <1>13, <3>1, <3>2
    <3> QED BY <2>1, <3>1, <3>3
  <2> QED BY <2>2, <2>3
<1>19. ASSUME NEW d \in Buffers \ {b, c} PROVE BufferHolders(d)' = BufferHolders(d)
  <2>1. \A r \in Packets : buffer'[r] = d <=> buffer[r] = d
    BY <1>10, <1>12
  <2>2. \A r \in Packets : buffer[r] = d => r # q
    BY <1>10
  <2>3. ASSUME NEW x \in BufferHolders(d) PROVE x \in BufferHolders(d)'
    <3>1. PICK r \in Packets : buffer[r] = d /\ x \in PacketHolders(r)
      BY <1>14
    <3>2. buffer'[r] = d /\ x \in PacketHolders(r)' BY <1>7, <2>1, <2>2, <3>1
    <3> QED BY <1>15, <3>2
  <2>4. ASSUME NEW x \in BufferHolders(d)' PROVE x \in BufferHolders(d)
    <3>1. PICK r \in Packets : buffer'[r] = d /\ x \in PacketHolders(r)'
      BY <1>15
    <3>2. buffer[r] = d /\ x \in PacketHolders(r) BY <1>7, <2>1, <2>2, <3>1
    <3> QED BY <1>14, <3>2
  <2> QED BY <2>3, <2>4
<1>20. MovesBuffer(b, {g}, {})
  BY <1>16, <1>17, <1>18, <1>19 DEF MovesBuffer
<1> QED BY <1>8, <1>9, <1>20, BufferStep

\* Every step of the program is a step of Ownership or changes no user.
LEMMA NextMoves ==
    ASSUME Inv, [Next]_vars
    PROVE  /\ PacketsOwned!Next \/ UNCHANGED [p \in Packets |-> PacketHolders(p)]
           /\ BuffersOwned!Next \/ UNCHANGED [b \in Buffers |-> BufferHolders(b)]
<1> DEFINE Goal ==
      /\ PacketsOwned!Next \/ UNCHANGED [p \in Packets |-> PacketHolders(p)]
      /\ BuffersOwned!Next \/ UNCHANGED [b \in Buffers |-> BufferHolders(b)]
<1>1. ASSUME NEW g \in Tasks, NewPacket(g) PROVE Goal
  <2>1. KindOf(g) \in Kinds BY DEF KindOf, Kinds
  <2> QED BY <1>1, <2>1, ObtainMoves, Zenon DEF NewPacket
<1>2. ASSUME NEW g \in Tasks, FreePacket(g) PROVE Goal
  BY <1>2, ReleaseMoves
<1>3. ASSUME UNCHANGED <<buffer, pkt, tmp, dataReceiveChan>> PROVE Goal
  <2>1. \A p : PacketHolders(p)' = PacketHolders(p) BY <1>3 DEF PacketHolders
  <2>2. \A b : BufferHolders(b)' = BufferHolders(b)
    BY <1>3, <2>1 DEF BufferHolders
  <2> QED BY <2>1, <2>2
<1>4. ASSUME NEW g \in Tasks, PutOnList(g) PROVE Goal
  BY <1>3, <1>4 DEF PutOnList
<1>5. ASSUME NEW g \in Tasks, Forward(g) \/ ReceiveData(g) PROVE Goal
  BY <1>5, ChannelMoves
<1>6. ASSUME NEW g \in AppTasks, NewTmp(g) PROVE Goal
  <2>1. g \in Tasks /\ "rtp" \in Kinds BY DEF Tasks, Kinds
  <2>2. PICK p \in PacketsOf("rtp") : Obtain("rtp", p) /\ tmp' = [tmp EXCEPT ![g] = p]
    BY <1>6, Zenon DEF NewTmp, PacketsOf
  <2> QED BY <1>6, <2>1, <2>2, ObtainMoves, Zenon DEF NewTmp
<1>7. ASSUME NEW g \in AppTasks, Switch(g) PROVE Goal
  BY <1>7, SwitchMoves
<1>8. ASSUME NEW g \in Tasks, Forget(g) PROVE Goal
  BY <1>8, ReleaseMoves
<1>9. ASSUME UNCHANGED vars PROVE Goal BY <1>3, <1>9 DEF vars
<1> HIDE DEF Goal
<1>10. DataReaders \subseteq Tasks /\ AppTasks \subseteq Tasks /\ CtrlTasks \subseteq Tasks
  BY DEF Tasks
<1>11. ASSUME Next PROVE Goal
  BY <1>1, <1>2, <1>4, <1>5, <1>6, <1>7, <1>8, <1>10, <1>11 DEF Next
<1> QED BY <1>9, <1>11 DEF Goal

\* At the start nobody has a packet or a buffer.
LEMMA InitMoves == Init => PacketsOwned!Init /\ BuffersOwned!Init
<1> SUFFICES ASSUME Init PROVE PacketsOwned!Init /\ BuffersOwned!Init OBVIOUS
<1>1. \A p \in Packets : PacketHolders(p) = {}
  BY PoolAssumption DEF Init, PacketHolders, Packets
<1>2. \A b \in Buffers : BufferHolders(b) = {} BY <1>1 DEF BufferHolders
<1> QED BY <1>1, <1>2 DEF PacketsOwned!Init, BuffersOwned!Init

-----------------------------------------------------------------------------
\* The places of packets and buffers are always apart.
THEOREM PoolInvariant == ~FreesAgain => (Spec => []Inv)
<1> SUFFICES ASSUME ~FreesAgain PROVE Spec => []Inv OBVIOUS
<1>1. Init => Inv BY InitInv
<1>2. Inv /\ [Next]_vars => Inv' BY NextInv
<1> QED BY <1>1, <1>2, PTL DEF Spec

\* newDataPacket, newCtrlPacket, the channel and FreePacket implement the
\* promise that a packet has one user at a time.
THEOREM PacketRefinement == ~FreesAgain => (Spec => PacketsAreOwned)
<1> SUFFICES ASSUME ~FreesAgain PROVE Spec => PacketsAreOwned OBVIOUS
<1>1. Spec => []Inv BY PoolInvariant
<1>2. Init => PacketsOwned!Init BY InitMoves
<1>3. Inv /\ [Next]_vars =>
        [PacketsOwned!Next]_([p \in Packets |-> PacketHolders(p)])
  BY NextMoves
<1> QED BY <1>1, <1>2, <1>3, PTL DEF Spec, PacketsAreOwned, PacketsOwned!Spec

\* SetCsrcList and SetExtension exchange the buffers of packets, and still
\* every buffer has one user at a time.
THEOREM BufferRefinement == ~FreesAgain => (Spec => BuffersAreOwned)
<1> SUFFICES ASSUME ~FreesAgain PROVE Spec => BuffersAreOwned OBVIOUS
<1>1. Spec => []Inv BY PoolInvariant
<1>2. Init => BuffersOwned!Init BY InitMoves
<1>3. Inv /\ [Next]_vars =>
        [BuffersOwned!Next]_([b \in Buffers |-> BufferHolders(b)])
  BY NextMoves
<1> QED BY <1>1, <1>2, <1>3, PTL DEF Spec, BuffersAreOwned, BuffersOwned!Spec

-----------------------------------------------------------------------------
Unmarked == InUseNotMarked /\ \A p \in dataReceiveChan : ~isFree[p]

\* A step marks only a packet that leaves its user's hands, and what comes
\* into somebody's hands is not marked.
LEMMA NextUnmarked ==
    ASSUME Inv, Unmarked, [Next]_vars
    PROVE  Unmarked'
<1>1. ASSUME NEW g \in Tasks, NEW k \in Kinds, NEW p \in PacketsOf(k),
             Obtain(k, p), UNCHANGED dataReceiveChan,
             \/ Idle(g) /\ pkt' = [pkt EXCEPT ![g] = p] /\ UNCHANGED tmp
             \/ Works(g) /\ tmp' = [tmp EXCEPT ![g] = p] /\ UNCHANGED pkt
      PROVE  Unmarked'
  <2>1. \A q \in DataPackets : isFree'[q] => isFree[q] /\ q # p
    BY <1>1, PoolAssumption, Zenon DEF Obtain, FromList, FromHeap, PacketsOf, Packets, Inv, TypeOK
  <2>2. \A h \in Tasks, q \in DataPackets :
           q \in {pkt'[h], tmp'[h]} => q \in {pkt[h], tmp[h]} \/ q = p
    BY <1>1 DEF Inv, TypeOK
  <2> QED BY <1>1, <2>1, <2>2, Zenon DEF Unmarked, InUseNotMarked, Inv, TypeOK
<1>2. ASSUME NEW g \in Tasks, NEW p \in Packets, Has(g, p), MarkFree(g, p),
             UNCHANGED dataReceiveChan,
             \A h \in Tasks, q \in Packets : q \in {pkt'[h], tmp'[h]} =>
                q \in {pkt[h], tmp[h]} /\ (h = g => q # p)
      PROVE  Unmarked'
  <2>1. \A q \in Packets : isFree'[q] => isFree[q] \/ q = p
    BY <1>2 DEF MarkFree, Inv, TypeOK
  <2>2. p \notin dataReceiveChan
    BY <1>2 DEF Inv, Apart, Queued
  <2>3. \A h \in Tasks : p \notin {pkt'[h], tmp'[h]}
    BY <1>2 DEF Inv, Apart, Has
  <2> QED BY <1>2, <2>1, <2>2, <2>3 DEF Unmarked, InUseNotMarked, Inv, TypeOK, Packets
<1>3. ASSUME UNCHANGED isFree,
             \A h \in Tasks, q \in DataPackets : q \in {pkt'[h], tmp'[h]} =>
                q \in {pkt[h], tmp[h]} \/ q \in dataReceiveChan,
             \A q \in dataReceiveChan' : q \in dataReceiveChan \/
                \E h \in Tasks : q \in DataPackets /\ q = pkt[h]
      PROVE  Unmarked'
  BY <1>3 DEF Unmarked, InUseNotMarked
<1>4. ASSUME NEW g \in Tasks, NewPacket(g) PROVE Unmarked'
  <2>1. KindOf(g) \in Kinds BY DEF KindOf, Kinds
  <2> QED BY <1>1, <1>4, <2>1, Zenon DEF NewPacket
<1>5. ASSUME NEW g \in AppTasks, NewTmp(g) PROVE Unmarked'
  <2>1. g \in Tasks /\ "rtp" \in Kinds BY DEF Tasks, Kinds
  <2>2. PICK p \in PacketsOf("rtp") : Obtain("rtp", p) /\ tmp' = [tmp EXCEPT ![g] = p]
    BY <1>5, Zenon DEF NewTmp, PacketsOf
  <2> QED BY <1>1, <1>5, <2>1, <2>2, Zenon DEF NewTmp
<1>6. ASSUME NEW g \in Tasks, FreePacket(g) PROVE Unmarked'
  <2>1. PICK p \in Packets : p = pkt[g]
    BY <1>6 DEF FreePacket, Works, Inv, TypeOK
  <2>2. Has(g, p) BY <2>1 DEF Has
  <2>3. \A h \in Tasks, q \in Packets : q \in {pkt'[h], tmp'[h]} =>
                q \in {pkt[h], tmp[h]} /\ (h = g => q # p)
    BY <1>6, <2>1, PoolAssumption DEF FreePacket, Works, Inv, TypeOK, Packets
  <2> QED BY <1>2, <1>6, <2>1, <2>2, <2>3 DEF FreePacket
<1>7. ASSUME NEW g \in AppTasks, Switch(g) PROVE Unmarked'
  <2>1. g \in Tasks BY DEF Tasks
  <2>2. PICK p \in Packets : p = tmp[g] BY <1>7, SwitchGives
  <2>3. Has(g, p) BY <2>2 DEF Has
  <2>4. \A h \in Tasks, q \in Packets : q \in {pkt'[h], tmp'[h]} =>
                q \in {pkt[h], tmp[h]} /\ (h = g => q # p)
    BY <1>7, <2>1, <2>2, PoolAssumption, SwitchGives, Zenon
       DEF Switch, Inv, TypeOK, Packets
  <2> QED BY <1>2, <1>7, <2>1, <2>2, <2>3, <2>4 DEF Switch
<1>8. ASSUME NEW g \in Tasks, PutOnList(g) PROVE Unmarked'
  BY <1>3, <1>8, Zenon DEF PutOnList
<1>9. ASSUME NEW g \in DataReaders, Forward(g) PROVE Unmarked'
  <2>1. g \in Tasks BY DEF Tasks
  <2>2. pkt[g] \in Packets BY <1>9, <2>1 DEF Forward, Works, Inv, TypeOK
  <2>3. Has(g, pkt[g]) BY DEF Has
  <2>4. pkt[g] \in DataPackets
    BY <2>1, <2>2, <2>3, PoolAssumption DEF Inv, KindsKept, KindOf, PacketsOf
  <2>5. \A h \in Tasks, q \in DataPackets : q \in {pkt'[h], tmp'[h]} =>
                q \in {pkt[h], tmp[h]}
    BY <1>9, <2>1, PoolAssumption DEF Forward, Inv, TypeOK, Packets
  <2> QED BY <1>3, <1>9, <2>1, <2>4, <2>5 DEF Forward
<1>10. ASSUME NEW g \in AppTasks, ReceiveData(g) PROVE Unmarked'
  <2>1. \A h \in Tasks, q \in DataPackets : q \in {pkt'[h], tmp'[h]} =>
                q \in {pkt[h], tmp[h]} \/ q \in dataReceiveChan
    BY <1>10 DEF ReceiveData, Inv, TypeOK
  <2> QED BY <1>3, <1>10, <2>1 DEF ReceiveData
<1>11. ASSUME NEW g \in Tasks, Forget(g) PROVE Unmarked'
  <2>1. \A h \in Tasks, q \in DataPackets : q \in {pkt'[h], tmp'[h]} =>
                q \in {pkt[h], tmp[h]}
    BY <1>11, PoolAssumption DEF Forget, Inv, TypeOK, Packets
  <2> QED BY <1>3, <1>11, <2>1 DEF Forget
<1>12. ASSUME UNCHANGED vars PROVE Unmarked'
  BY <1>12 DEF vars, Unmarked, InUseNotMarked
<1>13. AppTasks \subseteq Tasks /\ CtrlTasks \subseteq Tasks
  BY DEF Tasks
<1>14. ASSUME Next PROVE Unmarked'
  BY <1>4, <1>5, <1>6, <1>7, <1>8, <1>9, <1>10, <1>11, <1>13, <1>14 DEF Next
<1> QED BY <1>12, <1>14

\* A data packet somebody works with is not marked as free, so that its
\* FreePacket is effective.
THEOREM UnmarkedInUse == ~FreesAgain => (Spec => []InUseNotMarked)
<1> SUFFICES ASSUME ~FreesAgain PROVE Spec => []InUseNotMarked OBVIOUS
<1>1. Spec => []Inv BY PoolInvariant
<1>2. Init => Unmarked
  BY PoolAssumption DEF Init, Unmarked, InUseNotMarked, Packets
<1>3. Inv /\ Unmarked /\ [Next]_vars => Unmarked' BY NextUnmarked
<1>4. Unmarked => InUseNotMarked BY DEF Unmarked
<1> QED BY <1>1, <1>2, <1>3, <1>4, PTL DEF Spec

-----------------------------------------------------------------------------
\* Whoever frees packets and however often, a packet stays among its kind.
Sorted ==
    /\ TypeOK
    /\ KindsKept
    /\ \A g \in AppTasks : last[g] \in DataPackets \cup {None}

\* A new packet is one of the kind that was asked for.
LEMMA ObtainSorted ==
    ASSUME TypeOK, NEW k \in Kinds, NEW p \in PacketsOf(k), Obtain(k, p)
    PROVE  /\ p \in Packets
           /\ freeList' \in [Kinds -> SUBSET Packets]
           /\ \A j \in Kinds : freeList'[j] \subseteq PacketsOf(j)
           /\ isFree' \in [Packets -> BOOLEAN]
           /\ buffer' \in [Packets -> Buffers \cup {None}]
<1>1. p \in Packets BY DEF PacketsOf, Packets
<1>2. freeList' \in [Kinds -> SUBSET Packets]
  BY DEF Obtain, FromList, FromHeap, TypeOK
<1>3. \A j \in Kinds : freeList'[j] \subseteq PacketsOf(j)
  BY DEF Obtain, FromList, FromHeap, TypeOK
<1>4. isFree' \in [Packets -> BOOLEAN]
  BY <1>1, Zenon DEF Obtain, FromList, FromHeap, TypeOK
<1>5. buffer' \in [Packets -> Buffers \cup {None}]
  BY <1>1 DEF Obtain, FromList, FromHeap, TypeOK, UnusedBuffers
<1> QED BY <1>1, <1>2, <1>3, <1>4, <1>5

\* FreePacket marks the packet it was given, or leaves it alone.
LEMMA MarkSorted ==
    ASSUME TypeOK, NEW g \in Tasks, NEW p \in Packets, MarkFree(g, p)
    PROVE  /\ isFree' \in [Packets -> BOOLEAN]
           /\ freeing' \in [Tasks -> Packets \cup {None}]
           /\ \A h \in Tasks : freeing'[h] = freeing[h] \/ (h = g /\ freeing'[h] = p)
<1>1. isFree' \in [Packets -> BOOLEAN]
  BY Zenon DEF MarkFree, TypeOK
<1>2. freeing' = freeing \/ freeing' = [freeing EXCEPT ![g] = p] BY DEF MarkFree
<1>3. freeing \in [Tasks -> Packets \cup {None}] BY DEF TypeOK
<1>4. freeing' \in [Tasks -> Packets \cup {None}] BY <1>2, <1>3, Zenon
<1>5. \A h \in Tasks : freeing'[h] = freeing[h] \/ (h = g /\ freeing'[h] = p)
  BY <1>2, <1>3
<1> QED BY <1>1, <1>4, <1>5

\* Steps that hand a packet on.
LEMMA HandSorted ==
    ASSUME Sorted,
           UNCHANGED <<freeList, isFree, buffer, tmp, freeing, last>>,
           pkt' \in [Tasks -> Packets \cup {None}],
           dataReceiveChan' \subseteq DataPackets,
           \A h \in Tasks :
              /\ pkt'[h] \in {pkt[h], None} \cup PacketsOf(KindOf(h))
              /\ tmp[h] # None => pkt'[h] # None
    PROVE  Sorted'
<1>1. TypeOK' BY DEF Sorted, TypeOK
<1>2. KindsKept' BY PoolAssumption DEF Sorted, KindsKept, Has
<1> QED BY <1>1, <1>2 DEF Sorted

\* Steps that free a packet.
LEMMA FreeSorted ==
    ASSUME Sorted, NEW g \in Tasks, NEW p \in PacketsOf(KindOf(g)), MarkFree(g, p),
           UNCHANGED <<freeList, dataReceiveChan>>,
           buffer' \in [Packets -> Buffers \cup {None}],
           pkt' \in [Tasks -> Packets \cup {None}],
           tmp' \in [Tasks -> Packets \cup {None}],
           last' \in [AppTasks -> DataPackets \cup {None}],
           \A h \in Tasks : /\ pkt'[h] \in {pkt[h], None}
                            /\ tmp'[h] \in {tmp[h], None}
                            /\ tmp'[h] # None => pkt'[h] # None
    PROVE  Sorted'
<1>1. p \in Packets BY DEF PacketsOf, Packets
<1>2. /\ isFree' \in [Packets -> BOOLEAN]
      /\ freeing' \in [Tasks -> Packets \cup {None}]
      /\ \A h \in Tasks : freeing'[h] = freeing[h] \/ (h = g /\ freeing'[h] = p)
  BY <1>1, MarkSorted DEF Sorted
<1>3. last' \in [AppTasks -> Packets \cup {None}]
  BY DEF Packets
<1>4. TypeOK' BY <1>2, <1>3 DEF Sorted, TypeOK
<1>5. KindsKept' BY <1>2, PoolAssumption DEF Sorted, KindsKept, Has
<1> QED BY <1>4, <1>5 DEF Sorted

\* Every step keeps the kinds apart, the repeated call of FreePacket too.
LEMMA NextSorted ==
    ASSUME Sorted, [Next \/ \E g \in AppTasks : FreePacketAgain(g)]_vars
    PROVE  Sorted'
<1>1. AppTasks \subseteq Tasks /\ CtrlTasks \subseteq Tasks /\ DataReaders \subseteq Tasks
  BY DEF Tasks
<1>2. \A g \in AppTasks \cup DataReaders : KindOf(g) = "rtp"
  BY PoolAssumption DEF KindOf
<1>3. PacketsOf("rtp") = DataPackets /\ "rtp" \in Kinds
  BY DEF PacketsOf, Kinds
<1>4. \A g \in Tasks : Works(g) => pkt[g] \in PacketsOf(KindOf(g))
  BY DEF Works, Sorted, TypeOK, KindsKept, Has
<1>5. ASSUME NEW g \in Tasks, NewPacket(g) PROVE Sorted'
  <2>1. KindOf(g) \in Kinds BY DEF KindOf, Kinds
  <2>2. PICK p \in PacketsOf(KindOf(g)) :
           Obtain(KindOf(g), p) /\ pkt' = [pkt EXCEPT ![g] = p]
    BY <1>5, Zenon DEF NewPacket
  <2>3. /\ p \in Packets
        /\ freeList' \in [Kinds -> SUBSET Packets]
        /\ \A j \in Kinds : freeList'[j] \subseteq PacketsOf(j)
        /\ isFree' \in [Packets -> BOOLEAN]
        /\ buffer' \in [Packets -> Buffers \cup {None}]
    BY <2>1, <2>2, ObtainSorted DEF Sorted
  <2>4. TypeOK' BY <1>5, <2>2, <2>3 DEF NewPacket, Sorted, TypeOK
  <2>5. KindsKept'
    BY <1>5, <2>2, <2>3, PoolAssumption DEF NewPacket, Sorted, TypeOK, KindsKept, Has
  <2> QED BY <1>5, <2>4, <2>5 DEF NewPacket, Sorted
<1>6. ASSUME NEW g \in AppTasks, NewTmp(g) PROVE Sorted'
  <2>1. PICK p \in PacketsOf("rtp") : Obtain("rtp", p) /\ tmp' = [tmp EXCEPT ![g] = p]
    BY <1>3, <1>6, Zenon DEF NewTmp
  <2>2. /\ p \in Packets
        /\ freeList' \in [Kinds -> SUBSET Packets]
        /\ \A j \in Kinds : freeList'[j] \subseteq PacketsOf(j)
        /\ isFree' \in [Packets -> BOOLEAN]
        /\ buffer' \in [Packets -> Buffers \cup {None}]
    BY <1>3, <2>1, ObtainSorted DEF Sorted
  <2>3. g \in Tasks /\ KindOf(g) = "rtp" /\ pkt[g] # None
    BY <1>1, <1>2, <1>6 DEF NewTmp, Works
  <2>4. TypeOK' BY <1>6, <2>1, <2>2, <2>3 DEF NewTmp, Sorted, TypeOK
  <2>5. KindsKept'
    BY <1>6, <2>1, <2>2, <2>3, PoolAssumption
       DEF NewTmp, Sorted, TypeOK, KindsKept, Has
  <2> QED BY <1>6, <2>4, <2>5 DEF NewTmp, Sorted
<1>7. ASSUME NEW g \in Tasks, FreePacket(g) PROVE Sorted'
  <2>1. pkt[g] \in PacketsOf(KindOf(g)) BY <1>4, <1>7 DEF FreePacket
  <2>2. last' \in [AppTasks -> DataPackets \cup {None}]
    <3>1. last \in [AppTasks -> DataPackets \cup {None}] BY DEF Sorted, TypeOK
    <3>2. g \in AppTasks => pkt[g] \in DataPackets BY <1>2, <1>3, <2>1
    <3> QED BY <1>7, <3>1, <3>2 DEF FreePacket
  <2>3. pkt' \in [Tasks -> Packets \cup {None}]
    BY <1>7 DEF FreePacket, Sorted, TypeOK
  <2>4. \A h \in Tasks : pkt'[h] \in {pkt[h], None} /\ (tmp[h] # None => pkt'[h] # None)
    BY <1>7 DEF FreePacket, Works, Sorted, TypeOK, KindsKept
  <2> QED BY <1>7, <2>1, <2>2, <2>3, <2>4, FreeSorted DEF FreePacket, Sorted, TypeOK
<1>8. ASSUME NEW g \in AppTasks, FreePacketAgain(g) PROVE Sorted'
  <2>1. g \in Tasks /\ last[g] \in PacketsOf(KindOf(g))
    BY <1>1, <1>2, <1>3, <1>8 DEF FreePacketAgain, Sorted
  <2>2. last' \in [AppTasks -> DataPackets \cup {None}]
    BY <1>8 DEF FreePacketAgain, Sorted, TypeOK
  <2> QED BY <1>8, <2>1, <2>2, FreeSorted
             DEF FreePacketAgain, Sorted, TypeOK, KindsKept
<1>9. ASSUME NEW g \in AppTasks, Switch(g) PROVE Sorted'
  <2>1. g \in Tasks /\ tmp[g] \in Packets /\ pkt[g] \in Packets
    BY <1>1, <1>9 DEF Switch, Sorted, TypeOK, KindsKept
  <2>2. tmp[g] \in PacketsOf(KindOf(g)) BY <2>1 DEF Sorted, KindsKept, Has
  <2>3. buffer' \in [Packets -> Buffers \cup {None}]
    BY <1>9, <2>1 DEF Switch, SwitchBuffers, Sorted, TypeOK
  <2>4. /\ tmp' \in [Tasks -> Packets \cup {None}]
        /\ \A h \in Tasks : tmp'[h] \in {tmp[h], None} /\ (tmp'[h] # None => pkt[h] # None)
    BY <1>9, Zenon DEF Switch, Sorted, TypeOK, KindsKept
  <2>5. last' \in [AppTasks -> DataPackets \cup {None}]
    BY <1>9 DEF Switch, Sorted, TypeOK
  <2> QED BY <1>9, <2>1, <2>2, <2>3, <2>4, <2>5, FreeSorted DEF Switch, Sorted, TypeOK
<1>10. ASSUME NEW g \in Tasks, PutOnList(g) PROVE Sorted'
  <2>1. freeing[g] \in Packets BY <1>10 DEF PutOnList, Sorted, TypeOK
  <2>2. /\ freeList' \in [Kinds -> SUBSET Packets]
        /\ \A k \in Kinds : freeList'[k] \subseteq PacketsOf(k)
    BY <1>10, <2>1 DEF PutOnList, Sorted, TypeOK
  <2>3. /\ freeing' \in [Tasks -> Packets \cup {None}]
        /\ \A h \in Tasks : freeing'[h] \in {freeing[h], None}
    BY <1>10 DEF PutOnList, Sorted, TypeOK
  <2>4. TypeOK' BY <1>10, <2>2, <2>3 DEF PutOnList, Sorted, TypeOK
  <2>5. KindsKept'
    BY <1>10, <2>3, PoolAssumption DEF PutOnList, Sorted, KindsKept, Has
  <2> QED BY <1>10, <2>4, <2>5 DEF PutOnList, Sorted
<1>11. ASSUME NEW g \in DataReaders, Forward(g) PROVE Sorted'
  <2>1. g \in Tasks /\ pkt[g] \in DataPackets
    BY <1>1, <1>2, <1>3, <1>4, <1>11 DEF Forward
  <2>2. dataReceiveChan' \subseteq DataPackets
    BY <1>11, <2>1 DEF Forward, Sorted, TypeOK
  <2>3. /\ pkt' \in [Tasks -> Packets \cup {None}]
        /\ \A h \in Tasks : pkt'[h] \in {pkt[h], None} /\ (tmp[h] # None => pkt'[h] # None)
    BY <1>11, Zenon DEF Forward, Works, Sorted, TypeOK, KindsKept
  <2> QED BY <1>11, <2>2, <2>3, HandSorted, Zenon DEF Forward
<1>12. ASSUME NEW g \in AppTasks, ReceiveData(g) PROVE Sorted'
  <2>1. PICK p \in dataReceiveChan : /\ dataReceiveChan' = dataReceiveChan \ {p}
                                     /\ pkt' = [pkt EXCEPT ![g] = p]
    BY <1>12, Zenon DEF ReceiveData
  <2>2. p \in PacketsOf(KindOf(g)) /\ p \in Packets /\ p # None
    BY <1>2, <1>3, PoolAssumption DEF Sorted, TypeOK, Packets
  <2>3. /\ pkt' \in [Tasks -> Packets \cup {None}]
        /\ dataReceiveChan' \subseteq DataPackets
    BY <2>1, <2>2, Zenon DEF Sorted, TypeOK
  <2>4. \A h \in Tasks : /\ pkt'[h] \in {pkt[h], None} \cup PacketsOf(KindOf(h))
                         /\ tmp[h] # None => pkt'[h] # None
    BY <2>1, <2>2 DEF Sorted, TypeOK, KindsKept
  <2> QED BY <1>12, <2>3, <2>4, HandSorted DEF ReceiveData
<1>13. ASSUME NEW g \in Tasks, Forget(g) PROVE Sorted'
  <2>1. /\ pkt' \in [Tasks -> Packets \cup {None}]
        /\ \A h \in Tasks : pkt'[h] \in {pkt[h], None} /\ (tmp[h] # None => pkt'[h] # None)
    BY <1>13 DEF Forget, Works, Sorted, TypeOK, KindsKept
  <2> QED BY <1>13, <2>1, HandSorted DEF Forget, Sorted, TypeOK
<1>14. CASE UNCHANGED vars
  BY <1>14 DEF vars, Sorted, TypeOK, KindsKept, Has
<1> QED
  BY <1>1, <1>5, <1>6, <1>7, <1>8, <1>9, <1>10, <1>11, <1>12, <1>13, <1>14 DEF Next

\* Control packets and data packets never mix on the lists, in the channel or
\* in the hands of goroutines, and an application that frees its packets again
\* and again (FreesAgain, SpecAgain) does not change that.
THEOREM PoolTyped == (Spec => []TypeOK) /\ (SpecAgain => []TypeOK)
<1>1. Init => Sorted
  BY InitInv, PoolAssumption DEF Init, Inv, Sorted
<1>2. Sorted => TypeOK BY DEF Sorted
<1>3. Sorted /\ [Next]_vars => Sorted'
  BY NextSorted
<1>4. Sorted /\ [Next \/ \E g \in AppTasks : FreePacketAgain(g)]_vars => Sorted'
  BY NextSorted
<1> QED BY <1>1, <1>2, <1>3, <1>4, PTL DEF Spec, SpecAgain
=============================================================================
