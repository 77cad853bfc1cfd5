-------------------------- MODULE RtcpTimingProofs --------------------------
(***************************************************************************)
(* Proofs about RtcpTiming for any minimum interval, bandwidth, number of  *)
(* streams and peers.                                                      *)
(***************************************************************************)
EXTENDS RtcpTiming, FiniteSetTheorems, TLAPS

\* The longest interval a peer can draw: 1.5 / 1.21828 of the minimum.
Longest == (123 * MinTime) \div 100

\* Four of the longest intervals fit into the SSRC timeout, which is why
\* three reports in a row may be lost.
LEMMA FourIntervals ==
    /\ Longest \in Nat /\ MinTime \in Nat
    /\ 4 * Longest <= 5 * MinTime
    /\ \A ti \in Ti(MinTime) : ti \in Nat /\ ti <= Longest
<1>1. MinTime \in Nat /\ Randoms \subseteq 1 .. 123
  BY TimingAssumption
<1>2. Longest \in Nat /\ 100 * Longest <= 123 * MinTime
  BY <1>1 DEF Longest
<1>3. ASSUME NEW r \in Randoms
      PROVE  /\ (MinTime * r) \div 100 \in Nat
             /\ (MinTime * r) \div 100 <= Longest
  <2>1. r \in 1 .. 123
    BY <1>1
  <2>2. MinTime * r \in Nat /\ MinTime * r <= 123 * MinTime
    BY <1>1, <2>1
  <2> DEFINE a == MinTime * r
             b == 123 * MinTime
  <2>3. a \in Nat /\ b \in Nat /\ a <= b
    BY <2>2, <1>1
  <2> HIDE DEF a, b
  <2>4. a \div 100 \in Nat /\ a \div 100 <= b \div 100
    BY <2>3
  <2> QED
    BY <2>4 DEF a, b, Longest
<1> QED
  BY <1>1, <1>2, <1>3 DEF Ti

\* What rtcpInterval computes before it applies the minimum.
LEMMA ShareInteger ==
    ASSUME NEW m \in Int, NEW n \in Int, NEW b
    PROVE  Share(m, n, b) \in Int
<1>1. PacketTime \in Nat
  BY TimingAssumption
<1>2. PacketTime * m \in Int /\ PacketTime * n \in Int /\ PacketTime * (m - n) \in Int
  BY <1>1
<1>3. 4 * PacketTime * n \in Int /\ 4 * PacketTime * (m - n) \in Int
  BY <1>1
<1>4. (4 * PacketTime * (m - n)) \div 3 \in Int
  BY <1>3
<1> QED
  BY <1>2, <1>3, <1>4 DEF Share

\* The interval that rtcpInterval returns is never below the minimum once
\* the first report was sent.
LEMMA AtLeastMinimum ==
    ASSUME NEW m \in Int, NEW n \in Int, NEW b
    PROVE  /\ Td(m, n, b, FALSE) \in Nat /\ Td(m, n, b, FALSE) >= MinTime
           /\ Td(m, n, b, TRUE) \in Nat
<1>1. MinTime \in Nat /\ MinTime \div 2 \in Nat
  BY TimingAssumption
<1>2. Share(m, n, b) \in Int
  BY ShareInteger
<1> QED
  BY <1>1, <1>2 DEF Td, MaxOf

-----------------------------------------------------------------------------
(* Live members stay.                                                      *)

Statuses == {"active", "isClosing", "isClosed", "absent"}

\* How long we have not heard from a stream.
Silence(s) == MinOf(s.rtp, s.rtcp)

\* A peer's silence and the time to its next report together are bounded by
\* the reports it may have lost; and the timeout exceeds that bound.
Heartbeat(i) ==
    peer[i].due # None =>
        /\ peer[i].due <= Longest
        /\ in[i].status = "active" =>
              Silence(in[i]) + peer[i].due <= (peer[i].lost + 1) * Longest

Input == [status : Statuses, idx : Int, sender : BOOLEAN, rtp : Nat, rtcp : Nat]

Alive ==
    /\ in \in [Peers -> Input]
    /\ inIndex \in Int /\ activeSenders \in Int
    /\ peer \in [Peers -> [due : Nat \cup {None}, lost : 0 .. MaxLost]]
    /\ ssrcTimeout \in Int
    /\ ~started => ssrcTimeout >= 5 * MinTime
    /\ \A i \in Peers : Heartbeat(i)

\* Before the session starts nobody has been heard of.
LEMMA InitAlive == Init => Alive
<1> SUFFICES ASSUME Init PROVE Alive
  OBVIOUS
<1>1. Never \in Nat /\ MaxLost \in 0 .. 3 /\ None \notin Nat
  BY TimingAssumption
<1>2. ssrcTimeout \in Int /\ started
  <2> DEFINE td == Td(1, 0, FALSE, TRUE)
  <2>1. 0 \in Int /\ 1 \in Int
    OBVIOUS
  <2>2. td \in Nat
    BY <2>1, AtLeastMinimum, Zenon
  <2>3. ssrcTimeout = 5 * td /\ started
    BY Zenon DEF Init, SsrcTimeout
  <2> HIDE DEF td
  <2> QED
    BY <2>2, <2>3
<1>3. in \in [Peers -> Input]
  BY <1>1 DEF Init, Absent, Statuses, Input
<1>4. ASSUME NEW i \in Peers
      PROVE  in[i].status = "absent"
  BY DEF Init, Absent
<1>5. peer \in [Peers -> [due : Ti(MinTime), lost : {0}]]
  BY DEF Init
<1>6. peer \in [Peers -> [due : Nat \cup {None}, lost : 0 .. MaxLost]]
  <2>1. [due : Ti(MinTime), lost : {0}] \subseteq [due : Nat \cup {None}, lost : 0 .. MaxLost]
    BY <1>1, FourIntervals
  <2> QED
    BY <1>5, <2>1
<1>7. \A i \in Peers : peer[i].due <= Longest
  BY <1>5, FourIntervals
<1>8. inIndex \in Int /\ activeSenders \in Int
  BY DEF Init
<1> QED
  BY <1>2, <1>3, <1>4, <1>6, <1>7, <1>8 DEF Alive, Heartbeat

\* A stream heard of now is far from its timeout.
LEMMA HeardNow ==
    ASSUME NEW s \in Input, s.rtp = 0 \/ s.rtcp = 0
    PROVE  Silence(s) = 0
  BY DEF Silence, MinOf, Input

\* Lost reports: the product is monotonic.
LEMMA LostBound ==
    ASSUME NEW l \in 0 .. 3
    PROVE  /\ (l + 1) * Longest \in Nat
           /\ (l + 1) * Longest >= Longest
           /\ (l + 1) * Longest <= 4 * Longest
           /\ (l + 2) * Longest = (l + 1) * Longest + Longest
<1>1. Longest \in Nat
  BY FourIntervals
<1>2. l = 0 \/ l = 1 \/ l = 2 \/ l = 3
  OBVIOUS
<1> HIDE DEF Longest
<1> QED
  BY <1>1, <1>2

\* What a pass over the streams does: without a report it leaves the schedule
\* alone, with one it draws the next interval, which is at least the minimum.
LEMMA PassReports ==
    ASSUME Alive, Pass
    PROVE  /\ in' = [i \in Peers |-> InputAfter(in[i])]
           /\ activeSenders' \in Int
           /\ \/ UNCHANGED <<wait, dataTimeout, ssrcTimeout, started, since, hurried>>
              \/ \E td \in Nat :
                    /\ td >= MinTime /\ ssrcTimeout' = 5 * td /\ ~started'
                    /\ \E ti \in Ti(td) : wait' = ti /\ dataTimeout' = 2 * ti
                    /\ since' = 0 /\ (bye # None => hurried')
<1>1. PICK idle \in SUBSET Idle :
        LET outs == [o \in OutStreams |-> OutputAfter(o, idle)]
            active == {o \in OutStreams : outs[o].status = "active"}
            sent == \E o \in active : outs[o].sender
            lost == Cardinality(SilentInputs) + Cardinality(idle)
            senders == MaxOf(0, activeSenders - lost)
            td == Td(Cardinality(active), senders, sent, FALSE)
        IN  /\ in' = [i \in Peers |-> InputAfter(in[i])]
            /\ activeSenders' = senders
            /\ \/ UNCHANGED <<wait, dataTimeout, ssrcTimeout, started, since, hurried>>
               \/ /\ ssrcTimeout' = SsrcTimeout(td) /\ started' = FALSE
                  /\ \E ti \in Ti(td) : wait' = ti /\ dataTimeout' = DataTimeout(ti)
                  /\ since' = 0 /\ hurried' = (bye # None)
  BY Zenon DEF Pass
<1> DEFINE outs == [o \in OutStreams |-> OutputAfter(o, idle)]
           active == {o \in OutStreams : outs[o].status = "active"}
           sent == \E o \in active : outs[o].sender
           lost == Cardinality(SilentInputs) + Cardinality(idle)
           senders == MaxOf(0, activeSenders - lost)
           td == Td(Cardinality(active), senders, sent, FALSE)
<1>2. IsFiniteSet(OutStreams)
  BY TimingAssumption, FS_Interval DEF OutStreams
<1>3. Cardinality(active) \in Int /\ Cardinality(idle) \in Int
      /\ Cardinality(SilentInputs) \in Int
  <2>1. active \subseteq OutStreams
    OBVIOUS
  <2>2. idle \subseteq OutStreams
    BY DEF Idle
  <2>3. SilentInputs \subseteq Peers /\ IsFiniteSet(Peers)
    BY TimingAssumption DEF SilentInputs
  <2>4. \A S : IsFiniteSet(S) => Cardinality(S) \in Int
    BY FS_CardinalityType
  <2> HIDE DEF active
  <2> QED
    BY <1>2, <2>1, <2>2, <2>3, <2>4, FS_Subset
<1>4. senders \in Int
  <2> HIDE DEF active
  <2> QED
    BY <1>3 DEF Alive, MaxOf
<1>5. td \in Nat /\ td >= MinTime
  <2>1. Cardinality(active) \in Int
    BY <1>3
  <2> HIDE DEF active, senders, sent
  <2> QED
    BY <1>4, <2>1, AtLeastMinimum, Zenon
<1>6. /\ in' = [i \in Peers |-> InputAfter(in[i])]
      /\ activeSenders' = senders
      /\ \/ UNCHANGED <<wait, dataTimeout, ssrcTimeout, started, since, hurried>>
         \/ /\ ssrcTimeout' = 5 * td /\ ~started'
            /\ \E ti \in Ti(td) : wait' = ti /\ dataTimeout' = 2 * ti
            /\ since' = 0 /\ (bye # None => hurried')
  BY <1>1, Zenon DEF SsrcTimeout, DataTimeout
<1> HIDE DEF td, senders
<1> QED
  BY <1>4, <1>5, <1>6, Zenon

\* The pass over the streams changes no time, and from the first report on
\* the timeout is five intervals of at least the minimum.
LEMMA PassAlive == Alive /\ Pass /\ UNCHANGED <<peer, inIndex>> => Alive'
<1> SUFFICES ASSUME Alive, Pass, UNCHANGED <<peer, inIndex>> PROVE Alive'
  OBVIOUS
<1>1. in' = [i \in Peers |-> InputAfter(in[i])] /\ activeSenders' \in Int
  BY PassReports
<1>2. ssrcTimeout' \in Int /\ (~started' => ssrcTimeout' >= 5 * MinTime)
  <2>1. CASE UNCHANGED <<ssrcTimeout, started>>
    BY <2>1 DEF Alive
  <2>2. ASSUME NEW td \in Nat, td >= MinTime, ssrcTimeout' = 5 * td
        PROVE  ssrcTimeout' \in Int /\ ssrcTimeout' >= 5 * MinTime
    BY <2>2, FourIntervals
  <2>3. UNCHANGED <<ssrcTimeout, started>>
        \/ \E td \in Nat : td >= MinTime /\ ssrcTimeout' = 5 * td
    BY PassReports, Zenon
  <2> QED
    BY <2>1, <2>2, <2>3
<1>3. Absent \in Input
  BY TimingAssumption DEF Absent, Input, Statuses
<1>4. ASSUME NEW i \in Peers
      PROVE  /\ InputAfter(in[i]) \in Input
             /\ InputAfter(in[i]).status = "active" =>
                   in[i].status = "active" /\ Silence(InputAfter(in[i])) = Silence(in[i])
  <2>1. in[i] \in Input
    BY DEF Alive
  <2>2. CASE in[i].status = "active" /\ TimedOut(in[i])
    BY <2>1, <2>2, <1>3 DEF InputAfter, Absent
  <2>3. CASE in[i].status = "active" /\ ~TimedOut(in[i])
    <3>1. InputAfter(in[i]) = [in[i] EXCEPT !.sender = @ /\ ~Silent(in[i])]
      BY <2>3 DEF InputAfter
    <3> QED
      BY <3>1, <2>1, <2>3, Zenon DEF Input, Silence
  <2>4. CASE in[i].status # "active"
    BY <2>1, <2>4 DEF InputAfter, Input, Statuses
  <2> QED
    BY <2>2, <2>3, <2>4
<1>5. in' \in [Peers -> Input]
  BY <1>1, <1>4
<1>6. ASSUME NEW i \in Peers PROVE Heartbeat(i)'
  <2>1. in'[i] = InputAfter(in[i]) /\ Heartbeat(i)
    BY <1>1 DEF Alive
  <2> QED
    BY <2>1, <1>4 DEF Heartbeat, Silence
<1> QED
  BY <1>1, <1>2, <1>5, <1>6 DEF Alive

\* A tick: silence grows by at most what the time to the next report shrinks.
LEMMA ElapseAlive == Alive /\ Elapse => Alive'
<1> SUFFICES ASSUME Alive, Elapse PROVE Alive'
  OBVIOUS
<1>1. Never \in Nat /\ None \notin Nat /\ MaxLost \in 0 .. 3
  BY TimingAssumption
<1>2. ASSUME NEW i \in Peers
      PROVE  /\ in'[i] = Older(in[i]) /\ in'[i] \in Input
             /\ in'[i].status = in[i].status
             /\ in[i].status = "active" => Silence(in'[i]) <= Silence(in[i]) + 1
             /\ Silence(in[i]) \in Nat /\ Silence(in'[i]) \in Nat
  <2>1. in'[i] = Older(in[i]) /\ in[i] \in Input
    BY DEF Elapse, Alive
  <2>2. MinOf(Never, in[i].rtp + 1) \in Nat /\ MinOf(Never, in[i].rtcp + 1) \in Nat
    BY <1>1, <2>1 DEF MinOf, Input
  <2>3. Older(in[i]) \in Input /\ Older(in[i]).status = in[i].status
    BY <2>1, <2>2, Zenon DEF Older, Input
  <2>4. ASSUME in[i].status = "active"
        PROVE  /\ Older(in[i]).rtp = MinOf(Never, in[i].rtp + 1)
               /\ Older(in[i]).rtcp = MinOf(Never, in[i].rtcp + 1)
    BY <2>1, <2>4 DEF Older, Input
  <2>5. ASSUME NEW s \in Input PROVE Silence(s) \in Nat
    BY DEF Silence, MinOf, Input
  <2>6. in[i].rtp \in Nat /\ in[i].rtcp \in Nat
    BY <2>1 DEF Input
  <2>7. ASSUME in[i].status = "active"
        PROVE  Silence(Older(in[i])) <= Silence(in[i]) + 1
    BY <2>4, <2>6, <2>7, <1>1 DEF Silence, MinOf
  <2> QED
    BY <2>1, <2>3, <2>5, <2>7
<1>3. ASSUME NEW i \in Peers
      PROVE  /\ peer'[i].due = IF peer[i].due = None THEN None ELSE peer[i].due - 1
             /\ peer'[i].lost = peer[i].lost
             /\ peer'[i] \in [due : Nat \cup {None}, lost : 0 .. MaxLost]
             /\ peer[i].due # None => peer[i].due \in Nat
             /\ peer[i].lost \in 0 .. 3
  <2>1. peer[i] \in [due : Nat \cup {None}, lost : 0 .. MaxLost] /\ peer[i].due # 0
    BY DEF Elapse, Alive
  <2>2. peer'[i] = [peer[i] EXCEPT !.due = IF @ = None THEN None ELSE @ - 1]
    BY DEF Elapse
  <2> QED
    BY <2>1, <2>2, <1>1
<1>4. ASSUME NEW i \in Peers PROVE Heartbeat(i)'
  <2> SUFFICES ASSUME peer'[i].due # None
               PROVE  /\ peer'[i].due <= Longest
                      /\ in'[i].status = "active" =>
                           Silence(in'[i]) + peer'[i].due <= (peer'[i].lost + 1) * Longest
    BY DEF Heartbeat, Silence
  <2>1. /\ peer[i].due # None /\ peer[i].due \in Nat
        /\ peer'[i].due = peer[i].due - 1 /\ peer'[i].lost = peer[i].lost
    <3>1. peer[i].due # None
      BY <1>3
    <3> QED
      BY <3>1, <1>3
  <2>2. Heartbeat(i)
    BY DEF Alive
  <2> DEFINE bound == (peer[i].lost + 1) * Longest
  <2>3. bound \in Nat
    BY <1>3, LostBound
  <2>4. /\ peer[i].due <= Longest
        /\ in[i].status = "active" => Silence(in[i]) + peer[i].due <= bound
    BY <2>1, <2>2 DEF Heartbeat
  <2>5. Longest \in Nat
    BY FourIntervals
  <2> HIDE DEF bound, Longest
  <2>6. /\ peer'[i].due <= Longest
        /\ in'[i].status = "active" => Silence(in'[i]) + peer'[i].due <= bound
    BY <2>1, <2>3, <2>4, <2>5, <1>2
  <2> QED
    BY <2>1, <2>6 DEF bound
<1>5. in' \in [Peers -> Input]
      /\ peer' \in [Peers -> [due : Nat \cup {None}, lost : 0 .. MaxLost]]
  BY <1>2, <1>3 DEF Elapse
<1> QED
  BY <1>4, <1>5 DEF Alive, Elapse

\* A report that arrives ends the silence; one that is lost lets it grow by
\* one interval at most.
LEMMA PeerReportsAlive ==
    ASSUME NEW p \in Peers, Alive, PeerReports(p) PROVE Alive'
<1>1. Never \in Nat /\ None \notin Nat /\ MaxLost \in 0 .. 3
  BY TimingAssumption
<1>2. PICK ti \in Ti(MinTime) :
          \/ /\ SenderCheck(p)
             /\ in' = [in EXCEPT ![p] = Known(p)]
             /\ peer' = [peer EXCEPT ![p] = [due |-> ti, lost |-> 0]]
          \/ /\ peer[p].lost < MaxLost
             /\ peer' = [peer EXCEPT ![p] = [due |-> ti, lost |-> @.lost + 1]]
             /\ UNCHANGED <<in, inIndex>>
  BY DEF PeerReports
<1>3. ti \in Nat /\ ti <= Longest /\ Longest \in Nat
  BY FourIntervals
<1>4. UNCHANGED <<ssrcTimeout, started, activeSenders>>
  BY DEF PeerReports, schedule
<1>5. /\ in[p] \in Input /\ peer[p] \in [due : Nat \cup {None}, lost : 0 .. MaxLost]
      /\ peer[p].due = 0 /\ Heartbeat(p)
  BY DEF PeerReports, Alive
<1>6. ASSUME NEW i \in Peers, i # p
      PROVE  in'[i] = in[i] /\ peer'[i] = peer[i]
  BY <1>2, <1>6 DEF Alive
<1>7. ASSUME NEW i \in Peers, i # p PROVE Heartbeat(i)'
  BY <1>6, <1>7 DEF Heartbeat, Alive, Silence
<1>8. CASE /\ SenderCheck(p)
           /\ in' = [in EXCEPT ![p] = Known(p)]
           /\ peer' = [peer EXCEPT ![p] = [due |-> ti, lost |-> 0]]
  <2>1. Known(p) \in Input /\ Known(p).rtcp = 0
    BY <1>1, <1>5, Zenon DEF Known, NewStreamIn, Absent, Input, Statuses, Alive
  <2>2. in'[p] = Known(p) /\ peer'[p] = [due |-> ti, lost |-> 0]
    BY <1>8 DEF Alive
  <2>3. Silence(in'[p]) = 0
    BY <2>1, <2>2, HeardNow
  <2>4. (0 + 1) * Longest = Longest
    BY <1>3
  <2>5. Heartbeat(p)'
    <3> HIDE DEF Longest
    <3> QED
      BY <1>3, <2>2, <2>3, <2>4 DEF Heartbeat, Silence
  <2>6. inIndex' \in Int
    BY <1>8, TimingAssumption DEF SenderCheck, MinOf, Alive
  <2>7. in' \in [Peers -> Input]
    BY <1>8, <2>1 DEF Alive
  <2>8. peer' \in [Peers -> [due : Nat \cup {None}, lost : 0 .. MaxLost]]
    BY <1>8, <1>1, <1>3 DEF Alive
  <2> QED
    BY <1>4, <1>7, <2>5, <2>6, <2>7, <2>8 DEF Alive
<1>9. CASE /\ peer[p].lost < MaxLost
           /\ peer' = [peer EXCEPT ![p] = [due |-> ti, lost |-> @.lost + 1]]
           /\ UNCHANGED <<in, inIndex>>
  <2>1. peer'[p] = [due |-> ti, lost |-> peer[p].lost + 1]
    BY <1>9 DEF Alive
  <2>2. peer[p].lost \in 0 .. 3 /\ peer[p].lost + 1 \in 0 .. MaxLost
    BY <1>1, <1>5, <1>9
  <2> DEFINE old == (peer[p].lost + 1) * Longest
             new == (peer'[p].lost + 1) * Longest
  <2>3. old \in Nat /\ new = old + Longest
    <3>1. peer'[p].lost + 1 = peer[p].lost + 2
      BY <2>1, <2>2
    <3> QED
      BY <2>2, <3>1, LostBound
  <2>4. in[p].status = "active" => Silence(in[p]) + 0 <= old
    BY <1>1, <1>5 DEF Heartbeat
  <2>5. Silence(in[p]) \in Nat
    BY <1>5 DEF Silence, MinOf, Input
  <2> HIDE DEF old, new, Longest
  <2>6. in[p].status = "active" => Silence(in[p]) + ti <= new
    BY <1>3, <2>3, <2>4, <2>5
  <2>7. Heartbeat(p)'
    BY <2>1, <2>6, <1>3, <1>9 DEF Heartbeat, Silence, new
  <2>8. peer' \in [Peers -> [due : Nat \cup {None}, lost : 0 .. MaxLost]]
    BY <1>9, <2>2, <1>3 DEF Alive
  <2> QED
    BY <1>4, <1>7, <1>9, <2>7, <2>8 DEF Alive
<1> QED
  BY <1>2, <1>8, <1>9

\* A data packet ends the silence, too.
LEMMA OnRecvDataAlive ==
    ASSUME NEW p \in Peers, Alive, OnRecvData(p) PROVE Alive'
<1> DEFINE s == IF in[p].status = "absent" THEN NewStreamIn ELSE in[p]
           new == [s EXCEPT !.sender = TRUE, !.rtp = 0]
<1>1. in' = [in EXCEPT ![p] = new] /\ Heard(p)
  BY DEF OnRecvData
<1>2. UNCHANGED <<ssrcTimeout, started, activeSenders, peer>>
  BY DEF OnRecvData, schedule
<1>3. new \in Input /\ new.rtp = 0
  BY TimingAssumption, Zenon DEF NewStreamIn, Absent, Input, Statuses, Alive
<1>4. Silence(new) = 0
  BY <1>3, HeardNow, Zenon
<1> HIDE DEF new
<1>5. in' \in [Peers -> Input] /\ in'[p] = new
  BY <1>1, <1>3 DEF Alive
<1>6. inIndex' \in Int
  BY <1>1, TimingAssumption DEF Heard, MinOf, Alive
<1>7. ASSUME NEW i \in Peers, i # p PROVE Heartbeat(i)'
  <2>1. in'[i] = in[i] /\ peer' = peer
    BY <1>1, <1>2, <1>7 DEF Alive
  <2> QED
    BY <2>1 DEF Heartbeat, Alive, Silence
<1>8. Heartbeat(p)'
  <2> SUFFICES ASSUME peer[p].due # None
               PROVE  /\ peer[p].due <= Longest
                      /\ Silence(new) + peer[p].due <= (peer[p].lost + 1) * Longest
    BY <1>2, <1>5 DEF Heartbeat, Silence
  <2>1. peer[p].due \in Nat /\ peer[p].due <= Longest /\ peer[p].lost \in 0 .. 3
    <3>1. peer[p] \in [due : Nat \cup {None}, lost : 0 .. MaxLost] /\ Heartbeat(p)
      BY DEF Alive
    <3> QED
      BY <3>1, TimingAssumption DEF Heartbeat
  <2> DEFINE bound == (peer[p].lost + 1) * Longest
  <2>2. bound \in Nat /\ bound >= Longest /\ Longest \in Nat
    BY <2>1, LostBound, FourIntervals
  <2> HIDE DEF bound, Longest
  <2>3. 0 + peer[p].due <= bound
    BY <2>1, <2>2
  <2> QED
    BY <1>4, <2>1, <2>3 DEF bound
<1> QED
  BY <1>2, <1>5, <1>6, <1>7, <1>8 DEF Alive

\* A peer that leaves is not owed anything.
LEMMA PeerLeavesAlive ==
    ASSUME NEW p \in Peers, Alive, PeerLeaves(p) PROVE Alive'
<1>1. Never \in Nat /\ None \notin Nat /\ MaxLost \in 0 .. 3
  BY TimingAssumption
<1>2. peer' = [peer EXCEPT ![p] = [due |-> None, lost |-> 0]]
  BY DEF PeerLeaves
<1>3. UNCHANGED <<ssrcTimeout, started, activeSenders>>
  BY DEF PeerLeaves, schedule
<1> DEFINE new == [Known(p) EXCEPT !.status = "isClosing", !.rtp = Never]
<1>4. \/ SenderCheck(p) /\ in' = [in EXCEPT ![p] = new]
      \/ UNCHANGED <<in, inIndex>>
  BY DEF PeerLeaves
<1>5. new \in Input
  BY <1>1, Zenon DEF Known, NewStreamIn, Absent, Input, Statuses, Alive
<1> HIDE DEF new
<1>6. in' \in [Peers -> Input] /\ \A i \in Peers : i # p => in'[i] = in[i]
  BY <1>4, <1>5 DEF Alive
<1>7. inIndex' \in Int
  BY <1>4, TimingAssumption DEF SenderCheck, MinOf, Alive
<1>8. peer' \in [Peers -> [due : Nat \cup {None}, lost : 0 .. MaxLost]]
  BY <1>1, <1>2 DEF Alive
<1>9. peer'[p].due = None /\ \A i \in Peers : i # p => peer'[i] = peer[i]
  BY <1>2 DEF Alive
<1>10. ASSUME NEW i \in Peers PROVE Heartbeat(i)'
  <2>1. CASE i = p
    BY <2>1, <1>9 DEF Heartbeat
  <2>2. CASE i # p
    BY <2>2, <1>6, <1>9 DEF Heartbeat, Alive, Silence
  <2> QED
    BY <2>1, <2>2
<1> QED
  BY <1>3, <1>6, <1>7, <1>8, <1>10 DEF Alive

\* Steps that touch neither the input streams nor the peers.
LEMMA OtherAlive ==
    ASSUME Alive, UNCHANGED <<in, inIndex, peer, ssrcTimeout, started>>,
           activeSenders' \in Int
    PROVE  Alive'
  BY DEF Alive, Heartbeat, Silence

\* No step of the service, of the receivers or of the application breaks Alive.
LEMMA NextAlive == Alive /\ [Next]_vars => Alive'
<1> SUFFICES ASSUME Alive, [Next]_vars PROVE Alive'
  OBVIOUS
<1>1. CASE Tick
  <2>1. CASE Due
    BY <1>1, <2>1, PassAlive DEF Tick
  <2>2. CASE ~Due
    <3>1. UNCHANGED <<in, inIndex, peer, ssrcTimeout, started>> /\ activeSenders' = activeSenders
      BY <1>1, <2>2 DEF Tick
    <3> QED
      BY <3>1, OtherAlive DEF Alive
  <2> QED
    BY <2>1, <2>2
<1>2. CASE Elapse
  BY <1>2, ElapseAlive
<1>3. CASE ReceiveCommand
  <2>1. UNCHANGED <<in, inIndex, peer, ssrcTimeout, started>> /\ activeSenders' \in Int
    BY <1>3 DEF ReceiveCommand, schedule, Alive
  <2> QED
    BY <2>1, OtherAlive
<1>4. ASSUME \/ ByeHurries \/ UNCHANGED vars
             \/ \E o \in OutStreams : WriteData(o) \/ SsrcStreamClose(o)
      PROVE  Alive'
  <2>1. UNCHANGED <<in, inIndex, peer, ssrcTimeout, started>> /\ activeSenders' = activeSenders
    BY <1>4, Zenon DEF ByeHurries, vars, WriteData, SsrcStreamClose, schedule
  <2> QED
    BY <2>1, OtherAlive DEF Alive
<1>5. ASSUME NEW i \in Peers, PeerReports(i) \/ OnRecvData(i) \/ PeerLeaves(i)
      PROVE  Alive'
  BY <1>5, PeerReportsAlive, OnRecvDataAlive, PeerLeavesAlive
<1> QED
  BY <1>1, <1>2, <1>3, <1>4, <1>5 DEF Next, System

\* A peer that keeps its intervals is not timed out once the session has
\* sent a report, for any interval, bandwidth and number of streams, while
\* no more than MaxLost (at most three) of its reports are lost in a row:
\* the SSRC timeout of rtcpService is long enough.
THEOREM LiveMembers == Spec => LiveMembersStay
<1>1. ASSUME Alive, [Next]_vars
      PROVE  [\A i \in Peers : (in[i].status = "active" /\ in'[i].status = "absent")
                                   => peer[i].due = None \/ started]_vars
  <2> SUFFICES ASSUME NEW i \in Peers, in[i].status = "active", in'[i].status = "absent",
                      peer[i].due # None, ~started
               PROVE  FALSE
    OBVIOUS
  <2>1. in[i] \in Input /\ in \in [Peers -> Input]
    BY <1>1 DEF Alive
  <2>2. Silence(in[i]) <= ssrcTimeout
    <3>1. /\ peer[i].due \in Nat /\ peer[i].lost \in 0 .. 3 /\ Heartbeat(i)
          /\ ssrcTimeout \in Int /\ ssrcTimeout >= 5 * MinTime
      <4>1. peer[i] \in [due : Nat \cup {None}, lost : 0 .. MaxLost]
        BY <1>1 DEF Alive
      <4> QED
        BY <1>1, <4>1, TimingAssumption DEF Alive
    <3> DEFINE bound == (peer[i].lost + 1) * Longest
    <3>2. Silence(in[i]) + peer[i].due <= bound
      BY <3>1 DEF Heartbeat
    <3>3. bound \in Nat /\ bound <= 4 * Longest
      BY <3>1, LostBound
    <3>4. Longest \in Nat /\ MinTime \in Nat /\ 4 * Longest <= 5 * MinTime
      BY FourIntervals
    <3>5. Silence(in[i]) \in Nat
      BY <2>1 DEF Silence, MinOf, Input
    <3> HIDE DEF bound, Longest
    <3> QED
      BY <3>1, <3>2, <3>3, <3>4, <3>5
  <2>3. ~TimedOut(in[i])
    <3>1. Silence(in[i]) \in Nat /\ ssrcTimeout \in Int
      BY <1>1, <2>1 DEF Silence, MinOf, Input, Alive
    <3> QED
      BY <2>2, <3>1 DEF TimedOut, Silence
  <2>4. CASE Tick
    <3>1. in' = in \/ in' = [j \in Peers |-> InputAfter(in[j])]
      BY <2>4, Zenon DEF Tick, Pass
    <3>2. in'[i] = in[i] \/ in'[i] = InputAfter(in[i])
      BY <3>1
    <3>3. InputAfter(in[i]).status = "active"
      BY <2>1, <2>3 DEF InputAfter, Input
    <3> QED
      BY <3>2, <3>3
  <2>5. CASE Elapse
    <3>1. in'[i] = Older(in[i])
      BY <2>5 DEF Elapse
    <3> QED
      BY <3>1, <2>1 DEF Older, Input
  <2>6. CASE ReceiveCommand \/ ByeHurries \/ UNCHANGED vars
             \/ \E o \in OutStreams : WriteData(o) \/ SsrcStreamClose(o)
    BY <2>6, Zenon DEF ReceiveCommand, ByeHurries, vars, WriteData, SsrcStreamClose
  <2>7. ASSUME NEW p \in Peers, PeerReports(p) PROVE FALSE
    <3>1. in' = in \/ in' = [in EXCEPT ![p] = Known(p)]
      BY <2>7 DEF PeerReports
    <3> QED
      BY <3>1, <2>1 DEF Known, Input
  <2>8. ASSUME NEW p \in Peers, OnRecvData(p) PROVE FALSE
    BY <2>8, <2>1 DEF OnRecvData, Input
  <2>9. ASSUME NEW p \in Peers, PeerLeaves(p) PROVE FALSE
    <3>1. in' = in \/ in' = [in EXCEPT ![p] = [Known(p) EXCEPT !.status = "isClosing",
                                                             !.rtp = Never]]
      BY <2>9 DEF PeerLeaves
    <3> QED
      BY <3>1, <2>1, Zenon DEF Known, Input
  <2> QED
    BY <1>1, <2>4, <2>5, <2>6, <2>7, <2>8, <2>9 DEF Next, System
<1> QED
  BY <1>1, InitAlive, NextAlive, PTL DEF Spec, LiveMembersStay

-----------------------------------------------------------------------------
(* Reports are spaced.                                                     *)

\* Half of the data timeout is the interval that was drawn: what is left of
\* it and what has passed make up the whole, unless a BYE was received.
Spacing ==
    /\ since \in Nat /\ dataTimeout \in Nat
    /\ bye # None => hurried
    /\ ~started /\ ~hurried => wait \in Int /\ 2 * (wait + since) >= dataTimeout

\* The intervals that rtcpInterval draws are natural numbers.
LEMMA DrawnInterval ==
    ASSUME NEW td \in Nat, NEW ti \in Ti(td)
    PROVE  ti \in Nat /\ 2 * ti \in Nat
<1>1. PICK r \in Randoms : ti = (td * r) \div 100
  BY DEF Ti
<1>2. r \in Nat
  BY TimingAssumption
<1> DEFINE a == td * r
<1>3. a \in Nat
  BY <1>2
<1> HIDE DEF a
<1>4. a \div 100 \in Nat
  BY <1>3
<1> QED
  BY <1>1, <1>4 DEF a

\* StartSession schedules the first report with a drawn interval.
LEMMA InitSpacing == Init => Spacing
<1> SUFFICES ASSUME Init PROVE Spacing
  OBVIOUS
<1>1. since = 0 /\ bye = None /\ started
  BY Zenon DEF Init
<1> DEFINE td == Td(1, 0, FALSE, TRUE)
<1>2. 0 \in Int /\ 1 \in Int
  OBVIOUS
<1>3. td \in Nat
  BY <1>2, AtLeastMinimum, Zenon
<1>4. \E ti \in Ti(td) : dataTimeout = 2 * ti
  BY Zenon DEF Init, DataTimeout
<1> HIDE DEF td
<1>5. dataTimeout \in Nat
  BY <1>3, <1>4, DrawnInterval
<1> QED
  BY <1>1, <1>5 DEF Spacing

\* What a step may do to the schedule: a pass restarts it, a tick moves it, a
\* BYE shortens it and marks it.
LEMMA NextSchedule ==
    ASSUME Alive, Spacing, [Next]_vars
    PROVE  \/ /\ Due /\ since' = 0 /\ bye' = bye /\ (bye # None => hurried')
              /\ \E ti \in Nat : wait' = ti /\ dataTimeout' = 2 * ti
           \/ Elapse
           \/ UNCHANGED <<since, dataTimeout, started>> /\ hurried'
           \/ UNCHANGED <<since, dataTimeout, started, wait, hurried, bye>>
<1>1. CASE Tick
  <2>1. CASE ~Due
    BY <1>1, <2>1 DEF Tick
  <2>2. CASE Due
    <3>1. Pass /\ bye' = bye
      BY <1>1, <2>2 DEF Tick
    <3>2. CASE UNCHANGED <<wait, dataTimeout, ssrcTimeout, started, since, hurried>>
      BY <3>1, <3>2
    <3>3. ASSUME NEW td \in Nat,
                 \E ti \in Ti(td) : wait' = ti /\ dataTimeout' = 2 * ti
          PROVE  \E ti \in Nat : wait' = ti /\ dataTimeout' = 2 * ti
      BY <3>3, DrawnInterval, Zenon
    <3> QED
      BY <2>2, <3>1, <3>2, <3>3, PassReports, Zenon
  <2> QED
    BY <2>1, <2>2
<1>2. CASE ByeHurries
  BY <1>2 DEF ByeHurries, Spacing
<1>3. ASSUME NEW i \in Peers, PeerLeaves(i)
      PROVE  \/ UNCHANGED <<since, dataTimeout, started>> /\ hurried'
             \/ UNCHANGED <<since, dataTimeout, started, wait, hurried, bye>>
  <2>1. UNCHANGED <<since, dataTimeout, started, wait>>
    BY <1>3, Zenon DEF PeerLeaves, schedule
  <2>2. CASE UNCHANGED <<bye, hurried>>
    BY <2>1, <2>2
  <2>3. CASE hurried' = TRUE
    BY <2>1, <2>3
  <2> QED
    BY <1>3, <2>2, <2>3, Zenon DEF PeerLeaves
<1>4. ASSUME \/ ReceiveCommand \/ UNCHANGED vars
             \/ \E i \in Peers : PeerReports(i) \/ OnRecvData(i)
             \/ \E o \in OutStreams : WriteData(o) \/ SsrcStreamClose(o)
      PROVE  UNCHANGED <<since, dataTimeout, started, wait, hurried, bye>>
  BY <1>4, Zenon DEF ReceiveCommand, vars, PeerReports, OnRecvData, WriteData, SsrcStreamClose,
              schedule
<1> QED
  BY <1>1, <1>2, <1>3, <1>4 DEF Next, System

\* No step but the handling of a BYE brings the next report closer than drawn.
LEMMA NextSpacing == Alive /\ Spacing /\ [Next]_vars => Spacing'
<1> SUFFICES ASSUME Alive, Spacing, [Next]_vars PROVE Spacing'
  OBVIOUS
<1>1. ASSUME since' = 0, bye' = bye, bye # None => hurried',
             NEW ti \in Nat, wait' = ti, dataTimeout' = 2 * ti
      PROVE  Spacing'
  BY <1>1 DEF Spacing
<1>2. CASE Elapse
  <2>1. /\ bye' = bye /\ started' = started /\ hurried' = hurried
        /\ wait' = MaxOf(0, wait - 1) /\ since' = MinOf(dataTimeout, since + 1)
        /\ dataTimeout' = dataTimeout
    BY <1>2 DEF Elapse
  <2> QED
    BY <2>1 DEF Spacing, MaxOf, MinOf
<1>3. CASE UNCHANGED <<since, dataTimeout, started>> /\ hurried'
  BY <1>3 DEF Spacing
<1>4. CASE UNCHANGED <<since, dataTimeout, started, wait, hurried, bye>>
  BY <1>4 DEF Spacing
<1> QED
  BY <1>1, <1>2, <1>3, <1>4, NextSchedule

\* Between two reports of rtcpService at least the interval that rtcpInterval
\* drew passes, for any interval, bandwidth and number of streams; only a BYE
\* that OnRecvCtrl handles in between can shorten it.
THEOREM Spaced == Spec => ReportsSpaced
<1>1. ASSUME Alive, Spacing, [Next]_vars
      PROVE  [(since > 0 /\ since' = 0 /\ ~started)
                 => 2 * since >= dataTimeout \/ hurried]_vars
  <2> SUFFICES ASSUME since > 0, since' = 0, ~started, ~hurried
               PROVE  2 * since >= dataTimeout
    OBVIOUS
  <2>1. CASE Due
    BY <1>1, <2>1 DEF Spacing, Due
  <2>2. CASE Elapse
    <3>1. since' = MinOf(dataTimeout, since + 1)
      BY <2>2 DEF Elapse
    <3> QED
      BY <1>1, <3>1 DEF Spacing, MinOf
  <2>3. CASE since' = since
    BY <1>1, <2>3 DEF Spacing
  <2> QED
    BY <1>1, <2>1, <2>2, <2>3, NextSchedule
<1> QED
  BY <1>1, InitAlive, NextAlive, InitSpacing, NextSpacing, PTL DEF Spec, ReportsSpaced

-----------------------------------------------------------------------------
(* The number of senders.                                                  *)

SendersIn == {j \in Peers : in[j].sender}
SendersOut == {p \in OutStreams : out[p].sender}

\* Marking the elements of a set does not change its size.
LEMMA Marked ==
    ASSUME NEW S, IsFiniteSet(S), NEW m
    PROVE  /\ IsFiniteSet({<<m, x>> : x \in S})
           /\ Cardinality({<<m, x>> : x \in S}) = Cardinality(S)
<1> DEFINE T == {<<m, x>> : x \in S}
           f == [x \in S |-> <<m, x>>]
<1>1. f \in [S -> T]
  OBVIOUS
<1>2. \A a, b \in S : f[a] = f[b] => a = b
  OBVIOUS
<1>3. \A t \in T : \E x \in S : f[x] = t
  OBVIOUS
<1>4. ExistsBijection(S, T)
  <2> HIDE DEF T, f
  <2> QED
    BY <1>1, <1>2, <1>3 DEF ExistsBijection, Bijection, Injection, Surjection, IsInjective
<1> HIDE DEF T
<1> QED
  BY <1>4, FS_Bijection DEF T

\* Input and output streams are counted apart.
LEMMA SendersSum ==
    /\ IsFiniteSet(SendersIn) /\ IsFiniteSet(SendersOut)
    /\ Cardinality(SendersIn) \in Nat /\ Cardinality(SendersOut) \in Nat
    /\ Cardinality(Senders) = Cardinality(SendersIn) + Cardinality(SendersOut)
<1>1. IsFiniteSet(Peers) /\ IsFiniteSet(OutStreams)
  BY TimingAssumption, FS_Interval DEF OutStreams
<1>2. IsFiniteSet(SendersIn) /\ IsFiniteSet(SendersOut)
  BY <1>1, FS_Subset DEF SendersIn, SendersOut
<1>3. Cardinality(SendersIn) \in Nat /\ Cardinality(SendersOut) \in Nat
  BY <1>2, FS_CardinalityType
<1> DEFINE I == {<<"in", i>> : i \in SendersIn}
           O == {<<"out", o>> : o \in SendersOut}
<1>4. /\ IsFiniteSet(I) /\ Cardinality(I) = Cardinality(SendersIn)
      /\ IsFiniteSet(O) /\ Cardinality(O) = Cardinality(SendersOut)
  BY <1>2, Marked, Zenon
<1>5. Senders = I \cup O
  BY DEF Senders, SendersIn, SendersOut
<1>6. I \cap O = {}
  OBVIOUS
<1> HIDE DEF I, O
<1>7. Cardinality(I \cup O) = Cardinality(I) + Cardinality(O) - Cardinality(I \cap O)
  BY <1>4, FS_Union
<1>8. Cardinality(I \cap O) = 0
  BY <1>6, FS_EmptySet
<1> QED
  BY <1>2, <1>3, <1>4, <1>5, <1>7, <1>8

\* Where a sender that has not been counted yet can be found in a pass: a
\* stream that the pass will not take for silent.
Unsilent == (\E i \in SendersIn : in[i].status # "active" \/ in[i].rtp = 0)
            \/ (\E o \in SendersOut : out[o].status # "active" \/ out[o].fresh)

Accounted ==
    /\ out \in [OutStreams -> [status : Statuses, sender : BOOLEAN, fresh : BOOLEAN]]
    /\ activeSenders \in Nat /\ announced \in 0 .. 1 /\ left \in Nat
    /\ dataTimeout \in Nat /\ dataTimeout <= ssrcTimeout
    /\ ticked \in BOOLEAN
    /\ \A i \in Peers : in[i].status = "absent" => ~in[i].sender
    /\ \A o \in OutStreams : out[o].status = "absent" => ~out[o].sender
    /\ ~ticked /\ announced = 1 => Unsilent
    /\ activeSenders + announced = Cardinality(SendersIn) + Cardinality(SendersOut) + left

\* The data timeout is at most half of the SSRC timeout.
LEMMA TimeoutsOrdered ==
    ASSUME NEW td \in Nat, NEW ti \in Ti(td)
    PROVE  ti \in Nat /\ 2 * ti <= 5 * td
<1>1. PICK r \in Randoms : ti = (td * r) \div 100
  BY DEF Ti
<1>2. r \in 1 .. 123
  BY <1>1, TimingAssumption
<1>3. PICK n \in Nat : r + n = 123
  BY <1>2
<1>4. td * r + td * n = td * 123
  BY <1>2, <1>3
<1> DEFINE a == td * r
           b == td * n
<1>5. a \in Nat /\ b \in Nat /\ a + b = 123 * td
  BY <1>2, <1>4
<1> HIDE DEF a, b
<1>6. a \div 100 \in Nat /\ 100 * (a \div 100) <= a
  BY <1>5
<1> QED
  BY <1>1, <1>5, <1>6 DEF a

\* A session starts without senders.
LEMMA InitAccounted == Init => Accounted
<1> SUFFICES ASSUME Init PROVE Accounted
  OBVIOUS
<1>1. SendersIn = {} /\ SendersOut = {}
  BY DEF Init, SendersIn, SendersOut, Absent
<1>2. Cardinality(SendersIn) = 0 /\ Cardinality(SendersOut) = 0
  BY <1>1, FS_EmptySet
<1> DEFINE td == Td(1, 0, FALSE, TRUE)
<1>3. 0 \in Int /\ 1 \in Int
  OBVIOUS
<1>4. td \in Nat
  BY <1>3, AtLeastMinimum, Zenon
<1>5. ssrcTimeout = 5 * td /\ \E ti \in Ti(td) : dataTimeout = 2 * ti
  BY Zenon DEF Init, SsrcTimeout, DataTimeout
<1> HIDE DEF td
<1>6. dataTimeout \in Nat /\ dataTimeout <= ssrcTimeout
  BY <1>4, <1>5, TimeoutsOrdered
<1>7. activeSenders = 0 /\ announced = 0 /\ left = 0 /\ ticked = TRUE
  BY Zenon DEF Init
<1>8. out = [o \in OutStreams |-> [status |-> "active", sender |-> FALSE, fresh |-> FALSE]]
      /\ in = [i \in Peers |-> Absent]
  BY Zenon DEF Init
<1> QED
  BY <1>2, <1>6, <1>7, <1>8 DEF Accounted, Statuses, Absent

\* Steps that change neither a sender flag nor the count.
LEMMA FlagsKept ==
    ASSUME Accounted,
           UNCHANGED <<activeSenders, announced, left, dataTimeout, ssrcTimeout>>,
           out' \in [OutStreams -> [status : Statuses, sender : BOOLEAN, fresh : BOOLEAN]],
           \A i \in Peers : in'[i].sender = in[i].sender,
           \A o \in OutStreams : out'[o].sender = out[o].sender,
           \A i \in Peers : in'[i].status = "absent" => in[i].status = "absent",
           \A o \in OutStreams : out'[o].status = "absent" => out[o].status = "absent",
           ticked' \in BOOLEAN,
           ~ticked' /\ announced' = 1 => Unsilent'
    PROVE  Accounted'
<1>1. SendersIn' = SendersIn /\ SendersOut' = SendersOut
  BY DEF SendersIn, SendersOut
<1> QED
  BY <1>1 DEF Accounted

\* A data packet marks the stream, and announces it if it was not marked.
LEMMA OnRecvDataAccounted ==
    ASSUME Alive, Accounted, NEW p \in Peers, OnRecvData(p)
    PROVE  Accounted'
<1> DEFINE s == IF in[p].status = "absent" THEN NewStreamIn ELSE in[p]
           new == [s EXCEPT !.sender = TRUE, !.rtp = 0]
<1>1. in' = [in EXCEPT ![p] = new] /\ Heard(p)
  BY DEF OnRecvData
<1>2. UNCHANGED <<activeSenders, left, dataTimeout, ssrcTimeout, out, ticked>>
  BY DEF OnRecvData, schedule
<1>3. in \in [Peers -> Input]
  BY DEF Alive
<1>4. new \in Input /\ new.sender = TRUE /\ new.rtp = 0 /\ new.status = "active"
  BY <1>1, <1>3, TimingAssumption, Zenon DEF NewStreamIn, Absent, Input, Statuses, Alive, Heard
<1>5. \/ in[p].sender = TRUE /\ announced' = announced
      \/ in[p].sender = FALSE /\ announced = 0 /\ announced' = 1
  <2>1. CASE in[p].status = "absent"
    <3>1. in[p].sender = FALSE
      BY <1>3, <2>1 DEF Accounted, Input
    <3> QED
      BY <1>1, <2>1, <3>1 DEF Heard, Announce, Absent
  <2>2. CASE in[p].status # "absent"
    BY <1>1, <1>3, <2>2 DEF Heard, Announce, Input
  <2> QED
    BY <2>1, <2>2, Zenon
<1> HIDE DEF new
<1>6. SendersIn' = SendersIn \cup {p} /\ (p \in SendersIn <=> in[p].sender = TRUE)
  BY <1>1, <1>3, <1>4 DEF SendersIn, Input
<1>7. SendersOut' = SendersOut
  BY <1>2 DEF SendersOut
<1>8. Cardinality(SendersIn') = IF p \in SendersIn THEN Cardinality(SendersIn)
                                                   ELSE Cardinality(SendersIn) + 1
  BY <1>6, SendersSum, FS_AddElement, Zenon
<1>9. Unsilent'
  BY <1>1, <1>3, <1>4, <1>6 DEF Unsilent
<1>10. \A i \in Peers : in'[i].status = "absent" => ~in'[i].sender
  BY <1>1, <1>3, <1>4 DEF Accounted
<1>11. activeSenders' + announced'
         = Cardinality(SendersIn') + Cardinality(SendersOut') + left'
  BY <1>2, <1>5, <1>6, <1>7, <1>8, SendersSum DEF Accounted
<1> QED
  BY <1>2, <1>5, <1>9, <1>10, <1>11 DEF Accounted

\* Writing data marks and announces an output stream in the same way.
LEMMA WriteDataAccounted ==
    ASSUME Accounted, NEW p \in OutStreams, WriteData(p)
    PROVE  Accounted'
<1> DEFINE Out == [status : Statuses, sender : BOOLEAN, fresh : BOOLEAN]
<1>1. /\ out' = [out EXCEPT ![p].sender = TRUE, ![p].fresh = TRUE]
      /\ out[p].status = "active" /\ Announce(out[p])
  BY DEF WriteData
<1>2. UNCHANGED <<activeSenders, left, dataTimeout, ssrcTimeout, in, ticked>>
  BY DEF WriteData, schedule
<1>3. out \in [OutStreams -> Out]
  BY DEF Accounted
<1>4. /\ out' \in [OutStreams -> Out]
      /\ out'[p].sender = TRUE /\ out'[p].fresh = TRUE /\ out'[p].status = "active"
      /\ \A o \in OutStreams \ {p} : out'[o] = out[o]
  BY <1>1, <1>3, Zenon
<1>5. \/ out[p].sender = TRUE /\ announced' = announced
      \/ out[p].sender = FALSE /\ announced = 0 /\ announced' = 1
  BY <1>1, <1>3 DEF Announce
<1>6. SendersOut' = SendersOut \cup {p} /\ (p \in SendersOut <=> out[p].sender = TRUE)
  BY <1>3, <1>4 DEF SendersOut
<1>7. SendersIn' = SendersIn
  BY <1>2 DEF SendersIn
<1>8. Cardinality(SendersOut') = IF p \in SendersOut THEN Cardinality(SendersOut)
                                                     ELSE Cardinality(SendersOut) + 1
  BY <1>6, SendersSum, FS_AddElement, Zenon
<1>9. Unsilent'
  BY <1>4, <1>6 DEF Unsilent
<1>10. \A o \in OutStreams : out'[o].status = "absent" => ~out'[o].sender
  BY <1>4 DEF Accounted
<1>11. activeSenders' + announced'
         = Cardinality(SendersIn') + Cardinality(SendersOut') + left'
  BY <1>2, <1>5, <1>6, <1>7, <1>8, SendersSum DEF Accounted
<1> QED
  BY <1>2, <1>4, <1>5, <1>9, <1>10, <1>11 DEF Accounted

\* Reports, BYEs and a closing output stream leave the flags as they are.
LEMMA OthersAccounted ==
    ASSUME Alive, Accounted,
           \/ \E i \in Peers : PeerReports(i) \/ PeerLeaves(i)
           \/ \E o \in OutStreams : SsrcStreamClose(o)
           \/ ByeHurries \/ Elapse
           \/ UNCHANGED vars
    PROVE  Accounted'
<1> DEFINE Out == [status : Statuses, sender : BOOLEAN, fresh : BOOLEAN]
<1>1. in \in [Peers -> Input] /\ out \in [OutStreams -> Out]
  BY DEF Alive, Accounted
<1>2. ASSUME NEW p \in Peers, PeerReports(p) \/ PeerLeaves(p) PROVE Accounted'
  <2>1. UNCHANGED <<activeSenders, announced, left, dataTimeout, ssrcTimeout, out, ticked>>
    BY <1>2, Zenon DEF PeerReports, PeerLeaves, schedule
  <2>2. \/ in' = in
        \/ in' = [in EXCEPT ![p] = Known(p)]
        \/ in' = [in EXCEPT ![p] = [Known(p) EXCEPT !.status = "isClosing", !.rtp = Never]]
    BY <1>2, Zenon DEF PeerReports, PeerLeaves
  <2>3. in[p].status = "absent" => in[p].sender = FALSE
    BY <1>1 DEF Accounted, Input
  <2>4. /\ Known(p).sender = in[p].sender /\ Known(p) \in Input
        /\ in[p].status # "absent" =>
              Known(p).rtp = in[p].rtp /\ Known(p).status = in[p].status
        /\ in[p].status = "absent" => Known(p).status = "active"
    <3>1. in[p] \in Input
      BY <1>1
    <3>2. CASE in[p].status = "absent"
      BY <2>3, <3>2, TimingAssumption, Zenon DEF Known, NewStreamIn, Absent, Input, Statuses, Alive
    <3>3. CASE in[p].status # "absent"
      BY <3>1, <3>3 DEF Known, Input
    <3> QED
      BY <3>2, <3>3
  <2>5. /\ \A i \in Peers : in'[i].sender = in[i].sender
        /\ \A i \in Peers : in'[i].status = "absent" => in[i].status = "absent"
        /\ \A i \in Peers : in[i].status # "absent" =>
              \/ in'[i].status # "active"
              \/ in'[i].rtp = in[i].rtp /\ in'[i].status = in[i].status
    <3>1. \A i \in Peers \ {p} : in'[i] = in[i]
      BY <1>1, <2>2
    <3>2. CASE in' = in
      BY <3>2
    <3>3. CASE in' = [in EXCEPT ![p] = Known(p)]
      <4>1. in'[p] = Known(p)
        BY <1>1, <3>3
      <4>2. Known(p).status = "absent" => in[p].status = "absent"
        BY <2>4
      <4> QED
        BY <2>4, <3>1, <4>1, <4>2
    <3>4. CASE in' = [in EXCEPT ![p] = [Known(p) EXCEPT !.status = "isClosing", !.rtp = Never]]
      <4>1. in'[p] = [Known(p) EXCEPT !.status = "isClosing", !.rtp = Never]
        BY <1>1, <3>4
      <4>2. in'[p].sender = in[p].sender /\ in'[p].status = "isClosing"
        BY <2>4, <4>1 DEF Input
      <4> QED
        BY <3>1, <4>2
    <3> QED
      BY <2>2, <3>2, <3>3, <3>4
  <2>6. Unsilent => Unsilent'
    <3>1. SendersIn' = SendersIn /\ SendersOut' = SendersOut
      BY <2>1, <2>5 DEF SendersIn, SendersOut
    <3>2. \A i \in SendersIn : i \in Peers /\ in[i].status # "absent"
      BY DEF SendersIn, Accounted
    <3> QED
      BY <2>1, <2>5, <3>1, <3>2 DEF Unsilent
  <2> QED
    BY <1>1, <2>1, <2>5, <2>6, FlagsKept, Zenon DEF Accounted
<1>3. ASSUME NEW p \in OutStreams, SsrcStreamClose(p) PROVE Accounted'
  <2>1. UNCHANGED <<activeSenders, announced, left, dataTimeout, ssrcTimeout, in, ticked>>
        /\ out' = [out EXCEPT ![p].status = "isClosing"]
    BY <1>3 DEF SsrcStreamClose, schedule
  <2>2. /\ out' \in [OutStreams -> Out]
        /\ out'[p].status = "isClosing" /\ out'[p].sender = out[p].sender
        /\ \A o \in OutStreams \ {p} : out'[o] = out[o]
    BY <1>1, <2>1 DEF Statuses
  <2>3. Unsilent => Unsilent'
    BY <2>1, <2>2 DEF Unsilent, SendersIn, SendersOut
  <2> QED
    BY <2>1, <2>2, <2>3, FlagsKept DEF Accounted
<1>4. CASE ByeHurries \/ UNCHANGED vars
  <2>1. UNCHANGED <<activeSenders, announced, left, dataTimeout, ssrcTimeout, in, out, ticked>>
    BY <1>4 DEF ByeHurries, vars
  <2> QED
    BY <1>1, <2>1, FlagsKept DEF Accounted, Unsilent, SendersIn, SendersOut
<1>5. CASE Elapse
  <2>1. UNCHANGED <<activeSenders, announced, left, dataTimeout, ssrcTimeout, out>>
        /\ announced = 0 /\ ticked' = FALSE /\ in' = [i \in Peers |-> Older(in[i])]
    BY <1>5 DEF Elapse
  <2>2. \A i \in Peers : in'[i].sender = in[i].sender /\ in'[i].status = in[i].status
    BY <1>1, <2>1, Zenon DEF Older, Input
  <2>3. announced' # 1
    BY <2>1
  <2>4. ticked' \in BOOLEAN /\ out' \in [OutStreams -> Out]
    BY <1>1, <2>1, Zenon
  <2> QED
    BY <2>1, <2>2, <2>3, <2>4, FlagsKept
<1> QED
  BY <1>2, <1>3, <1>4, <1>5

\* The service counts an announced sender.
LEMMA CommandAccounted == Accounted /\ ReceiveCommand => Accounted'
<1> SUFFICES ASSUME Accounted, ReceiveCommand PROVE Accounted'
  OBVIOUS
<1>1. /\ UNCHANGED <<left, dataTimeout, ssrcTimeout, in, out, ticked>>
      /\ announced > 0 /\ announced' = announced - 1
      /\ activeSenders' = activeSenders + 1
  BY DEF ReceiveCommand, schedule
<1>2. SendersIn' = SendersIn /\ SendersOut' = SendersOut
  BY <1>1 DEF SendersIn, SendersOut
<1>3. /\ activeSenders' \in Nat /\ announced' = 0
      /\ activeSenders' + announced' = activeSenders + announced
  BY <1>1 DEF Accounted
<1>4. announced' \in 0 .. 1 /\ ~(~ticked' /\ announced' = 1)
  BY <1>3
<1>5. activeSenders' + announced' =
          Cardinality(SendersIn') + Cardinality(SendersOut') + left'
  BY <1>1, <1>2, <1>3 DEF Accounted
<1>6. /\ out' \in [OutStreams -> [status : Statuses, sender : BOOLEAN, fresh : BOOLEAN]]
      /\ left' \in Nat /\ ticked' \in BOOLEAN
      /\ dataTimeout' \in Nat /\ dataTimeout' <= ssrcTimeout'
      /\ \A i \in Peers : in'[i].status = "absent" => ~in'[i].sender
      /\ \A o \in OutStreams : out'[o].status = "absent" => ~out'[o].sender
  BY <1>1, Zenon DEF Accounted
<1> QED
  BY <1>3, <1>4, <1>5, <1>6 DEF Accounted

\* The pass of rtcpService takes from the count the senders that fall silent:
\* no stream leaves with the flag but the output streams it deletes.
LEMMA PassAccounted ==
    ASSUME Alive, Accounted, Pass, ~ticked, ticked' = TRUE, announced' = announced
    PROVE  Accounted'
<1> DEFINE Out == [status : Statuses, sender : BOOLEAN, fresh : BOOLEAN]
<1>1. in \in [Peers -> Input] /\ out \in [OutStreams -> Out]
      /\ dataTimeout \in Nat /\ ssrcTimeout \in Int /\ dataTimeout <= ssrcTimeout
      /\ activeSenders \in Nat /\ announced \in 0 .. 1 /\ left \in Nat
  BY DEF Alive, Accounted
<1>2. PICK idle \in SUBSET Idle :
        LET outs == [o \in OutStreams |-> OutputAfter(o, idle)]
            lost == Cardinality(SilentInputs) + Cardinality(idle)
        IN  /\ in' = [i \in Peers |-> InputAfter(in[i])]
            /\ out' = outs
            /\ activeSenders' = MaxOf(0, activeSenders - lost)
            /\ left' = left + Cardinality({o \in OutStreams :
                          out[o].sender /\ outs[o].status = "absent"})
  BY Zenon DEF Pass
<1> DEFINE leaving == {o \in OutStreams : out[o].sender /\ out'[o].status = "absent"}
<1>3. /\ in' = [i \in Peers |-> InputAfter(in[i])]
      /\ out' = [o \in OutStreams |-> OutputAfter(o, idle)]
      /\ activeSenders' = MaxOf(0, activeSenders - (Cardinality(SilentInputs) + Cardinality(idle)))
      /\ left' = left + Cardinality(leaving)
  BY <1>2
<1>4. ASSUME NEW i \in Peers
      PROVE  /\ in'[i].sender = (in[i].sender /\ i \notin SilentInputs)
             /\ in'[i].status = "absent" => in'[i].sender = FALSE
  <2>1. in'[i] = InputAfter(in[i]) /\ in[i] \in Input
    BY <1>1, <1>3
  <2>2. i \in SilentInputs <=> in[i].status = "active" /\ in[i].sender
                                 /\ in[i].rtp > dataTimeout
    BY DEF SilentInputs, Silent
  <2>3. CASE in[i].status = "active" /\ TimedOut(in[i])
    <3>1. in[i].rtp > dataTimeout
      BY <1>1, <2>1, <2>3 DEF TimedOut, MinOf, Input
    <3>2. in'[i] = Absent
      BY <2>1, <2>3 DEF InputAfter
    <3>3. in'[i].sender = FALSE
      BY <3>2 DEF Absent
    <3>4. ~(in[i].sender /\ i \notin SilentInputs)
      BY <2>2, <2>3, <3>1
    <3> QED
      BY <3>3, <3>4, Zenon
  <2>4. CASE in[i].status = "active" /\ ~TimedOut(in[i])
    <3>1. in'[i] = [in[i] EXCEPT !.sender = in[i].sender /\ ~Silent(in[i])]
      BY <2>1, <2>4 DEF InputAfter
    <3>2. in'[i].sender = (in[i].sender /\ ~Silent(in[i])) /\ in'[i].status = "active"
      BY <2>1, <2>4, <3>1 DEF Input
    <3>3. i \in SilentInputs <=> Silent(in[i])
      BY <2>4 DEF SilentInputs
    <3> QED
      BY <3>2, <3>3, Zenon
  <2>5. CASE in[i].status # "active"
    <3>1. in'[i].sender = in[i].sender /\ i \notin SilentInputs
      BY <2>1, <2>2, <2>5 DEF InputAfter, Input
    <3>2. in'[i].status = "absent" => in[i].status = "absent"
      BY <2>1, <2>5 DEF InputAfter, Input
    <3>3. in[i].sender \in BOOLEAN
      BY <2>1 DEF Input
    <3> QED
      BY <3>1, <3>2, <3>3 DEF Accounted
  <2> QED
    BY <2>3, <2>4, <2>5, Zenon
<1>5. ASSUME NEW o \in OutStreams
      PROVE  /\ out'[o] \in Out
             /\ out'[o].status = "absent" => out'[o].sender = FALSE
             /\ out'[o].sender = (out[o].sender /\ o \notin idle /\ o \notin leaving)
             /\ o \in idle => out[o].sender /\ out[o].status = "active" /\ ~out[o].fresh
                              /\ o \notin leaving
  <2>1. out'[o] = OutputAfter(o, idle) /\ out[o] \in Out
    BY <1>1, <1>3
  <2>2. o \in idle => out[o].sender /\ out[o].status = "active" /\ ~out[o].fresh
                      /\ o \notin Deleted
    BY DEF Idle
  <2>3. o \in leaving <=> out[o].sender /\ out'[o].status = "absent"
    OBVIOUS
  <2>4. CASE o \in Deleted \/ out[o].status \in {"isClosed", "absent"}
    <3>1. out'[o] = [status |-> "absent", sender |-> FALSE, fresh |-> FALSE]
      BY <2>1, <2>4 DEF OutputAfter
    <3>2. o \notin idle
      BY <2>2, <2>4
    <3>3. out'[o].sender = FALSE /\ out'[o].status = "absent" /\ out'[o] \in Out
      BY <3>1 DEF Statuses
    <3>4. ~(out[o].sender /\ o \notin idle /\ o \notin leaving)
      BY <2>3, <3>3
    <3> QED
      BY <3>2, <3>3, <3>4, Zenon
  <2>5. CASE o \notin Deleted /\ out[o].status = "active"
    <3>1. out'[o] = [out[o] EXCEPT !.sender = out[o].sender /\ o \notin idle, !.fresh = FALSE]
      BY <2>1, <2>5 DEF OutputAfter
    <3>2. /\ out'[o].sender = (out[o].sender /\ o \notin idle)
          /\ out'[o].status = "active" /\ out'[o] \in Out
      BY <2>1, <2>5, <3>1, Zenon
    <3> QED
      BY <2>2, <2>3, <3>2
  <2>6. CASE o \notin Deleted /\ out[o].status \notin {"active", "isClosed", "absent"}
    <3>1. out'[o] = [out[o] EXCEPT !.status = "isClosed", !.fresh = FALSE]
      BY <2>1, <2>6 DEF OutputAfter
    <3>2. /\ out'[o].sender = out[o].sender /\ out'[o].status = "isClosed"
          /\ out'[o] \in Out
      BY <2>1, <3>1, Zenon DEF Statuses
    <3> QED
      BY <2>1, <2>2, <2>3, <2>6, <3>2
  <2> QED
    BY <2>4, <2>5, <2>6, Zenon
<1>6. SendersIn' = SendersIn \ SilentInputs /\ SilentInputs \subseteq SendersIn
  BY <1>4, Zenon DEF SendersIn, SilentInputs, Silent
<1>7. /\ SendersOut' = SendersOut \ (idle \cup leaving)
      /\ idle \subseteq SendersOut /\ leaving \subseteq SendersOut
      /\ idle \cap leaving = {}
  <2>1. idle \subseteq OutStreams
    BY DEF Idle
  <2> HIDE DEF leaving
  <2>2. idle \subseteq SendersOut /\ idle \cap leaving = {}
    BY <1>5, <2>1, Zenon DEF SendersOut
  <2>3. leaving \subseteq SendersOut
    BY DEF SendersOut, leaving
  <2> QED
    BY <1>5, <2>2, <2>3, Zenon DEF SendersOut
<1> DEFINE nI == Cardinality(SendersIn)    nS == Cardinality(SilentInputs)
           nO == Cardinality(SendersOut)   nD == Cardinality(idle)
           nL == Cardinality(leaving)
<1> HIDE DEF leaving
<1>8. /\ nI \in Nat /\ nO \in Nat /\ nS \in Nat /\ nD \in Nat /\ nL \in Nat
      /\ nS <= nI /\ nD <= nO
      /\ SilentInputs # SendersIn => nS # nI
      /\ idle # SendersOut => nD # nO
  <2>1. IsFiniteSet(SendersIn) /\ IsFiniteSet(SendersOut)
    BY SendersSum
  <2>2. IsFiniteSet(SilentInputs) /\ IsFiniteSet(idle) /\ IsFiniteSet(leaving)
    BY <1>6, <1>7, <2>1, FS_Subset
  <2>3. /\ nS <= nI /\ (nI = nS => SendersIn = SilentInputs)
        /\ nD <= nO /\ (nO = nD => SendersOut = idle)
    BY <1>6, <1>7, <2>1, FS_Subset
  <2> QED
    BY <2>1, <2>2, <2>3, FS_CardinalityType
<1>9. Cardinality(SendersIn') = nI - nS
  <2>1. Cardinality(SendersIn \ SilentInputs) = nI - Cardinality(SendersIn \cap SilentInputs)
    BY SendersSum, FS_Difference, Zenon
  <2>2. SendersIn \cap SilentInputs = SilentInputs
    BY <1>6
  <2> QED
    BY <1>6, <2>1, <2>2
<1>10. Cardinality(SendersOut') = nO - (nD + nL)
  <2>1. IsFiniteSet(SendersOut) /\ IsFiniteSet(idle) /\ IsFiniteSet(leaving)
    BY <1>7, SendersSum, FS_Subset
  <2>2. Cardinality(idle \cup leaving) = nD + nL - Cardinality(idle \cap leaving)
    BY <2>1, FS_Union
  <2>3. Cardinality(idle \cup leaving) = nD + nL
    BY <1>7, <1>8, <2>2, FS_EmptySet
  <2>4. Cardinality(SendersOut \ (idle \cup leaving))
          = nO - Cardinality(SendersOut \cap (idle \cup leaving))
    BY <2>1, FS_Difference, Zenon
  <2>5. SendersOut \cap (idle \cup leaving) = idle \cup leaving
    BY <1>7
  <2> QED
    BY <1>7, <2>3, <2>4, <2>5
<1>11. activeSenders + announced = nI + nO + left
  BY DEF Accounted
<1>12. ASSUME announced = 1 PROVE nS + nD < nI + nO
  <2>1. Unsilent
    BY <1>12 DEF Accounted
  <2>2. CASE \E i \in SendersIn : in[i].status # "active" \/ in[i].rtp = 0
    <3>1. PICK i \in SendersIn : in[i].status # "active" \/ in[i].rtp = 0
      BY <2>2
    <3>2. i \notin SilentInputs
      BY <1>1, <3>1 DEF SilentInputs, Silent
    <3> HIDE DEF nI, nS, nO, nD
    <3> QED
      BY <1>8, <3>1, <3>2
  <2>3. CASE \E o \in SendersOut : out[o].status # "active" \/ out[o].fresh
    <3>1. PICK o \in SendersOut : out[o].status # "active" \/ out[o].fresh
      BY <2>3
    <3>2. o \notin idle
      BY <1>5, <3>1, Zenon DEF SendersOut
    <3> HIDE DEF nI, nS, nO, nD
    <3> QED
      BY <1>8, <3>1, <3>2
  <2> QED
    BY <2>1, <2>2, <2>3 DEF Unsilent
<1> HIDE DEF nI, nS, nO, nD, nL
<1>13. activeSenders - (nS + nD) \in Nat
  <2>1. CASE announced = 0
    BY <1>1, <1>8, <1>11, <2>1
  <2>2. CASE announced = 1
    BY <1>1, <1>8, <1>11, <1>12, <2>2
  <2> QED
    BY <1>1, <2>1, <2>2
<1>14. activeSenders' = activeSenders - (nS + nD) /\ left' = left + nL
  <2>1. activeSenders' = MaxOf(0, activeSenders - (nS + nD)) /\ left' = left + nL
    BY <1>3 DEF nS, nD, nL
  <2> QED
    BY <1>13, <2>1 DEF MaxOf
<1>15. /\ activeSenders' \in Nat /\ left' \in Nat
       /\ activeSenders' + announced'
             = Cardinality(SendersIn') + Cardinality(SendersOut') + left'
  BY <1>1, <1>8, <1>9, <1>10, <1>11, <1>13, <1>14
<1>16. dataTimeout' \in Nat /\ dataTimeout' <= ssrcTimeout'
  <2>1. \/ UNCHANGED <<dataTimeout, ssrcTimeout>>
        \/ \E td \in Nat : \E ti \in Ti(td) :
              ssrcTimeout' = 5 * td /\ dataTimeout' = 2 * ti
    BY PassReports
  <2> QED
    BY <1>1, <2>1, TimeoutsOrdered
<1>17. out' \in [OutStreams -> Out]
  BY <1>3, <1>5, Zenon
<1> QED
  BY <1>1, <1>4, <1>5, <1>15, <1>16, <1>17, Zenon DEF Accounted

\* No step of the service, of the receivers or of the application breaks the
\* account of senders.
LEMMA NextAccounted == Alive /\ Accounted /\ [Next]_vars => Accounted'
<1> SUFFICES ASSUME Alive, Accounted, [Next]_vars PROVE Accounted'
  OBVIOUS
<1>1. CASE Tick
  <2>1. ~ticked /\ ticked' = TRUE /\ announced' = announced
    BY <1>1 DEF Tick
  <2>2. CASE Due
    BY <1>1, <2>1, <2>2, PassAccounted DEF Tick
  <2>3. CASE ~Due
    <3>1. UNCHANGED <<activeSenders, left, dataTimeout, ssrcTimeout, in, out>>
      BY <1>1, <2>3 DEF Tick
    <3> QED
      BY <2>1, <3>1, FlagsKept DEF Accounted
  <2> QED
    BY <2>2, <2>3
<1>2. ASSUME NEW p \in Peers, OnRecvData(p) PROVE Accounted'
  BY <1>2, OnRecvDataAccounted
<1>3. ASSUME NEW o \in OutStreams, WriteData(o) PROVE Accounted'
  BY <1>3, WriteDataAccounted
<1>4. CASE ReceiveCommand
  BY <1>4, CommandAccounted
<1> QED
  BY <1>1, <1>2, <1>3, <1>4, OthersAccounted DEF Next, System

\* The number of senders that rtcpInterval is given is that of the streams
\* with the flag and of the output streams deleted with it, for any number
\* of streams and peers and any intervals.
THEOREM SendersRight == Spec => []SendersAccounted
<1>1. Accounted => SendersAccounted
  <2> SUFFICES ASSUME Accounted PROVE SendersAccounted
    OBVIOUS
  <2> QED
    BY SendersSum DEF Accounted, SendersAccounted
<1> QED
  BY <1>1, InitAlive, NextAlive, InitAccounted, NextAccounted, PTL DEF Spec

-----------------------------------------------------------------------------
(* Types.  What is not in the invariants above: the schedule, the indices    *)
(* of the input streams and their times, and what a BYE has read.            *)

Stream == [status : Statuses, idx : 0 .. NumOut, sender : BOOLEAN,
           rtp : 0 .. Never, rtcp : 0 .. Never]

Scheduled ==
    /\ wait \in Nat
    /\ started \in BOOLEAN /\ weSent \in BOOLEAN /\ hurried \in BOOLEAN
    /\ bye \in {None} \cup [pmembers : Nat \ {0}, wait : Nat]

Indexed ==
    /\ in \in [Peers -> Stream]
    /\ inIndex \in 0 .. NumOut

Typed == Scheduled /\ Indexed

\* The number of members is natural, and positive if a peer is one of them.
LEMMA MembersCounted ==
    /\ Members \in Nat
    /\ \A i \in Peers : in[i].status # "absent" => Members # 0
<1> DEFINE O == {o \in OutStreams : out[o].status # "absent"}
           I == {i \in Peers : in[i].status # "absent"}
<1>1. IsFiniteSet(OutStreams) /\ IsFiniteSet(Peers)
  BY TimingAssumption, FS_Interval DEF OutStreams
<1>2. IsFiniteSet(O) /\ IsFiniteSet(I)
  <2>1. O \subseteq OutStreams /\ I \subseteq Peers OBVIOUS
  <2> QED BY <1>1, <2>1, FS_Subset
<1>3. Cardinality(O) \in Nat /\ Cardinality(I) \in Nat
  BY <1>2, FS_CardinalityType
<1>4. Members = Cardinality(O) + Cardinality(I) BY DEF Members
<1>5. ASSUME NEW i \in Peers, in[i].status # "absent" PROVE Cardinality(I) # 0
  <2>1. i \in I BY <1>5
  <2> QED BY <1>2, <2>1, FS_EmptySet
<1> HIDE DEF O, I
<1> QED BY <1>3, <1>4, <1>5

\* The time that a BYE leaves until the next report is natural: at least one
\* member is left to divide by.
LEMMA RecomputedNatural ==
    ASSUME bye \in [pmembers : Nat \ {0}, wait : Nat]
    PROVE  Recomputed \in Nat
<1>1. PICK m \in Nat, w \in Nat : m # 0 /\ m = bye.pmembers /\ w = bye.wait
  OBVIOUS
<1>2. PICK a \in Nat : a = (m - 1) * w
  <2>1. m - 1 \in Nat BY <1>1
  <2> QED BY <2>1
<1>3. a \div m \in Nat BY <1>1
<1> QED BY <1>1, <1>2, <1>3 DEF Recomputed

\* StartSession, with the first interval drawn.
LEMMA InitTyped == Init => Typed
<1> SUFFICES ASSUME Init PROVE Typed OBVIOUS
<1> DEFINE td == Td(1, 0, FALSE, TRUE)
<1>1. 0 \in Int /\ 1 \in Int OBVIOUS
<1>2. td \in Nat BY <1>1, AtLeastMinimum, Zenon
<1>3. \E ti \in Ti(td) : wait = ti BY Zenon DEF Init
<1> HIDE DEF td
<1>4. wait \in Nat BY <1>2, <1>3, DrawnInterval
<1>5. Scheduled BY <1>4, Zenon DEF Init, Scheduled
<1>6. Absent \in Stream
  BY TimingAssumption DEF Absent, Stream, Statuses
<1>7. in = [i \in Peers |-> Absent] /\ inIndex = 0 BY DEF Init
<1>8. Indexed BY <1>6, <1>7, TimingAssumption DEF Indexed
<1> QED BY <1>5, <1>8 DEF Typed

\* A pass of the service sets its flags to truth values.
LEMMA PassFlags ==
    ASSUME Scheduled, Pass
    PROVE  started' \in BOOLEAN /\ weSent' \in BOOLEAN /\ hurried' \in BOOLEAN
<1>1. weSent' \in BOOLEAN BY Zenon DEF Pass
<1>2. (started' = started /\ hurried' = hurried)
      \/ (started' = FALSE /\ hurried' = (bye # None))
  BY Zenon DEF Pass
<1>3. (bye # None) \in BOOLEAN BY Zenon
<1>4. CASE started' = started /\ hurried' = hurried
  BY <1>1, <1>4, Zenon DEF Scheduled
<1>5. CASE started' = FALSE /\ hurried' = (bye # None)
  BY <1>1, <1>3, <1>5, Zenon
<1> QED BY <1>2, <1>4, <1>5, Zenon

\* Every step keeps the schedule, and a BYE leaves at least one member to
\* divide by.
LEMMA NextScheduled ==
    ASSUME Alive, Scheduled, [Next]_vars
    PROVE  Scheduled'
<1>1. CASE Tick
  <2>1. bye' = bye BY <1>1 DEF Tick
  <2>2. CASE ~Due
    BY <1>1, <2>1, <2>2, Zenon DEF Tick, Scheduled
  <2>3. CASE Due
    <3>1. Pass BY <1>1, <2>3 DEF Tick
    <3>2. wait' \in Nat
      <4>1. ASSUME NEW td \in Nat, \E ti \in Ti(td) : wait' = ti
            PROVE  wait' \in Nat
        BY <4>1, DrawnInterval, Zenon
      <4>2. wait' = wait \/ \E td \in Nat : \E ti \in Ti(td) : wait' = ti
        BY <3>1, PassReports, Zenon
      <4> QED BY <4>1, <4>2, Zenon DEF Scheduled
    <3>3. started' \in BOOLEAN /\ weSent' \in BOOLEAN /\ hurried' \in BOOLEAN
      BY <3>1, PassFlags
    <3> QED BY <2>1, <3>2, <3>3, Zenon DEF Scheduled
  <2> QED BY <2>2, <2>3
<1>2. CASE Elapse
  <2>1. /\ bye' = bye /\ started' = started /\ hurried' = hurried /\ weSent' = weSent
        /\ wait' = MaxOf(0, wait - 1)
    BY <1>2 DEF Elapse
  <2>2. wait' \in Nat BY <2>1 DEF Scheduled, MaxOf
  <2> QED BY <2>1, <2>2, Zenon DEF Scheduled
<1>3. CASE ByeHurries
  <2>1. /\ bye # None /\ bye' = None /\ wait' = Recomputed
        /\ started' = started /\ hurried' = hurried /\ weSent' = weSent
    BY <1>3 DEF ByeHurries
  <2>2. bye \in [pmembers : Nat \ {0}, wait : Nat]
    BY <2>1, Zenon DEF Scheduled
  <2>3. wait' \in Nat BY <2>1, <2>2, RecomputedNatural
  <2> QED BY <2>1, <2>3, Zenon DEF Scheduled
<1>4. ASSUME NEW i \in Peers, PeerLeaves(i) PROVE Scheduled'
  <2>1. UNCHANGED <<wait, started, weSent>>
    BY <1>4, Zenon DEF PeerLeaves, schedule
  <2>2. CASE UNCHANGED <<bye, hurried>>
    BY <2>1, <2>2, Zenon DEF Scheduled
  <2>3. CASE /\ SenderCheck(i) /\ hurried' = TRUE
             /\ bye' = [pmembers |-> IF in[i].status = "absent" THEN Members + 1
                                                                ELSE Members,
                        wait |-> wait]
    <3>1. PICK m : m = Members OBVIOUS
    <3>2. m \in Nat /\ (in[i].status # "absent" => m # 0)
      BY <3>1, MembersCounted
    <3>3. (IF in[i].status = "absent" THEN m + 1 ELSE m) \in Nat \ {0}
      BY <3>2
    <3>4. bye' \in [pmembers : Nat \ {0}, wait : Nat]
      BY <2>3, <3>1, <3>3 DEF Scheduled
    <3> QED BY <2>1, <2>3, <3>4, Zenon DEF Scheduled
  <2> QED BY <1>4, <2>2, <2>3, Zenon DEF PeerLeaves
<1>5. ASSUME NEW o \in OutStreams, WriteData(o) PROVE Scheduled'
  BY <1>5, Zenon DEF WriteData, schedule, Scheduled
<1>6. ASSUME \/ ReceiveCommand \/ UNCHANGED vars
             \/ \E i \in Peers : PeerReports(i) \/ OnRecvData(i)
             \/ \E o \in OutStreams : SsrcStreamClose(o)
      PROVE  Scheduled'
  <2>1. UNCHANGED <<wait, started, weSent, hurried, bye>>
    BY <1>6, Zenon DEF ReceiveCommand, vars, PeerReports, OnRecvData, SsrcStreamClose, schedule
  <2> QED BY <2>1, Zenon DEF Scheduled
<1> QED BY <1>1, <1>2, <1>3, <1>4, <1>5, <1>6 DEF Next, System

\* An input stream that a packet or report creates, or finds.
LEMMA FoundStream ==
    ASSUME Indexed, NEW i \in Peers
    PROVE  /\ Absent \in Stream /\ in[i] \in Stream
           /\ NewStreamIn \in Stream
           /\ Known(i) \in Stream
           /\ MinOf(inIndex + 1, NumOut) \in 0 .. NumOut
<1>1. NumOut \in Nat /\ Never \in Nat BY TimingAssumption
<1>2. Absent \in Stream BY <1>1 DEF Absent, Stream, Statuses
<1>3. in[i] \in Stream /\ inIndex \in 0 .. NumOut BY DEF Indexed
<1>4. NewStreamIn \in Stream BY <1>1, <1>2, <1>3, Zenon DEF NewStreamIn, Stream, Statuses
<1>5. 0 \in 0 .. Never BY <1>1
<1>6. Known(i) \in Stream
  <2>1. \A s \in Stream : [s EXCEPT !.rtcp = 0] \in Stream BY <1>5 DEF Stream
  <2> QED BY <1>3, <1>4, <2>1 DEF Known
<1>7. MinOf(inIndex + 1, NumOut) \in 0 .. NumOut BY <1>1, <1>3 DEF MinOf
<1> QED BY <1>2, <1>3, <1>4, <1>6, <1>7

\* Every step keeps the index and the times of an input stream in range.
LEMMA NextIndexed ==
    ASSUME Indexed, [Next]_vars
    PROVE  Indexed'
<1>1. NumOut \in Nat /\ Never \in Nat BY TimingAssumption
<1>2. in \in [Peers -> Stream] /\ inIndex \in 0 .. NumOut BY DEF Indexed
<1>3. CASE Tick
  <2>1. UNCHANGED inIndex BY <1>3 DEF Tick
  <2>2. CASE ~Due BY <1>3, <2>1, <2>2 DEF Tick, Indexed
  <2>3. CASE Due
    <3>1. in' = [i \in Peers |-> InputAfter(in[i])]
      BY <1>3, <2>3, Zenon DEF Tick, Pass
    <3>2. ASSUME NEW s \in Stream PROVE InputAfter(s) \in Stream
      <4>1. Absent \in Stream BY <1>1 DEF Absent, Stream, Statuses
      <4>2. CASE s.status = "active"
        <5>1. InputAfter(s) = IF TimedOut(s) THEN Absent
                              ELSE [s EXCEPT !.sender = @ /\ ~Silent(s)]
          BY <4>2 DEF InputAfter
        <5>2. [s EXCEPT !.sender = @ /\ ~Silent(s)] \in Stream
          <6>1. (s.sender /\ ~Silent(s)) \in BOOLEAN BY Zenon
          <6> QED BY <6>1, Zenon DEF Stream
        <5> QED BY <4>1, <5>1, <5>2
      <4>3. CASE s.status = "isClosing"
        BY <4>3 DEF InputAfter, Stream, Statuses
      <4>4. CASE s.status \notin {"active", "isClosing"}
        BY <4>4 DEF InputAfter
      <4> QED BY <4>2, <4>3, <4>4
    <3> QED BY <1>2, <2>1, <3>1, <3>2 DEF Indexed
  <2> QED BY <2>2, <2>3
<1>4. CASE Elapse
  <2>1. UNCHANGED inIndex /\ in' = [i \in Peers |-> Older(in[i])]
    BY <1>4 DEF Elapse
  <2>2. ASSUME NEW s \in Stream PROVE Older(s) \in Stream
    <3>1. \A n \in 0 .. Never : MinOf(Never, n + 1) \in 0 .. Never
      BY <1>1 DEF MinOf
    <3>2. s.rtp \in 0 .. Never /\ s.rtcp \in 0 .. Never BY DEF Stream
    <3>3. MinOf(Never, s.rtp + 1) \in 0 .. Never /\ MinOf(Never, s.rtcp + 1) \in 0 .. Never
      BY <3>1, <3>2
    <3> QED BY <3>3, Zenon DEF Older, Stream
  <2> QED BY <1>2, <2>1, <2>2 DEF Indexed
<1>5. ASSUME NEW i \in Peers, OnRecvData(i) PROVE Indexed'
  <2> DEFINE s == IF in[i].status = "absent" THEN NewStreamIn ELSE in[i]
  <2>1. in' = [in EXCEPT ![i] = [s EXCEPT !.sender = TRUE, !.rtp = 0]]
    BY <1>5 DEF OnRecvData
  <2>2. s \in Stream BY FoundStream
  <2> HIDE DEF s
  <2>3. [s EXCEPT !.sender = TRUE, !.rtp = 0] \in Stream
    <3>1. 0 \in 0 .. Never /\ TRUE \in BOOLEAN BY <1>1
    <3>2. \A r \in 0 .. Never : [s EXCEPT !.sender = TRUE, !.rtp = r] \in Stream
      BY <2>2, Zenon DEF Stream
    <3> QED BY <3>1, <3>2, Zenon
  <2>4. inIndex' \in 0 .. NumOut
    BY <1>2, <1>5, FoundStream DEF OnRecvData, Heard
  <2> QED BY <1>2, <2>1, <2>3, <2>4 DEF Indexed
<1>6. ASSUME NEW i \in Peers, PeerReports(i) PROVE Indexed'
  <2>1. CASE UNCHANGED <<in, inIndex>> BY <2>1 DEF Indexed
  <2>2. CASE SenderCheck(i) /\ in' = [in EXCEPT ![i] = Known(i)]
    <3>1. inIndex' \in 0 .. NumOut
      BY <1>2, <2>2, FoundStream DEF SenderCheck
    <3> QED BY <1>2, <2>2, <3>1, FoundStream DEF Indexed
  <2> QED BY <1>6, <2>1, <2>2 DEF PeerReports
<1>7. ASSUME NEW i \in Peers, PeerLeaves(i) PROVE Indexed'
  <2>1. CASE UNCHANGED <<in, inIndex>> BY <2>1 DEF Indexed
  <2>2. CASE /\ SenderCheck(i)
             /\ in' = [in EXCEPT ![i] = [Known(i) EXCEPT !.status = "isClosing",
                                                       !.rtp = Never]]
    <3>1. inIndex' \in 0 .. NumOut
      BY <1>2, <2>2, FoundStream DEF SenderCheck
    <3>2. [Known(i) EXCEPT !.status = "isClosing", !.rtp = Never] \in Stream
      <4>1. Never \in 0 .. Never BY <1>1
      <4>2. \A s \in Stream, r \in 0 .. Never :
               [s EXCEPT !.status = "isClosing", !.rtp = r] \in Stream
        BY Zenon DEF Stream, Statuses
      <4> QED BY <4>1, <4>2, FoundStream, Zenon
    <3> QED BY <1>2, <2>2, <3>1, <3>2 DEF Indexed
  <2> QED BY <1>7, <2>1, <2>2 DEF PeerLeaves
<1>8. ASSUME \/ ReceiveCommand \/ ByeHurries \/ UNCHANGED vars
             \/ \E o \in OutStreams : WriteData(o) \/ SsrcStreamClose(o)
      PROVE  Indexed'
  BY <1>8, Zenon DEF ReceiveCommand, ByeHurries, vars, WriteData, SsrcStreamClose, Indexed
<1> QED BY <1>3, <1>4, <1>5, <1>6, <1>7, <1>8 DEF Next, System

\* For any number of streams, interval and bandwidth: the times, counts and
\* indices stay in their ranges.  In particular a BYE that OnRecvCtrl handles
\* always finds a positive number of members to divide by, and the index of an
\* input stream is one that an output stream can have, or just beyond.
THEOREM TimingTyped == Spec => []TypeOK
<1>1. Typed /\ [Next]_vars /\ Alive => Typed'
  BY NextScheduled, NextIndexed DEF Typed
<1>2. Typed /\ Alive /\ Spacing /\ Accounted => TypeOK
  <2> SUFFICES ASSUME Typed, Alive, Spacing, Accounted PROVE TypeOK OBVIOUS
  <2>1. ssrcTimeout \in Nat BY DEF Alive, Accounted
  <2> QED
    BY <2>1, Zenon DEF Typed, Scheduled, Indexed, Stream, Statuses, Alive, Spacing,
                       Accounted, TypeOK
<1> QED
  BY <1>1, <1>2, InitTyped, InitAlive, NextAlive, InitSpacing, NextSpacing,
     InitAccounted, NextAccounted, PTL DEF Spec
=============================================================================
