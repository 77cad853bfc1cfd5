----------------------------- MODULE Reception -----------------------------
(***************************************************************************)
(* Reception statistics of one input stream (stream.go): the sequence      *)
(* number checks of recordReceptionData and the loss figures that          *)
(* makeRecvReport derives from them.  The remote sender numbers its        *)
(* packets start, start + 1, ... and puts the number modulo SeqMod in the  *)
(* packet; the network loses, delays, reorders and duplicates packets.     *)
(*                                                                         *)
(* The variables first, high, got, surplus and window are history: they    *)
(* speak of true packet numbers, which the receiver never sees.            *)
(***************************************************************************)
EXTENDS Integers, FiniteSets

CONSTANTS
    SeqMod,         \* seqNumMod: sequence numbers are uint16, 2^16
    MaxDropout,     \* maxDropout: 3000
    MaxMisorder,    \* maxMisorder: 100
    MinSequential,  \* minSequential: 0
    WordMod,        \* counters are uint32, 2^32
    Starts,         \* first packet numbers a sender may use
    MaxSent,        \* bound: packets one sender sends
    MaxCount        \* bound: packets the receiver accepts

ASSUME ReceptionAssumption ==
    /\ MaxDropout \in Nat \ {0}
    /\ MaxMisorder \in Nat \ {0}
    /\ SeqMod \in Nat
    /\ MaxDropout + MaxMisorder <= SeqMod
    /\ MinSequential = 0
    /\ WordMod \in Nat
    /\ Starts \subseteq Nat
    /\ MaxSent \in Nat
    /\ \A s \in Starts : s + MaxSent < WordMod
    /\ MaxCount \in Nat
    /\ MaxCount < WordMod

VARIABLES
    stats,                \* ctrlStatistics of the stream
    dataAfterLastReport,  \* an accepted packet since the last report
    start,                \* the sender's first packet number
    first,                \* history: first packet accepted
    high,                 \* history: highest packet accepted
    got,                  \* history: every packet number that arrived
    surplus,              \* history: accepted copies, and packets below first
    window                \* history: every arrival was near the highest

receptionVars == <<stats, dataAfterLastReport, start,
          first, high, got, surplus, window>>

-----------------------------------------------------------------------------
SeqNums == 0 .. SeqMod - 1

Stats == [probation : Int, maxSeqNum : SeqNums, baseSeqNum : SeqNums,
          badSeqNum : Nat, seqNumAccum : Nat, packetCount : Nat,
          expectedPrior : Nat, receivedPrior : Nat]

InitStats ==
    [probation |-> MinSequential, maxSeqNum |-> 0, baseSeqNum |-> 0,
     badSeqNum |-> SeqMod + 1, seqNumAccum |-> 0, packetCount |-> 0,
     expectedPrior |-> 0, receivedPrior |-> 0]

\* How far seq is ahead of the highest number, uint16 arithmetic.
Step(s, seq) == (seq - s.maxSeqNum) % SeqMod

InSequence(s, seq) == Step(s, seq) = 1
Ordered(s, seq) == Step(s, seq) < MaxDropout
TooHigh(s, seq) == ~Ordered(s, seq) /\ Step(s, seq) <= SeqMod - MaxMisorder

AcceptsNoLate(s, seq) ==   \* mutant: late packets are discarded
    Ordered(s, seq) \/ (TooHigh(s, seq) /\ s.packetCount = 0)

\* The packet is valid.  A source on probation needs minSequential packets
\* in sequence; otherwise a step that is too high is discarded unless it is
\* the second packet of a restarted source or the very first of the stream.
Accepts(s, seq) ==
    IF s.probation # 0
    THEN InSequence(s, seq) /\ s.probation = 1
    ELSE TooHigh(s, seq) => seq = s.badSeqNum \/ s.packetCount = 0

Probe(s, seq) ==
    [s EXCEPT !.probation = IF InSequence(s, seq) THEN @ - 1
                                                  ELSE MinSequential - 1,
              !.seqNumAccum = IF Accepts(s, seq) THEN 0 ELSE @,
              !.maxSeqNum = seq]

AdvanceNoWrap(s, seq) ==   \* mutant: forgets the wrap
    [s EXCEPT !.maxSeqNum = seq]

\* The next packet, or one after a gap that is small enough.
Advance(s, seq) ==
    [s EXCEPT !.maxSeqNum = seq,
              !.seqNumAccum = IF seq < s.maxSeqNum
                              THEN (@ + SeqMod) % WordMod ELSE @]

JumpSame(s, seq) ==   \* mutant: remembers the packet, not its successor
    IF seq = s.badSeqNum
    THEN [s EXCEPT !.maxSeqNum = seq, !.baseSeqNum = seq,
                   !.seqNumAccum = 0, !.badSeqNum = SeqMod + 1]
    ELSE [s EXCEPT !.badSeqNum = seq,
                   !.maxSeqNum = IF s.packetCount = 0 THEN seq ELSE @]

Jump(s, seq) ==
    IF seq = s.badSeqNum
    THEN [s EXCEPT !.maxSeqNum = seq, !.baseSeqNum = seq,
                   !.seqNumAccum = 0, !.badSeqNum = SeqMod + 1]
    ELSE [s EXCEPT !.badSeqNum = (seq + 1) % SeqMod,
                   !.maxSeqNum = IF s.packetCount = 0 THEN seq ELSE @]

CheckSequenceFollow(s, seq) ==   \* mutant: late packets move the maximum
    IF TooHigh(s, seq) THEN Jump(s, seq) ELSE [s EXCEPT !.maxSeqNum = seq]

CheckSequence(s, seq) ==
    IF s.probation # 0 THEN Probe(s, seq)
    ELSE IF Ordered(s, seq) THEN Advance(s, seq)
    ELSE IF TooHigh(s, seq) THEN Jump(s, seq)
    ELSE s

\* A valid packet is counted; the first one fixes the base sequence number.
CountPacket(s, seq) ==
    LET count == (s.packetCount + 1) % WordMod
    IN  [s EXCEPT !.packetCount = count,
                  !.baseSeqNum = IF count = 1 THEN seq ELSE @]

RecordReceptionData(s, seq) ==
    IF Accepts(s, seq) THEN CountPacket(CheckSequence(s, seq), seq)
                       ELSE CheckSequence(s, seq)

-----------------------------------------------------------------------------
\* The figures of a receiver report: uint32 arithmetic, one byte of fraction.
ExtMaxSeq(s) == (s.seqNumAccum + s.maxSeqNum) % WordMod
ExpectedSigned(s) ==   \* mutant: signed arithmetic
    ExtMaxSeq(s) - s.baseSeqNum + 1

Expected(s) == (ExtMaxSeq(s) - s.baseSeqNum + 1) % WordMod
Lost(s) == IF s.packetCount = 0 THEN 0
           ELSE (Expected(s) - s.packetCount) % WordMod
ExpectedDelta(s) == (Expected(s) - s.expectedPrior) % WordMod
ReceivedDelta(s) == (s.packetCount - s.receivedPrior) % WordMod
LostDelta(s) == (ExpectedDelta(s) - ReceivedDelta(s)) % WordMod
FracLostShiftLast(s) ==   \* mutant: divides before it shifts
    IF ExpectedDelta(s) # 0 /\ LostDelta(s) > 0
    THEN ((LostDelta(s) \div ExpectedDelta(s)) * 256) % 256
    ELSE 0

FracLost(s) ==
    IF ExpectedDelta(s) # 0 /\ LostDelta(s) > 0
    THEN (((LostDelta(s) * 256) % WordMod) \div ExpectedDelta(s)) % 256
    ELSE 0

\* What a report leaves behind for the next one.
MakeRecvReport(s) ==
    [s EXCEPT !.expectedPrior = Expected(s), !.receivedPrior = s.packetCount]

-----------------------------------------------------------------------------
ReceptionInit ==
    /\ stats = InitStats
    /\ dataAfterLastReport = FALSE
    /\ start \in Starts
    /\ first = start
    /\ high = start
    /\ got = {}
    /\ surplus = 0
    /\ window = TRUE

\* Packet number e is near enough to the highest one to be told apart from
\* its neighbours SeqMod away.
Near(e) == high - MaxMisorder < e /\ e < high + MaxDropout

\* Packet number e arrives, in or out of order, for the first time or again;
\* a packet that never arrives is lost.
Receive(e) ==
    LET seq     == e % SeqMod
        valid   == Accepts(stats, seq)
        isFirst == valid /\ stats.packetCount = 0
    IN  /\ stats.packetCount < MaxCount
        /\ stats' = RecordReceptionData(stats, seq)
        /\ dataAfterLastReport' = (dataAfterLastReport \/ valid)
        /\ first' = IF isFirst THEN e ELSE first
        /\ high' = IF isFirst \/ (valid /\ e > high) THEN e ELSE high
        /\ got' = got \cup {e}
        /\ surplus' = IF valid /\ ~isFirst /\ (e \in got \/ e < first)
                      THEN surplus + 1 ELSE surplus
        /\ window' = (window /\ (stats.packetCount = 0 \/ Near(e)))
        /\ UNCHANGED start

OnRecvAny == \E e \in start .. start + MaxSent - 1 : Receive(e)

\* A report goes out for a stream that received data since the last one.
BuildRtcpPkt ==
    /\ dataAfterLastReport
    /\ dataAfterLastReport' = FALSE
    /\ stats' = MakeRecvReport(stats)
    /\ UNCHANGED <<start, first, high, got, surplus, window>>

ReceptionNext == OnRecvAny \/ BuildRtcpPkt

ReceptionSpec == ReceptionInit /\ [][ReceptionNext]_receptionVars

-----------------------------------------------------------------------------
ReceptionTypeOK ==
    /\ stats \in Stats
    /\ dataAfterLastReport \in BOOLEAN
    /\ start \in Starts
    /\ first \in Nat /\ high \in Nat /\ surplus \in Nat
    /\ got \subseteq Nat
    /\ window \in BOOLEAN

\* The first accepted packet is not among the last maxMisorder - 1 numbers
\* before the wrap, where the code takes it for a reordered packet 0.
GoodFirst == first % SeqMod <= SeqMod - MaxMisorder

Tracking == window /\ GoodFirst /\ stats.packetCount > 0

\* While arrivals stay near the highest packet, recordReceptionData follows
\* the true packet numbers across any number of wraps: maxSeqNum is the
\* highest packet and the expected count of makeRecvReport is the true span.
TracksHighest ==
    Tracking => /\ stats.maxSeqNum = high % SeqMod
                /\ Expected(stats) = high - first + 1

\* The cumulative loss of a report is the number of packets between the
\* first and the highest that never arrived, less the surplus arrivals.
LossAccounting ==
    Tracking => Lost(stats) =
        (Cardinality((first .. high) \ got) - surplus) % WordMod

\* An interval in which no more packets arrived than were expected gets the
\* exact loss fraction: neither the shift nor the byte cuts anything off.
FractionExact ==
    LET expected == high - first + 1 - stats.expectedPrior
        lost     == expected - (stats.packetCount - stats.receivedPrior)
    IN  (Tracking /\ dataAfterLastReport /\ expected > 0 /\ lost >= 0)
            => FracLost(stats) = (256 * lost) \div expected

\* badSeqNum, which lets the next far packet re-synchronise the stream, is
\* always the successor of a packet that did arrive.
BadSeqNumArrived ==
    stats.badSeqNum \in SeqNums =>
        \E e \in got : stats.badSeqNum = (e + 1) % SeqMod

\* No arrival, however old or repeated, makes the stream lose its place:
\* the highest number only moves up until the source is re-synchronised.
HighestOnlyMovesUp ==
    [][(Tracking /\ window') => Expected(stats') >= Expected(stats)]_receptionVars
=============================================================================
