----------------------------- MODULE RtcpTiming -----------------------------
(***************************************************************************)
(* When a session sends its RTCP reports, and who counts as a member and   *)
(* as a sender in the meantime: rtcpInterval, the schedule of rtcpService, *)
(* the timeouts it derives from the interval, the reaction to a BYE, and   *)
(* input and output streams that come and go (sessionlocal.go, session.go, *)
(* stream.go).                                                             *)
(*                                                                         *)
(* Time is counted in ticks of the service, and only distances are kept.   *)
(* The peers report as RFC 3550 says, at intervals computed like our own   *)
(* from the minimum interval; any MaxLost of a peer's reports in a row may *)
(* be lost.  Nothing a peer sends arrives after its BYE.                   *)
(***************************************************************************)
EXTENDS Integers, FiniteSets

CONSTANTS
    NumOut,          \* number of output streams
    Peers,           \* input streams: who sends to us
    MinTime,         \* rtcpMinimumTime, in ticks
    PacketTime,      \* time for a packet of average size at RtcpSessionBandwidth
    Randoms,         \* randFloat / compensation, in percent
    MaxLost,         \* reports of a peer that may be lost in a row
    Never,           \* longer than any timeout
    None

OutStreams == 0 .. NumOut - 1   \* by their index

ASSUME TimingAssumption ==
    /\ NumOut \in Nat /\ IsFiniteSet(Peers)
    /\ MinTime \in Nat \ {0, 1} /\ PacketTime \in Nat /\ MaxLost \in 0 .. 3
    /\ Randoms \subseteq 1 .. 123 /\ Randoms # {}
    /\ Never \in Nat /\ None \notin Nat

VARIABLES
    wait,          \* tnext less the time
    ticked,        \* the service has handled the current tick
    dataTimeout, ssrcTimeout,
    started,       \* the timeouts are still those of StartSession
    weSent,
    activeSenders,
    announced,     \* rtcpIncrementSender commands in rtcpCtrlChan
    out,           \* output streams
    in,            \* input streams
    inIndex,       \* streamInIndex
    bye,           \* what OnRecvCtrl has read to recompute tnext, or None
    peer,          \* each peer: time to its next report, reports lost
    since,         \* history: time since the last report, up to dataTimeout
    hurried,       \* history: a BYE was received since the last report
    left           \* history: output streams deleted while they were senders

vars == <<wait, ticked, dataTimeout, ssrcTimeout, started, weSent,
          activeSenders, announced, out, in, inIndex, bye, peer, since,
          hurried, left>>

schedule == <<wait, ticked, dataTimeout, ssrcTimeout, started, since, left>>

-----------------------------------------------------------------------------
(* rtcpInterval.                                                           *)

MinOf(a, b) == IF a < b THEN a ELSE b
MaxOf(a, b) == IF a > b THEN a ELSE b

\* Senders share a quarter of the bandwidth and the others the rest, unless
\* more than a quarter of the members are senders.
Share(members, senders, sent) ==
    IF senders > members \div 4 THEN PacketTime * members
    ELSE IF sent THEN 4 * PacketTime * senders
    ELSE (4 * PacketTime * (members - senders)) \div 3

\* The deterministic interval td, and the intervals ti drawn from it.
Td(members, senders, sent, initial) ==
    MaxOf(Share(members, senders, sent), IF initial THEN MinTime \div 2 ELSE MinTime)

Ti(td) == {(td * r) \div 100 : r \in Randoms}

DataTimeoutLong(ti) == 20 * ti   \* mutant: longer than the SSRC timeout
DataTimeout(ti) == 2 * ti

SsrcTimeoutShort(td) == 3 * td   \* mutant: shorter than RFC 3550 says
SsrcTimeout(td) == 5 * td

-----------------------------------------------------------------------------
Absent == [status |-> "absent", idx |-> 0, sender |-> FALSE,
           rtp |-> Never, rtcp |-> Never]

Init ==
    /\ \E ti \in Ti(Td(1, 0, FALSE, TRUE)) :
          wait = ti /\ dataTimeout = DataTimeout(ti)
    /\ ssrcTimeout = SsrcTimeout(Td(1, 0, FALSE, TRUE))
    /\ ticked = TRUE /\ started = TRUE /\ weSent = FALSE
    /\ activeSenders = 0 /\ announced = 0
    /\ out = [o \in OutStreams |->
                [status |-> "active", sender |-> FALSE, fresh |-> FALSE]]
    /\ in = [i \in Peers |-> Absent]
    /\ inIndex = 0
    /\ bye = None
    /\ peer \in [Peers -> [due : Ti(MinTime), lost : {0}]]
    /\ since = 0 /\ hurried = FALSE /\ left = 0

AnnounceUnbounded(s) ==   \* mutant: sent to a channel that is never full
    IF s.sender THEN UNCHANGED announced ELSE announced' = announced + 1

\* A stream that becomes a sender tells the service.
Announce(s) ==
    IF s.sender THEN UNCHANGED announced
    ELSE announced = 0 /\ announced' = 1

-----------------------------------------------------------------------------
(* What arrives, and what the application does.                            *)

\* newSsrcStreamIn; indices beyond those of the output streams are alike.
NewStreamIn == [Absent EXCEPT !.status = "active", !.idx = inIndex]

Heard(i) ==
    IF in[i].status = "absent"
    THEN /\ inIndex' = MinOf(inIndex + 1, NumOut)
         /\ Announce(Absent)
    ELSE /\ in[i].status = "active"
         /\ Announce(in[i]) /\ UNCHANGED inIndex

\* The data packet of a peer is recorded.
OnRecvData(i) ==
    /\ peer[i].due # None
    /\ Heard(i)
    /\ LET s == IF in[i].status = "absent" THEN NewStreamIn ELSE in[i]
       IN  in' = [in EXCEPT ![i] = [s EXCEPT !.sender = TRUE, !.rtp = 0]]
    /\ UNCHANGED <<schedule, weSent, activeSenders, out, bye, peer, hurried>>

\* rtcpSenderCheck of an SR or RR.
SenderCheck(i) ==
    /\ in[i].status \in {"absent", "active"}
    /\ inIndex' = IF in[i].status = "absent"
                  THEN MinOf(inIndex + 1, NumOut) ELSE inIndex

Known(i) == LET s == IF in[i].status = "absent" THEN NewStreamIn ELSE in[i]
            IN  [s EXCEPT !.rtcp = 0]

\* A peer sends the report that is due; it arrives or is lost.
PeerReports(i) ==
    /\ peer[i].due = 0
    /\ \E ti \in Ti(MinTime) :
          \/ /\ SenderCheck(i)
             /\ in' = [in EXCEPT ![i] = Known(i)]
             /\ peer' = [peer EXCEPT ![i] = [due |-> ti, lost |-> 0]]
          \/ /\ peer[i].lost < MaxLost
             /\ peer' = [peer EXCEPT ![i] = [due |-> ti, lost |-> @.lost + 1]]
             /\ UNCHANGED <<in, inIndex>>
    /\ UNCHANGED <<schedule, weSent, activeSenders, announced, out, bye,
                   hurried>>

\* A peer leaves.  Its BYE is lost, or arrives with a last report: the
\* stream is marked, and the members and tnext are read.
Members == Cardinality({o \in OutStreams : out[o].status # "absent"})
           + Cardinality({i \in Peers : in[i].status # "absent"})

PeerLeaves(i) ==
    /\ peer[i].due # None
    /\ peer' = [peer EXCEPT ![i] = [due |-> None, lost |-> 0]]
    /\ \/ /\ bye = None
          /\ SenderCheck(i)
          /\ in' = [in EXCEPT ![i] = [Known(i) EXCEPT !.status = "isClosing",
                                                    !.rtp = Never]]
          /\ bye' = [pmembers |-> IF in[i].status = "absent" THEN Members + 1
                                                             ELSE Members,
                     wait |-> wait]
          /\ hurried' = TRUE
       \/ UNCHANGED <<in, inIndex, bye, hurried>>
    /\ UNCHANGED <<schedule, weSent, activeSenders, announced, out>>

\* tn := tc + members / pmembers * (tnext - tc)
Recomputed == ((bye.pmembers - 1) * bye.wait) \div bye.pmembers

ByeHurries ==
    /\ bye # None
    /\ wait' = Recomputed
    /\ bye' = None
    /\ UNCHANGED <<ticked, dataTimeout, ssrcTimeout, started, weSent,
                   activeSenders, announced, out, in, inIndex, peer, since,
                   hurried, left>>

WriteData(o) ==
    /\ out[o].status = "active"
    /\ Announce(out[o])
    /\ out' = [out EXCEPT ![o].sender = TRUE, ![o].fresh = TRUE]
    /\ weSent' = TRUE
    /\ UNCHANGED <<schedule, activeSenders, in, inIndex, bye, peer, hurried>>

SsrcStreamClose(o) ==
    /\ out[o].status = "active"
    /\ out' = [out EXCEPT ![o].status = "isClosing"]
    /\ UNCHANGED <<schedule, weSent, activeSenders, announced, in, inIndex,
                   bye, peer, hurried>>

-----------------------------------------------------------------------------
(* rtcpService.                                                            *)

ReceiveCommand ==
    /\ announced > 0
    /\ announced' = announced - 1
    /\ activeSenders' = activeSenders + 1
    /\ UNCHANGED <<schedule, weSent, out, in, inIndex, bye, peer, hurried>>

\* A sender loses its status, a silent stream is deleted, a closing one
\* takes the next step.
Silent(s) == s.sender /\ s.rtp > dataTimeout

TimedOut(s) == MinOf(s.rtp, s.rtcp) > ssrcTimeout

InputAfter(s) ==
    CASE s.status = "active" ->
           IF TimedOut(s) THEN Absent
           ELSE [s EXCEPT !.sender = @ /\ ~Silent(s)]
      [] s.status = "isClosing" -> [s EXCEPT !.status = "isClosed"]
      [] OTHER -> s

\* A closed input stream deletes the output stream with its index.
Deleted == {in[i].idx : i \in {j \in Peers : in[j].status = "isClosed"}}

OutputAfter(o, idle) ==
    LET s == out[o] IN
    CASE o \in Deleted \/ s.status \in {"isClosed", "absent"} ->
           [status |-> "absent", sender |-> FALSE, fresh |-> FALSE]
      [] o \notin Deleted /\ s.status = "active" ->
           [s EXCEPT !.sender = @ /\ o \notin idle, !.fresh = FALSE]
      [] OTHER -> [s EXCEPT !.status = "isClosed", !.fresh = FALSE]

\* Output streams that may have been silent for two intervals: they have not
\* written (fresh) since the last pass.
Idle == {o \in OutStreams : out[o].sender /\ ~out[o].fresh
                            /\ out[o].status = "active" /\ o \notin Deleted}

SilentInputs == {i \in Peers : in[i].status = "active" /\ Silent(in[i])}

ProxySending(outs) ==   \* mutant: no receiver report without a sender
    {o \in OutStreams : outs[o].status = "active" /\ outs[o].sender}

\* The streams that can report: a sending one, or one as proxy for an RR.
Proxy(outs) == {o \in OutStreams : outs[o].status = "active"}

Pass ==
    \E idle \in SUBSET Idle :
        LET outs == [o \in OutStreams |-> OutputAfter(o, idle)]
            active == {o \in OutStreams : outs[o].status = "active"}
            sent == \E o \in active : outs[o].sender
            lost == Cardinality(SilentInputs) + Cardinality(idle)
            senders == MaxOf(0, activeSenders - lost)
            td == Td(Cardinality(active), senders, sent, FALSE)
        IN  /\ in' = [i \in Peers |-> InputAfter(in[i])]
            /\ out' = outs
            /\ activeSenders' = senders
            /\ weSent' = sent
            /\ left' = left + Cardinality({o \in OutStreams :
                          out[o].sender /\ outs[o].status = "absent"})
            /\ IF Proxy(outs) = {}
               THEN UNCHANGED <<wait, dataTimeout, ssrcTimeout, started,
                                since, hurried>>
               ELSE /\ \E ti \in Ti(td) : /\ wait' = ti
                                          /\ dataTimeout' = DataTimeout(ti)
                    /\ ssrcTimeout' = SsrcTimeout(td)
                    /\ started' = FALSE
                    /\ since' = 0
                    /\ hurried' = (bye # None)

DueEarly == wait <= 1   \* mutant: the report is sent a tick early
Due == wait <= 0

Tick ==
    /\ ~ticked
    /\ ticked' = TRUE
    /\ IF Due THEN Pass
       ELSE UNCHANGED <<wait, dataTimeout, ssrcTimeout, started, weSent,
                        activeSenders, out, in, since, hurried, left>>
    /\ UNCHANGED <<announced, inIndex, bye, peer>>

\* The times of a stream that is closing are not read any more.
Older(s) ==
    IF s.status # "active" THEN s
    ELSE [s EXCEPT !.rtp = MinOf(Never, @ + 1), !.rtcp = MinOf(Never, @ + 1)]

\* A tick later.  By then the goroutines that could run have run, and the
\* peers have sent the reports that were due.
Elapse ==
    /\ ticked /\ announced = 0 /\ bye = None
    /\ \A i \in Peers : peer[i].due # 0
    /\ ticked' = FALSE
    /\ wait' = MaxOf(0, wait - 1)
    /\ since' = MinOf(dataTimeout, since + 1)
    /\ in' = [i \in Peers |-> Older(in[i])]
    /\ peer' = [i \in Peers |-> [peer[i] EXCEPT
                                    !.due = IF @ = None THEN None ELSE @ - 1]]
    /\ UNCHANGED <<dataTimeout, ssrcTimeout, started, weSent, activeSenders,
                   announced, out, inIndex, bye, hurried, left>>

-----------------------------------------------------------------------------
System == \/ Tick \/ Elapse \/ ReceiveCommand \/ ByeHurries
          \/ \E i \in Peers : PeerReports(i)

Next ==
    \/ System
    \/ \E i \in Peers : OnRecvData(i) \/ PeerLeaves(i)
    \/ \E o \in OutStreams : WriteData(o) \/ SsrcStreamClose(o)

Spec == Init /\ [][Next]_vars

\* Time passes and goroutines that can run do run.
FairSpec == Spec /\ WF_vars(System)

-----------------------------------------------------------------------------
TypeOK ==
    /\ wait \in Nat /\ ticked \in BOOLEAN
    /\ dataTimeout \in Nat /\ ssrcTimeout \in Nat
    /\ started \in BOOLEAN /\ weSent \in BOOLEAN
    /\ activeSenders \in Nat /\ announced \in 0 .. 1
    /\ out \in [OutStreams -> [status : {"active", "isClosing", "isClosed", "absent"},
                               sender : BOOLEAN, fresh : BOOLEAN]]
    /\ in \in [Peers -> [status : {"active", "isClosing", "isClosed", "absent"},
                         idx : 0 .. NumOut, sender : BOOLEAN,
                         rtp : 0 .. Never, rtcp : 0 .. Never]]
    /\ inIndex \in 0 .. NumOut
    /\ bye \in {None} \cup [pmembers : Nat \ {0}, wait : Nat]
    /\ peer \in [Peers -> [due : Nat \cup {None}, lost : 0 .. MaxLost]]
    /\ since \in Nat /\ hurried \in BOOLEAN /\ left \in Nat

Senders == {<<"in", i>> : i \in {j \in Peers : in[j].sender}}
           \cup {<<"out", o>> : o \in {p \in OutStreams : out[p].sender}}

\* The number that rtcpInterval is given is that of the streams with the
\* sender flag, and of the output streams that were deleted with it: no
\* stream that timed out is counted, since it lost the flag before.
SendersAccounted ==
    activeSenders + announced = Cardinality(Senders) + left

\* A peer that is still there is not timed out, although MaxLost of its
\* reports in a row are lost; except with the timeouts of StartSession,
\* which a session keeps until it has sent a report.
LiveMembersStay ==
    [][\A i \in Peers :
          (in[i].status = "active" /\ in'[i].status = "absent")
              => peer[i].due = None \/ started]_vars

\* A report is not sent before the interval that was drawn for it is over,
\* unless a BYE arrived in the meantime.
ReportsSpaced ==
    [][(since > 0 /\ since' = 0 /\ ~started)
          => 2 * since >= dataTimeout \/ hurried]_vars

\* As long as there is an active output stream, reports follow each other.
ReportsContinue ==
    []<>(since = 0 \/ \A o \in OutStreams : out[o].status # "active")
=============================================================================
