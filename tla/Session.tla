------------------------------ MODULE Session ------------------------------
(***************************************************************************)
(* The stream maps of a session and the goroutines that share them: the    *)
(* data and the control reader (OnRecvData, OnRecvCtrl), the RTCP service  *)
(* and the application.  streamsMapMutex makes one atomic step of each     *)
(* section it protects; everything outside it is a step of its own, so     *)
(* that the collision handling of the readers interleaves as in the code.  *)
(*                                                                         *)
(* Time is left out: the service may run whenever it is not writing, and   *)
(* an active input stream may have been silent for long enough to time     *)
(* out whenever the service looks at it.                                   *)
(***************************************************************************)
EXTENDS Streams, FiniteSets, Sequences, Functions

CONSTANTS
    MaxNumberInStreams,
    MaxNumberOutStreams,
    MaxObjs,          \* bound: streams ever created
    MaxArrivals,      \* bound: packets that arrive
    NoSsrc            \* no packet at hand

Objs == 1 .. MaxObjs

ASSUME SessionAssumption ==
    /\ MaxNumberInStreams \in Nat
    /\ MaxNumberOutStreams \in Nat
    /\ MaxObjs \in Nat
    /\ MaxArrivals \in Nat
    /\ NoSsrc \notin Ssrcs

VARIABLES
    streams,      \* the stream objects created so far, by number
    streamsOut,   \* index -> object
    streamsIn,    \* index -> object
    outIndex,     \* streamOutIndex
    inIndex,      \* streamInIndex
    conflicts,    \* addresses that collided with an output stream
    recv,         \* what each reader is doing, and its local variables
    service,      \* what the RTCP service is doing, SSRC of its packet
    arrivals,     \* number of packets that arrived so far
    packet,       \* SSRC of the packet the application is about to write
    closed,       \* output indices the application has closed
    renewals,     \* history: output streams that got a new SSRC
    event,        \* history: the control event the last step sent
    panic         \* the program has crashed, and where

vars == <<streams, streamsOut, streamsIn, outIndex, inIndex, conflicts,
          recv, service, arrivals, packet, closed, renewals,
          event, panic>>

-----------------------------------------------------------------------------
\* A map with the entry k -> o, as after m[k] = o.
Put(m, k, o) == [i \in DOMAIN m \cup {k} |-> IF i = k THEN o ELSE m[i]]

\* The map m after delete(m, i) for the indices of K.
Delete(m, K) == Restrict(m, DOMAIN m \ K)

\* The objects a map holds under an SSRC, and the indices it holds them at.
IndicesOf(m, ssrc) == {i \in DOMAIN m : streams[m[i]].ssrc = ssrc}
LookupSsrcMapIn(ssrc) == {streamsIn[i] : i \in IndicesOf(streamsIn, ssrc)}
LookupSsrcMapOut(ssrc) == {streamsOut[i] : i \in IndicesOf(streamsOut, ssrc)}
LookupSsrcMap(ssrc) ==
    IF LookupSsrcMapOut(ssrc) # {} THEN LookupSsrcMapOut(ssrc)
                                   ELSE LookupSsrcMapIn(ssrc)

AnySsrc == Ssrcs   \* mutant: SSRCs in use are not avoided

UnusedSsrcs == {ssrc \in Ssrcs : LookupSsrcMap(ssrc) = {}}

Event(type, ssrc, index) == [type |-> type, ssrc |-> ssrc, index |-> index]
NoEvent == Event("none", NoSsrc, 0)
Silent == event' = NoEvent

\* A reader that waits for a packet has no local state.
Waiting == [pc |-> "wait"]

Idle(k) == recv[k].pc = "wait"

Goto(k, local) == recv' = [recv EXCEPT ![k] = local]

Crash(where) ==
    /\ panic' = where
    /\ Silent
    /\ UNCHANGED <<streams, streamsOut, streamsIn, outIndex, inIndex,
                   conflicts, recv, service, packet, closed, renewals>>

mapVars == <<streamsOut, streamsIn, outIndex, inIndex>>
appVars == <<packet, closed>>

-----------------------------------------------------------------------------
(* The readers: find or create the stream of a packet, under the mutex.    *)

\* The packet is dropped.  The data reader reports an event; the control
\* reader asks the nil stream it got for its SSRC.
RejectPacket(k, type, ssrc, index) ==
    IF k = "ctrl" THEN Crash("OnRecvCtrl")
    ELSE /\ event' = Event(type, ssrc, index)
         /\ Goto(k, Waiting)
         /\ UNCHANGED <<streams, mapVars, conflicts, service, appVars,
                        renewals, panic>>

InStreamsFullLate ==   \* mutant: the limit is one higher
    Cardinality(DOMAIN streamsIn) > MaxNumberInStreams + 1

InStreamsFull == Cardinality(DOMAIN streamsIn) > MaxNumberInStreams

TooManyStreams(k, ssrc) ==
    /\ LookupSsrcMap(ssrc) = {} /\ InStreamsFull
    /\ RejectPacket(k, "MaxNumInStreamReached", ssrc, 0)

AddInputSameIndex(o) ==   \* mutant: streamInIndex is not incremented
    streamsIn' = Put(streamsIn, inIndex, o) /\ UNCHANGED inIndex

AddInputLastIndex(o) ==   \* mutant: overwrites the newest input stream
    /\ streamsIn' = Put(streamsIn, IF inIndex = 0 THEN 0 ELSE inIndex - 1, o)
    /\ inIndex' = inIndex + 1

\* A stream becomes an input stream under the next index.
AddInput(o) ==
    streamsIn' = Put(streamsIn, inIndex, o) /\ inIndex' = inIndex + 1

NewStream(k, ssrc, from) ==
    /\ LookupSsrcMap(ssrc) = {} /\ ~InStreamsFull
    /\ Len(streams) < MaxObjs
    /\ streams' = Append(streams, [NewSsrcStreamIn(from, ssrc)
                                     EXCEPT !.status = "active"])
    /\ AddInput(Len(streams'))
    /\ event' = IF k = "data" THEN Event("NewStreamData", ssrc, inIndex)
                              ELSE NoEvent
    /\ Goto(k, [pc |-> "check", obj |-> Len(streams'), from |-> from,
                existing |-> FALSE])
    /\ UNCHANGED <<streamsOut, outIndex, conflicts, service, appVars,
                   renewals, panic>>

WrongStatus(k, ssrc) ==
    /\ \E o \in LookupSsrcMap(ssrc) : streams[o].status # "active"
    /\ RejectPacket(k, "WrongStreamStatus", ssrc, inIndex - 1)

KnownStream(k, ssrc, from) ==
    \E o \in LookupSsrcMap(ssrc) :
        /\ streams[o].status = "active"
        /\ streams' = [streams EXCEPT ![o] = LearnPort(k, @, from)]
        /\ Goto(k, [pc |-> "check", obj |-> o, from |-> from,
                    existing |-> TRUE])
        /\ Silent
        /\ UNCHANGED <<mapVars, conflicts, service, appVars, renewals, panic>>

AssignStream(k) ==
    /\ Idle(k)
    /\ arrivals < MaxArrivals
    /\ arrivals' = arrivals + 1
    /\ \E ssrc \in Ssrcs, from \in FromAddrs(k) :
          \/ TooManyStreams(k, ssrc)
          \/ NewStream(k, ssrc, from)
          \/ WrongStatus(k, ssrc)
          \/ KnownStream(k, ssrc, from)

OnRecvData == AssignStream("data")
RtcpSenderCheck == AssignStream("ctrl")

-----------------------------------------------------------------------------
(* The readers: collision and loop detection, without the mutex.           *)

Collides(k, l) ==
    /\ l.existing \/ LookupSsrcMapOut(streams[l.obj].ssrc) # {}
    /\ ~SameSource(k, streams[l.obj].addr, l.from)

\* The packet belongs to the stream: the data reader is done with it (the
\* reception statistics may still discard it), the control reader goes on.
AcceptPacket(k, l, nextIndex) ==
    IF k = "ctrl"
    THEN Goto(k, [pc |-> "rest", obj |-> l.obj, existing |-> l.existing])
         /\ Silent
    ELSE /\ Goto(k, Waiting)
         /\ event' \in {NoEvent, Event("StreamCollisionLoop",
                                     streams[l.obj].ssrc, nextIndex - 1)}

NoCollision(k, l) ==
    /\ ~Collides(k, l)
    /\ AcceptPacket(k, l, inIndex)
    /\ UNCHANGED <<streams, mapVars, conflicts, service, appVars, renewals,
                   panic>>

\* Somebody else's SSRC: follow the new address unless the same collision
\* happened before.
ForeignCollision(k, l) ==
    /\ Collides(k, l)
    /\ LookupSsrcMapOut(streams[l.obj].ssrc) = {}
    /\ IF RepeatedConflict(k, streams[l.obj], l.from)
       THEN RejectPacket(k, "StreamCollisionLoop", streams[l.obj].ssrc,
                         inIndex - 1)
       ELSE /\ streams' = [streams EXCEPT ![l.obj] =
                                 FollowAddress(k, @, l.from)]
            /\ AcceptPacket(k, l, inIndex)
            /\ UNCHANGED <<mapVars, conflicts, service, appVars, renewals,
                           panic>>

RecordNothing(from) == UNCHANGED conflicts   \* mutant

RecordConflict(from) == conflicts' = conflicts \cup {from}

\* Our own SSRC: a known conflicting address is a loop, a new one makes us
\* say BYE and choose another SSRC.
LocalCollision(k, l) ==
    /\ Collides(k, l)
    /\ \E out \in LookupSsrcMapOut(streams[l.obj].ssrc) :
          IF \E c \in conflicts : SameSource(k, c, l.from)
          THEN RejectPacket(k, "StreamCollisionLoop", streams[l.obj].ssrc,
                            inIndex - 1)
          ELSE /\ RecordConflict(l.from)
               /\ Goto(k, [pc |-> "bye", obj |-> l.obj, from |-> l.from,
                           existing |-> l.existing, out |-> out])
               /\ Silent
               /\ UNCHANGED <<streams, mapVars, service, appVars, renewals, panic>>

CheckSsrcIncoming(k) ==
    /\ recv[k].pc = "check"
    /\ \/ NoCollision(k, recv[k])
       \/ ForeignCollision(k, recv[k])
       \/ LocalCollision(k, recv[k])

CheckSsrcIncomingData == CheckSsrcIncoming("data")
CheckSsrcIncomingCtrl == CheckSsrcIncoming("ctrl")

\* The BYE for the old SSRC: WriteCtrl looks its stream up once more.
CollisionBye(k) ==
    LET l == recv[k] IN
    /\ l.pc = "bye"
    /\ IF LookupSsrcMapOut(streams[l.out].ssrc) = {} THEN Crash("WriteCtrl")
       ELSE /\ Goto(k, [pc |-> "find", obj |-> l.obj, from |-> l.from,
                        existing |-> l.existing, out |-> l.out])
            /\ Silent
            /\ UNCHANGED <<streams, mapVars, conflicts, service, appVars,
                           renewals, panic>>

\* replaceStream looks for the index of the old stream before it locks; a
\* range loop that does not find it ends with the last index it visited.
FindIndex(k) ==
    LET l     == recv[k]
        found == IndicesOf(streamsOut, streams[l.out].ssrc)
        last  == IF DOMAIN streamsOut = {} THEN {0} ELSE DOMAIN streamsOut
    IN  /\ l.pc = "find"
        /\ \E i \in IF found # {} THEN found ELSE last :
              Goto(k, [pc |-> "replace", obj |-> l.obj, from |-> l.from,
                       existing |-> l.existing, out |-> l.out, idx |-> i])
        /\ Silent
        /\ UNCHANGED <<streams, mapVars, conflicts, service, appVars,
                       renewals, panic>>

\* The new output stream takes the index, the old one becomes an input
\* stream bound to the address that collided.
ReplaceStream(k) ==
    LET l   == recv[k]
        old == streams[l.out]
    IN  /\ l.pc = "replace"
        /\ IF LookupSsrcMapIn(old.ssrc) # {} THEN Crash("replaceStream")
           ELSE /\ Len(streams) < MaxObjs
                /\ \E ssrc \in UnusedSsrcs :
                      streams' = Append(
                          [streams EXCEPT ![l.obj].addr = l.from],
                          [ssrc |-> ssrc, prev |-> NoAddr,
                           addr |-> old.addr, status |-> "idle"])
                /\ streamsOut' = Put(streamsOut, l.idx, Len(streams'))
                /\ AddInput(l.out)
                /\ renewals' = renewals + 1
                /\ AcceptPacket(k, l, inIndex + 1)
                /\ UNCHANGED <<outIndex, conflicts, service, appVars, panic>>

-----------------------------------------------------------------------------
(* The rest of a control packet: the event of the first report, and a BYE  *)
(* that may follow it in the compound.                                     *)

\* Only sender and receiver reports announce the stream they created; a
\* feedback packet does not.
CtrlEvent(l) ==
    \/ Silent
    \/ /\ ~l.existing
       /\ event' = Event("NewStreamCtrl", streams[l.obj].ssrc, inIndex - 1)

Report ==
    /\ recv["ctrl"].pc = "rest"
    /\ CtrlEvent(recv["ctrl"])
    /\ Goto("ctrl", Waiting)
    /\ UNCHANGED <<streams, mapVars, conflicts, service, appVars, renewals,
                   panic>>

ReportWithBye ==
    /\ recv["ctrl"].pc = "rest"
    /\ CtrlEvent(recv["ctrl"])
    /\ \E ssrc \in Ssrcs : \E o \in LookupSsrcMapIn(ssrc) :
          streams' = [streams EXCEPT ![o].status = "isClosing"]
    /\ Goto("ctrl", Waiting)
    /\ UNCHANGED <<mapVars, conflicts, service, appVars, renewals, panic>>

OnRecvCtrl == Report \/ ReportWithBye

-----------------------------------------------------------------------------
(* The RTCP service: one report interval is a pass over the input streams, *)
(* a pass over the output streams, and the write of the compound.          *)

StatusOf(m, status) == {i \in DOMAIN m : streams[m[i]].status = status}

CloseNone(m) == UNCHANGED streams   \* mutant

\* Every stream that a map holds as closing is closed.
CloseAll(m) ==
    streams' = [o \in DOMAIN streams |->
                  IF \E i \in StatusOf(m, "isClosing") : m[i] = o
                  THEN [streams[o] EXCEPT !.status = "isClosed"]
                  ELSE streams[o]]

InputPass ==
    /\ service.pc = "in"
    /\ \E silent \in SUBSET StatusOf(streamsIn, "active") :
          streamsIn' = Delete(streamsIn, silent)
    /\ CloseAll(streamsIn)
    /\ streamsOut' = Delete(streamsOut, StatusOf(streamsIn, "isClosed"))
    /\ service' = [service EXCEPT !.pc = "out"]
    /\ Silent
    /\ UNCHANGED <<outIndex, inIndex, conflicts, recv, appVars, renewals, panic>>

\* The compound starts with a report of some active output stream.
OutputPass ==
    /\ service.pc = "out"
    /\ CloseAll(streamsOut)
    /\ streamsOut' = Delete(streamsOut, StatusOf(streamsOut, "isClosed"))
    /\ IF StatusOf(streamsOut, "active") = {}
       THEN service' = [pc |-> "in", rc |-> NoSsrc]
       ELSE \E i \in StatusOf(streamsOut, "active") :
               service' = [pc |-> "write",
                           rc |-> streams[streamsOut[i]].ssrc]
    /\ Silent
    /\ UNCHANGED <<streamsIn, outIndex, inIndex, conflicts, recv, appVars,
                   renewals, panic>>

WriteReport ==
    /\ service.pc = "write"
    /\ IF LookupSsrcMapOut(service.rc) = {} THEN Crash("WriteCtrl")
       ELSE /\ service' = [pc |-> "in", rc |-> NoSsrc]
            /\ Silent
            /\ UNCHANGED <<streams, mapVars, conflicts, recv, appVars,
                           renewals, panic>>

RtcpService == InputPass \/ OutputPass \/ WriteReport

-----------------------------------------------------------------------------
(* The application, one goroutine.  It uses only indices it got and has    *)
(* not closed.                                                             *)

OpenIndices == (0 .. outIndex - 1) \ closed

\* The SSRC the application asks for, or a random one if that is in use.
NewSsrcStreamOut ==
    /\ Cardinality(DOMAIN streamsOut) <= MaxNumberOutStreams
    /\ Len(streams) < MaxObjs
    /\ \E ssrc \in UnusedSsrcs :
          streams' = Append(streams, [ssrc |-> ssrc, prev |-> NoAddr,
                                      addr |-> OwnAddr, status |-> "active"])
    /\ streamsOut' = Put(streamsOut, outIndex, Len(streams'))
    /\ outIndex' = outIndex + 1
    /\ Silent
    /\ UNCHANGED <<streamsIn, inIndex, conflicts, recv, service, appVars,
                   renewals, panic>>

NewDataPacketForStream(i) ==
    /\ packet = NoSsrc
    /\ IF i \notin DOMAIN streamsOut THEN Crash("NewDataPacketForStream")
       ELSE /\ packet' = streams[streamsOut[i]].ssrc
            /\ Silent
            /\ UNCHANGED <<streams, mapVars, conflicts, recv, service,
                           closed, renewals, panic>>

WriteData ==
    /\ packet # NoSsrc
    /\ IF LookupSsrcMapOut(packet) = {} THEN Crash("WriteData")
       ELSE /\ packet' = NoSsrc
            /\ Silent
            /\ UNCHANGED <<streams, mapVars, conflicts, recv, service,
                           closed, renewals, panic>>

SsrcStreamCloseForIndex(i) ==
    /\ packet = NoSsrc
    /\ IF i \notin DOMAIN streamsOut THEN Crash("SsrcStreamCloseForIndex")
       ELSE /\ streams' = [streams EXCEPT ![streamsOut[i]].status =
                                              "isClosing"]
            /\ closed' = closed \cup {i}
            /\ Silent
            /\ UNCHANGED <<mapVars, conflicts, recv, service, packet,
                           renewals, panic>>

Application ==
    \/ NewSsrcStreamOut
    \/ WriteData
    \/ \E i \in OpenIndices : \/ NewDataPacketForStream(i)
                              \/ SsrcStreamCloseForIndex(i)

-----------------------------------------------------------------------------
Init ==
    /\ streams = <<>>
    /\ streamsOut = <<>> /\ streamsIn = <<>>
    /\ outIndex = 0 /\ inIndex = 0
    /\ conflicts = {}
    /\ recv = [k \in Kinds |-> Waiting]
    /\ service = [pc |-> "in", rc |-> NoSsrc]
    /\ arrivals = 0
    /\ packet = NoSsrc
    /\ closed = {}
    /\ renewals = 0
    /\ event = NoEvent
    /\ panic = "no"

Arrival == OnRecvData \/ RtcpSenderCheck

Reader ==
    \/ CheckSsrcIncomingData \/ CheckSsrcIncomingCtrl \/ OnRecvCtrl
    \/ \E k \in Kinds : CollisionBye(k) \/ FindIndex(k) \/ ReplaceStream(k)

Next ==
    /\ panic = "no"
    /\ \/ Arrival
       \/ (Reader \/ RtcpService \/ Application) /\ UNCHANGED arrivals

Spec == Init /\ [][Next]_vars

FairSpec ==
    Spec /\ WF_vars(panic = "no" /\ RtcpService /\ UNCHANGED arrivals)

-----------------------------------------------------------------------------
TypeOK ==
    /\ streams \in Seq(Stream) /\ Len(streams) <= MaxObjs
    /\ streamsOut \in [DOMAIN streamsOut -> 1 .. Len(streams)]
    /\ streamsIn \in [DOMAIN streamsIn -> 1 .. Len(streams)]
    /\ outIndex \in Nat /\ inIndex \in Nat
    /\ DOMAIN streamsIn \subseteq 0 .. inIndex - 1
    /\ conflicts \subseteq Addresses
    /\ packet \in Ssrcs \cup {NoSsrc}
    /\ closed \subseteq 0 .. outIndex - 1
    /\ renewals \in Nat

\* SSRCs identify streams: no two input streams and no two output streams of
\* a session ever share one, whatever the readers, the collision handling
\* and the application do at the same time.
SsrcUnique ==
    /\ \A i, j \in DOMAIN streamsIn :
          streams[streamsIn[i]].ssrc = streams[streamsIn[j]].ssrc => i = j
    /\ \A i, j \in DOMAIN streamsOut :
          streams[streamsOut[i]].ssrc = streams[streamsOut[j]].ssrc => i = j

\* The limit test admits one stream more than MaxNumberInStreams, and every
\* conflicting address can add one more by turning an output stream into an
\* input stream; nothing else adds input streams.
InStreamsBounded ==
    Cardinality(DOMAIN streamsIn)
        <= MaxNumberInStreams + 1 + Cardinality(conflicts)

\* A conflicting address changes the SSRC of an output stream at most once,
\* so that a loop cannot make the session change SSRCs for ever.
OneRenewalPerConflict == renewals <= Cardinality(conflicts)

\* An input stream keeps its index until the service removes it and the
\* index is never given to another stream.
InputIndexStable ==
    [][\A i \in 0 .. inIndex - 1 :
          i \in DOMAIN streamsIn' => /\ i \in DOMAIN streamsIn
                                     /\ streamsIn'[i] = streamsIn[i]]_vars

\* When a data packet creates a stream, the event names the index under
\* which the application finds that stream.
NewStreamDataIndex ==
    [][(event'.type = "NewStreamData") =>
          /\ event'.index \in DOMAIN streamsIn'
          /\ streams'[streamsIn'[event'.index]].ssrc = event'.ssrc]_vars

\* An output stream that is closing leaves the map of output streams, unless
\* the program crashes first: the service marks it closed in one interval
\* and deletes it in the next.
ClosingStreamsLeave ==
    \A o \in Objs :
        (o \in Range(streamsOut) /\ streams[o].status = "isClosing")
            ~> (o \notin Range(streamsOut) \/ panic # "no")

-----------------------------------------------------------------------------
(* What the documentation says and the code does not do.                   *)

\* "found input stream during collision handling - expected none": when
\* replaceStream holds the mutex, no input stream has the old SSRC.
ReplaceFindsNoInput == panic # "replaceStream"

\* "The stream's index does not change": an output index goes away only
\* after the application has closed the stream.
OutputIndexKept ==
    [][\A i \in DOMAIN streamsOut :
          i \in DOMAIN streamsOut' \/ i \in closed]_vars
=============================================================================
