----------------------------- MODULE Lifecycle -----------------------------
(***************************************************************************)
(* Starting and closing a session, and the goroutines in between: the      *)
(* readers (two over UDP, one over TCP), the RTCP service, goroutines of   *)
(* the application that write data, and the application itself.            *)
(* They meet in rtcpCtrlChan, in the streamMutex of each stream, in the    *)
(* stop flags of the transport and in the transportEnd channel.            *)
(*                                                                         *)
(* The streams are fixed.  A stream that starts to send tells the service, *)
(* which counts the active senders; a pass of the service over the streams *)
(* takes the sender status from streams that have become silent.           *)
(***************************************************************************)
EXTENDS Integers, FiniteSets, Sequences

CONSTANTS
    InStreams,    \* input streams that receive data
    OutStreams,   \* output streams of the application
    Writers,      \* goroutines of the application that call WriteData
    CloseEarly,   \* TRUE: it may close before the goroutines have started
    CtrlCap,      \* capacity of rtcpCtrlChan: 1
    Bound         \* bound: times a stream may lose its sender status

Kinds == {"data", "ctrl"}
Streams == InStreams \cup OutStreams
Free == "free"

ASSUME LifecycleAssumption ==
    /\ InStreams \cap OutStreams = {}
    /\ IsFiniteSet(InStreams) /\ IsFiniteSet(OutStreams)
    /\ CloseEarly \in BOOLEAN
    /\ CtrlCap \in Nat \ {0}
    /\ Bound \in Nat

VARIABLES
    app,                \* what the application is doing
    todo,               \* output streams CloseSession has still to close
    stopped,            \* end signals CloseRecv has received
    service,            \* what the RTCP service is doing
    visit,              \* streams the current pass has still to visit
    rtcpServiceActive,
    rtcpCtrlChan,
    activeSenders,
    reader,             \* what the readers are doing
    current,            \* stream of the packet the data reader handles
    recvStop,           \* dataRecvStop and ctrlRecvStop
    open,               \* dataConn and ctrlConn are open
    transportEnd,
    writer,             \* [Writers -> stream being written, or Free]
    mutex,              \* streamMutex: who holds it
    sender,             \* the sender flag of each stream
    closing,            \* output streams marked as closing
    byes,               \* history: output streams a BYE was sent for
    lapses              \* times a stream lost its sender status

vars == <<app, todo, stopped, service, visit, rtcpServiceActive,
          rtcpCtrlChan, activeSenders, reader, current, recvStop, open,
          transportEnd, writer, mutex, sender, closing, byes, lapses>>

appVars == <<app, todo, stopped>>
serviceVars == <<service, visit, rtcpServiceActive, activeSenders>>
readerVars == <<reader, current, open>>
streamVars == <<mutex, sender, lapses>>

Init ==
    /\ app = "new" /\ todo = {} /\ stopped = {}
    /\ service = "none" /\ visit = {}
    /\ rtcpServiceActive = FALSE
    /\ rtcpCtrlChan = <<>>
    /\ activeSenders = 0
    /\ reader = [k \in Kinds |-> "none"] /\ current = Free
    /\ recvStop = [k \in Kinds |-> FALSE]
    /\ open = {}
    /\ transportEnd = <<>>
    /\ writer = [w \in Writers |-> Free]
    /\ mutex = [s \in Streams |-> Free]
    /\ sender = [s \in Streams |-> FALSE]
    /\ closing = {} /\ byes = {}
    /\ lapses = 0

-----------------------------------------------------------------------------
(* Starting.                                                               *)

\* UDP: both sockets are open and both readers are spawned, or neither.  An
\* application that uses simple RTP does not start the service.
ListenOnTransports ==
    /\ app = "new"
    /\ \/ /\ open' = Kinds
          /\ reader' = [k \in Kinds |-> "spawned"]
          /\ app' \in {"listening", "running"}
       \/ /\ app' = "failed"
          /\ UNCHANGED <<open, reader>>
    /\ UNCHANGED <<todo, stopped, serviceVars, rtcpCtrlChan, current,
                   recvStop, transportEnd, writer, streamVars, closing, byes>>

\* TCP: a goroutine waits for one connection, to the data port, and spawns
\* the data reader for it.  No error is returned, there is no control reader.
ListenTCP ==
    /\ app = "new"
    /\ app' \in {"listening", "running"}
    /\ reader' = [reader EXCEPT !["data"] = "accept"]
    /\ UNCHANGED <<todo, stopped, serviceVars, rtcpCtrlChan, current, open,
                   recvStop, transportEnd, writer, streamVars, closing, byes>>

AcceptTCP ==
    /\ reader["data"] = "accept"
    /\ \/ /\ open' = {"data"}
          /\ reader' = [reader EXCEPT !["data"] = "spawned"]
       \/ /\ reader' = [reader EXCEPT !["data"] = "none"]
          /\ UNCHANGED open
    /\ UNCHANGED <<appVars, serviceVars, rtcpCtrlChan, current, recvStop,
                   transportEnd, writer, streamVars, closing, byes>>

StartSession ==
    /\ app = "listening"
    /\ app' = "running"
    /\ service' = "spawned"
    /\ UNCHANGED <<todo, stopped, visit, rtcpServiceActive, activeSenders,
                   rtcpCtrlChan, readerVars, recvStop, transportEnd, writer,
                   streamVars, closing, byes>>

-----------------------------------------------------------------------------
(* A stream starts or goes on to send.  The mutex is held while the service *)
(* is told, and rtcpCtrlChan may be full.                                   *)

Lock(g, s) == mutex[s] = Free /\ mutex' = [mutex EXCEPT ![s] = g]

MarkSenderAlways(s) ==   \* mutant: announces every packet
    /\ Len(rtcpCtrlChan) < CtrlCap
    /\ rtcpCtrlChan' = Append(rtcpCtrlChan, "IncrementSender")
    /\ sender' = [sender EXCEPT ![s] = TRUE]
    /\ mutex' = [mutex EXCEPT ![s] = Free]

MarkSender(s) ==
    /\ IF sender[s] THEN UNCHANGED <<sender, rtcpCtrlChan>>
       ELSE /\ Len(rtcpCtrlChan) < CtrlCap
            /\ rtcpCtrlChan' = Append(rtcpCtrlChan, "IncrementSender")
            /\ sender' = [sender EXCEPT ![s] = TRUE]
    /\ mutex' = [mutex EXCEPT ![s] = Free]

\* WriteData: the status is checked before the mutex is taken.
WriteData(w, s) ==
    /\ app \notin {"new", "failed"} /\ writer[w] = Free /\ s \notin closing
    /\ writer' = [writer EXCEPT ![w] = s]
    /\ UNCHANGED <<appVars, serviceVars, rtcpCtrlChan, readerVars, recvStop,
                   transportEnd, streamVars, closing, byes>>

WriteDataLock(w) ==
    /\ writer[w] # Free /\ mutex[writer[w]] # w
    /\ Lock(w, writer[w])
    /\ UNCHANGED <<appVars, serviceVars, rtcpCtrlChan, readerVars, recvStop,
                   transportEnd, writer, sender, lapses, closing, byes>>

WriteDataMark(w) ==
    /\ writer[w] # Free /\ mutex[writer[w]] = w
    /\ MarkSender(writer[w])
    /\ writer' = [writer EXCEPT ![w] = Free]
    /\ UNCHANGED <<appVars, serviceVars, readerVars, recvStop, transportEnd,
                   lapses, closing, byes>>

-----------------------------------------------------------------------------
(* The readers of the transport.                                           *)

SetReader(k, where) == reader' = [reader EXCEPT ![k] = where]

\* The first statement of a reader goroutine resets its stop flag.
ReaderStarts(k) ==
    /\ reader[k] = "spawned"
    /\ SetReader(k, "read")
    /\ recvStop' = [recvStop EXCEPT ![k] = FALSE]
    /\ UNCHANGED <<appVars, serviceVars, rtcpCtrlChan, current, open,
                   transportEnd, writer, streamVars, closing, byes>>

ReaderReturns(k) ==   \* mutant: the reader returns without its signal
    /\ reader[k] = "read"
    /\ SetReader(k, "done")
    /\ open' = open \ {k}
    /\ UNCHANGED <<appVars, serviceVars, rtcpCtrlChan, current, recvStop,
                   transportEnd, writer, streamVars, closing, byes>>

\* A read returned and the stop flag is set, or the read failed.
ReaderStops(k) ==
    /\ reader[k] = "read"
    /\ SetReader(k, "closing")
    /\ open' = open \ {k}
    /\ UNCHANGED <<appVars, serviceVars, rtcpCtrlChan, current, recvStop,
                   transportEnd, writer, streamVars, closing, byes>>

ReadStopped(k) == recvStop[k] /\ ReaderStops(k)
ReadError(k) == ~recvStop[k] /\ ReaderStops(k)

ReaderSignals(k) ==
    /\ reader[k] = "closing"
    /\ Len(transportEnd) < 2
    /\ transportEnd' = Append(transportEnd, k)
    /\ SetReader(k, "done")
    /\ UNCHANGED <<appVars, serviceVars, rtcpCtrlChan, current, open,
                   recvStop, writer, streamVars, closing, byes>>

\* OnRecvData with the service active: the packet's stream is recorded.
OnRecvData(s) ==
    /\ reader["data"] = "read" /\ ~recvStop["data"]
    /\ rtcpServiceActive
    /\ SetReader("data", "lock")
    /\ current' = s
    /\ UNCHANGED <<appVars, serviceVars, rtcpCtrlChan, open, recvStop,
                   transportEnd, writer, streamVars, closing, byes>>

RecordReceptionLock ==
    /\ reader["data"] = "lock"
    /\ Lock("data", current)
    /\ SetReader("data", "mark")
    /\ UNCHANGED <<appVars, serviceVars, rtcpCtrlChan, current, open,
                   recvStop, transportEnd, writer, sender, lapses, closing,
                   byes>>

RecordReceptionMark ==
    /\ reader["data"] = "mark"
    /\ MarkSender(current)
    /\ SetReader("data", "read")
    /\ current' = Free
    /\ UNCHANGED <<appVars, serviceVars, open, recvStop, transportEnd,
                   writer, lapses, closing, byes>>

-----------------------------------------------------------------------------
(* The RTCP service.                                                       *)

ServiceStarts ==
    /\ service = "spawned"
    /\ service' = "select"
    /\ rtcpServiceActive' = TRUE
    /\ UNCHANGED <<appVars, visit, activeSenders, rtcpCtrlChan, readerVars,
                   recvStop, transportEnd, writer, streamVars, closing, byes>>

\* The ticker fired and the report is due.
Tick ==
    /\ service = "select"
    /\ service' = "in"
    /\ visit' = InStreams
    /\ UNCHANGED <<appVars, rtcpServiceActive, activeSenders, rtcpCtrlChan,
                   readerVars, recvStop, transportEnd, writer, streamVars,
                   closing, byes>>

LoseAnySender(s) ==   \* mutant: decrements without looking
    /\ sender' = [sender EXCEPT ![s] = FALSE]
    /\ activeSenders' = activeSenders - 1

LoseSender(s) ==
    /\ sender[s]
    /\ sender' = [sender EXCEPT ![s] = FALSE]
    /\ activeSenders' = IF activeSenders > 0 THEN activeSenders - 1
                                             ELSE activeSenders

\* A pass locks every active stream in turn.  A sender that was silent for
\* two intervals loses its status; by then the service has long received
\* the increment that announced it.
VisitStream(s) ==
    /\ service \in {"in", "out"} /\ s \in visit
    /\ s \in closing \/ mutex[s] = Free
    /\ visit' = visit \ {s}
    /\ \/ UNCHANGED <<sender, activeSenders, lapses>>
       \/ /\ s \notin closing /\ rtcpCtrlChan = <<>> /\ lapses < Bound
          /\ lapses' = lapses + 1
          /\ LoseSender(s)
    /\ UNCHANGED <<appVars, service, rtcpServiceActive, rtcpCtrlChan,
                   readerVars, recvStop, transportEnd, writer, mutex,
                   closing, byes>>

PassDone ==
    /\ service \in {"in", "out"} /\ visit = {}
    /\ service' = IF service = "in" THEN "out" ELSE "select"
    /\ visit' = IF service = "in" THEN OutStreams ELSE {}
    /\ UNCHANGED <<appVars, rtcpServiceActive, activeSenders, rtcpCtrlChan,
                   readerVars, recvStop, transportEnd, writer, streamVars,
                   closing, byes>>

ReceiveCommand ==
    /\ service = "select" /\ rtcpCtrlChan # <<>>
    /\ rtcpCtrlChan' = Tail(rtcpCtrlChan)
    /\ \/ /\ Head(rtcpCtrlChan) = "StopService"
          /\ service' = "stopping"
          /\ UNCHANGED activeSenders
       \/ /\ Head(rtcpCtrlChan) = "IncrementSender"
          /\ activeSenders' = activeSenders + 1
          /\ UNCHANGED service
    /\ UNCHANGED <<appVars, visit, rtcpServiceActive, readerVars, recvStop,
                   transportEnd, writer, streamVars, closing, byes>>

ServiceStops ==
    /\ service = "stopping"
    /\ service' = "done"
    /\ rtcpServiceActive' = FALSE
    /\ UNCHANGED <<appVars, visit, activeSenders, rtcpCtrlChan, readerVars,
                   recvStop, transportEnd, writer, streamVars, closing, byes>>

-----------------------------------------------------------------------------
(* Closing.                                                                *)

SimpleRtp == app = "running" /\ service = "none"

Settled == /\ \A k \in Kinds : reader[k] # "spawned"
           /\ service # "spawned"

\* CloseSession does its work only if it finds the service active.
CloseSession ==
    /\ app = "running" /\ ~SimpleRtp /\ (CloseEarly \/ Settled)
    /\ app' = IF rtcpServiceActive THEN "stop" ELSE "returned"
    /\ UNCHANGED <<todo, stopped, serviceVars, rtcpCtrlChan, readerVars,
                   recvStop, transportEnd, writer, streamVars, closing, byes>>

StopServiceAtOnce ==   \* mutant: clears the service's own flag as well
    /\ app = "stop"
    /\ Len(rtcpCtrlChan) < CtrlCap
    /\ rtcpCtrlChan' = Append(rtcpCtrlChan, "StopService")
    /\ app' = "close"
    /\ todo' = OutStreams
    /\ rtcpServiceActive' = FALSE
    /\ UNCHANGED <<stopped, service, visit, activeSenders, readerVars,
                   recvStop, transportEnd, writer, streamVars, closing, byes>>

StopService ==
    /\ app = "stop"
    /\ Len(rtcpCtrlChan) < CtrlCap
    /\ rtcpCtrlChan' = Append(rtcpCtrlChan, "StopService")
    /\ app' = "close"
    /\ todo' = OutStreams
    /\ UNCHANGED <<stopped, serviceVars, readerVars, recvStop, transportEnd,
                   writer, streamVars, closing, byes>>

SsrcStreamCloseForIndex(s) ==
    /\ app = "close" /\ s \in todo
    /\ todo' = todo \ {s}
    /\ IF rtcpServiceActive THEN /\ byes' = byes \cup {s}
                                 /\ closing' = closing \cup {s}
                            ELSE UNCHANGED <<byes, closing>>
    /\ UNCHANGED <<app, stopped, serviceVars, rtcpCtrlChan, readerVars,
                   recvStop, transportEnd, writer, streamVars>>

SetStopFlags == recvStop' = [k \in Kinds |-> TRUE]

\* CloseRecv: set the stop flags, then wait for the signals of both readers.
\* An application in simple RTP mode calls it directly.
CloseRecv ==
    /\ \/ app = "close" /\ todo = {}
       \/ SimpleRtp /\ (CloseEarly \/ Settled)
    /\ SetStopFlags
    /\ app' = "wait"
    /\ UNCHANGED <<todo, stopped, serviceVars, rtcpCtrlChan, readerVars,
                   transportEnd, writer, streamVars, closing, byes>>

AnyClosed == stopped # {}   \* mutant: one signal ends the wait

AllClosed == stopped = Kinds

AwaitReaders ==
    /\ app = "wait"
    /\ \/ /\ ~AllClosed /\ transportEnd # <<>>
          /\ stopped' = stopped \cup {Head(transportEnd)}
          /\ transportEnd' = Tail(transportEnd)
          /\ UNCHANGED app
       \/ /\ AllClosed
          /\ app' = "closed"
          /\ UNCHANGED <<stopped, transportEnd>>
    /\ UNCHANGED <<todo, serviceVars, rtcpCtrlChan, readerVars, recvStop,
                   writer, streamVars, closing, byes>>

-----------------------------------------------------------------------------
Closing ==
    \/ CloseSession \/ StopService \/ CloseRecv \/ AwaitReaders
    \/ \E s \in OutStreams : SsrcStreamCloseForIndex(s)

Reader(k) == \/ ReaderStarts(k) \/ ReadStopped(k) \/ ReaderSignals(k)

Recording == RecordReceptionLock \/ RecordReceptionMark

Writing(w) == WriteDataLock(w) \/ WriteDataMark(w)

Pass == PassDone \/ \E s \in Streams : VisitStream(s)

Next ==
    \/ ListenOnTransports \/ ListenTCP \/ AcceptTCP
    \/ StartSession \/ Closing
    \/ \E k \in Kinds : Reader(k) \/ ReadError(k)
    \/ \E s \in InStreams : OnRecvData(s)
    \/ Recording
    \/ \E w \in Writers : Writing(w) \/ \E s \in OutStreams : WriteData(w, s)
    \/ ServiceStarts \/ Tick \/ Pass \/ ReceiveCommand \/ ServiceStops

Spec == Init /\ [][Next]_vars

\* Goroutines that can run do run; a read returns after its deadline; the
\* ticker keeps ticking; select chooses at random among the ready cases;
\* blocked senders of a channel and Go's mutexes are served in turn.  The
\* application need not close, nor packets arrive.
Fairness ==
    /\ WF_vars(StartSession)
    /\ SF_vars(StopService)
    /\ WF_vars(AwaitReaders) /\ WF_vars(app = "close" /\ Closing)
    /\ \A k \in Kinds : WF_vars(Reader(k))
    /\ SF_vars(Recording)
    /\ \A w \in Writers : SF_vars(Writing(w))
    /\ WF_vars(ServiceStarts) /\ WF_vars(ServiceStops)
    /\ WF_vars(Tick) /\ SF_vars(Pass) /\ SF_vars(ReceiveCommand)

FairSpec == Spec /\ Fairness

-----------------------------------------------------------------------------
TypeOK ==
    /\ app \in {"new", "failed", "listening", "running", "returned", "stop",
                "close", "wait", "closed"}
    /\ todo \subseteq OutStreams /\ stopped \subseteq Kinds
    /\ service \in {"none", "spawned", "select", "in", "out", "stopping",
                    "done"}
    /\ visit \subseteq Streams
    /\ rtcpServiceActive \in BOOLEAN
    /\ rtcpCtrlChan \in Seq({"IncrementSender", "StopService"})
    /\ activeSenders \in Nat
    /\ reader \in [Kinds -> {"none", "accept", "spawned", "read", "lock",
                             "mark", "closing", "done"}]
    /\ current \in InStreams \cup {Free}
    /\ recvStop \in [Kinds -> BOOLEAN]
    /\ open \subseteq Kinds
    /\ transportEnd \in Seq(Kinds)
    /\ writer \in [Writers -> OutStreams \cup {Free}]
    /\ mutex \in [Streams -> Writers \cup {"data", Free}]
    /\ sender \in [Streams -> BOOLEAN]
    /\ closing \subseteq OutStreams /\ byes \subseteq OutStreams
    /\ lapses \in Nat

Increments == {i \in DOMAIN rtcpCtrlChan :
                  rtcpCtrlChan[i] = "IncrementSender"}
Senders == {s \in Streams : sender[s]}

\* The service counts the senders exactly: what it has counted and what is
\* still on its way to it are the streams that have the sender flag.
SendersCounted ==
    activeSenders + Cardinality(Increments) = Cardinality(Senders)

\* When CloseRecv has returned, both readers have left their loops and both
\* sockets are closed, so that no packet reaches the session any more.
ClosedMeansStopped ==
    app = "closed" => /\ \A k \in Kinds : reader[k] = "done"
                      /\ open = {}

\* A goroutine is blocked for good: it must tell a service that has stopped,
\* or one that itself waits for the mutex the goroutine holds.
Blocked(s) == mutex[s] # Free /\ ~sender[s] /\ Len(rtcpCtrlChan) = CtrlCap

CircularWait ==
    \/ service \in {"in", "out"} /\ \E s \in visit \ closing : Blocked(s)
    \/ service = "done" /\ reader["data"] = "mark" /\ Blocked(current)

\* A reader that was scheduled after CloseRecv has erased its stop flag.
LateReader == app = "wait" /\ \E k \in Kinds : reader[k] = "read" /\ ~recvStop[k]

\* The transport has no reader that could give one of the two signals: over
\* TCP there is none for control packets.
NoReader == app = "wait" /\ \E k \in Kinds : reader[k] \in {"none", "accept"}

\* Closing ends with both readers stopped; the full rtcpCtrlChan, a reader
\* that starts late and a transport with one reader are the only things that
\* can prevent it.
CloseReturns ==
    (app \in {"stop", "close", "wait"})
        ~> (app = "closed" \/ CircularWait \/ LateReader \/ NoReader)

\* CloseSession tells the service to stop before it sends the BYEs.  It
\* leaves out the BYE of an output stream only if the service has already
\* stopped by then, not because a stop is on its way.
ByesUnlessStopped ==
    (app \in {"wait", "closed"} /\ service \notin {"none", "done"})
        => byes = OutStreams

-----------------------------------------------------------------------------
(* What the documentation says and the code does not do.                   *)

\* "rtcpService provides the RTCP service and sends RTCP reports at computed
\* intervals": unless the session is closed, a pass over the streams that
\* was begun is finished.
ReportsAtIntervals ==
    (service = "in" /\ app = "running")
        ~> (service = "select" \/ app # "running")
=============================================================================
