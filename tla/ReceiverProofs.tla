--------------------------- MODULE ReceiverProofs ---------------------------
(***************************************************************************)
(* Proofs about the receiving side of a session: how the goroutines that   *)
(* receive and report start, stop and count senders (Lifecycle), for any   *)
(* number of streams and writers and any capacity of a channel, and the    *)
(* figures of what was received (Reception), for any sequence number space *)
(* and any bounds of the code.                                             *)
(***************************************************************************)
EXTENDS Lifecycle, Reception, FiniteSetTheorems, TLAPS

-----------------------------------------------------------------------------
(* Starting, running and closing a session.                                *)

\* A signal, received or still in transportEnd, is the last thing a reader
\* sends, and it closes its socket before.
Signalled(k) == k \in stopped \/ \E i \in DOMAIN transportEnd : transportEnd[i] = k

Handshake ==
    /\ stopped \subseteq Kinds
    /\ transportEnd \in Seq(Kinds)
    /\ open \subseteq Kinds
    /\ reader \in [Kinds -> {"none", "accept", "spawned", "read", "lock",
                             "mark", "closing", "done"}]
    /\ \A k \in Kinds : Signalled(k) => reader[k] = "done"
    /\ \A k \in Kinds : reader[k] \in {"closing", "done"} => k \notin open
    /\ app = "new" => \A k \in Kinds : reader[k] = "none"
    /\ app = "closed" => stopped = Kinds

\* The handshake of the readers and CloseRecv holds before the session starts.
LEMMA InitHandshake == Init => Handshake
  BY DEF Init, Handshake, Signalled, Kinds

\* Steps that leave the handshake alone.
LEMMA OtherSteps ==
    ASSUME Handshake,
           UNCHANGED <<stopped, transportEnd, open, reader>>,
           app' # "new" \/ app' = app,
           app' # "closed" \/ app' = app
    PROVE  Handshake'
  BY DEF Handshake, Signalled

\* Every step keeps the handshake.
LEMMA StepHandshake == Handshake /\ [Next]_vars => Handshake'
<1> SUFFICES ASSUME Handshake, [Next]_vars PROVE Handshake'
  OBVIOUS
<1>1. CASE ListenOnTransports \/ ListenTCP \/ AcceptTCP
  <2>1. CASE ListenOnTransports
    BY <2>1, Zenon DEF ListenOnTransports, Handshake, Signalled, Kinds, appVars
  <2>2. CASE ListenTCP
    BY <2>2 DEF ListenTCP, Handshake, Signalled, Kinds, appVars
  <2>3. CASE AcceptTCP
    BY <2>3, Zenon DEF AcceptTCP, Handshake, Signalled, Kinds, appVars
  <2> QED BY <1>1, <2>1, <2>2, <2>3
<1>2. CASE StartSession
  BY <1>2, OtherSteps DEF StartSession, readerVars
<1>3. CASE Closing
  <2>1. CASE CloseSession
    BY <2>1, OtherSteps DEF CloseSession, readerVars
  <2>2. CASE StopService
    BY <2>2, OtherSteps DEF StopService, readerVars
  <2>3. CASE CloseRecv
    BY <2>3, OtherSteps DEF CloseRecv, readerVars
  <2>4. CASE AwaitReaders
    <3>1. CASE ~AllClosed
      <4>1. /\ transportEnd # <<>> /\ app' = app
            /\ stopped' = stopped \cup {Head(transportEnd)}
            /\ transportEnd' = Tail(transportEnd)
            /\ reader' = reader /\ open' = open
        BY <2>4, <3>1 DEF AwaitReaders, readerVars
      <4>2. transportEnd' \in Seq(Kinds) /\ Head(transportEnd) \in Kinds
        BY <4>1 DEF Handshake
      <4>3. \A k \in Kinds : Signalled(k)' => Signalled(k)
        <5>1. Head(transportEnd) = transportEnd[1] /\ 1 \in DOMAIN transportEnd
          BY <4>1 DEF Handshake
        <5>2. \A i \in DOMAIN transportEnd' :
                 i + 1 \in DOMAIN transportEnd
                 /\ transportEnd'[i] = transportEnd[i + 1]
          BY <4>1 DEF Handshake
        <5> QED
          BY <4>1, <5>1, <5>2 DEF Signalled
      <4> QED
        BY <2>4, <4>1, <4>2, <4>3 DEF Handshake, AwaitReaders
    <3>2. CASE AllClosed
      BY <2>4, <3>2 DEF AwaitReaders, AllClosed, Handshake, Signalled,
                        readerVars
    <3> QED
      BY <3>1, <3>2
  <2>5. CASE \E s \in OutStreams : SsrcStreamCloseForIndex(s)
    BY <2>5, OtherSteps DEF SsrcStreamCloseForIndex, readerVars
  <2> QED
    BY <1>3, <2>1, <2>2, <2>3, <2>4, <2>5 DEF Closing
<1>4. ASSUME NEW k \in Kinds, Reader(k) \/ ReadError(k) PROVE Handshake'
  <2>1. CASE ReaderStarts(k)
    BY <2>1 DEF ReaderStarts, SetReader, Handshake, Signalled, appVars
  <2>2. CASE ReaderStops(k)
    BY <2>2 DEF ReaderStops, SetReader, Handshake, Signalled, appVars
  <2>3. CASE ReaderSignals(k)
    <3>1. /\ transportEnd' = Append(transportEnd, k) /\ reader[k] = "closing"
          /\ reader' = [reader EXCEPT ![k] = "done"]
          /\ UNCHANGED <<app, stopped, open>>
      BY <2>3 DEF ReaderSignals, SetReader, appVars
    <3>2. transportEnd' \in Seq(Kinds)
      BY <3>1 DEF Handshake
    <3>3. \A j \in Kinds : Signalled(j)' => j = k \/ Signalled(j)
      BY <3>1 DEF Handshake, Signalled
    <3> QED
      BY <3>1, <3>2, <3>3 DEF Handshake
  <2> QED
    BY <1>4, <2>1, <2>2, <2>3 DEF Reader, ReadStopped, ReadError
<1>5. CASE (\E s \in InStreams : OnRecvData(s)) \/ Recording
  <2>1. /\ reader["data"] \in {"read", "lock", "mark"}
        /\ \E v \in {"read", "lock", "mark"} : reader' = [reader EXCEPT !["data"] = v]
        /\ UNCHANGED <<app, stopped, open, transportEnd>>
    BY <1>5 DEF OnRecvData, Recording, RecordReceptionLock, RecordReceptionMark,
                SetReader, appVars
  <2>2. PICK v \in {"read", "lock", "mark"} : reader' = [reader EXCEPT !["data"] = v]
    BY <2>1
  <2>3. \A k \in Kinds : Signalled(k)' <=> Signalled(k)
    BY <2>1 DEF Signalled
  <2> QED BY <2>1, <2>2, <2>3 DEF Handshake, Kinds
<1>6. CASE \E w \in Writers : Writing(w) \/ \E s \in OutStreams : WriteData(w, s)
  BY <1>6, OtherSteps DEF Writing, WriteDataLock, WriteDataMark, WriteData,
                          appVars, readerVars
<1>7. CASE ServiceStarts \/ Tick \/ Pass \/ ReceiveCommand \/ ServiceStops
  BY <1>7, OtherSteps DEF ServiceStarts, Tick, Pass, PassDone, VisitStream,
                          ReceiveCommand, ServiceStops, appVars, readerVars
<1>8. CASE UNCHANGED vars
  BY <1>8, OtherSteps DEF vars
<1> QED
  BY <1>1, <1>2, <1>3, <1>4, <1>5, <1>6, <1>7, <1>8 DEF Next

\* When CloseRecv has returned, both readers have left their loops and both
\* sockets are closed, however starting, traffic, read errors and closing
\* interleave.
THEOREM ClosedStopped == Spec => []ClosedMeansStopped
<1>1. Handshake => ClosedMeansStopped
  BY DEF Handshake, ClosedMeansStopped, Signalled
<1> QED
  BY InitHandshake, StepHandshake, <1>1, PTL DEF Spec

-----------------------------------------------------------------------------
(* BYEs.                                                                   *)

ServiceLives == {"select", "in", "out", "stopping"}

\* The flag is up exactly while the service runs, which was the case when
\* CloseSession began; whatever it has closed since has got its BYE, or the
\* service has stopped.
Farewell ==
    /\ rtcpServiceActive <=> service \in ServiceLives
    /\ byes \subseteq OutStreams /\ todo \subseteq OutStreams
    /\ app \in {"new", "listening"} => service = "none"
    /\ app \in {"stop", "close"} => service \in ServiceLives \cup {"done"}
    /\ app \in {"wait", "closed"} => service \in ServiceLives \cup {"none", "done"}
    /\ app = "close" /\ service # "done" => OutStreams \ todo \subseteq byes
    /\ ByesUnlessStopped

\* Nothing is closed before the session starts.
LEMMA InitFarewell == Init => Farewell
  BY DEF Init, Farewell, ByesUnlessStopped, ServiceLives

\* Steps of the readers, the writers and the passes of the service.
LEMMA OtherFarewell ==
    ASSUME Farewell,
           UNCHANGED <<app, todo, service, rtcpServiceActive, byes>>
    PROVE  Farewell'
  BY DEF Farewell, ByesUnlessStopped

\* Every step keeps it.
LEMMA StepFarewell == Farewell /\ [Next]_vars => Farewell'
<1> SUFFICES ASSUME Farewell, [Next]_vars PROVE Farewell'
  OBVIOUS
<1>1. CASE ListenOnTransports \/ ListenTCP
  BY <1>1 DEF ListenOnTransports, ListenTCP, Farewell, ByesUnlessStopped,
              serviceVars, ServiceLives
<1>2. CASE StartSession
  BY <1>2 DEF StartSession, Farewell, ByesUnlessStopped, ServiceLives
<1>3. CASE CloseSession
  BY <1>3 DEF CloseSession, Farewell, ByesUnlessStopped, serviceVars, ServiceLives
<1>4. CASE StopService
  BY <1>4 DEF StopService, Farewell, ByesUnlessStopped, serviceVars, ServiceLives
<1>5. CASE CloseRecv
  BY <1>5 DEF CloseRecv, SimpleRtp, Farewell, ByesUnlessStopped, serviceVars,
              ServiceLives
<1>6. CASE AwaitReaders
  BY <1>6 DEF AwaitReaders, Farewell, ByesUnlessStopped, serviceVars, ServiceLives
<1>7. ASSUME NEW s \in OutStreams, SsrcStreamCloseForIndex(s) PROVE Farewell'
  <2>1. CASE rtcpServiceActive
    BY <1>7, <2>1 DEF SsrcStreamCloseForIndex, Farewell, ByesUnlessStopped,
                      serviceVars, ServiceLives
  <2>2. CASE ~rtcpServiceActive
    BY <1>7, <2>2 DEF SsrcStreamCloseForIndex, Farewell, ByesUnlessStopped,
                      serviceVars, ServiceLives
  <2> QED
    BY <2>1, <2>2
<1>8. CASE ServiceStarts \/ ServiceStops
  BY <1>8 DEF ServiceStarts, ServiceStops, Farewell, ByesUnlessStopped,
              appVars, ServiceLives
<1>9. CASE Tick \/ PassDone \/ ReceiveCommand
  BY <1>9 DEF Tick, PassDone, ReceiveCommand, Farewell, ByesUnlessStopped,
              appVars, ServiceLives
<1>10. CASE \/ AcceptTCP \/ Recording \/ UNCHANGED vars
            \/ \E k \in Kinds : Reader(k) \/ ReadError(k)
            \/ \E s \in InStreams : OnRecvData(s)
  BY <1>10, OtherFarewell
     DEF AcceptTCP, Recording, RecordReceptionLock, RecordReceptionMark, vars,
         Reader, ReadError, ReaderStarts, ReadStopped, ReaderStops,
         ReaderSignals, OnRecvData, appVars, serviceVars
<1>11. CASE \/ \E s \in Streams : VisitStream(s)
            \/ \E w \in Writers : Writing(w) \/ \E s \in OutStreams : WriteData(w, s)
  BY <1>11, OtherFarewell
     DEF VisitStream, Writing, WriteDataLock, WriteDataMark, WriteData,
         appVars, serviceVars
<1> QED
  BY <1>1, <1>2, <1>3, <1>4, <1>5, <1>6, <1>7, <1>8, <1>9, <1>10, <1>11
     DEF Next, Closing, Pass

\* However the service, the writers and CloseSession interleave, an output
\* stream is closed without a BYE only if the service has already stopped.
THEOREM ByesSent == Spec => []ByesUnlessStopped
<1>1. Farewell => ByesUnlessStopped
  BY DEF Farewell
<1> QED
  BY InitFarewell, StepFarewell, <1>1, PTL DEF Spec

-----------------------------------------------------------------------------
(* The sender count.                                                       *)

Commands == {"IncrementSender", "StopService"}
IncrementsOf(c) == {i \in DOMAIN c : c[i] = "IncrementSender"}

\* The increments on their way in rtcpCtrlChan can be counted.
LEMMA IncrementsFinite ==
    ASSUME NEW c \in Seq(Commands)
    PROVE  IsFiniteSet(IncrementsOf(c)) /\ Cardinality(IncrementsOf(c)) \in Nat
<1>1. IsFiniteSet(1 .. Len(c))
  BY FS_Interval
<1>2. IncrementsOf(c) \subseteq 1 .. Len(c)
  BY DEF IncrementsOf
<1> QED
  BY <1>1, <1>2, FS_Subset, FS_CardinalityType

\* Sending a command to rtcpCtrlChan adds an increment if it is one.
LEMMA IncrementsAppend ==
    ASSUME NEW c \in Seq(Commands)
    PROVE  /\ Cardinality(IncrementsOf(Append(c, "IncrementSender")))
                 = Cardinality(IncrementsOf(c)) + 1
           /\ IncrementsOf(Append(c, "StopService")) = IncrementsOf(c)
<1>1. IncrementsOf(Append(c, "IncrementSender")) = IncrementsOf(c) \cup {Len(c) + 1}
  BY DEF IncrementsOf
<1>2. Len(c) + 1 \notin IncrementsOf(c)
  BY DEF IncrementsOf
<1>3. IncrementsOf(Append(c, "StopService")) = IncrementsOf(c)
  BY DEF IncrementsOf
<1> QED
  BY <1>1, <1>2, <1>3, IncrementsFinite, FS_AddElement

\* Receiving the head takes one away if it was one: the others move up.
LEMMA IncrementsTail ==
    ASSUME NEW c \in Seq(Commands), c # <<>>
    PROVE  Cardinality(IncrementsOf(Tail(c)))
             = Cardinality(IncrementsOf(c))
               - (IF Head(c) = "IncrementSender" THEN 1 ELSE 0)
<1> DEFINE S == IncrementsOf(Tail(c))
           T == IncrementsOf(c) \ {1}
           f == [i \in S |-> i + 1]
<1>1. Tail(c) \in Seq(Commands)
  OBVIOUS
<1>2. IsFiniteSet(S)
  BY <1>1, IncrementsFinite, Zenon
<1>3. f \in Bijection(S, T)
  <2>1. \A i \in S : i \in Nat /\ i + 1 \in T
    BY DEF IncrementsOf
  <2>2. \A j \in T : j - 1 \in S /\ (j - 1) + 1 = j
    BY DEF IncrementsOf
  <2>3. f \in [S -> T]
    BY <2>1
  <2>4. \A a, b \in S : f[a] = f[b] => a = b
    BY <2>1
  <2>5. \A j \in T : \E i \in S : f[i] = j
    BY <2>2
  <2> HIDE DEF S, T, f
  <2> QED
    BY <2>3, <2>4, <2>5 DEF Bijection, Injection, Surjection, IsInjective
<1>4. Cardinality(T) = Cardinality(S)
  <2> HIDE DEF S, T, f
  <2> QED
    BY <1>2, <1>3, FS_Bijection DEF ExistsBijection
<1>5. Cardinality(T) = IF 1 \in IncrementsOf(c) THEN Cardinality(IncrementsOf(c)) - 1
                                               ELSE Cardinality(IncrementsOf(c))
  BY IncrementsFinite, FS_RemoveElement, Zenon
<1>6. 1 \in IncrementsOf(c) <=> Head(c) = "IncrementSender"
  BY DEF IncrementsOf
<1>7. Cardinality(IncrementsOf(c)) \in Nat
  BY IncrementsFinite
<1> HIDE DEF S, T
<1> QED
  BY <1>4, <1>5, <1>6, <1>7 DEF S

\* What MarkSender and LoseSender need to know of their stream.
Counting ==
    /\ sender \in [Streams -> BOOLEAN]
    /\ rtcpCtrlChan \in Seq(Commands)
    /\ activeSenders \in Nat
    /\ writer \in [Writers -> OutStreams \cup {Free}]
    /\ reader["data"] \in {"lock", "mark"} => current \in InStreams
    /\ visit \subseteq Streams
    /\ SendersCounted

\* The streams with the sender flag can be counted.
LEMMA SendersFinite ==
    /\ IsFiniteSet(Senders) /\ Cardinality(Senders) \in Nat
    /\ IsFiniteSet(Senders') /\ Cardinality(Senders') \in Nat
<1>1. IsFiniteSet(Streams)
  BY LifecycleAssumption, FS_Union, Zenon DEF Streams
<1>2. Senders \subseteq Streams /\ Senders' \subseteq Streams
  BY DEF Senders
<1> QED
  BY <1>1, <1>2, FS_Subset, FS_CardinalityType

\* A new session has no senders.
LEMMA InitCounting == Init => Counting
<1> SUFFICES ASSUME Init PROVE Counting
  OBVIOUS
<1>1. Senders = {} /\ Increments = {}
  BY DEF Init, Senders, Increments
<1>2. SendersCounted
  BY <1>1, FS_EmptySet DEF Init, SendersCounted
<1> QED
  BY <1>2 DEF Init, Counting, Commands, Kinds

\* Steps that leave the count alone.
LEMMA OtherCounting ==
    ASSUME Counting, UNCHANGED <<sender, rtcpCtrlChan, activeSenders, writer>>,
           visit' \subseteq Streams,
           reader'["data"] \in {"lock", "mark"} => current' \in InStreams
    PROVE  Counting'
  BY DEF Counting, SendersCounted, Senders, Increments

\* A stream that becomes a sender is announced once.
LEMMA MarkCounting ==
    ASSUME Counting, NEW s \in Streams, MarkSender(s), activeSenders' = activeSenders
    PROVE  /\ sender' \in [Streams -> BOOLEAN] /\ rtcpCtrlChan' \in Seq(Commands)
           /\ SendersCounted'
<1>1. CASE sender[s]
  BY <1>1 DEF MarkSender, Counting, SendersCounted, Senders, Increments
<1>2. CASE ~sender[s]
  <2>1. /\ rtcpCtrlChan' = Append(rtcpCtrlChan, "IncrementSender")
        /\ sender' = [sender EXCEPT ![s] = TRUE]
    BY <1>2 DEF MarkSender
  <2>2. Senders' = Senders \cup {s} /\ s \notin Senders
    BY <1>2, <2>1 DEF Senders, Counting
  <2>3. Cardinality(Senders') = Cardinality(Senders) + 1
    BY <2>2, SendersFinite, FS_AddElement
  <2>4. Increments = IncrementsOf(rtcpCtrlChan) /\ Increments' = IncrementsOf(rtcpCtrlChan')
    BY DEF Increments, IncrementsOf
  <2>5. rtcpCtrlChan \in Seq(Commands)
    BY DEF Counting
  <2>6. Cardinality(Increments') = Cardinality(Increments) + 1
        /\ Cardinality(Increments) \in Nat
    BY <2>1, <2>4, <2>5, IncrementsAppend, IncrementsFinite
  <2>7. SendersCounted'
    BY <2>3, <2>6, SendersFinite DEF SendersCounted, Counting
  <2> QED
    BY <2>1, <2>7 DEF Counting, Commands
<1> QED
  BY <1>1, <1>2

\* A stream that loses its status was counted: nothing is on its way.
LEMMA LoseCounting ==
    ASSUME Counting, NEW s \in Streams, LoseSender(s), rtcpCtrlChan = <<>>,
           rtcpCtrlChan' = rtcpCtrlChan
    PROVE  /\ sender' \in [Streams -> BOOLEAN] /\ activeSenders' \in Nat
           /\ SendersCounted'
<1>1. Increments = {} /\ Increments' = {} /\ Cardinality({}) = 0
  BY FS_EmptySet DEF Increments
<1>2. Senders' = Senders \ {s} /\ s \in Senders
  BY DEF LoseSender, Senders, Counting
<1>3. Cardinality(Senders') = Cardinality(Senders) - 1
  BY <1>2, SendersFinite, FS_RemoveElement
<1>4. activeSenders = Cardinality(Senders)
  BY <1>1 DEF SendersCounted, Counting
<1>5. activeSenders > 0
  BY <1>3, <1>4, SendersFinite
<1>6. activeSenders' = activeSenders - 1
  BY <1>5 DEF LoseSender
<1>7. SendersCounted'
  BY <1>1, <1>3, <1>4, <1>6, SendersFinite DEF SendersCounted
<1> QED
  BY <1>5, <1>6, <1>7 DEF LoseSender, Counting

\* The service takes a command.
LEMMA ReceiveCounting == Counting /\ ReceiveCommand => Counting'
<1> SUFFICES ASSUME Counting, ReceiveCommand PROVE Counting'
  OBVIOUS
<1>1. /\ rtcpCtrlChan # <<>> /\ rtcpCtrlChan' = Tail(rtcpCtrlChan)
      /\ UNCHANGED <<sender, writer, reader, current, visit>>
  BY DEF ReceiveCommand, readerVars, streamVars
<1>2. rtcpCtrlChan \in Seq(Commands) /\ rtcpCtrlChan' \in Seq(Commands)
  BY <1>1 DEF Counting
<1>3. Increments = IncrementsOf(rtcpCtrlChan) /\ Increments' = IncrementsOf(rtcpCtrlChan')
  BY DEF Increments, IncrementsOf
<1>4. Cardinality(Increments')
        = Cardinality(Increments) - (IF Head(rtcpCtrlChan) = "IncrementSender" THEN 1 ELSE 0)
      /\ Cardinality(Increments) \in Nat
  BY <1>1, <1>2, <1>3, IncrementsTail, IncrementsFinite
<1>5. Senders' = Senders
  BY <1>1 DEF Senders
<1>6. activeSenders' = activeSenders + (IF Head(rtcpCtrlChan) = "IncrementSender" THEN 1 ELSE 0)
  BY DEF ReceiveCommand, Counting
<1>7. activeSenders' \in Nat /\ SendersCounted'
  BY <1>4, <1>5, <1>6, SendersFinite DEF SendersCounted, Counting
<1> QED
  BY <1>1, <1>2, <1>7 DEF Counting

\* Every step keeps the count.
LEMMA StepCounting == Handshake /\ Counting /\ [Next]_vars => Counting'
<1> SUFFICES ASSUME Handshake, Counting, [Next]_vars PROVE Counting'
  OBVIOUS
<1>1. CASE ListenOnTransports \/ ListenTCP \/ AcceptTCP \/ StartSession \/ UNCHANGED vars
  BY <1>1, OtherCounting DEF ListenOnTransports, ListenTCP, AcceptTCP,
       StartSession, Counting, Handshake, Kinds, vars, serviceVars, readerVars, streamVars
<1>2. CASE CloseSession \/ CloseRecv \/ AwaitReaders
           \/ \E s \in OutStreams : SsrcStreamCloseForIndex(s)
  BY <1>2, OtherCounting DEF CloseSession, CloseRecv, AwaitReaders,
       SsrcStreamCloseForIndex, Counting, serviceVars, readerVars, streamVars
<1>3. CASE StopService
  <2>1. /\ rtcpCtrlChan' = Append(rtcpCtrlChan, "StopService")
        /\ UNCHANGED <<sender, activeSenders, writer, reader, current, visit>>
    BY <1>3 DEF StopService, serviceVars, readerVars, streamVars
  <2>2. rtcpCtrlChan' \in Seq(Commands)
    BY <2>1 DEF Counting, Commands
  <2>3. Increments' = Increments
    <3>1. Increments = IncrementsOf(rtcpCtrlChan) /\ Increments' = IncrementsOf(rtcpCtrlChan')
      BY DEF Increments, IncrementsOf
    <3> QED
      BY <2>1, <3>1, IncrementsAppend DEF Counting
  <2>4. Senders' = Senders
    BY <2>1 DEF Senders
  <2> QED
    BY <2>1, <2>2, <2>3, <2>4 DEF Counting, SendersCounted
<1>4. ASSUME NEW k \in Kinds, Reader(k) \/ ReadError(k) PROVE Counting'
  BY <1>4, OtherCounting DEF Reader, ReadError, ReaderStarts, ReadStopped,
       ReaderStops, ReaderSignals, SetReader, Counting, Handshake, Kinds,
       serviceVars, streamVars
<1>5. ASSUME NEW s \in InStreams, OnRecvData(s) PROVE Counting'
  BY <1>5, OtherCounting DEF OnRecvData, SetReader, Counting, serviceVars, streamVars
<1>6. CASE RecordReceptionLock
  BY <1>6, OtherCounting DEF RecordReceptionLock, SetReader, Counting, serviceVars
<1>7. CASE RecordReceptionMark
  <2>1. current \in Streams /\ MarkSender(current)
    BY <1>7 DEF RecordReceptionMark, Counting, Streams
  <2>2. UNCHANGED <<activeSenders, visit, writer>> /\ reader'["data"] = "read"
    BY <1>7 DEF RecordReceptionMark, SetReader, serviceVars, Handshake, Kinds
  <2> QED
    BY <2>1, <2>2, MarkCounting DEF Counting
<1>8. ASSUME NEW w \in Writers, NEW s \in OutStreams, WriteData(w, s) PROVE Counting'
  BY <1>8 DEF WriteData, Counting, SendersCounted, Senders, Increments,
       serviceVars, readerVars, streamVars
<1>9. ASSUME NEW w \in Writers, WriteDataLock(w) PROVE Counting'
  BY <1>9, OtherCounting DEF WriteDataLock, Counting, serviceVars, readerVars
<1>10. ASSUME NEW w \in Writers, WriteDataMark(w) PROVE Counting'
  <2>1. writer[w] \in Streams /\ MarkSender(writer[w])
    BY <1>10 DEF WriteDataMark, Counting, Streams
  <2>2. UNCHANGED <<activeSenders, visit, reader, current>>
        /\ writer' \in [Writers -> OutStreams \cup {Free}]
    BY <1>10 DEF WriteDataMark, serviceVars, readerVars, Counting
  <2> QED
    BY <2>1, <2>2, MarkCounting DEF Counting
<1>11. CASE ServiceStarts \/ ServiceStops \/ Tick \/ PassDone
  BY <1>11, OtherCounting DEF ServiceStarts, ServiceStops, Tick, PassDone,
       Counting, Streams, readerVars, streamVars
<1>12. ASSUME NEW s \in Streams, VisitStream(s) PROVE Counting'
  <2>1. /\ visit' \subseteq Streams
        /\ UNCHANGED <<writer, reader, current, rtcpCtrlChan>>
    BY <1>12 DEF VisitStream, Counting, readerVars
  <2>2. CASE UNCHANGED <<sender, activeSenders>>
    BY <2>1, <2>2, OtherCounting DEF Counting
  <2>3. CASE rtcpCtrlChan = <<>> /\ LoseSender(s)
    BY <2>1, <2>3, LoseCounting DEF Counting
  <2> QED
    BY <1>12, <2>2, <2>3 DEF VisitStream
<1>13. CASE ReceiveCommand
  BY <1>13, ReceiveCounting
<1> QED
  BY <1>1, <1>2, <1>3, <1>4, <1>5, <1>6, <1>7, <1>8, <1>9, <1>10, <1>11,
     <1>12, <1>13
     DEF Next, Closing, Recording, Writing, Pass

\* For any number of streams and writers and any capacity of rtcpCtrlChan, the
\* count of the service and the announcements on their way make up the
\* streams that send: concurrent writers, the data reader and the passes of
\* the service neither lose nor repeat one.
THEOREM SendersExact == Spec => []SendersCounted
<1>1. Counting => SendersCounted
  BY DEF Counting
<1> QED
  BY InitHandshake, StepHandshake, InitCounting, StepCounting, <1>1, PTL DEF Spec

-----------------------------------------------------------------------------
\* What a stream that goes on to send does to the channel, the flags and the
\* mutexes.
LEMMA MarkTyped ==
    ASSUME TypeOK, NEW s, MarkSender(s)
    PROVE  /\ rtcpCtrlChan' \in Seq({"IncrementSender", "StopService"})
           /\ sender' \in [Streams -> BOOLEAN]
           /\ mutex' \in [Streams -> Writers \cup {"data", Free}]
<1>1. mutex' \in [Streams -> Writers \cup {"data", Free}]
  BY Zenon DEF MarkSender, TypeOK
<1>2. CASE sender[s]
  BY <1>1, <1>2 DEF MarkSender, TypeOK
<1>3. CASE ~sender[s]
  <2>1. rtcpCtrlChan' = Append(rtcpCtrlChan, "IncrementSender")
        /\ sender' = [sender EXCEPT ![s] = TRUE]
    BY <1>3 DEF MarkSender
  <2>2. rtcpCtrlChan' \in Seq({"IncrementSender", "StopService"})
    BY <2>1 DEF TypeOK
  <2>3. sender' \in [Streams -> BOOLEAN]
    BY <2>1, Zenon DEF TypeOK
  <2> QED BY <1>1, <2>2, <2>3
<1> QED BY <1>2, <1>3

\* Every step of the application, the readers, the writers and the service
\* keeps the types.
LEMMA StepTyped == TypeOK /\ [Next]_vars => TypeOK'
<1> SUFFICES ASSUME TypeOK, [Next]_vars PROVE TypeOK'
  OBVIOUS
<1> USE DEF appVars, serviceVars, readerVars, streamVars
<1>1. CASE ListenOnTransports
  BY <1>1, Zenon DEF ListenOnTransports, TypeOK, Kinds
<1>2. CASE ListenTCP \/ AcceptTCP \/ StartSession
  <2>1. CASE ListenTCP
    <3>1. reader' \in [Kinds -> {"none", "accept", "spawned", "read", "lock",
                                 "mark", "closing", "done"}]
      BY <2>1, Zenon DEF ListenTCP, TypeOK
    <3>2. app' \in {"listening", "running"} BY <2>1 DEF ListenTCP
    <3> QED BY <2>1, <3>1, <3>2 DEF ListenTCP, TypeOK
  <2>2. CASE AcceptTCP
    <3>1. "data" \in Kinds /\ open \subseteq Kinds
      BY DEF TypeOK, Kinds
    <3>2. open' = {"data"} \/ open' = open
      BY <2>2 DEF AcceptTCP
    <3>3. open' \subseteq Kinds
      BY <3>1, <3>2
    <3>4. \E v \in {"spawned", "none"} : reader' = [reader EXCEPT !["data"] = v]
      BY <2>2 DEF AcceptTCP
    <3>5. reader' \in [Kinds -> {"none", "accept", "spawned", "read", "lock",
                                 "mark", "closing", "done"}]
      BY <3>1, <3>4 DEF TypeOK
    <3> QED BY <2>2, <3>3, <3>5 DEF AcceptTCP, TypeOK
  <2>3. CASE StartSession BY <2>3 DEF StartSession, TypeOK
  <2> QED BY <1>2, <2>1, <2>2, <2>3
<1>3. CASE CloseSession \/ CloseRecv
  BY <1>3, Zenon DEF CloseSession, CloseRecv, SetStopFlags, TypeOK
<1>4. CASE StopService
  <2>1. rtcpCtrlChan' \in Seq({"IncrementSender", "StopService"})
    BY <1>4 DEF StopService, TypeOK
  <2> QED BY <1>4, <2>1 DEF StopService, TypeOK
<1>5. CASE AwaitReaders
  <2>1. CASE AllClosed
    BY <1>5, <2>1 DEF AwaitReaders, TypeOK
  <2>2. CASE ~AllClosed
    <3>1. transportEnd # <<>> /\ transportEnd \in Seq(Kinds)
      BY <1>5, <2>2 DEF AwaitReaders, TypeOK
    <3>2. Head(transportEnd) \in Kinds /\ Tail(transportEnd) \in Seq(Kinds)
      BY <3>1
    <3> QED
      BY <1>5, <2>2, <3>2, Zenon DEF AwaitReaders, TypeOK
  <2> QED BY <2>1, <2>2
<1>6. ASSUME NEW s \in OutStreams, SsrcStreamCloseForIndex(s) PROVE TypeOK'
  BY <1>6 DEF SsrcStreamCloseForIndex, TypeOK
<1>7. ASSUME NEW k \in Kinds, Reader(k) \/ ReadError(k) PROVE TypeOK'
  <2>1. CASE ReaderStarts(k) BY <2>1 DEF ReaderStarts, SetReader, TypeOK
  <2>2. CASE ReaderStops(k) BY <2>2 DEF ReaderStops, SetReader, TypeOK
  <2>3. CASE ReaderSignals(k)
    <3>1. transportEnd' \in Seq(Kinds)
      BY <2>3 DEF ReaderSignals, TypeOK
    <3> QED BY <2>3, <3>1 DEF ReaderSignals, SetReader, TypeOK
  <2> QED BY <1>7, <2>1, <2>2, <2>3 DEF Reader, ReadError, ReadStopped
<1>8. ASSUME NEW s \in InStreams, OnRecvData(s) PROVE TypeOK'
  BY <1>8, Zenon DEF OnRecvData, SetReader, TypeOK
<1>9. CASE RecordReceptionLock
  BY <1>9, Zenon DEF RecordReceptionLock, Lock, SetReader, TypeOK
<1>10. CASE RecordReceptionMark
  <2>1. reader' \in [Kinds -> {"none", "accept", "spawned", "read", "lock",
                               "mark", "closing", "done"}]
    BY <1>10, Zenon DEF RecordReceptionMark, SetReader, TypeOK
  <2>2. /\ rtcpCtrlChan' \in Seq({"IncrementSender", "StopService"})
        /\ sender' \in [Streams -> BOOLEAN]
        /\ mutex' \in [Streams -> Writers \cup {"data", Free}]
    BY <1>10, MarkTyped DEF RecordReceptionMark
  <2> QED BY <1>10, <2>1, <2>2 DEF RecordReceptionMark, TypeOK
<1>11. ASSUME NEW w \in Writers, NEW s \in OutStreams, WriteData(w, s) PROVE TypeOK'
  BY <1>11 DEF WriteData, TypeOK
<1>12. ASSUME NEW w \in Writers, WriteDataLock(w) PROVE TypeOK'
  BY <1>12, Zenon DEF WriteDataLock, Lock, TypeOK
<1>13. ASSUME NEW w \in Writers, WriteDataMark(w) PROVE TypeOK'
  <2>1. MarkSender(writer[w])
    BY <1>13 DEF WriteDataMark
  <2>2. writer' \in [Writers -> OutStreams \cup {Free}]
    BY <1>13 DEF WriteDataMark, TypeOK
  <2> QED BY <1>13, <2>1, <2>2, MarkTyped DEF WriteDataMark, TypeOK
<1>14. CASE ServiceStarts \/ ServiceStops \/ Tick \/ PassDone
  BY <1>14, Zenon DEF ServiceStarts, ServiceStops, Tick, PassDone, TypeOK, Streams
<1>15. ASSUME NEW s \in Streams, VisitStream(s) PROVE TypeOK'
  <2>1. visit' \subseteq Streams BY <1>15 DEF VisitStream, TypeOK
  <2>2. CASE UNCHANGED <<sender, activeSenders, lapses>>
    BY <1>15, <2>1, <2>2 DEF VisitStream, TypeOK
  <2>3. CASE lapses' = lapses + 1 /\ LoseSender(s)
    <3>1. sender' \in [Streams -> BOOLEAN]
      BY <2>3, Zenon DEF LoseSender, TypeOK
    <3>2. activeSenders' \in Nat /\ lapses' \in Nat
      BY <2>3 DEF LoseSender, TypeOK
    <3> QED BY <1>15, <2>1, <3>1, <3>2 DEF VisitStream, TypeOK
  <2> QED BY <1>15, <2>2, <2>3 DEF VisitStream
<1>16. CASE ReceiveCommand
  <2>1. rtcpCtrlChan' \in Seq({"IncrementSender", "StopService"})
    BY <1>16 DEF ReceiveCommand, TypeOK
  <2> QED BY <1>16, <2>1 DEF ReceiveCommand, TypeOK
<1>17. CASE UNCHANGED vars
  BY <1>17 DEF vars, TypeOK
<1> QED
  BY <1>1, <1>2, <1>3, <1>4, <1>5, <1>6, <1>7, <1>8, <1>9, <1>10, <1>11,
     <1>12, <1>13, <1>14, <1>15, <1>16, <1>17
     DEF Next, Closing, Recording, Writing, Pass

\* For any number of streams and writers every variable keeps its type: the
\* count of active senders does not become negative, a stop signal comes from
\* one of the two readers, a goroutine that holds a mutex is a writer or the
\* data reader.
THEOREM LifecycleTyped == Spec => []TypeOK
<1>1. ASSUME Init PROVE TypeOK
  <2>1. /\ writer \in [Writers -> OutStreams \cup {Free}]
        /\ mutex \in [Streams -> Writers \cup {"data", Free}]
        /\ sender \in [Streams -> BOOLEAN]
    BY <1>1 DEF Init
  <2>2. /\ rtcpCtrlChan \in Seq({"IncrementSender", "StopService"})
        /\ transportEnd \in Seq(Kinds)
    BY <1>1 DEF Init
  <2>3. /\ recvStop \in [Kinds -> BOOLEAN]
        /\ reader \in [Kinds -> {"none", "accept", "spawned", "read", "lock",
                                 "mark", "closing", "done"}]
    BY <1>1 DEF Init
  <2> QED BY <1>1, <2>1, <2>2, <2>3, Zenon DEF Init, TypeOK
<1> QED
  BY <1>1, StepTyped, PTL DEF Spec

-----------------------------------------------------------------------------
(* The statistics of reception.                                            *)

-----------------------------------------------------------------------------
(* Arithmetic modulo M.                                                    *)

\* A number has one remainder.
LEMMA RemainderUnique ==
    ASSUME NEW M \in Nat \ {0}, NEW q \in Int, NEW r \in 0 .. M - 1,
           NEW x \in Int, x = M * q + r
    PROVE  x % M = r
<1> DEFINE p == x \div M
           t == x % M
<1>1. p \in Int /\ t \in 0 .. M - 1 /\ x = M * p + t
  OBVIOUS
<1> HIDE DEF p, t
<1>2. CASE q = p
  BY <1>1, <1>2 DEF t
<1>3. CASE q > p
  <2>1. PICK n \in Nat : q = p + 1 + n
    BY <1>1, <1>3
  <2>2. M * q = M * p + M + M * n
    BY <1>1, <2>1
  <2>3. M * n \in Nat
    OBVIOUS
  <2> QED
    BY <1>1, <2>2, <2>3
<1>4. CASE q < p
  <2>1. PICK n \in Nat : p = q + 1 + n
    BY <1>1, <1>4
  <2>2. M * p = M * q + M + M * n
    BY <1>1, <2>1
  <2>3. M * n \in Nat
    OBVIOUS
  <2> QED
    BY <1>1, <2>2, <2>3
<1> QED
  BY <1>1, <1>2, <1>3, <1>4

\* Going up by less than M, the remainder goes up or wraps once.
LEMMA RemainderOfSum ==
    ASSUME NEW M \in Nat \ {0}, NEW a \in Nat, NEW d \in 0 .. M - 1
    PROVE  (a + d) % M = IF (a % M) + d < M THEN (a % M) + d ELSE (a % M) + d - M
<1>1. PICK q \in Int : a = M * q + (a % M) /\ (a % M) \in 0 .. M - 1
  <2>1. a = M * (a \div M) + (a % M) /\ (a % M) \in 0 .. M - 1 /\ a \div M \in Int
    OBVIOUS
  <2> QED
    BY <2>1, Zenon
<1>2. CASE (a % M) + d < M
  <2>1. a + d = M * q + ((a % M) + d) /\ (a % M) + d \in 0 .. M - 1
    BY <1>1, <1>2
  <2> QED
    BY <1>2, <2>1, RemainderUnique
<1>3. CASE ~((a % M) + d < M)
  <2>1. PICK p \in Int : p = q + 1
    BY <1>1
  <2>2. M * p = M * q + M
    BY <1>1, <2>1
  <2>3. PICK r \in 0 .. M - 1 : r = (a % M) + d - M
    BY <1>1, <1>3
  <2>4. PICK x \in Int : x = a + d
    OBVIOUS
  <2>5. x = M * p + r
    BY <1>1, <2>2, <2>3, <2>4
  <2>6. x % M = r
    BY <2>5, RemainderUnique
  <2> QED
    BY <1>3, <2>3, <2>4, <2>6
<1> QED
  BY <1>2, <1>3
-----------------------------------------------------------------------------
(* What recordReceptionData does with one packet.                          *)

\* What the proofs use of the limits recordReceptionData compares with.
LEMMA Constants ==
    /\ SeqMod \in Nat \ {0} /\ SeqMod > 1 /\ WordMod \in Nat \ {0}
    /\ MaxDropout + MaxMisorder <= SeqMod
    /\ MaxDropout \in Nat \ {0} /\ MaxMisorder \in Nat \ {0}
    /\ MaxCount \in Nat /\ MaxCount < WordMod /\ MinSequential = 0
  BY ReceptionAssumption

\* Whatever arrives, the statistics keep their type and a source stays valid.
LEMMA CheckType ==
    ASSUME NEW s \in Stats, NEW seq \in SeqNums, s.probation = 0
    PROVE  /\ CheckSequence(s, seq) \in Stats
           /\ CheckSequence(s, seq).probation = 0
           /\ CheckSequence(s, seq).packetCount = s.packetCount
<1>1. (s.seqNumAccum + SeqMod) % WordMod \in Nat
      /\ (seq + 1) % SeqMod \in Nat
  BY Constants DEF Stats, SeqNums
<1>2. CASE Ordered(s, seq)
  <2>1. PICK acc \in Nat :
           Advance(s, seq) = [s EXCEPT !.maxSeqNum = seq, !.seqNumAccum = acc]
    BY <1>1, Zenon DEF Advance, Stats
  <2> QED
    BY <1>2, <2>1, Zenon DEF CheckSequence, Stats
<1>3. CASE ~Ordered(s, seq) /\ TooHigh(s, seq)
  <2>1. CASE seq = s.badSeqNum
    <3>1. PICK n \in Nat, z \in Nat : n = SeqMod + 1 /\ z = 0
      BY Constants
    <3>2. CheckSequence(s, seq) =
            [s EXCEPT !.maxSeqNum = seq, !.baseSeqNum = seq,
                      !.seqNumAccum = z, !.badSeqNum = n]
      BY <1>3, <2>1, <3>1 DEF CheckSequence, Jump
    <3> QED
      BY <3>2, Zenon DEF Stats
  <2>2. CASE seq # s.badSeqNum
    <3>1. PICK m \in SeqNums, bad \in Nat :
             Jump(s, seq) = [s EXCEPT !.badSeqNum = bad, !.maxSeqNum = m]
      BY <1>1, <2>2, Zenon DEF Jump, Stats
    <3> QED
      BY <1>3, <3>1, Zenon DEF CheckSequence, Stats
  <2> QED
    BY <2>1, <2>2
<1>4. CASE ~Ordered(s, seq) /\ ~TooHigh(s, seq)
  BY <1>4 DEF CheckSequence
<1> QED
  BY <1>2, <1>3, <1>4

\* Counting a packet does not overflow, and fixes the base only once.
LEMMA CountType ==
    ASSUME NEW s \in Stats, NEW seq \in SeqNums, s.packetCount < MaxCount
    PROVE  LET t == CountPacket(s, seq)
           IN  /\ t = [s EXCEPT !.packetCount = s.packetCount + 1,
                                !.baseSeqNum = IF s.packetCount = 0
                                               THEN seq ELSE s.baseSeqNum]
               /\ t \in Stats
<1>1. (s.packetCount + 1) % WordMod = s.packetCount + 1
      /\ s.packetCount + 1 \in Nat
  BY Constants DEF Stats
<1>2. (s.packetCount + 1 = 1) <=> (s.packetCount = 0)
  BY DEF Stats
<1>3. CountPacket(s, seq) =
        [s EXCEPT !.packetCount = s.packetCount + 1,
                  !.baseSeqNum = IF s.packetCount = 0
                                 THEN seq ELSE s.baseSeqNum]
  BY <1>1, <1>2, Zenon DEF CountPacket, Stats
<1>4. PICK b \in SeqNums : b = IF s.packetCount = 0 THEN seq ELSE s.baseSeqNum
  BY DEF Stats
<1> QED
  BY <1>1, <1>3, <1>4, Zenon DEF Stats

\* recordReceptionData keeps the type and counts exactly the valid packets.
LEMMA RecordType ==
    ASSUME NEW s \in Stats, NEW seq \in SeqNums, s.probation = 0,
           s.packetCount < MaxCount
    PROVE  LET t == RecordReceptionData(s, seq)
           IN  /\ t \in Stats
               /\ t.probation = 0
               /\ t.packetCount = IF Accepts(s, seq) THEN s.packetCount + 1
                                                     ELSE s.packetCount
<1>1. PICK c \in Stats : /\ c = CheckSequence(s, seq)
                         /\ c.probation = 0 /\ c.packetCount = s.packetCount
  BY CheckType
<1>2. CASE Accepts(s, seq)
  <2>1. RecordReceptionData(s, seq) = CountPacket(c, seq)
    BY <1>1, <1>2 DEF RecordReceptionData
  <2>2. /\ CountPacket(c, seq) =
             [c EXCEPT !.packetCount = c.packetCount + 1,
                       !.baseSeqNum = IF c.packetCount = 0
                                      THEN seq ELSE c.baseSeqNum]
        /\ CountPacket(c, seq) \in Stats
    BY <1>1, CountType, Zenon
  <2> QED
    BY <1>1, <1>2, <2>1, <2>2 DEF Stats
<1>3. CASE ~Accepts(s, seq)
  BY <1>1, <1>3 DEF RecordReceptionData
<1> QED
  BY <1>2, <1>3
-----------------------------------------------------------------------------
(* The invariant.                                                          *)

\* Until the first packet nothing has changed.  From then on, while arrivals
\* stay near the highest packet, the pair of maxSeqNum and seqNumAccum is
\* the true highest number counted from the block of the first.
Fresh == stats = InitStats /\ dataAfterLastReport = FALSE

Followed ==
    /\ stats.maxSeqNum = high % SeqMod
    /\ stats.baseSeqNum = first % SeqMod
    /\ stats.seqNumAccum =
          (high - (high % SeqMod)) - (first - (first % SeqMod))
    /\ first <= high /\ high + 1 < WordMod

Inv ==
    /\ ReceptionTypeOK
    /\ stats.probation = 0
    /\ stats.packetCount = 0 => Fresh
    /\ Tracking => Followed

\* What the invariant says implies what TracksHighest claims of the report.
LEMMA InvTracksHighest == Inv => TracksHighest
<1> SUFFICES ASSUME Inv, Tracking
             PROVE  /\ stats.maxSeqNum = high % SeqMod
                    /\ Expected(stats) = high - first + 1
  BY DEF TracksHighest
<1>1. Followed /\ first \in Nat /\ high \in Nat
  BY DEF Inv, ReceptionTypeOK
<1>2. high % SeqMod \in 0 .. SeqMod - 1 /\ first % SeqMod \in 0 .. SeqMod - 1
      /\ first % SeqMod <= first
  <2>1. first = SeqMod * (first \div SeqMod) + (first % SeqMod)
        /\ first \div SeqMod \in Nat
    BY <1>1, Constants
  <2>2. SeqMod * (first \div SeqMod) \in Nat
    BY <2>1, Constants
  <2> QED
    BY <1>1, <2>1, <2>2, Constants
<1>3. stats.seqNumAccum + stats.maxSeqNum = high - first + (first % SeqMod)
  BY <1>1, <1>2 DEF Followed
<1>4. high - first + (first % SeqMod) \in 0 .. WordMod - 1
  BY <1>1, <1>2, Constants DEF Followed
<1>5. ExtMaxSeq(stats) = high - first + (first % SeqMod)
  BY <1>3, <1>4, Constants DEF ExtMaxSeq
<1>6. ExtMaxSeq(stats) - stats.baseSeqNum + 1 = high - first + 1
  BY <1>1, <1>2, <1>5 DEF Followed
<1>7. high - first + 1 \in 0 .. WordMod - 1
  BY <1>1, Constants DEF Followed
<1> QED
  BY <1>1, <1>6, <1>7, Constants DEF Expected, Followed

\* A new stream, as initStats leaves it, satisfies the invariant.
LEMMA InitInv == ReceptionInit => Inv
<1> SUFFICES ASSUME ReceptionInit PROVE Inv
  OBVIOUS
<1>1. InitStats \in Stats /\ InitStats.probation = 0
      /\ InitStats.packetCount = 0
  BY Constants DEF InitStats, Stats, SeqNums
<1>2. ReceptionTypeOK
  BY <1>1, ReceptionAssumption, Zenon DEF ReceptionInit, ReceptionTypeOK
<1> QED
  BY <1>1, <1>2 DEF ReceptionInit, Inv, Fresh, Tracking

\* The very first packet is accepted whatever its number, and it becomes
\* the highest unless its number is among the last before the wrap.
LEMMA FirstPacket ==
    ASSUME NEW seq \in SeqNums, 0 < MaxCount
    PROVE  LET t == RecordReceptionData(InitStats, seq)
           IN  /\ Accepts(InitStats, seq)
               /\ t.baseSeqNum = seq /\ t.seqNumAccum = 0
               /\ seq <= SeqMod - MaxMisorder => t.maxSeqNum = seq
<1> DEFINE s == InitStats
           c == CheckSequence(s, seq)
<1>1. /\ s \in Stats /\ s.probation = 0 /\ s.packetCount = 0
      /\ s.maxSeqNum = 0 /\ s.badSeqNum = SeqMod + 1 /\ s.seqNumAccum = 0
  BY Constants DEF InitStats, Stats, SeqNums
<1> HIDE DEF s
<1>2. Accepts(s, seq)
  BY <1>1 DEF Accepts
<1>3. Step(s, seq) = seq
  BY <1>1, Constants DEF Step, SeqNums
<1>4. c.seqNumAccum = 0 /\ (seq <= SeqMod - MaxMisorder => c.maxSeqNum = seq)
  <2>1. CASE Ordered(s, seq)
    <3>1. ~(seq < s.maxSeqNum)
      BY <1>1 DEF SeqNums
    <3>2. c = [s EXCEPT !.maxSeqNum = seq, !.seqNumAccum = s.seqNumAccum]
      BY <1>1, <2>1, <3>1 DEF CheckSequence, Advance
    <3> QED
      BY <1>1, <3>2 DEF Stats
  <2>2. CASE ~Ordered(s, seq) /\ TooHigh(s, seq)
    <3>1. seq # s.badSeqNum
      BY <1>1, Constants DEF SeqNums
    <3>2. c = [s EXCEPT !.badSeqNum = (seq + 1) % SeqMod, !.maxSeqNum = seq]
      BY <1>1, <2>2, <3>1 DEF CheckSequence, Jump
    <3> QED
      BY <1>1, <3>2 DEF Stats
  <2>3. CASE ~Ordered(s, seq) /\ ~TooHigh(s, seq)
    <3>1. ~(seq <= SeqMod - MaxMisorder)
      BY <1>3, <2>3 DEF TooHigh
    <3>2. c = s
      BY <1>1, <2>3 DEF CheckSequence
    <3> QED
      BY <1>1, <3>1, <3>2
  <2> QED
    BY <2>1, <2>2, <2>3
<1>5. c \in Stats /\ c.packetCount = 0
  BY <1>1, CheckType
<1> HIDE DEF c
<1>6. CountPacket(c, seq) = [c EXCEPT !.packetCount = c.packetCount + 1,
                                      !.baseSeqNum = IF c.packetCount = 0
                                                     THEN seq
                                                     ELSE c.baseSeqNum]
  BY <1>5, CountType, Zenon
<1>7. RecordReceptionData(s, seq) = CountPacket(c, seq)
  BY <1>2 DEF RecordReceptionData, c
<1> QED
  BY <1>2, <1>4, <1>5, <1>6, <1>7 DEF s, Stats

\* The multiple of the modulus at or below x.
Block(x) == x - (x % SeqMod)

\* A packet less than MaxDropout ahead of the highest becomes the highest.
LEMMA NextPacket ==
    ASSUME NEW s \in Stats, NEW h \in Nat, NEW e \in Nat,
           s.probation = 0, s.packetCount < MaxCount, s.packetCount > 0,
           s.maxSeqNum = h % SeqMod, h <= e, e < h + MaxDropout,
           s.seqNumAccum + (Block(e) - Block(h)) < WordMod
    PROVE  LET t == RecordReceptionData(s, e % SeqMod)
           IN  /\ Accepts(s, e % SeqMod)
               /\ t.maxSeqNum = e % SeqMod
               /\ t.baseSeqNum = s.baseSeqNum
               /\ t.seqNumAccum = s.seqNumAccum + (Block(e) - Block(h))
<1> DEFINE seq == e % SeqMod
           c == CheckSequence(s, seq)
           acc == s.seqNumAccum + (Block(e) - Block(h))
<1>1. PICK d \in 0 .. SeqMod - 1 : e = h + d /\ d < MaxDropout
  BY Constants
<1>2. h % SeqMod \in 0 .. SeqMod - 1 /\ seq \in SeqNums
  BY Constants DEF SeqNums
<1>3. seq = IF (h % SeqMod) + d < SeqMod THEN (h % SeqMod) + d
                                         ELSE (h % SeqMod) + d - SeqMod
  <2>1. (h + d) % SeqMod = IF (h % SeqMod) + d < SeqMod
                           THEN (h % SeqMod) + d
                           ELSE (h % SeqMod) + d - SeqMod
    <3>1. SeqMod \in Nat \ {0}
      BY Constants
    <3> QED
      BY <3>1, RemainderOfSum, Zenon
  <2>2. seq = (h + d) % SeqMod
    BY <1>1, Zenon
  <2> QED
    BY <2>1, <2>2, Zenon
<1> HIDE DEF seq
<1>4. Step(s, seq) = d
  <2>1. CASE (h % SeqMod) + d < SeqMod
    <3>1. seq - s.maxSeqNum = d
      BY <1>1, <1>2, <1>3, <2>1
    <3> QED
      BY <3>1, Constants DEF Step
  <2>2. CASE ~((h % SeqMod) + d < SeqMod)
    <3>1. seq - s.maxSeqNum = SeqMod * (-1) + d
      BY <1>1, <1>2, <1>3, <2>2, Constants
    <3>2. seq - s.maxSeqNum \in Int /\ -1 \in Int
      BY <1>2 DEF SeqNums
    <3> QED
      BY <3>1, <3>2, Constants, RemainderUnique DEF Step
  <2> QED
    BY <2>1, <2>2
<1>5. Ordered(s, seq)
  BY <1>1, <1>4 DEF Ordered
<1>6. Accepts(s, seq)
  BY <1>5 DEF Accepts, TooHigh
<1>7. acc \in Nat /\ acc = IF seq < s.maxSeqNum
                           THEN (s.seqNumAccum + SeqMod) % WordMod
                           ELSE s.seqNumAccum
  <2>1. CASE (h % SeqMod) + d < SeqMod
    <3>1. ~(seq < s.maxSeqNum)
      BY <1>1, <1>2, <1>3, <2>1
    <3>2. Block(e) - Block(h) = 0
      BY <1>1, <1>2, <1>3, <2>1 DEF Block, seq
    <3> QED
      BY <3>1, <3>2 DEF Stats
  <2>2. CASE ~((h % SeqMod) + d < SeqMod)
    <3>1. seq < s.maxSeqNum
      BY <1>1, <1>2, <1>3, <2>2, Constants
    <3>2. Block(e) - Block(h) = SeqMod
      <4>1. e % SeqMod = (h % SeqMod) + d - SeqMod
        BY <1>3, <2>2 DEF seq
      <4>2. Block(e) = e - ((h % SeqMod) + d - SeqMod)
        BY <4>1 DEF Block
      <4>3. Block(h) = h - (h % SeqMod)
        BY DEF Block
      <4> QED
        BY <1>1, <1>2, <4>2, <4>3, Constants
    <3>3. (s.seqNumAccum + SeqMod) % WordMod = s.seqNumAccum + SeqMod
      BY <3>2, Constants DEF Stats
    <3> QED
      BY <3>1, <3>2, <3>3, Constants DEF Stats
  <2> QED
    BY <2>1, <2>2
<1> HIDE DEF acc
<1>8. c = [s EXCEPT !.maxSeqNum = seq, !.seqNumAccum = acc]
  BY <1>5, <1>7 DEF CheckSequence, Advance, Stats
<1>9. /\ c \in Stats /\ c.packetCount = s.packetCount
      /\ c.maxSeqNum = seq /\ c.seqNumAccum = acc
      /\ c.baseSeqNum = s.baseSeqNum
  BY <1>2, <1>7, <1>8, Zenon DEF Stats
<1> HIDE DEF c
<1>10. CountPacket(c, seq) = [c EXCEPT !.packetCount = c.packetCount + 1,
                                       !.baseSeqNum = IF c.packetCount = 0
                                                      THEN seq
                                                      ELSE c.baseSeqNum]
  BY <1>2, <1>9, CountType, Zenon
<1>11. RecordReceptionData(s, seq) = CountPacket(c, seq)
  BY <1>6 DEF RecordReceptionData, c
<1>12. /\ RecordReceptionData(s, seq).maxSeqNum = seq
       /\ RecordReceptionData(s, seq).baseSeqNum = s.baseSeqNum
       /\ RecordReceptionData(s, seq).seqNumAccum = acc
  BY <1>9, <1>10, <1>11 DEF Stats
<1> QED
  BY <1>6, <1>12 DEF seq, acc

\* A packet less than MaxMisorder behind the highest is accepted and moves
\* nothing.
LEMMA LatePacket ==
    ASSUME NEW s \in Stats, NEW h \in Nat, NEW e \in Nat,
           s.probation = 0, s.packetCount < MaxCount, s.packetCount > 0,
           s.maxSeqNum = h % SeqMod, e < h, h - MaxMisorder < e
    PROVE  LET t == RecordReceptionData(s, e % SeqMod)
           IN  /\ Accepts(s, e % SeqMod)
               /\ t.maxSeqNum = s.maxSeqNum
               /\ t.baseSeqNum = s.baseSeqNum
               /\ t.seqNumAccum = s.seqNumAccum
<1> DEFINE seq == e % SeqMod
<1>1. PICK d \in 0 .. SeqMod - 1 : h = e + d /\ 0 < d /\ d < MaxMisorder
  BY Constants
<1>2. e % SeqMod \in 0 .. SeqMod - 1 /\ seq \in SeqNums
  BY Constants DEF SeqNums
<1>3. s.maxSeqNum = IF seq + d < SeqMod THEN seq + d ELSE seq + d - SeqMod
  <2>1. (e + d) % SeqMod = IF (e % SeqMod) + d < SeqMod
                           THEN (e % SeqMod) + d
                           ELSE (e % SeqMod) + d - SeqMod
    <3>1. SeqMod \in Nat \ {0}
      BY Constants
    <3> QED
      BY <3>1, RemainderOfSum, Zenon
  <2>2. s.maxSeqNum = (e + d) % SeqMod
    BY <1>1, Zenon
  <2> QED
    BY <2>1, <2>2, Zenon
<1> HIDE DEF seq
<1>4. Step(s, seq) = SeqMod - d
  <2>1. CASE seq + d < SeqMod
    <3>1. seq - s.maxSeqNum = SeqMod * (-1) + (SeqMod - d)
      BY <1>1, <1>2, <1>3, <2>1, Constants DEF SeqNums
    <3>2. PICK r \in 0 .. SeqMod - 1 : r = SeqMod - d
      BY <1>1, Constants
    <3>3. seq - s.maxSeqNum \in Int /\ -1 \in Int
      BY <1>2, <1>3, <2>1 DEF SeqNums
    <3>4. (seq - s.maxSeqNum) % SeqMod = r
      BY <3>1, <3>2, <3>3, Constants, RemainderUnique
    <3> QED
      BY <3>2, <3>4 DEF Step
  <2>2. CASE ~(seq + d < SeqMod)
    <3>1. seq - s.maxSeqNum = SeqMod - d /\ SeqMod - d \in 0 .. SeqMod - 1
      BY <1>1, <1>2, <1>3, <2>2, Constants DEF SeqNums
    <3> QED
      BY <3>1, Constants DEF Step
  <2> QED
    BY <2>1, <2>2
<1>5. ~Ordered(s, seq) /\ ~TooHigh(s, seq)
  BY <1>1, <1>4, Constants DEF Ordered, TooHigh
<1>6. Accepts(s, seq) /\ CheckSequence(s, seq) = s
  BY <1>5 DEF Accepts, CheckSequence
<1>7. RecordReceptionData(s, seq) =
        [s EXCEPT !.packetCount = s.packetCount + 1,
                  !.baseSeqNum = IF s.packetCount = 0 THEN seq
                                                      ELSE s.baseSeqNum]
  BY <1>2, <1>6, CountType, Zenon DEF RecordReceptionData
<1>8. /\ RecordReceptionData(s, seq).maxSeqNum = s.maxSeqNum
      /\ RecordReceptionData(s, seq).baseSeqNum = s.baseSeqNum
      /\ RecordReceptionData(s, seq).seqNumAccum = s.seqNumAccum
  BY <1>7 DEF Stats
<1> QED
  BY <1>6, <1>8 DEF seq

\* Every step keeps the invariant.
LEMMA StepInv == Inv /\ [ReceptionNext]_receptionVars => Inv'
<1> SUFFICES ASSUME Inv, [ReceptionNext]_receptionVars PROVE Inv'
  OBVIOUS
<1>1. /\ stats \in Stats /\ start \in Starts /\ first \in Nat /\ high \in Nat
      /\ surplus \in Nat /\ got \subseteq Nat /\ window \in BOOLEAN
      /\ dataAfterLastReport \in BOOLEAN /\ stats.probation = 0
      /\ stats.packetCount \in Nat
  BY DEF Inv, ReceptionTypeOK, Stats
<1>2. ASSUME NEW e \in start .. start + MaxSent - 1, Receive(e)
      PROVE  Inv'
  <2> DEFINE seq == e % SeqMod
             valid == Accepts(stats, seq)
  <2>1. e \in Nat /\ e + 1 < WordMod /\ seq \in SeqNums
    BY <1>1, ReceptionAssumption, Constants DEF SeqNums
  <2>2. /\ stats.packetCount < MaxCount
        /\ stats' = RecordReceptionData(stats, seq)
        /\ dataAfterLastReport' = (dataAfterLastReport \/ valid)
        /\ first' = IF valid /\ stats.packetCount = 0 THEN e ELSE first
        /\ high' = IF (valid /\ stats.packetCount = 0) \/ (valid /\ e > high)
                   THEN e ELSE high
        /\ got' = got \cup {e}
        /\ surplus' \in {surplus, surplus + 1}
        /\ window' = (window /\ (stats.packetCount = 0 \/ Near(e)))
        /\ start' = start
    BY <1>2 DEF Receive
  <2> HIDE DEF valid
  <2>3. /\ stats' \in Stats /\ stats'.probation = 0
        /\ stats'.packetCount = IF valid THEN stats.packetCount + 1
                                         ELSE stats.packetCount
    BY <1>1, <2>1, <2>2, RecordType DEF valid
  <2>4. ReceptionTypeOK'
    BY <1>1, <2>1, <2>2, <2>3 DEF ReceptionTypeOK
  <2>5. CASE stats.packetCount = 0
    <3>1. stats = InitStats
      BY <2>5 DEF Inv, Fresh
    <3>2. /\ valid /\ stats'.baseSeqNum = seq /\ stats'.seqNumAccum = 0
          /\ seq <= SeqMod - MaxMisorder => stats'.maxSeqNum = seq
      BY <2>1, <2>2, <2>5, <3>1, FirstPacket DEF valid
    <3>3. first' = e /\ high' = e
      BY <2>2, <2>5, <3>2
    <3>4. Tracking' => Followed'
      BY <2>1, <3>2, <3>3, Constants DEF Tracking, GoodFirst, Followed
    <3>5. stats'.packetCount # 0
      BY <1>1, <2>3, <3>2
    <3> QED
      BY <2>3, <2>4, <3>4, <3>5 DEF Inv
  <2>6. CASE stats.packetCount # 0
    <3>1. first' = first /\ stats'.packetCount # 0
      BY <1>1, <2>2, <2>3, <2>6
    <3>2. ASSUME Tracking' PROVE Followed'
      <4>1. Tracking /\ Near(e)
        <5>1. window' /\ GoodFirst /\ stats.packetCount > 0
          BY <1>1, <2>6, <3>1, <3>2 DEF Tracking, GoodFirst
        <5>2. window /\ Near(e)
          BY <2>2, <2>6, <5>1, Zenon
        <5> QED
          BY <5>1, <5>2 DEF Tracking
      <4>2. Followed
        BY <4>1 DEF Inv
      <4>3. CASE high <= e
        <5>1. stats.seqNumAccum + (Block(e) - Block(high))
                = Block(e) - Block(first)
          BY <1>1, <2>1, <4>2, Constants DEF Followed, Block
        <5>2. Block(e) - Block(first) < WordMod
          BY <1>1, <2>1, Constants DEF Block
        <5>3. /\ valid
              /\ stats'.maxSeqNum = e % SeqMod
              /\ stats'.baseSeqNum = stats.baseSeqNum
              /\ stats'.seqNumAccum = Block(e) - Block(first)
          BY <1>1, <2>1, <2>2, <2>6, <4>1, <4>2, <4>3, <5>1, <5>2, NextPacket
             DEF valid, Near, Followed
        <5>4. high' = e
          <6>1. e > high => high' = e
            BY <2>2, <5>3, Zenon
          <6>2. e = high => high' = e
            BY <2>2, Zenon
          <6> QED  BY <1>1, <2>1, <4>3, <6>1, <6>2
        <5> QED
          BY <1>1, <2>1, <3>1, <4>2, <4>3, <5>3, <5>4 DEF Followed, Block
      <4>4. CASE e < high
        <5>1. /\ stats'.maxSeqNum = stats.maxSeqNum
              /\ stats'.baseSeqNum = stats.baseSeqNum
              /\ stats'.seqNumAccum = stats.seqNumAccum
          BY <1>1, <2>1, <2>2, <2>6, <4>1, <4>2, <4>4, LatePacket
             DEF Near, Followed
        <5>2. high' = high
          BY <1>1, <2>1, <2>2, <2>6, <4>4
        <5> QED
          BY <3>1, <4>2, <5>1, <5>2 DEF Followed
      <4> QED
        BY <1>1, <2>1, <4>3, <4>4
    <3> QED
      BY <2>3, <2>4, <3>1, <3>2 DEF Inv
  <2> QED
    BY <2>5, <2>6
<1>3. CASE BuildRtcpPkt
  <2>1. Expected(stats) \in Nat
    BY <1>1, Constants DEF Expected, ExtMaxSeq, Stats, SeqNums
  <2>2. PICK x \in Nat, y \in Nat :
           stats' = [stats EXCEPT !.expectedPrior = x, !.receivedPrior = y]
    BY <1>1, <1>3, <2>1, Zenon DEF BuildRtcpPkt, MakeRecvReport
  <2>3. /\ stats' \in Stats /\ stats'.probation = 0
        /\ stats'.packetCount = stats.packetCount
        /\ stats'.maxSeqNum = stats.maxSeqNum
        /\ stats'.baseSeqNum = stats.baseSeqNum
        /\ stats'.seqNumAccum = stats.seqNumAccum
    BY <1>1, <2>2, Zenon DEF Stats
  <2>4. stats.packetCount # 0
    BY <1>3 DEF BuildRtcpPkt, Inv, Fresh
  <2> QED
    BY <1>1, <1>3, <2>3, <2>4, Zenon
       DEF BuildRtcpPkt, Inv, ReceptionTypeOK, Tracking, GoodFirst, Followed
<1>4. CASE UNCHANGED receptionVars
  BY <1>4 DEF receptionVars, Inv, ReceptionTypeOK, Fresh, Tracking, GoodFirst, Followed
<1> QED
  BY <1>2, <1>3, <1>4 DEF ReceptionNext, OnRecvAny

-----------------------------------------------------------------------------
\* The statistics stay in range and a source never leaves the valid state,
\* whatever recordReceptionData is given.
THEOREM TypeCorrect == ReceptionSpec => []ReceptionTypeOK
<1>1. Inv => ReceptionTypeOK
  BY DEF Inv
<1> QED
  BY InitInv, StepInv, <1>1, PTL DEF ReceptionSpec

\* recordReceptionData follows the true packet numbers across wraps: while
\* arrivals stay near the highest packet, maxSeqNum is the highest packet
\* and the number of packets makeRecvReport expects is the true span.
THEOREM HighestTracked == ReceptionSpec => []TracksHighest
  BY InitInv, StepInv, InvTracksHighest, PTL DEF ReceptionSpec

\* The count of numbers from a on grows with its upper end.
LEMMA SpanGrows ==
    ASSUME NEW a \in Nat, NEW b \in Nat, NEW c \in Nat, b <= c
    PROVE  c - a + 1 >= b - a + 1
OBVIOUS

\* No step makes the number of packets that makeRecvReport expects go back
\* while arrivals stay near the highest packet: a late or repeated packet
\* leaves recordReceptionData's place in the sequence alone.
THEOREM HighestMovesUp == ReceptionSpec => HighestOnlyMovesUp
<1> DEFINE A == (Tracking /\ window') => Expected(stats') >= Expected(stats)
<1>1. Inv /\ Inv' /\ [ReceptionNext]_receptionVars => [A]_receptionVars
  <2>0. SUFFICES ASSUME Inv, Inv', ReceptionNext, Tracking, window'
               PROVE  Expected(stats') >= Expected(stats)
    BY DEF receptionVars
  <2>1. /\ stats \in Stats /\ stats.packetCount > 0 /\ stats.probation = 0
        /\ first \in Nat /\ high \in Nat /\ start \in Nat
        /\ stats.packetCount \in Nat /\ window /\ GoodFirst
    BY <2>0, ReceptionAssumption DEF Inv, ReceptionTypeOK, Tracking, Stats
  <2>2. first' = first /\ high' \in Nat /\ high' >= high
        /\ stats'.packetCount > 0
    <3>1. ASSUME NEW e \in start .. start + MaxSent - 1, Receive(e)
          PROVE  /\ first' = first /\ high' \in Nat /\ high' >= high
                 /\ stats'.packetCount > 0
      <4>1. e \in Nat /\ e % SeqMod \in SeqNums
        BY <2>1, ReceptionAssumption, Constants DEF SeqNums
      <4>2. /\ first' = first /\ high' \in {high, e} /\ high' >= high
            /\ stats.packetCount < MaxCount
            /\ stats' = RecordReceptionData(stats, e % SeqMod)
        BY <2>1, <3>1, <4>1 DEF Receive
      <4>3. stats'.packetCount \in {stats.packetCount, stats.packetCount + 1}
        BY <2>1, <4>1, <4>2, RecordType
      <4> QED
        BY <2>1, <4>1, <4>2, <4>3
    <3>2. CASE BuildRtcpPkt
      BY <2>1, <3>2 DEF BuildRtcpPkt, MakeRecvReport, Stats
    <3> QED
      BY <2>0, <3>1, <3>2 DEF ReceptionNext, OnRecvAny
  <2>3. Tracking'
    BY <2>0, <2>1, <2>2 DEF Tracking, GoodFirst
  <2>4. Expected(stats) = high - first + 1
    BY <2>0, InvTracksHighest DEF TracksHighest
  <2>5. (Inv => TracksHighest)'
    BY InvTracksHighest, PTL
  <2>6. Expected(stats)' = high' - first' + 1
    BY <2>0, <2>3, <2>5 DEF TracksHighest
  <2>7. Expected(stats)' = Expected(stats')
    BY DEF Expected, ExtMaxSeq
  <2>8. Expected(stats') = high' - first + 1
    BY <2>2, <2>6, <2>7
  <2>9. high' - first + 1 >= high - first + 1
    <3>1. high \in Nat /\ first \in Nat /\ high' \in Nat /\ high <= high'
      BY <2>1, <2>2
    <3> QED
      BY <3>1, SpanGrows, Zenon
  <2> QED
    BY <2>4, <2>8, <2>9
<1> QED
  BY <1>1, InitInv, StepInv, PTL DEF ReceptionSpec, HighestOnlyMovesUp

-----------------------------------------------------------------------------
(* What one arrival does, as far as the loss figures need it.              *)

\* An arriving packet keeps the type, the first one is always accepted, and
\* so is every packet near the highest.
LEMMA Arrives ==
    ASSUME Inv, NEW e \in start .. start + MaxSent - 1, Receive(e)
    PROVE  /\ e \in Nat /\ e % SeqMod \in SeqNums
           /\ stats' = RecordReceptionData(stats, e % SeqMod) /\ stats' \in Stats
           /\ stats'.packetCount = IF Accepts(stats, e % SeqMod)
                                   THEN stats.packetCount + 1 ELSE stats.packetCount
           /\ stats.packetCount = 0 => Accepts(stats, e % SeqMod)
           /\ (Tracking /\ window') => Accepts(stats, e % SeqMod)
<1>1. /\ stats \in Stats /\ start \in Starts /\ first \in Nat /\ high \in Nat
      /\ stats.probation = 0 /\ stats.packetCount \in Nat
  BY DEF Inv, ReceptionTypeOK, Stats
<1>2. e \in Nat /\ e + 1 < WordMod /\ e % SeqMod \in SeqNums
  BY <1>1, ReceptionAssumption, Constants DEF SeqNums
<1>3. /\ stats.packetCount < MaxCount
      /\ stats' = RecordReceptionData(stats, e % SeqMod)
      /\ window' = (window /\ (stats.packetCount = 0 \/ Near(e)))
  BY DEF Receive
<1>4. /\ stats' \in Stats
      /\ stats'.packetCount = IF Accepts(stats, e % SeqMod)
                              THEN stats.packetCount + 1 ELSE stats.packetCount
  BY <1>1, <1>2, <1>3, RecordType
<1>5. stats.packetCount = 0 => Accepts(stats, e % SeqMod)
  BY <1>1 DEF Accepts
<1>6. ASSUME Tracking, window' PROVE Accepts(stats, e % SeqMod)
  <2>1. stats.packetCount > 0 /\ stats.packetCount # 0
    BY <1>1, <1>6 DEF Tracking
  <2>2. Near(e)
    BY <1>3, <1>6, <2>1, Zenon
  <2>3. Followed
    BY <1>6 DEF Inv
  <2>4. CASE high <= e
    <3>1. stats.seqNumAccum + (Block(e) - Block(high)) = Block(e) - Block(first)
      BY <1>1, <1>2, <2>3, Constants DEF Followed, Block
    <3>2. Block(e) - Block(first) < WordMod
      BY <1>1, <1>2, Constants DEF Block
    <3> QED
      BY <1>1, <1>2, <1>3, <2>1, <2>2, <2>3, <2>4, <3>1, <3>2, NextPacket DEF Near, Followed
  <2>5. CASE e < high
    BY <1>1, <1>2, <1>3, <2>1, <2>2, <2>3, <2>5, LatePacket DEF Near, Followed
  <2> QED
    BY <1>1, <1>2, <2>4, <2>5
<1> QED
  BY <1>2, <1>3, <1>4, <1>5, <1>6

-----------------------------------------------------------------------------
(* badSeqNum.                                                              *)

\* recordReceptionData keeps badSeqNum, clears it, or sets it to the
\* successor of the packet it looks at.
LEMMA BadSeqNumOf ==
    ASSUME NEW s \in Stats, NEW seq \in SeqNums, s.probation = 0,
           s.packetCount < MaxCount
    PROVE  RecordReceptionData(s, seq).badSeqNum
               \in {s.badSeqNum, SeqMod + 1, (seq + 1) % SeqMod}
<1> DEFINE c == CheckSequence(s, seq)
<1>1. c \in Stats /\ c.packetCount = s.packetCount
  BY CheckType
<1>2. c.badSeqNum \in {s.badSeqNum, SeqMod + 1, (seq + 1) % SeqMod}
  <2>1. CASE Ordered(s, seq)
    BY <2>1 DEF CheckSequence, Advance, Stats
  <2>2. CASE ~Ordered(s, seq) /\ TooHigh(s, seq)
    BY <2>2 DEF CheckSequence, Jump, Stats
  <2>3. CASE ~Ordered(s, seq) /\ ~TooHigh(s, seq)
    BY <2>3 DEF CheckSequence
  <2> QED
    BY <2>1, <2>2, <2>3
<1> HIDE DEF c
<1>3. CountPacket(c, seq).badSeqNum = c.badSeqNum
  BY <1>1 DEF CountPacket, Stats
<1> QED
  BY <1>2, <1>3 DEF RecordReceptionData, c

\* The number that lets a far packet re-synchronise the stream is never left
\* over from anything but an arrived packet, for every modulus and limit.
THEOREM BadSeqNums == ReceptionSpec => []BadSeqNumArrived
<1>1. ReceptionInit => BadSeqNumArrived
  BY Constants DEF ReceptionInit, InitStats, BadSeqNumArrived, SeqNums
<1>2. Inv /\ BadSeqNumArrived /\ [ReceptionNext]_receptionVars => BadSeqNumArrived'
  <2> SUFFICES ASSUME Inv, BadSeqNumArrived, [ReceptionNext]_receptionVars, stats'.badSeqNum \in SeqNums
               PROVE  \E d \in got' : stats'.badSeqNum = (d + 1) % SeqMod
    BY DEF BadSeqNumArrived
  <2>1. ASSUME NEW e \in start .. start + MaxSent - 1, Receive(e)
        PROVE  \E d \in got' : stats'.badSeqNum = (d + 1) % SeqMod
    <3>1. /\ e \in Nat /\ e % SeqMod \in SeqNums
          /\ stats' = RecordReceptionData(stats, e % SeqMod)
      BY <2>1, Arrives
    <3>2. stats \in Stats /\ stats.probation = 0
          /\ stats.packetCount < MaxCount /\ got' = got \cup {e}
      BY <2>1 DEF Inv, ReceptionTypeOK, Receive
    <3>3. stats'.badSeqNum \in {stats.badSeqNum, SeqMod + 1, ((e % SeqMod) + 1) % SeqMod}
      BY <3>1, <3>2, BadSeqNumOf
    <3>4. stats'.badSeqNum # SeqMod + 1
      BY Constants DEF SeqNums
    <3>5. ((e % SeqMod) + 1) % SeqMod = (e + 1) % SeqMod
      <4>1. 1 \in 0 .. SeqMod - 1 /\ e % SeqMod \in 0 .. SeqMod - 1 /\ e % SeqMod \in Nat
        BY <3>1, Constants DEF SeqNums
      <4>2. PICK t \in Nat : t = e % SeqMod /\ t \in 0 .. SeqMod - 1
        BY <4>1
      <4>3. (e + 1) % SeqMod = IF t + 1 < SeqMod THEN t + 1 ELSE t + 1 - SeqMod
        BY <3>1, <4>1, <4>2, RemainderOfSum, Constants, Zenon
      <4>4. t % SeqMod = t
        BY <4>2, Constants
      <4>5. (t + 1) % SeqMod = IF t + 1 < SeqMod THEN t + 1 ELSE t + 1 - SeqMod
        <5>1. SeqMod \in Nat \ {0}
          BY Constants
        <5>2. (t + 1) % SeqMod = IF (t % SeqMod) + 1 < SeqMod
                                 THEN (t % SeqMod) + 1 ELSE (t % SeqMod) + 1 - SeqMod
          BY <4>1, <5>1, RemainderOfSum, Zenon
        <5> QED
          BY <4>4, <5>2, Zenon
      <4> QED
        BY <4>2, <4>3, <4>5
    <3> QED
      BY <3>2, <3>3, <3>4, <3>5 DEF BadSeqNumArrived
  <2>2. CASE BuildRtcpPkt
    <3>1. stats'.badSeqNum = stats.badSeqNum /\ got' = got
      BY <2>2 DEF BuildRtcpPkt, MakeRecvReport, Inv, ReceptionTypeOK, Stats
    <3> QED
      BY <3>1 DEF BadSeqNumArrived
  <2>3. CASE UNCHANGED receptionVars
    BY <2>3 DEF receptionVars, BadSeqNumArrived
  <2> QED
    BY <2>1, <2>2, <2>3 DEF ReceptionNext, OnRecvAny
<1> QED
  BY <1>1, <1>2, InitInv, StepInv, PTL DEF ReceptionSpec

-----------------------------------------------------------------------------
(* The loss of a report.                                                   *)

Between == got \cap (first .. high)

\* packetCount is the number of different packets between the first and the
\* highest, and of the surplus arrivals.  Nothing arrived from above.
Counted ==
    /\ IsFiniteSet(got)
    /\ stats.packetCount = 0 => got = {} /\ surplus = 0
    /\ stats.packetCount # 0 => /\ first \in start .. start + MaxSent - 1
                                /\ high \in start .. start + MaxSent - 1
    /\ Tracking => /\ \A x \in got : x <= high
                   /\ stats.packetCount = Cardinality(Between) + surplus

\* Counting an arrival of recordReceptionData: the first packet, one above
\* the highest, a new one below it, one that arrived before, one below the first.
LEMMA ReceiveCounted ==
    ASSUME Inv, Counted, NEW e \in start .. start + MaxSent - 1, Receive(e)
    PROVE  Counted'
<1> DEFINE valid == Accepts(stats, e % SeqMod)
<1>1. /\ stats \in Stats /\ start \in Nat /\ first \in Nat /\ high \in Nat
      /\ surplus \in Nat /\ got \subseteq Nat /\ stats.packetCount \in Nat
      /\ IsFiniteSet(got) /\ window \in BOOLEAN
  BY ReceptionAssumption DEF Inv, ReceptionTypeOK, Stats, Counted
<1>2. /\ e \in Nat
      /\ stats'.packetCount = IF valid THEN stats.packetCount + 1 ELSE stats.packetCount
      /\ stats.packetCount = 0 => valid
      /\ (Tracking /\ window') => valid
  BY Arrives
<1>3. /\ first' = (IF valid /\ stats.packetCount = 0 THEN e ELSE first)
      /\ high' = (IF (valid /\ stats.packetCount = 0) \/ (valid /\ e > high) THEN e ELSE high)
      /\ got' = got \cup {e} /\ start' = start
      /\ surplus' = (IF valid /\ ~(valid /\ stats.packetCount = 0) /\ (e \in got \/ e < first)
                     THEN surplus + 1 ELSE surplus)
      /\ window' = (window /\ (stats.packetCount = 0 \/ Near(e)))
  BY DEF Receive
<1> HIDE DEF valid
<1>4. IsFiniteSet(got')
  BY <1>1, <1>3, FS_AddElement
<1>5. stats'.packetCount # 0
  BY <1>1, <1>2
<1>6. first' \in start' .. start' + MaxSent - 1 /\ high' \in start' .. start' + MaxSent - 1
  BY <1>1, <1>2, <1>3 DEF Counted
<1>7. ASSUME Tracking'
      PROVE  /\ \A x \in got' : x <= high'
             /\ stats'.packetCount = Cardinality(Between') + surplus'
  <2>1. CASE stats.packetCount = 0
    <3>1. /\ got' = {e} /\ first' = e /\ high' = e /\ surplus' = 0
          /\ stats'.packetCount = 1
      BY <1>2, <1>3, <2>1 DEF Counted
    <3>2. Between' = {e}
      BY <1>2, <3>1 DEF Between
    <3>3. Cardinality({e}) = 1
      BY FS_Singleton, Zenon
    <3> QED
      BY <1>2, <3>1, <3>2, <3>3
  <2>2. CASE stats.packetCount # 0
    <3>1. first' = first
      BY <1>3, <2>2
    <3>2. Tracking
      <4>1. window' /\ GoodFirst
        BY <1>7, <3>1 DEF Tracking, GoodFirst
      <4>2. window
        BY <1>3, <4>1, Zenon
      <4> QED
        BY <1>1, <2>2, <4>1, <4>2 DEF Tracking
    <3>3. valid /\ stats'.packetCount = stats.packetCount + 1
      BY <1>2, <1>7, <3>2 DEF Tracking
    <3>4. /\ \A x \in got : x <= high
          /\ stats.packetCount = Cardinality(Between) + surplus
      BY <3>2 DEF Counted
    <3>5. first <= high
      BY <3>2 DEF Inv, Followed
    <3>6. IsFiniteSet(Between) /\ Cardinality(Between) \in Nat
      BY <1>1, FS_Intersection, FS_CardinalityType, Zenon DEF Between
    <3>7. Cardinality(Between \cup {e}) = IF e \in Between THEN Cardinality(Between)
                                          ELSE Cardinality(Between) + 1
      BY <3>6, FS_AddElement
    <3>8. CASE e > high
      <4>1. high' = e /\ surplus' = surplus
        BY <1>1, <1>2, <1>3, <2>2, <3>3, <3>4, <3>5, <3>8
      <4>2. Between' = Between \cup {e} /\ e \notin Between
        BY <1>1, <1>2, <1>3, <3>1, <3>4, <3>5, <3>8, <4>1 DEF Between
      <4>3. \A x \in got' : x <= high'
        BY <1>1, <1>2, <1>3, <3>4, <3>8, <4>1
      <4> QED
        BY <1>1, <3>3, <3>4, <3>6, <3>7, <4>1, <4>2, <4>3
    <3>9. CASE ~(e > high)
      <4>1. high' = high
        BY <1>3, <2>2, <3>9
      <4>2. \A x \in got' : x <= high'
        BY <1>1, <1>2, <1>3, <3>4, <3>9, <4>1
      <4>3. CASE e \in got \/ e < first
        <5>1. surplus' = surplus + 1
          BY <1>3, <2>2, <3>3, <4>3
        <5>2. Between' = Between
          BY <1>1, <1>2, <1>3, <3>1, <4>1, <4>3 DEF Between
        <5> QED
          BY <1>1, <3>3, <3>4, <3>6, <4>2, <5>1, <5>2
      <4>4. CASE ~(e \in got \/ e < first)
        <5>1. surplus' = surplus
          BY <1>3, <4>4
        <5>2. Between' = Between \cup {e} /\ e \notin Between
          BY <1>1, <1>2, <1>3, <3>1, <3>9, <4>1, <4>4 DEF Between
        <5> QED
          BY <1>1, <3>3, <3>4, <3>6, <3>7, <4>2, <5>1, <5>2
      <4> QED
        BY <4>3, <4>4
    <3> QED
      BY <3>8, <3>9
  <2> QED
    BY <2>1, <2>2
<1> QED
  BY <1>4, <1>5, <1>6, <1>7 DEF Counted

\* A report changes none of what is counted.
LEMMA StepCounted == Inv /\ Counted /\ [ReceptionNext]_receptionVars => Counted'
<1> SUFFICES ASSUME Inv, Counted, [ReceptionNext]_receptionVars PROVE Counted'
  OBVIOUS
<1>1. ASSUME NEW e \in start .. start + MaxSent - 1, Receive(e) PROVE Counted'
  BY <1>1, ReceiveCounted
<1>2. CASE BuildRtcpPkt
  <2>1. /\ stats'.packetCount = stats.packetCount
        /\ UNCHANGED <<start, first, high, got, surplus, window>>
    BY <1>2 DEF BuildRtcpPkt, MakeRecvReport, Inv, ReceptionTypeOK, Stats
  <2> QED
    BY <2>1 DEF Counted, Between, Tracking, GoodFirst
<1>3. CASE UNCHANGED receptionVars
  BY <1>3 DEF receptionVars, Counted, Between, Tracking, GoodFirst
<1> QED
  BY <1>1, <1>2, <1>3 DEF ReceptionNext, OnRecvAny

\* The cumulative loss that makeRecvReport computes from two counters is the
\* number of packets that are missing less the surplus arrivals, for every
\* modulus, across any number of wraps.
THEOREM LossExact == ReceptionSpec => []LossAccounting
<1>1. ReceptionInit => Counted
  BY FS_EmptySet DEF ReceptionInit, InitStats, Counted, Tracking
<1>2. Inv /\ Counted => LossAccounting
  <2> SUFFICES ASSUME Inv, Counted, Tracking
               PROVE  Lost(stats) = (Cardinality((first .. high) \ got) - surplus) % WordMod
    BY DEF LossAccounting
  <2>1. /\ first \in Nat /\ high \in Nat /\ first <= high /\ surplus \in Nat
        /\ stats.packetCount \in Nat /\ stats.packetCount # 0
    BY DEF Inv, ReceptionTypeOK, Stats, Tracking, Followed
  <2>2. Expected(stats) = high - first + 1
    BY InvTracksHighest DEF TracksHighest
  <2>3. IsFiniteSet(first .. high) /\ Cardinality(first .. high) = high - first + 1
    BY <2>1, FS_Interval
  <2>4. (first .. high) \cap got = Between
    BY DEF Between
  <2>5. Cardinality((first .. high) \ got) = high - first + 1 - Cardinality(Between)
    <3>1. Cardinality((first .. high) \ got)
            = Cardinality(first .. high) - Cardinality((first .. high) \cap got)
      BY <2>3, FS_Difference, Zenon
    <3>2. Cardinality((first .. high) \cap got) = Cardinality(Between)
      BY <2>4, Zenon
    <3>3. Cardinality(Between) \in Nat
      BY FS_Intersection, FS_CardinalityType, Zenon DEF Counted, Between
    <3> QED
      BY <2>1, <2>3, <3>1, <3>2, <3>3
  <2>6. stats.packetCount = Cardinality(Between) + surplus /\ Cardinality(Between) \in Nat
    BY FS_Intersection, FS_CardinalityType, Zenon DEF Counted, Between
  <2>7. Expected(stats) - stats.packetCount
          = Cardinality((first .. high) \ got) - surplus
    BY <2>1, <2>2, <2>5, <2>6
  <2> QED
    BY <2>1, <2>7 DEF Lost
<1> QED
  BY <1>1, <1>2, InitInv, StepInv, StepCounted, PTL DEF ReceptionSpec

-----------------------------------------------------------------------------
(* The loss fraction of a report.                                          *)

\* A report finds at least one packet that the last one did not count.
Reported ==
    /\ stats.receivedPrior <= stats.packetCount /\ stats.packetCount <= MaxCount
    /\ dataAfterLastReport => stats.receivedPrior < stats.packetCount

\* recordReceptionData leaves the figures of the last report alone.
LEMMA PriorKept ==
    ASSUME NEW s \in Stats, NEW seq \in SeqNums, s.probation = 0,
           s.packetCount < MaxCount
    PROVE  RecordReceptionData(s, seq).receivedPrior = s.receivedPrior
<1> DEFINE c == CheckSequence(s, seq)
<1>1. c \in Stats /\ c.packetCount = s.packetCount
  BY CheckType
<1>2. c.receivedPrior = s.receivedPrior
  BY DEF CheckSequence, Advance, Jump, Stats
<1> HIDE DEF c
<1>3. CountPacket(c, seq).receivedPrior = c.receivedPrior
  BY <1>1 DEF CountPacket, Stats
<1> QED
  BY <1>2, <1>3 DEF RecordReceptionData, c

\* Only an accepted packet sets dataAfterLastReport, and it is counted.
LEMMA StepReported == Inv /\ Reported /\ [ReceptionNext]_receptionVars => Reported'
<1> SUFFICES ASSUME Inv, Reported, [ReceptionNext]_receptionVars PROVE Reported'
  OBVIOUS
<1>1. /\ stats \in Stats /\ stats.probation = 0 /\ stats.packetCount \in Nat
      /\ stats.receivedPrior \in Nat /\ MaxCount \in Nat
  BY Constants DEF Inv, ReceptionTypeOK, Stats
<1>2. ASSUME NEW e \in start .. start + MaxSent - 1, Receive(e) PROVE Reported'
  <2>1. /\ e % SeqMod \in SeqNums /\ stats.packetCount < MaxCount
        /\ stats' = RecordReceptionData(stats, e % SeqMod)
        /\ stats'.packetCount = IF Accepts(stats, e % SeqMod)
                                THEN stats.packetCount + 1 ELSE stats.packetCount
    BY <1>2, Arrives DEF Receive
  <2>2. stats'.receivedPrior = stats.receivedPrior
    BY <1>1, <2>1, PriorKept
  <2>3. dataAfterLastReport' = (dataAfterLastReport \/ Accepts(stats, e % SeqMod))
    BY <1>2 DEF Receive
  <2>4. CASE Accepts(stats, e % SeqMod)
    BY <1>1, <2>1, <2>2, <2>4 DEF Reported
  <2>5. CASE ~Accepts(stats, e % SeqMod)
    <3>1. dataAfterLastReport' => dataAfterLastReport
      BY <2>3, <2>5, Zenon
    <3> QED
      BY <1>1, <2>1, <2>2, <2>5, <3>1 DEF Reported
  <2> QED
    BY <2>4, <2>5
<1>3. CASE BuildRtcpPkt
  BY <1>1, <1>3 DEF BuildRtcpPkt, MakeRecvReport, Reported, Stats
<1>4. CASE UNCHANGED receptionVars
  BY <1>4 DEF receptionVars, Reported
<1> QED
  BY <1>2, <1>3, <1>4 DEF ReceptionNext, OnRecvAny

\* A proper fraction, times 256, fits the byte of the report block.
LEMMA FitsByte ==
    ASSUME NEW a \in Nat, NEW b \in Nat \ {0}, a < 256 * b
    PROVE  a \div b \in 0 .. 255
<1>1. PICK q \in Nat : q = a \div b /\ b * q <= a
  <2>1. a = b * (a \div b) + (a % b) /\ a % b \in Nat /\ a \div b \in Nat
    OBVIOUS
  <2> QED
    BY <2>1
<1>2. CASE q >= 256
  <2>1. PICK n \in Nat : q = 256 + n
    BY <1>2
  <2>2. b * q = 256 * b + b * n
    BY <2>1
  <2>3. b * n \in Nat
    OBVIOUS
  <2> QED
    BY <1>1, <2>2, <2>3
<1> QED
  BY <1>1, <1>2

\* A number below W is its own remainder.
LEMMA Below ==
    ASSUME NEW W \in Nat, NEW x \in Nat, x < W
    PROVE  x % W = x
OBVIOUS

\* What makeRecvReport puts into the byte is the exact fraction of the
\* interval, for every modulus, as long as the shift by eight bits does not
\* leave the word: a source sends fewer than 2^24 packets.
THEOREM FractionIsExact == 256 * MaxSent < WordMod => (ReceptionSpec => []FractionExact)
<1> SUFFICES ASSUME 256 * MaxSent < WordMod PROVE ReceptionSpec => []FractionExact
  OBVIOUS
<1>1. ReceptionInit => Counted
  BY FS_EmptySet DEF ReceptionInit, InitStats, Counted, Tracking
<1>2. ReceptionInit => Reported
  BY Constants DEF ReceptionInit, InitStats, Reported
<1>3. Inv /\ Counted /\ Reported => FractionExact
  <2> DEFINE expected == high - first + 1 - stats.expectedPrior
             received == stats.packetCount - stats.receivedPrior
             lost == expected - received
  <2> SUFFICES ASSUME Inv, Counted, Reported, Tracking, dataAfterLastReport,
                      expected > 0, lost >= 0
               PROVE  FracLost(stats) = (256 * lost) \div expected
    BY DEF FractionExact
  <2>1. /\ first \in Nat /\ high \in Nat /\ start \in Nat
        /\ stats.packetCount \in Nat /\ stats.packetCount # 0
        /\ stats.expectedPrior \in Nat /\ stats.receivedPrior \in Nat
        /\ MaxSent \in Nat /\ WordMod \in Nat /\ MaxCount < WordMod /\ MaxCount \in Nat
    BY ReceptionAssumption DEF Inv, ReceptionTypeOK, Stats, Tracking
  <2>2. Expected(stats) = high - first + 1
    BY InvTracksHighest DEF TracksHighest
  <2>3. high - first + 1 <= MaxSent
    BY <2>1 DEF Counted
  <2>4. expected \in 1 .. MaxSent /\ received \in 1 .. MaxCount
        /\ lost \in Nat /\ lost < expected
    BY <2>1, <2>3 DEF Reported
  <2>5. Expected(stats) - stats.expectedPrior = expected
    BY <2>1, <2>2
  <2> HIDE DEF expected, received
  <2>6. ExpectedDelta(stats) = expected /\ ReceivedDelta(stats) = received
    <3>1. expected \in Nat /\ expected < WordMod /\ received \in Nat /\ received < WordMod
      BY <2>1, <2>4
    <3>2. expected % WordMod = expected /\ received % WordMod = received
      BY <2>1, <3>1, Below
    <3> QED
      BY <2>5, <3>2 DEF ExpectedDelta, ReceivedDelta, received
  <2>7. LostDelta(stats) = lost
    BY <2>1, <2>4, <2>6, Below DEF LostDelta
  <2> HIDE DEF lost
  <2>8. (lost * 256) % WordMod = 256 * lost /\ 256 * lost < 256 * expected
    BY <2>1, <2>4, Below
  <2>9. (256 * lost) \div expected \in 0 .. 255
    BY <2>4, <2>8, FitsByte
  <2>10. ((256 * lost) \div expected) % 256 = (256 * lost) \div expected
    BY <2>9
  <2>11. CASE lost = 0
    BY <2>4, <2>6, <2>7, <2>11 DEF FracLost
  <2>12. CASE lost > 0
    BY <2>4, <2>6, <2>7, <2>8, <2>10, <2>12 DEF FracLost
  <2> QED
    BY <2>4, <2>11, <2>12
<1> QED
  BY <1>1, <1>2, <1>3, InitInv, StepInv, StepCounted, StepReported, PTL DEF ReceptionSpec
=============================================================================
