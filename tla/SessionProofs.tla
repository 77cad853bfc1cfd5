--------------------------- MODULE SessionProofs ---------------------------
(***************************************************************************)
(* Proofs about Session for any sets of SSRCs and addresses and any bounds. *)
(***************************************************************************)
EXTENDS Session, FiniteSetTheorems, TLAPS

-----------------------------------------------------------------------------
(* A conflicting address renews at most one SSRC.                          *)

\* Readers that have recorded a conflict and not yet renewed the SSRC.
Renewing == {"bye", "find", "replace"}
Pending == {k \in Kinds : recv[k].pc \in Renewing}

\* Every renewal, done or pending, has its own entry in conflicts.
Charged ==
    /\ recv = [k \in Kinds |-> recv[k]]
    /\ renewals \in Nat
    /\ IsFiniteSet(conflicts)
    /\ renewals + Cardinality(Pending) <= Cardinality(conflicts)

\* There are two readers.
LEMMA PendingFinite == IsFiniteSet(Pending) /\ Cardinality(Pending) \in Nat
<1>1. IsFiniteSet({"data", "ctrl"})
  <2>1. IsFiniteSet({"data"})
    BY FS_Singleton
  <2>2. IsFiniteSet({"data"} \cup {"ctrl"})
    BY <2>1, FS_AddElement
  <2>3. {"data"} \cup {"ctrl"} = {"data", "ctrl"}
    OBVIOUS
  <2> QED
    BY <2>2, <2>3
<1>2. Pending \subseteq {"data", "ctrl"}
  BY DEF Pending, Kinds
<1> QED
  BY <1>1, <1>2, FS_Subset, FS_CardinalityType, Zenon

\* Steps that neither record a conflict nor renew keep the account.
LEMMA NothingCharged ==
    ASSUME Charged, UNCHANGED <<conflicts, renewals>>,
           recv' = [k \in Kinds |-> recv'[k]], Pending' \subseteq Pending
    PROVE  Charged'
<1>1. Cardinality(Pending') <= Cardinality(Pending) /\ Cardinality(Pending') \in Nat
  BY PendingFinite, FS_Subset, FS_CardinalityType
<1>2. Cardinality(conflicts) \in Nat
  BY FS_CardinalityType DEF Charged
<1>3. renewals + Cardinality(Pending') <= Cardinality(conflicts)
  BY <1>1, <1>2, PendingFinite DEF Charged
<1> QED
  BY <1>3 DEF Charged

\* A reader that goes where no renewal is pending.
LEMMA Leaves ==
    ASSUME NEW k \in Kinds, NEW l, Charged, Goto(k, l), l.pc \notin Renewing
    PROVE  /\ recv' = [j \in Kinds |-> recv'[j]]
           /\ Pending' = Pending \ {k}
  BY DEF Goto, Charged, Pending

\* A reader that goes on with a renewal.
LEMMA GoesOn ==
    ASSUME NEW k \in Kinds, NEW l, Charged, Goto(k, l), l.pc \in Renewing
    PROVE  /\ recv' = [j \in Kinds |-> recv'[j]]
           /\ Pending' = Pending \cup {k}
  BY DEF Goto, Charged, Pending

\* A rejected packet, or a crash, charges nothing.
LEMMA RejectCharged ==
    ASSUME NEW k \in Kinds, NEW type, NEW ssrc, NEW index, Charged,
           RejectPacket(k, type, ssrc, index)
    PROVE  Charged'
<1>1. CASE k = "ctrl"
  <2>1. UNCHANGED <<conflicts, renewals, recv>>
    BY <1>1 DEF RejectPacket, Crash
  <2> QED
    BY <2>1, NothingCharged DEF Charged, Pending
<1>2. CASE k # "ctrl"
  <2>1. UNCHANGED <<conflicts, renewals>> /\ Goto(k, Waiting)
    BY <1>2 DEF RejectPacket
  <2>2. Waiting.pc \notin Renewing
    BY DEF Waiting, Renewing
  <2> QED
    BY <2>1, <2>2, Leaves, NothingCharged
<1> QED
  BY <1>1, <1>2

\* An accepted packet leaves the collision handling.
LEMMA AcceptLeaves ==
    ASSUME NEW k \in Kinds, NEW l, NEW n, Charged, AcceptPacket(k, l, n)
    PROVE  /\ recv' = [j \in Kinds |-> recv'[j]]
           /\ Pending' = Pending \ {k}
<1>1. CASE k = "ctrl"
  <2>1. Goto(k, [pc |-> "rest", obj |-> l.obj, existing |-> l.existing])
    BY <1>1 DEF AcceptPacket
  <2> QED
    BY <2>1, Leaves DEF Renewing
<1>2. CASE k # "ctrl"
  <2>1. Goto(k, Waiting)
    BY <1>2 DEF AcceptPacket
  <2> QED
    BY <2>1, Leaves DEF Waiting, Renewing
<1> QED
  BY <1>1, <1>2

\* Finding or creating the stream of a packet charges nothing.
LEMMA AssignCharged ==
    ASSUME NEW k \in Kinds, Charged, AssignStream(k)
    PROVE  Charged'
<1>1. PICK ssrc \in Ssrcs, from \in FromAddrs(k) :
          \/ TooManyStreams(k, ssrc) \/ NewStream(k, ssrc, from)
          \/ WrongStatus(k, ssrc) \/ KnownStream(k, ssrc, from)
  BY DEF AssignStream
<1>2. CASE TooManyStreams(k, ssrc) \/ WrongStatus(k, ssrc)
  BY <1>2, RejectCharged DEF TooManyStreams, WrongStatus
<1>3. CASE NewStream(k, ssrc, from)
  <2>1. /\ UNCHANGED <<conflicts, renewals>>
        /\ Goto(k, [pc |-> "check", obj |-> Len(streams'), from |-> from,
                    existing |-> FALSE])
    BY <1>3 DEF NewStream
  <2> QED
    BY <2>1, Leaves, NothingCharged DEF Renewing
<1>4. CASE KnownStream(k, ssrc, from)
  <2>1. PICK o \in LookupSsrcMap(ssrc) :
          /\ UNCHANGED <<conflicts, renewals>>
          /\ Goto(k, [pc |-> "check", obj |-> o, from |-> from,
                      existing |-> TRUE])
    BY <1>4, Zenon DEF KnownStream
  <2> QED
    BY <2>1, Leaves, NothingCharged DEF Renewing
<1> QED
  BY <1>1, <1>2, <1>3, <1>4

\* Only a new address starts a renewal, and it is recorded.
LEMMA CheckCharged ==
    ASSUME NEW k \in Kinds, Charged, CheckSsrcIncoming(k)
    PROVE  Charged'
<1> DEFINE l == recv[k]
<1>1. l.pc = "check" /\ k \notin Pending
  BY DEF CheckSsrcIncoming, Pending, Renewing
<1>2. CASE NoCollision(k, l)
  <2>1. UNCHANGED <<conflicts, renewals>> /\ AcceptPacket(k, l, inIndex)
    BY <1>2 DEF NoCollision
  <2> QED
    BY <2>1, AcceptLeaves, NothingCharged
<1>3. CASE ForeignCollision(k, l)
  <2>1. CASE RepeatedConflict(k, streams[l.obj], l.from)
    BY <1>3, <2>1, RejectCharged DEF ForeignCollision
  <2>2. CASE ~RepeatedConflict(k, streams[l.obj], l.from)
    <3>1. UNCHANGED <<conflicts, renewals>> /\ AcceptPacket(k, l, inIndex)
      BY <1>3, <2>2 DEF ForeignCollision
    <3> QED
      BY <3>1, AcceptLeaves, NothingCharged
  <2> QED
    BY <2>1, <2>2
<1>4. CASE LocalCollision(k, l)
  <2>1. CASE \E c \in conflicts : SameSource(k, c, l.from)
    BY <1>4, <2>1, RejectCharged DEF LocalCollision
  <2>2. CASE ~\E c \in conflicts : SameSource(k, c, l.from)
    <3>1. PICK out \in LookupSsrcMapOut(streams[l.obj].ssrc) :
            /\ conflicts' = conflicts \cup {l.from} /\ renewals' = renewals
            /\ Goto(k, [pc |-> "bye", obj |-> l.obj, from |-> l.from,
                        existing |-> l.existing, out |-> out])
      BY <1>4, <2>2 DEF LocalCollision, RecordConflict
    <3>2. l.from \notin conflicts
      BY <2>2 DEF SameSource
    <3>3. /\ IsFiniteSet(conflicts')
          /\ Cardinality(conflicts') = Cardinality(conflicts) + 1
          /\ Cardinality(conflicts) \in Nat
      BY <3>1, <3>2, FS_AddElement, FS_CardinalityType, Zenon DEF Charged
    <3>4. /\ recv' = [j \in Kinds |-> recv'[j]]
          /\ Pending' = Pending \cup {k}
      BY <3>1, GoesOn DEF Renewing
    <3>5. Cardinality(Pending') = Cardinality(Pending) + 1
      BY <1>1, <3>4, PendingFinite, FS_AddElement, Zenon
    <3>6. renewals' \in Nat
          /\ renewals' + Cardinality(Pending') <= Cardinality(conflicts')
      BY <3>1, <3>3, <3>5, PendingFinite DEF Charged
    <3> QED
      BY <3>3, <3>4, <3>6 DEF Charged
  <2> QED
    BY <2>1, <2>2
<1> QED
  BY <1>2, <1>3, <1>4 DEF CheckSsrcIncoming

\* The BYE and the search for the index keep a renewal pending.
LEMMA ByeFindCharged ==
    ASSUME NEW k \in Kinds, Charged, CollisionBye(k) \/ FindIndex(k)
    PROVE  Charged'
<1> DEFINE l == recv[k]
<1>1. k \in Pending
  BY DEF CollisionBye, FindIndex, Pending, Renewing
<1>2. CASE UNCHANGED <<conflicts, renewals, recv>>
  BY <1>2, NothingCharged DEF Charged, Pending
<1>3. CASE CollisionBye(k) /\ ~UNCHANGED <<conflicts, renewals, recv>>
  <2>1. /\ UNCHANGED <<conflicts, renewals>>
        /\ Goto(k, [pc |-> "find", obj |-> l.obj, from |-> l.from,
                    existing |-> l.existing, out |-> l.out])
    BY <1>3 DEF CollisionBye, Crash
  <2> QED
    BY <1>1, <2>1, GoesOn, NothingCharged DEF Renewing
<1>4. CASE FindIndex(k)
  <2>1. PICK i : /\ UNCHANGED <<conflicts, renewals>>
                 /\ Goto(k, [pc |-> "replace", obj |-> l.obj,
                             from |-> l.from, existing |-> l.existing,
                             out |-> l.out, idx |-> i])
    BY <1>4, Zenon DEF FindIndex
  <2> QED
    BY <1>1, <2>1, GoesOn, NothingCharged DEF Renewing
<1> QED
  BY <1>2, <1>3, <1>4

\* A renewal that happens is no longer pending.
LEMMA ReplaceCharged ==
    ASSUME NEW k \in Kinds, Charged, ReplaceStream(k)
    PROVE  Charged'
<1> DEFINE l == recv[k]
<1>1. k \in Pending
  BY DEF ReplaceStream, Pending, Renewing
<1>2. CASE UNCHANGED <<conflicts, renewals, recv>>
  BY <1>2, NothingCharged DEF Charged, Pending
<1>3. CASE ~UNCHANGED <<conflicts, renewals, recv>>
  <2>1. /\ renewals' = renewals + 1 /\ conflicts' = conflicts
        /\ AcceptPacket(k, l, inIndex + 1)
    BY <1>3 DEF ReplaceStream, Crash
  <2>2. /\ recv' = [j \in Kinds |-> recv'[j]]
        /\ Pending' = Pending \ {k}
    BY <2>1, AcceptLeaves
  <2>3. Cardinality(Pending') = Cardinality(Pending) - 1
    BY <1>1, <2>2, PendingFinite, FS_RemoveElement
  <2>4. Cardinality(conflicts) \in Nat
    BY FS_CardinalityType DEF Charged
  <2>5. /\ renewals' \in Nat
        /\ renewals' + Cardinality(Pending') <= Cardinality(conflicts)
    BY <2>1, <2>3, <2>4, PendingFinite DEF Charged
  <2> QED
    BY <2>1, <2>2, <2>5 DEF Charged
<1> QED
  BY <1>2, <1>3

\* The rest of a control packet, the service and the application neither
\* record conflicts nor renew.
LEMMA OthersCharged ==
    ASSUME Charged, OnRecvCtrl \/ RtcpService \/ Application
    PROVE  Charged'
<1>1. CASE OnRecvCtrl
  <2>1. UNCHANGED <<conflicts, renewals>> /\ Goto("ctrl", Waiting)
    BY <1>1 DEF OnRecvCtrl, Report, ReportWithBye
  <2>2. "ctrl" \in Kinds /\ Waiting.pc \notin Renewing
    BY DEF Kinds, Waiting, Renewing
  <2> QED
    BY <2>1, <2>2, Leaves, NothingCharged
<1>2. CASE RtcpService \/ Application
  <2>1. UNCHANGED <<conflicts, renewals, recv>>
    BY <1>2, Zenon DEF RtcpService, InputPass, OutputPass, WriteReport, Application,
         NewSsrcStreamOut, WriteData, NewDataPacketForStream,
         SsrcStreamCloseForIndex, Crash
  <2> QED
    BY <2>1, NothingCharged DEF Charged, Pending
<1> QED
  BY <1>1, <1>2

\* Every step keeps the account.
LEMMA StepCharged == Charged /\ [Next]_vars => Charged'
<1> SUFFICES ASSUME Charged, [Next]_vars
             PROVE  Charged'
  OBVIOUS
<1>1. "data" \in Kinds /\ "ctrl" \in Kinds
  BY DEF Kinds
<1>2. CASE Arrival
  BY <1>1, <1>2, AssignCharged DEF Arrival, OnRecvData, RtcpSenderCheck
<1>3. CASE Reader
  BY <1>1, <1>3, CheckCharged, ByeFindCharged, ReplaceCharged, OthersCharged
     DEF Reader, CheckSsrcIncomingData, CheckSsrcIncomingCtrl
<1>4. CASE RtcpService \/ Application
  BY <1>4, OthersCharged
<1>5. CASE UNCHANGED vars
  BY <1>5, NothingCharged DEF vars, Charged, Pending
<1> QED
  BY <1>2, <1>3, <1>4, <1>5 DEF Next

\* No conflict and no renewal at the start.
LEMMA InitCharged == Init => Charged
<1> SUFFICES ASSUME Init
             PROVE  Charged
  OBVIOUS
<1>1. Pending = {}
  BY DEF Init, Pending, Waiting, Renewing
<1> QED
  BY <1>1, FS_EmptySet DEF Init, Charged

\* The list of conflicting addresses that checkSsrcIncomingData and
\* checkSsrcIncomingCtrl keep does its work for any number of streams,
\* addresses and packets: each address on it has made replaceStream change
\* an SSRC at most once, even with both readers in the middle of a collision.
THEOREM RenewedOnce == Spec => []OneRenewalPerConflict
<1>1. Charged => OneRenewalPerConflict
  <2> SUFFICES ASSUME Charged
               PROVE  OneRenewalPerConflict
    OBVIOUS
  <2>1. Cardinality(conflicts) \in Nat
    BY FS_CardinalityType DEF Charged
  <2> QED
    BY <2>1, PendingFinite DEF Charged, OneRenewalPerConflict
<1> QED
  BY <1>1, InitCharged, StepCharged, PTL DEF Spec

-----------------------------------------------------------------------------
(* The number of input streams.                                            *)

\* Beyond the limit of the readers every input stream was an output stream.
Bounded ==
    /\ IsFiniteSet(DOMAIN streamsIn)
    /\ Cardinality(DOMAIN streamsIn) <= MaxNumberInStreams + 1 + renewals

\* Storing an entry in a map adds its index.
LEMMA PutDomain ==
    ASSUME NEW m, NEW k, NEW o
    PROVE  DOMAIN Put(m, k, o) = DOMAIN m \cup {k}
  BY DEF Put

\* What a step may do to the map of input streams: the readers add one if the
\* limit is not reached, a renewal adds one, the service removes some.
LEMMA InputsChange ==
    ASSUME [Next]_vars
    PROVE  \/ UNCHANGED <<streamsIn, inIndex, renewals>>
           \/ renewals' = renewals /\ ~InStreamsFull /\ \E o : AddInput(o)
           \/ renewals' = renewals + 1 /\ \E o : AddInput(o)
           \/ UNCHANGED <<inIndex, renewals>> /\ \E K : streamsIn' = Delete(streamsIn, K)
<1> DEFINE Goal == \/ UNCHANGED <<streamsIn, inIndex, renewals>>
                   \/ renewals' = renewals /\ ~InStreamsFull /\ \E o : AddInput(o)
                   \/ renewals' = renewals + 1 /\ \E o : AddInput(o)
                   \/ UNCHANGED <<inIndex, renewals>> /\ \E K : streamsIn' = Delete(streamsIn, K)
<1>1. ASSUME NEW k, NEW ssrc, NEW from, NewStream(k, ssrc, from) PROVE Goal
  <2>1. renewals' = renewals /\ ~InStreamsFull /\ AddInput(Len(streams'))
    BY <1>1 DEF NewStream
  <2> QED
    BY <2>1
<1>2. ASSUME NEW k, ReplaceStream(k) PROVE Goal
  <2>1. \/ UNCHANGED <<streamsIn, inIndex, renewals>>
        \/ renewals' = renewals + 1 /\ AddInput(recv[k].out)
    BY <1>2 DEF ReplaceStream, Crash
  <2> QED
    BY <2>1
<1>3. CASE InputPass
  BY <1>3 DEF InputPass
<1>4. ASSUME NEW k, AssignStream(k) PROVE Goal
  <2>1. PICK ssrc, from : \/ TooManyStreams(k, ssrc) \/ NewStream(k, ssrc, from)
                          \/ WrongStatus(k, ssrc) \/ KnownStream(k, ssrc, from)
    BY <1>4 DEF AssignStream
  <2>2. CASE TooManyStreams(k, ssrc) \/ WrongStatus(k, ssrc) \/ KnownStream(k, ssrc, from)
    BY <2>2, Zenon DEF TooManyStreams, WrongStatus, KnownStream, RejectPacket, Crash, mapVars
  <2> QED
    BY <1>1, <2>1, <2>2
<1>5. ASSUME NEW k, \/ CheckSsrcIncoming(k) \/ CollisionBye(k) \/ FindIndex(k)
                    \/ OnRecvCtrl \/ OutputPass \/ WriteReport \/ Application
                    \/ UNCHANGED vars
      PROVE  UNCHANGED <<streamsIn, inIndex, renewals>>
  <2>1. CASE CheckSsrcIncoming(k)
    BY <2>1, Zenon DEF CheckSsrcIncoming, NoCollision, ForeignCollision, LocalCollision,
                RejectPacket, Crash, mapVars
  <2>2. CASE \/ CollisionBye(k) \/ FindIndex(k) \/ OnRecvCtrl
    BY <2>2 DEF CollisionBye, FindIndex, OnRecvCtrl, Report, ReportWithBye, Crash, mapVars
  <2>3. CASE \/ OutputPass \/ WriteReport \/ Application \/ UNCHANGED vars
    BY <2>3, Zenon DEF OutputPass, WriteReport, Application, NewSsrcStreamOut, WriteData,
                NewDataPacketForStream, SsrcStreamCloseForIndex, Crash, mapVars, vars
  <2> QED
    BY <1>5, <2>1, <2>2, <2>3
<1> QED
  BY <1>2, <1>3, <1>4, <1>5
     DEF Next, Arrival, OnRecvData, RtcpSenderCheck, Reader, CheckSsrcIncomingData,
         CheckSsrcIncomingCtrl, RtcpService

\* Every step keeps the bound.
LEMMA StepBounded == Charged /\ Bounded /\ [Next]_vars => Bounded'
<1> SUFFICES ASSUME Charged, Bounded, [Next]_vars PROVE Bounded'
  OBVIOUS
<1> DEFINE n == Cardinality(DOMAIN streamsIn)
<1>1. n \in Nat /\ MaxNumberInStreams \in Nat /\ renewals \in Nat
  BY SessionAssumption, FS_CardinalityType DEF Bounded, Charged
<1>2. ASSUME NEW o, AddInput(o)
      PROVE  /\ IsFiniteSet(DOMAIN streamsIn')
             /\ Cardinality(DOMAIN streamsIn') \in Nat
             /\ Cardinality(DOMAIN streamsIn') <= n + 1
  <2>1. DOMAIN streamsIn' = DOMAIN streamsIn \cup {inIndex}
    BY <1>2, PutDomain, Zenon DEF AddInput
  <2> QED
    BY <1>1, <2>1, FS_AddElement DEF Bounded
<1>3. CASE UNCHANGED <<streamsIn, renewals>>
  BY <1>3 DEF Bounded
<1>4. ASSUME NEW o, AddInput(o), renewals' = renewals, ~InStreamsFull PROVE Bounded'
  <2>1. n <= MaxNumberInStreams
    BY <1>1, <1>4 DEF InStreamsFull
  <2> QED
    BY <1>1, <1>2, <1>4, <2>1 DEF Bounded
<1>5. ASSUME NEW o, AddInput(o), renewals' = renewals + 1 PROVE Bounded'
  BY <1>1, <1>2, <1>5 DEF Bounded
<1>6. ASSUME NEW K, streamsIn' = Delete(streamsIn, K), renewals' = renewals PROVE Bounded'
  <2>1. DOMAIN streamsIn' \subseteq DOMAIN streamsIn
    BY <1>6 DEF Delete, Restrict
  <2>2. IsFiniteSet(DOMAIN streamsIn') /\ Cardinality(DOMAIN streamsIn') <= n
        /\ Cardinality(DOMAIN streamsIn') \in Nat
    BY <2>1, FS_Subset, FS_CardinalityType DEF Bounded
  <2> QED
    BY <1>1, <1>6, <2>2 DEF Bounded
<1> QED
  BY <1>3, <1>4, <1>5, <1>6, InputsChange

\* However many packets collide, the input streams stay within the limit of
\* OnRecvData and rtcpSenderCheck, one more, and one for each conflicting
\* address: nothing but a renewal adds a stream past the limit.
THEOREM InputsBounded == Spec => []InStreamsBounded
<1>1. Init => Bounded
  <2> SUFFICES ASSUME Init PROVE Bounded
    OBVIOUS
  <2>1. DOMAIN streamsIn = {} /\ renewals = 0
    BY DEF Init
  <2> QED
    BY <2>1, FS_EmptySet, SessionAssumption DEF Bounded
<1>2. Charged /\ Bounded => InStreamsBounded
  <2> SUFFICES ASSUME Charged, Bounded PROVE InStreamsBounded
    OBVIOUS
  <2>1. /\ Cardinality(conflicts) \in Nat /\ Cardinality(DOMAIN streamsIn) \in Nat
        /\ MaxNumberInStreams \in Nat /\ renewals \in Nat
    BY FS_CardinalityType, SessionAssumption DEF Charged, Bounded
  <2> QED
    BY <2>1, PendingFinite DEF Charged, Bounded, InStreamsBounded
<1> QED
  BY <1>1, <1>2, InitCharged, StepCharged, StepBounded, PTL DEF Spec

\* Neither the readers nor the collision handling give an index of an input
\* stream to another stream, for any number of streams.
THEOREM IndexStable == Spec => InputIndexStable
<1> DEFINE Index == inIndex \in Nat
<1>1. Init => Index
  BY DEF Init
<1>2. Index /\ [Next]_vars => Index'
  BY InputsChange DEF AddInput
<1>3. ASSUME Index, [Next]_vars
      PROVE  [\A i \in 0 .. inIndex - 1 :
                i \in DOMAIN streamsIn' => /\ i \in DOMAIN streamsIn
                                           /\ streamsIn'[i] = streamsIn[i]]_vars
  <2> SUFFICES ASSUME NEW i \in 0 .. inIndex - 1, i \in DOMAIN streamsIn'
               PROVE  i \in DOMAIN streamsIn /\ streamsIn'[i] = streamsIn[i]
    OBVIOUS
  <2>1. i # inIndex
    BY <1>3
  <2>2. ASSUME NEW o, AddInput(o)
        PROVE  i \in DOMAIN streamsIn /\ streamsIn'[i] = streamsIn[i]
    BY <2>1, <2>2 DEF AddInput, Put
  <2>3. ASSUME NEW K, streamsIn' = Delete(streamsIn, K)
        PROVE  i \in DOMAIN streamsIn /\ streamsIn'[i] = streamsIn[i]
    BY <2>3 DEF Delete, Restrict
  <2> QED
    BY <1>3, <2>2, <2>3, InputsChange
<1> QED
  BY <1>1, <1>2, <1>3, PTL DEF Spec, InputIndexStable

-----------------------------------------------------------------------------
(* SSRCs are unique.                                                       *)

Nrs == 1 .. Len(streams)

\* The local variables of a reader: its stream, the address of its packet,
\* and the output stream it collides with.
Local(k) ==
    /\ recv[k].pc \in {"check"} \cup Renewing =>
          recv[k].obj \in Nrs /\ recv[k].from \in FromAddrs(k)
    /\ recv[k].pc \in Renewing => recv[k].out \in Nrs

Typed ==
    /\ TypeOK
    /\ recv = [k \in Kinds |-> recv[k]]
    /\ \A k \in Kinds : Local(k)

\* The addresses the readers of the transport put in packets.
LEMMA FromIsAddress ==
    ASSUME NEW k \in Kinds, NEW from \in FromAddrs(k)
    PROVE  from \in Addresses
  BY StreamsAssumption DEF FromAddrs, FromAddr, Addresses, Kinds

\* Learning a port and following an address keep the SSRC.
LEMMA AddressChanges ==
    ASSUME NEW k \in Kinds, NEW s \in Stream, NEW from \in FromAddrs(k)
    PROVE  /\ LearnPort(k, s, from) \in Stream /\ LearnPort(k, s, from).ssrc = s.ssrc
           /\ FollowAddress(k, s, from) \in Stream /\ FollowAddress(k, s, from).ssrc = s.ssrc
<1>1. from \in Addresses /\ s.addr \in Addresses
  BY FromIsAddress DEF Stream
<1>2. ASSUME NEW a \in Addresses
      PROVE  [a EXCEPT ![k] = from[k]] \in Addresses
  BY <1>1 DEF Addresses, Kinds
<1>3. LearnPort(k, s, from) \in Stream /\ LearnPort(k, s, from).ssrc = s.ssrc
  <2>1. LearnPort(k, s, from) = s
        \/ LearnPort(k, s, from) = [s EXCEPT !.addr = [s.addr EXCEPT ![k] = from[k]]]
    BY DEF LearnPort, Stream
  <2> QED
    BY <1>1, <1>2, <2>1 DEF Stream
<1>4. FollowAddress(k, s, from) \in Stream /\ FollowAddress(k, s, from).ssrc = s.ssrc
  <2> DEFINE a == [s.addr EXCEPT !.ip = from.ip]
  <2>1. a \in Addresses
    BY <1>1 DEF Addresses
  <2>2. FollowAddress(k, s, from) = [s EXCEPT !.prev = from, !.addr = [a EXCEPT ![k] = from[k]]]
    BY Zenon DEF FollowAddress, Stream
  <2> HIDE DEF a
  <2> QED
    BY <1>1, <1>2, <2>1, <2>2, Zenon DEF Stream
<1> QED
  BY <1>3, <1>4

\* Stream objects are never removed, and keep their SSRC.
Grows ==
    /\ streams' \in Seq(Stream) /\ Len(streams') <= MaxObjs
    /\ Len(streams) <= Len(streams')
    /\ \A o \in Nrs : streams'[o].ssrc = streams[o].ssrc

\* Assigning to one object leaves the others alone.
LEMMA ChangeOne ==
    ASSUME TypeOK, NEW o \in Nrs, NEW r \in Stream, r.ssrc = streams[o].ssrc,
           streams' = [streams EXCEPT ![o] = r]
    PROVE  Grows /\ Len(streams') = Len(streams)
  BY DEF Grows, Nrs, TypeOK

\* A new object comes with its own number.
LEMMA CreateOne ==
    ASSUME TypeOK, Len(streams) < MaxObjs, NEW r \in Stream, streams' = Append(streams, r)
    PROVE  /\ Grows /\ Len(streams') = Len(streams) + 1
           /\ streams'[Len(streams')] = r
  BY SessionAssumption DEF Grows, Nrs, TypeOK

\* The passes of the service change statuses only.
LEMMA CloseAllGrows ==
    ASSUME TypeOK, NEW m, CloseAll(m)
    PROVE  Grows /\ Len(streams') = Len(streams)
<1> DEFINE to(o) == IF \E i \in StatusOf(m, "isClosing") : m[i] = o
                    THEN [streams[o] EXCEPT !.status = "isClosed"]
                    ELSE streams[o]
<1>1. streams \in Seq(Stream) /\ DOMAIN streams = 1 .. Len(streams)
  BY DEF TypeOK
<1>2. streams' = [o \in 1 .. Len(streams) |-> to(o)]
  BY <1>1 DEF CloseAll
<1>3. ASSUME NEW o \in 1 .. Len(streams)
      PROVE  to(o) \in Stream /\ to(o).ssrc = streams[o].ssrc
  <2>1. streams[o] \in Stream
    BY <1>1
  <2>2. [streams[o] EXCEPT !.status = "isClosed"] \in Stream
        /\ [streams[o] EXCEPT !.status = "isClosed"].ssrc = streams[o].ssrc
    BY <2>1 DEF Stream, Statuses
  <2> QED
    BY <2>1, <2>2
<1> HIDE DEF to
<1>4. streams' \in Seq(Stream) /\ Len(streams') = Len(streams)
  <2>1. Len(streams) \in Nat
    BY <1>1
  <2> QED
    BY <1>2, <1>3, <2>1
<1> QED
  BY <1>2, <1>3, <1>4 DEF Grows, Nrs, TypeOK

\* What a step may do to the maps: remove entries, or store an object whose
\* SSRC the map does not hold yet.
InputsKept ==
    \/ UNCHANGED <<streamsIn, inIndex>>
    \/ inIndex' = inIndex /\ \E K : streamsIn' = Delete(streamsIn, K)
    \/ \E o \in Nrs' : /\ AddInput(o)
                        /\ \A i \in DOMAIN streamsIn :
                              streams[streamsIn[i]].ssrc # streams'[o].ssrc

OutputsKept ==
    \/ UNCHANGED streamsOut
    \/ \E K : streamsOut' = Delete(streamsOut, K)
    \/ \E i : \E o \in Nrs' : /\ streamsOut' = Put(streamsOut, i, o)
                              /\ \A j \in DOMAIN streamsOut :
                                    streams[streamsOut[j]].ssrc # streams'[o].ssrc

LocalsKept ==
    /\ recv' = [k \in Kinds |-> recv'[k]]
    /\ \A k \in Kinds : Local(k)'

RestTyped ==
    /\ outIndex' \in Nat /\ closed' \subseteq 0 .. outIndex' - 1
    /\ conflicts' \subseteq Addresses
    /\ packet' \in Ssrcs \cup {NoSsrc}
    /\ renewals' \in Nat

Good == Grows /\ InputsKept /\ OutputsKept /\ LocalsKept /\ RestTyped

\* Steps that leave the session as it is: crashes, writes, lookups.
LEMMA Unchanged ==
    ASSUME Typed, UNCHANGED <<streams, streamsIn, inIndex, streamsOut, outIndex, conflicts,
                              recv, closed, renewals>>,
           packet' \in Ssrcs \cup {NoSsrc}
    PROVE  Good
<1>1. Grows
  BY DEF Typed, TypeOK, Grows, Nrs
<1>2. LocalsKept
  BY DEF Typed, LocalsKept, Local, Nrs
<1> QED
  BY <1>1, <1>2 DEF Good, InputsKept, OutputsKept, RestTyped, Typed, TypeOK

\* A reader goes on with other local variables, the other reader waits.
LEMMA MovesOn ==
    ASSUME Typed, Grows, NEW k \in Kinds, NEW l, Goto(k, l),
           l.pc \in {"check"} \cup Renewing => l.obj \in Nrs' /\ l.from \in FromAddrs(k),
           l.pc \in Renewing => l.out \in Nrs'
    PROVE  LocalsKept
<1>1. recv' = [j \in Kinds |-> recv'[j]] /\ recv'[k] = l
      /\ \A j \in Kinds : j # k => recv'[j] = recv[j]
  BY DEF Goto, Typed
<1>2. Nrs \subseteq Nrs'
  BY DEF Grows, Nrs, Typed, TypeOK
<1>3. ASSUME NEW j \in Kinds PROVE Local(j)'
  <2>1. CASE j = k
    BY <1>1, <2>1 DEF Local
  <2>2. CASE j # k
    BY <1>1, <1>2, <2>2 DEF Local, Typed
  <2> QED
    BY <2>1, <2>2
<1> QED
  BY <1>1, <1>3 DEF LocalsKept

\* A reader that waits, or that handles the rest of a control packet.
LEMMA Accepts ==
    ASSUME Typed, Grows, NEW k \in Kinds, NEW l, NEW n, AcceptPacket(k, l, n)
    PROVE  LocalsKept
<1>1. CASE k = "ctrl"
  <2>1. Goto(k, [pc |-> "rest", obj |-> l.obj, existing |-> l.existing])
    BY <1>1 DEF AcceptPacket
  <2> QED
    BY <2>1, MovesOn DEF Renewing
<1>2. CASE k # "ctrl"
  <2>1. Goto(k, Waiting)
    BY <1>2 DEF AcceptPacket
  <2> QED
    BY <2>1, MovesOn DEF Waiting, Renewing
<1> QED
  BY <1>1, <1>2

\* A rejected packet changes nothing but the reader.
LEMMA RejectGood ==
    ASSUME Typed, NEW k \in Kinds, NEW type, NEW ssrc, NEW index,
           RejectPacket(k, type, ssrc, index)
    PROVE  Good
<1>1. packet \in Ssrcs \cup {NoSsrc}
  BY DEF Typed, TypeOK
<1>2. CASE k = "ctrl"
  BY <1>1, <1>2, Unchanged DEF RejectPacket, Crash
<1>3. CASE k # "ctrl"
  <2>1. Goto(k, Waiting) /\ UNCHANGED <<streams, mapVars, conflicts, appVars, renewals>>
    BY <1>3 DEF RejectPacket
  <2>2. Grows
    BY <2>1 DEF Typed, TypeOK, Grows, Nrs
  <2>3. LocalsKept
    BY <2>1, <2>2, MovesOn DEF Waiting, Renewing
  <2> QED
    BY <2>1, <2>2, <2>3 DEF Good, InputsKept, OutputsKept, RestTyped, Typed, TypeOK,
                            mapVars, appVars
<1> QED
  BY <1>2, <1>3

\* A lookup that finds nothing.
LEMMA NotFound ==
    ASSUME NEW ssrc
    PROVE  /\ LookupSsrcMapIn(ssrc) = {} =>
                 \A i \in DOMAIN streamsIn : streams[streamsIn[i]].ssrc # ssrc
           /\ LookupSsrcMapOut(ssrc) = {} =>
                 \A i \in DOMAIN streamsOut : streams[streamsOut[i]].ssrc # ssrc
           /\ LookupSsrcMap(ssrc) = {} =>
                 LookupSsrcMapIn(ssrc) = {} /\ LookupSsrcMapOut(ssrc) = {}
  BY DEF LookupSsrcMap, LookupSsrcMapIn, LookupSsrcMapOut, IndicesOf

\* A lookup finds objects of the session.
LEMMA FoundTyped ==
    ASSUME TypeOK, NEW ssrc
    PROVE  LookupSsrcMap(ssrc) \subseteq Nrs /\ LookupSsrcMapOut(ssrc) \subseteq Nrs
           /\ LookupSsrcMapIn(ssrc) \subseteq Nrs
<1>1. (\A i \in DOMAIN streamsIn : streamsIn[i] \in Nrs)
      /\ (\A i \in DOMAIN streamsOut : streamsOut[i] \in Nrs)
  BY DEF TypeOK, Nrs
<1> QED
  BY <1>1 DEF LookupSsrcMap, LookupSsrcMapIn, LookupSsrcMapOut, IndicesOf

\* Finding or creating the stream of a packet.
LEMMA AssignGood ==
    ASSUME Typed, NEW k \in Kinds, AssignStream(k)
    PROVE  Good
<1>1. PICK ssrc \in Ssrcs, from \in FromAddrs(k) :
          \/ TooManyStreams(k, ssrc) \/ NewStream(k, ssrc, from)
          \/ WrongStatus(k, ssrc) \/ KnownStream(k, ssrc, from)
  BY DEF AssignStream
<1>2. CASE TooManyStreams(k, ssrc) \/ WrongStatus(k, ssrc)
  BY <1>2, RejectGood DEF TooManyStreams, WrongStatus
<1>3. CASE NewStream(k, ssrc, from)
  <2> DEFINE r == [NewSsrcStreamIn(from, ssrc) EXCEPT !.status = "active"]
  <2>1. r \in Stream /\ r.ssrc = ssrc
    BY FromIsAddress DEF NewSsrcStreamIn, Stream, Statuses
  <2>2. /\ LookupSsrcMap(ssrc) = {} /\ Len(streams) < MaxObjs
        /\ streams' = Append(streams, r) /\ AddInput(Len(streams'))
        /\ Goto(k, [pc |-> "check", obj |-> Len(streams'), from |-> from,
                    existing |-> FALSE])
        /\ UNCHANGED <<streamsOut, outIndex, conflicts, appVars, renewals>>
    BY <1>3 DEF NewStream
  <2> HIDE DEF r
  <2>3. /\ Grows /\ Len(streams') = Len(streams) + 1
        /\ streams'[Len(streams')] = r
    BY <2>1, <2>2, CreateOne DEF Typed
  <2>4. Len(streams') \in Nrs'
    BY <2>3 DEF Nrs, Typed, TypeOK
  <2>5. InputsKept
    BY <2>1, <2>2, <2>3, <2>4, NotFound DEF InputsKept
  <2>6. LocalsKept
    BY <2>2, <2>3, <2>4, MovesOn DEF Renewing
  <2> QED
    BY <2>2, <2>3, <2>5, <2>6 DEF Good, OutputsKept, RestTyped, Typed, TypeOK, appVars
<1>4. CASE KnownStream(k, ssrc, from)
  <2>1. PICK o \in LookupSsrcMap(ssrc) :
          /\ streams' = [streams EXCEPT ![o] = LearnPort(k, @, from)]
          /\ Goto(k, [pc |-> "check", obj |-> o, from |-> from, existing |-> TRUE])
          /\ UNCHANGED <<mapVars, conflicts, appVars, renewals>>
    BY <1>4, Zenon DEF KnownStream
  <2>2. o \in Nrs /\ streams[o] \in Stream
    BY FoundTyped DEF Typed, TypeOK, Nrs
  <2> DEFINE r == LearnPort(k, streams[o], from)
  <2>3. r \in Stream /\ r.ssrc = streams[o].ssrc
    BY <2>2, AddressChanges
  <2>4. streams' = [streams EXCEPT ![o] = r]
    BY <2>1
  <2> HIDE DEF r
  <2>5. Grows /\ Len(streams') = Len(streams)
    BY <2>2, <2>3, <2>4, ChangeOne, Zenon DEF Typed
  <2>6. LocalsKept
    BY <2>1, <2>2, <2>5, MovesOn DEF Renewing, Nrs
  <2> QED
    BY <2>1, <2>5, <2>6 DEF Good, InputsKept, OutputsKept, RestTyped, Typed, TypeOK,
                            mapVars, appVars
<1> QED
  BY <1>1, <1>2, <1>3, <1>4

\* The collision checks change the address of a stream or record a conflict.
LEMMA CheckGood ==
    ASSUME Typed, NEW k \in Kinds, CheckSsrcIncoming(k)
    PROVE  Good
<1> DEFINE l == recv[k]
<1>1. l.obj \in Nrs /\ l.from \in FromAddrs(k) /\ streams[l.obj] \in Stream
  BY DEF CheckSsrcIncoming, Typed, Local, TypeOK, Nrs
<1>2. CASE NoCollision(k, l)
  <2>1. AcceptPacket(k, l, inIndex)
        /\ UNCHANGED <<streams, mapVars, conflicts, appVars, renewals>>
    BY <1>2 DEF NoCollision
  <2>2. Grows
    BY <2>1 DEF Typed, TypeOK, Grows, Nrs
  <2>3. LocalsKept
    BY <2>1, <2>2, Accepts
  <2> QED
    BY <2>1, <2>2, <2>3 DEF Good, InputsKept, OutputsKept, RestTyped, Typed, TypeOK,
                            mapVars, appVars
<1>3. CASE ForeignCollision(k, l)
  <2>1. CASE RepeatedConflict(k, streams[l.obj], l.from)
    BY <1>3, <2>1, RejectGood DEF ForeignCollision
  <2>2. CASE ~RepeatedConflict(k, streams[l.obj], l.from)
    <3> DEFINE r == FollowAddress(k, streams[l.obj], l.from)
    <3>1. r \in Stream /\ r.ssrc = streams[l.obj].ssrc
      BY <1>1, AddressChanges
    <3>2. /\ streams' = [streams EXCEPT ![l.obj] = r]
          /\ AcceptPacket(k, l, inIndex)
          /\ UNCHANGED <<mapVars, conflicts, appVars, renewals>>
      BY <1>3, <2>2 DEF ForeignCollision
    <3> HIDE DEF r
    <3>3. Grows
      BY <1>1, <3>1, <3>2, ChangeOne, Zenon DEF Typed
    <3>4. LocalsKept
      BY <3>2, <3>3, Accepts
    <3> QED
      BY <3>2, <3>3, <3>4 DEF Good, InputsKept, OutputsKept, RestTyped, Typed, TypeOK,
                              mapVars, appVars
  <2> QED
    BY <2>1, <2>2
<1>4. CASE LocalCollision(k, l)
  <2>1. CASE \E c \in conflicts : SameSource(k, c, l.from)
    BY <1>4, <2>1, RejectGood DEF LocalCollision
  <2>2. CASE ~\E c \in conflicts : SameSource(k, c, l.from)
    <3>1. PICK out \in LookupSsrcMapOut(streams[l.obj].ssrc) :
            /\ conflicts' = conflicts \cup {l.from}
            /\ Goto(k, [pc |-> "bye", obj |-> l.obj, from |-> l.from,
                        existing |-> l.existing, out |-> out])
            /\ UNCHANGED <<streams, mapVars, appVars, renewals>>
      BY <1>4, <2>2, Zenon DEF LocalCollision, RecordConflict
    <3>2. Grows
      BY <3>1 DEF Typed, TypeOK, Grows, Nrs
    <3>3. out \in Nrs /\ Nrs' = Nrs
      BY <3>1, FoundTyped DEF Typed, Nrs
    <3>4. LocalsKept
      BY <1>1, <3>1, <3>2, <3>3, MovesOn DEF Renewing
    <3>5. conflicts' \subseteq Addresses
      BY <1>1, <3>1, FromIsAddress DEF Typed, TypeOK
    <3> QED
      BY <3>1, <3>2, <3>4, <3>5 DEF Good, InputsKept, OutputsKept, RestTyped, Typed, TypeOK,
                                    mapVars, appVars
  <2> QED
    BY <2>1, <2>2
<1> QED
  BY <1>2, <1>3, <1>4 DEF CheckSsrcIncoming

\* The BYE and the search for the index change nothing but the reader.
LEMMA ByeFindGood ==
    ASSUME Typed, NEW k \in Kinds, CollisionBye(k) \/ FindIndex(k)
    PROVE  Good
<1> DEFINE l == recv[k]
<1>1. /\ l.obj \in Nrs /\ l.from \in FromAddrs(k) /\ l.out \in Nrs
      /\ packet \in Ssrcs \cup {NoSsrc}
  BY DEF CollisionBye, FindIndex, Typed, Local, TypeOK, Renewing
<1>2. CASE Crash("WriteCtrl")
  BY <1>1, <1>2, Unchanged DEF Crash
<1>3. ASSUME NEW n, n.obj = l.obj, n.from = l.from, n.out = l.out, Goto(k, n),
             UNCHANGED <<streams, mapVars, conflicts, appVars, renewals>>
      PROVE  Good
  <2>1. Grows /\ Nrs' = Nrs
    BY <1>3 DEF Typed, TypeOK, Grows, Nrs
  <2>2. LocalsKept
    BY <1>1, <1>3, <2>1, MovesOn
  <2> QED
    BY <1>3, <2>1, <2>2 DEF Good, InputsKept, OutputsKept, RestTyped, Typed, TypeOK,
                            mapVars, appVars
<1>4. CASE CollisionBye(k) /\ ~Crash("WriteCtrl")
  <2>1. /\ Goto(k, [pc |-> "find", obj |-> l.obj, from |-> l.from,
                    existing |-> l.existing, out |-> l.out])
        /\ UNCHANGED <<streams, mapVars, conflicts, appVars, renewals>>
    BY <1>4 DEF CollisionBye
  <2> QED
    BY <1>3, <2>1
<1>5. CASE FindIndex(k)
  <2>1. PICK i : /\ Goto(k, [pc |-> "replace", obj |-> l.obj, from |-> l.from,
                             existing |-> l.existing, out |-> l.out, idx |-> i])
                 /\ UNCHANGED <<streams, mapVars, conflicts, appVars, renewals>>
    BY <1>5, Zenon DEF FindIndex
  <2> QED
    BY <1>3, <2>1
<1> QED
  BY <1>2, <1>4, <1>5

\* replaceStream: the new stream has an unused SSRC, and its sanity check has
\* found no input stream with the old one.
LEMMA ReplaceGood ==
    ASSUME Typed, NEW k \in Kinds, ReplaceStream(k)
    PROVE  Good
<1> DEFINE l == recv[k]
           old == streams[l.out]
<1>1. /\ l.obj \in Nrs /\ l.from \in FromAddrs(k) /\ l.out \in Nrs
      /\ packet \in Ssrcs \cup {NoSsrc}
  BY DEF ReplaceStream, Typed, Local, TypeOK, Renewing
<1>2. CASE LookupSsrcMapIn(old.ssrc) # {}
  BY <1>1, <1>2, Unchanged, Zenon DEF ReplaceStream, Crash
<1>3. CASE LookupSsrcMapIn(old.ssrc) = {}
  <2>1. PICK ssrc \in UnusedSsrcs :
          streams' = Append([streams EXCEPT ![l.obj].addr = l.from],
                            [ssrc |-> ssrc, prev |-> NoAddr,
                             addr |-> old.addr, status |-> "idle"])
    BY <1>3, Zenon DEF ReplaceStream
  <2>2. /\ Len(streams) < MaxObjs
        /\ streamsOut' = Put(streamsOut, l.idx, Len(streams'))
        /\ AddInput(l.out) /\ renewals' = renewals + 1
        /\ AcceptPacket(k, l, inIndex + 1)
        /\ UNCHANGED <<outIndex, conflicts, appVars>>
    BY <1>3 DEF ReplaceStream
  <2>3. streams[l.obj] \in Stream /\ old \in Stream /\ streams \in Seq(Stream)
    BY <1>1 DEF Typed, TypeOK, Nrs
  <2> DEFINE mid == [streams EXCEPT ![l.obj].addr = l.from]
             new == [ssrc |-> ssrc, prev |-> NoAddr, addr |-> old.addr, status |-> "idle"]
             moved == [streams[l.obj] EXCEPT !.addr = l.from]
  <2>4. new \in Stream /\ new.ssrc = ssrc
    BY <2>3 DEF Stream, Statuses, UnusedSsrcs
  <2>5. moved \in Stream /\ moved.ssrc = streams[l.obj].ssrc
    BY <1>1, <2>3, FromIsAddress DEF Stream
  <2>6. mid = [streams EXCEPT ![l.obj] = moved]
    OBVIOUS
  <2>7. streams' = Append(mid, new)
    BY <2>1
  <2> HIDE DEF new, moved, mid, old
  <2>8. /\ mid \in Seq(Stream) /\ Len(mid) = Len(streams)
        /\ \A o \in Nrs : mid[o].ssrc = streams[o].ssrc
    <3>1. mid \in Seq(Stream) /\ Len(mid) = Len(streams)
      <4>1. streams \in [1 .. Len(streams) -> Stream] /\ Len(streams) \in Nat
        BY <2>3
      <4>2. mid \in [1 .. Len(streams) -> Stream]
        BY <2>5, <2>6, <4>1, Zenon
      <4> QED
        BY <4>1, <4>2
    <3>2. ASSUME NEW o \in Nrs PROVE mid[o].ssrc = streams[o].ssrc
      <4>1. o \in 1 .. Len(streams)
        BY DEF Nrs
      <4>2. CASE o = l.obj
        BY <2>3, <2>5, <2>6, <4>1, <4>2
      <4>3. CASE o # l.obj
        BY <2>3, <2>6, <4>1, <4>3
      <4> QED
        BY <4>2, <4>3
    <3> QED
      BY <3>1, <3>2
  <2>9. /\ streams' \in Seq(Stream) /\ Len(streams') = Len(streams) + 1
        /\ streams'[Len(streams')] = new
        /\ \A o \in Nrs : streams'[o].ssrc = streams[o].ssrc
    BY <2>4, <2>7, <2>8 DEF Nrs
  <2>10. Grows
    BY <2>2, <2>3, <2>9, SessionAssumption DEF Grows
  <2>11. Len(streams') \in Nrs' /\ l.out \in Nrs'
    BY <1>1, <2>3, <2>9 DEF Nrs
  <2>12. InputsKept
    <3>1. \A i \in DOMAIN streamsIn : streams[streamsIn[i]].ssrc # streams'[l.out].ssrc
      BY <1>1, <1>3, <2>9, NotFound DEF old
    <3> QED
      BY <2>2, <2>11, <3>1 DEF InputsKept
  <2>13. OutputsKept
    <3>1. \A i \in DOMAIN streamsOut :
             streams[streamsOut[i]].ssrc # streams'[Len(streams')].ssrc
      BY <2>4, <2>9, NotFound DEF UnusedSsrcs
    <3> QED
      BY <2>2, <2>11, <3>1 DEF OutputsKept
  <2>14. LocalsKept
    BY <2>2, <2>10, Accepts
  <2> QED
    BY <2>2, <2>10, <2>12, <2>13, <2>14 DEF Good, RestTyped, Typed, TypeOK, appVars
<1> QED
  BY <1>2, <1>3

\* The rest of a control packet marks an input stream at most.
LEMMA OnRecvCtrlGood == Typed /\ OnRecvCtrl => Good
<1> SUFFICES ASSUME Typed, OnRecvCtrl PROVE Good
  OBVIOUS
<1>1. Goto("ctrl", Waiting) /\ "ctrl" \in Kinds
      /\ UNCHANGED <<mapVars, conflicts, appVars, renewals>>
  BY DEF OnRecvCtrl, Report, ReportWithBye, Kinds
<1>2. Grows
  <2>1. CASE streams' = streams
    BY <2>1 DEF Typed, TypeOK, Grows, Nrs
  <2>2. ASSUME NEW ssrc, NEW o \in LookupSsrcMapIn(ssrc),
               streams' = [streams EXCEPT ![o].status = "isClosing"]
        PROVE  Grows
    <3>1. o \in Nrs /\ streams[o] \in Stream
      BY FoundTyped DEF Typed, TypeOK, Nrs
    <3> DEFINE r == [streams[o] EXCEPT !.status = "isClosing"]
    <3>2. r \in Stream /\ r.ssrc = streams[o].ssrc
      BY <3>1 DEF Stream, Statuses
    <3>3. streams' = [streams EXCEPT ![o] = r]
      BY <2>2
    <3> HIDE DEF r
    <3> QED
      BY <3>1, <3>2, <3>3, ChangeOne, Zenon DEF Typed
  <2> QED
    BY <2>1, <2>2 DEF OnRecvCtrl, Report, ReportWithBye
<1>3. LocalsKept
  BY <1>1, <1>2, MovesOn DEF Waiting, Renewing
<1> QED
  BY <1>1, <1>2, <1>3 DEF Good, InputsKept, OutputsKept, RestTyped, Typed, TypeOK,
                          mapVars, appVars

\* The locals of the readers outlive what others do.
LEMMA LocalsStay ==
    ASSUME Typed, Grows, UNCHANGED recv
    PROVE  LocalsKept
<1>1. Nrs \subseteq Nrs'
  BY DEF Grows, Nrs, Typed, TypeOK
<1> QED
  BY <1>1 DEF LocalsKept, Local, Typed

\* The passes of the service remove streams from the maps.
LEMMA ServiceGood == Typed /\ RtcpService => Good
<1> SUFFICES ASSUME Typed, RtcpService PROVE Good
  OBVIOUS
<1>1. packet \in Ssrcs \cup {NoSsrc}
  BY DEF Typed, TypeOK
<1>2. CASE InputPass
  <2>1. Grows /\ UNCHANGED <<recv, inIndex, outIndex, conflicts, appVars, renewals>>
    BY <1>2, CloseAllGrows DEF InputPass, Typed
  <2>2. InputsKept /\ OutputsKept
    BY <1>2 DEF InputPass, InputsKept, OutputsKept
  <2> QED
    BY <2>1, <2>2, LocalsStay DEF Good, RestTyped, Typed, TypeOK, appVars
<1>3. CASE OutputPass
  <2>1. Grows /\ UNCHANGED <<recv, streamsIn, inIndex, outIndex, conflicts, appVars, renewals>>
    BY <1>3, CloseAllGrows DEF OutputPass, Typed
  <2>2. InputsKept /\ OutputsKept
    BY <1>3, <2>1 DEF OutputPass, InputsKept, OutputsKept
  <2> QED
    BY <2>1, <2>2, LocalsStay DEF Good, RestTyped, Typed, TypeOK, appVars
<1>4. CASE WriteReport
  BY <1>1, <1>4, Unchanged DEF WriteReport, Crash, mapVars, appVars
<1> QED
  BY <1>2, <1>3, <1>4 DEF RtcpService

\* The application creates output streams with unused SSRCs.
LEMMA ApplicationGood == Typed /\ Application => Good
<1> SUFFICES ASSUME Typed, Application PROVE Good
  OBVIOUS
<1>1. packet \in Ssrcs \cup {NoSsrc} /\ streams \in Seq(Stream)
  BY DEF Typed, TypeOK
<1>2. CASE NewSsrcStreamOut
  <2>1. PICK ssrc \in UnusedSsrcs :
          streams' = Append(streams, [ssrc |-> ssrc, prev |-> NoAddr,
                                      addr |-> OwnAddr, status |-> "active"])
    BY <1>2 DEF NewSsrcStreamOut
  <2> DEFINE new == [ssrc |-> ssrc, prev |-> NoAddr, addr |-> OwnAddr, status |-> "active"]
  <2>2. /\ Len(streams) < MaxObjs
        /\ streamsOut' = Put(streamsOut, outIndex, Len(streams'))
        /\ outIndex' = outIndex + 1
        /\ UNCHANGED <<streamsIn, inIndex, conflicts, recv, appVars, renewals>>
    BY <1>2 DEF NewSsrcStreamOut
  <2>3. new \in Stream /\ new.ssrc = ssrc
    BY StreamsAssumption DEF Stream, Statuses, OwnAddr, Addresses, UnusedSsrcs
  <2>4. streams' = Append(streams, new)
    BY <2>1
  <2> HIDE DEF new
  <2>5. Grows /\ Len(streams') = Len(streams) + 1 /\ streams'[Len(streams')] = new
    BY <2>2, <2>3, <2>4, CreateOne DEF Typed
  <2>6. Len(streams') \in Nrs'
    BY <1>1, <2>5 DEF Nrs
  <2>7. OutputsKept
    <3>1. \A i \in DOMAIN streamsOut :
             streams[streamsOut[i]].ssrc # streams'[Len(streams')].ssrc
      BY <2>3, <2>5, NotFound DEF UnusedSsrcs
    <3> QED
      BY <2>2, <2>6, <3>1 DEF OutputsKept
  <2> QED
    BY <2>2, <2>5, <2>7, LocalsStay DEF Good, InputsKept, RestTyped, Typed, TypeOK, appVars
<1>3. CASE WriteData
  BY <1>1, <1>3, Unchanged DEF WriteData, Crash, mapVars
<1>4. ASSUME NEW i \in OpenIndices, NewDataPacketForStream(i) PROVE Good
  <2>1. CASE i \notin DOMAIN streamsOut
    BY <1>1, <1>4, <2>1, Unchanged DEF NewDataPacketForStream, Crash
  <2>2. CASE i \in DOMAIN streamsOut
    <3>1. streams[streamsOut[i]] \in Stream
      BY <2>2 DEF Typed, TypeOK
    <3>2. packet' \in Ssrcs \cup {NoSsrc}
      BY <1>4, <2>2, <3>1 DEF NewDataPacketForStream, Stream
    <3> QED
      BY <1>4, <2>2, <3>2, Unchanged DEF NewDataPacketForStream, mapVars
  <2> QED
    BY <2>1, <2>2
<1>5. ASSUME NEW i \in OpenIndices, SsrcStreamCloseForIndex(i) PROVE Good
  <2>1. CASE i \notin DOMAIN streamsOut
    BY <1>1, <1>5, <2>1, Unchanged DEF SsrcStreamCloseForIndex, Crash
  <2>2. CASE i \in DOMAIN streamsOut
    <3> DEFINE o == streamsOut[i]
               r == [streams[o] EXCEPT !.status = "isClosing"]
    <3>1. o \in Nrs /\ streams[o] \in Stream
      BY <2>2 DEF Typed, TypeOK, Nrs
    <3>2. r \in Stream /\ r.ssrc = streams[o].ssrc
      BY <3>1 DEF Stream, Statuses
    <3>3. /\ streams' = [streams EXCEPT ![o] = r] /\ closed' = closed \cup {i}
          /\ UNCHANGED <<mapVars, conflicts, recv, packet, renewals>>
      BY <1>5, <2>2 DEF SsrcStreamCloseForIndex
    <3> HIDE DEF o, r
    <3>4. Grows
      BY <3>1, <3>2, <3>3, ChangeOne, Zenon DEF Typed
    <3> QED
      BY <3>3, <3>4, LocalsStay DEF Good, InputsKept, OutputsKept, RestTyped, Typed, TypeOK,
                                    OpenIndices, mapVars
  <2> QED
    BY <2>1, <2>2
<1> QED
  BY <1>2, <1>3, <1>4, <1>5 DEF Application

\* Every step of a well-typed session is one of these.
LEMMA StepGood == Typed /\ [Next]_vars => Good
<1> SUFFICES ASSUME Typed, [Next]_vars PROVE Good
  OBVIOUS
<1>1. "data" \in Kinds /\ "ctrl" \in Kinds
  BY DEF Kinds
<1>2. CASE Arrival
  BY <1>1, <1>2, AssignGood DEF Arrival, OnRecvData, RtcpSenderCheck
<1>3. CASE Reader
  BY <1>1, <1>3, CheckGood, ByeFindGood, ReplaceGood, OnRecvCtrlGood
     DEF Reader, CheckSsrcIncomingData, CheckSsrcIncomingCtrl
<1>4. CASE RtcpService \/ Application
  BY <1>4, ServiceGood, ApplicationGood
<1>5. CASE UNCHANGED vars
  BY <1>5, Unchanged DEF vars, Typed, TypeOK
<1> QED
  BY <1>2, <1>3, <1>4, <1>5 DEF Next

\* The maps refer to existing objects before and after a step.
LEMMA GoodTyped ==
    ASSUME Typed, Good
    PROVE  Typed'
<1>1. Nrs \subseteq Nrs' /\ Nrs' = 1 .. Len(streams') /\ Nrs = 1 .. Len(streams)
  BY DEF Good, Grows, Nrs, Typed, TypeOK
<1>2. streamsIn' \in [DOMAIN streamsIn' -> Nrs']
      /\ inIndex' \in Nat /\ DOMAIN streamsIn' \subseteq 0 .. inIndex' - 1
  <2>1. /\ streamsIn \in [DOMAIN streamsIn -> Nrs] /\ inIndex \in Nat
        /\ DOMAIN streamsIn \subseteq 0 .. inIndex - 1
    BY <1>1 DEF Typed, TypeOK
  <2>2. CASE UNCHANGED <<streamsIn, inIndex>>
    BY <1>1, <2>1, <2>2
  <2>3. ASSUME NEW K, inIndex' = inIndex, streamsIn' = Delete(streamsIn, K)
        PROVE  /\ streamsIn' \in [DOMAIN streamsIn' -> Nrs']
               /\ inIndex' \in Nat /\ DOMAIN streamsIn' \subseteq 0 .. inIndex' - 1
    BY <1>1, <2>1, <2>3 DEF Delete, Restrict
  <2>4. ASSUME NEW o \in Nrs', AddInput(o)
        PROVE  /\ streamsIn' \in [DOMAIN streamsIn' -> Nrs']
               /\ inIndex' \in Nat /\ DOMAIN streamsIn' \subseteq 0 .. inIndex' - 1
    <3>1. streamsIn' \in [DOMAIN streamsIn' -> Nrs']
      BY <1>1, <2>1, <2>4 DEF AddInput, Put
    <3>2. DOMAIN streamsIn' = DOMAIN streamsIn \cup {inIndex} /\ inIndex' = inIndex + 1
      BY <2>4 DEF AddInput, Put
    <3> QED
      BY <2>1, <3>1, <3>2
  <2> QED
    BY <2>2, <2>3, <2>4 DEF Good, InputsKept
<1>3. streamsOut' \in [DOMAIN streamsOut' -> Nrs']
  <2>1. streamsOut \in [DOMAIN streamsOut -> Nrs]
    BY <1>1 DEF Typed, TypeOK
  <2>2. CASE UNCHANGED streamsOut
    BY <1>1, <2>1, <2>2
  <2>3. ASSUME NEW K, streamsOut' = Delete(streamsOut, K)
        PROVE  streamsOut' \in [DOMAIN streamsOut' -> Nrs']
    BY <1>1, <2>1, <2>3 DEF Delete, Restrict
  <2>4. ASSUME NEW i, NEW o \in Nrs', streamsOut' = Put(streamsOut, i, o)
        PROVE  streamsOut' \in [DOMAIN streamsOut' -> Nrs']
    BY <1>1, <2>1, <2>4 DEF Put
  <2> QED
    BY <2>2, <2>3, <2>4 DEF Good, OutputsKept
<1>4. TypeOK'
  BY <1>1, <1>2, <1>3 DEF Good, Grows, RestTyped, TypeOK
<1> QED
  BY <1>4 DEF Good, LocalsKept, Typed

\* They stay unique in a map that only loses entries, or gets a new SSRC.
LEMMA GoodUnique ==
    ASSUME Typed, Good, SsrcUnique
    PROVE  SsrcUnique'
<1>1. /\ \A i \in DOMAIN streamsIn : streamsIn[i] \in Nrs
      /\ \A i \in DOMAIN streamsOut : streamsOut[i] \in Nrs
      /\ \A o \in Nrs : streams'[o].ssrc = streams[o].ssrc
  BY DEF Typed, TypeOK, Nrs, Good, Grows
<1>2. \A i, j \in DOMAIN streamsIn' :
          streams'[streamsIn'[i]].ssrc = streams'[streamsIn'[j]].ssrc => i = j
  <2>1. CASE UNCHANGED streamsIn
    BY <1>1, <2>1 DEF SsrcUnique
  <2>2. ASSUME NEW K, streamsIn' = Delete(streamsIn, K)
        PROVE  \A i, j \in DOMAIN streamsIn' :
                 streams'[streamsIn'[i]].ssrc = streams'[streamsIn'[j]].ssrc => i = j
    <3>1. \A i \in DOMAIN streamsIn' : i \in DOMAIN streamsIn /\ streamsIn'[i] = streamsIn[i]
      BY <2>2 DEF Delete, Restrict
    <3> QED
      BY <1>1, <3>1 DEF SsrcUnique
  <2>3. ASSUME NEW o \in Nrs', AddInput(o),
               \A i \in DOMAIN streamsIn : streams[streamsIn[i]].ssrc # streams'[o].ssrc
        PROVE  \A i, j \in DOMAIN streamsIn' :
                 streams'[streamsIn'[i]].ssrc = streams'[streamsIn'[j]].ssrc => i = j
    <3>1. \A i \in DOMAIN streamsIn' :
             \/ i = inIndex /\ streamsIn'[i] = o
             \/ i \in DOMAIN streamsIn /\ streamsIn'[i] = streamsIn[i]
      BY <2>3 DEF AddInput, Put
    <3> QED
      BY <1>1, <2>3, <3>1 DEF SsrcUnique
  <2> QED
    BY <2>1, <2>2, <2>3 DEF Good, InputsKept
<1>3. \A i, j \in DOMAIN streamsOut' :
          streams'[streamsOut'[i]].ssrc = streams'[streamsOut'[j]].ssrc => i = j
  <2>1. CASE UNCHANGED streamsOut
    BY <1>1, <2>1 DEF SsrcUnique
  <2>2. ASSUME NEW K, streamsOut' = Delete(streamsOut, K)
        PROVE  \A i, j \in DOMAIN streamsOut' :
                 streams'[streamsOut'[i]].ssrc = streams'[streamsOut'[j]].ssrc => i = j
    <3>1. \A i \in DOMAIN streamsOut' :
             i \in DOMAIN streamsOut /\ streamsOut'[i] = streamsOut[i]
      BY <2>2 DEF Delete, Restrict
    <3> QED
      BY <1>1, <3>1 DEF SsrcUnique
  <2>3. ASSUME NEW n, NEW o \in Nrs', streamsOut' = Put(streamsOut, n, o),
               \A i \in DOMAIN streamsOut : streams[streamsOut[i]].ssrc # streams'[o].ssrc
        PROVE  \A i, j \in DOMAIN streamsOut' :
                 streams'[streamsOut'[i]].ssrc = streams'[streamsOut'[j]].ssrc => i = j
    <3>1. \A i \in DOMAIN streamsOut' :
             \/ i = n /\ streamsOut'[i] = o
             \/ i \in DOMAIN streamsOut /\ streamsOut'[i] = streamsOut[i]
      BY <2>3 DEF Put
    <3> QED
      BY <1>1, <2>3, <3>1 DEF SsrcUnique
  <2> QED
    BY <2>1, <2>2, <2>3 DEF Good, OutputsKept
<1> QED
  BY <1>2, <1>3 DEF SsrcUnique

\* A new session has no streams.
LEMMA InitTyped == Init => Typed
<1> SUFFICES ASSUME Init PROVE Typed
  OBVIOUS
<1>1. streams = <<>> /\ Len(streams) = 0 /\ streams \in Seq(Stream)
  BY DEF Init
<1>2. streamsOut = <<>> /\ streamsIn = <<>> /\ DOMAIN streamsOut = {} /\ DOMAIN streamsIn = {}
  BY DEF Init
<1>3. /\ streamsOut \in [DOMAIN streamsOut -> 1 .. Len(streams)]
      /\ streamsIn \in [DOMAIN streamsIn -> 1 .. Len(streams)]
  BY <1>2
<1>4. TypeOK
  BY <1>1, <1>2, <1>3, SessionAssumption DEF Init, TypeOK
<1>5. ASSUME NEW k \in Kinds PROVE Local(k)
  BY DEF Init, Local, Waiting, Renewing
<1> QED
  BY <1>4, <1>5 DEF Init, Typed

\* The maps of a session refer to streams that exist, under indices that were
\* given out, for any number of streams and packets.
THEOREM SessionTyped == Spec => []TypeOK
<1>1. Typed /\ [Next]_vars => Typed'
  BY StepGood, GoodTyped
<1>2. Typed => TypeOK
  BY DEF Typed
<1> QED
  BY <1>1, <1>2, InitTyped, PTL DEF Spec

\* No two input streams and no two output streams ever share an SSRC, for any
\* number of streams and packets, although the readers look streams up and
\* replaceStream searches the maps without the mutex.
THEOREM SsrcsUnique == Spec => []SsrcUnique
<1>1. Typed /\ SsrcUnique /\ [Next]_vars => Typed' /\ SsrcUnique'
  BY StepGood, GoodTyped, GoodUnique
<1>2. Init => SsrcUnique
  BY DEF Init, SsrcUnique
<1> QED
  BY <1>1, <1>2, InitTyped, PTL DEF Spec

-----------------------------------------------------------------------------
(* The event of a new stream names its index.                              *)

\* Only a data packet that creates a stream sends this event: the other steps
\* send none, or one of another type.
LEMMA EventOfNewStream ==
    ASSUME Next, event'.type = "NewStreamData"
    PROVE  \E ssrc, from : NewStream("data", ssrc, from)
<1>1. ~Silent
  BY DEF Silent, NoEvent, Event
<1>2. ASSUME NEW k, NEW type \in {"MaxNumInStreamReached", "WrongStreamStatus",
                                  "StreamCollisionLoop"},
             NEW ssrc, NEW index, RejectPacket(k, type, ssrc, index)
      PROVE  FALSE
  BY <1>1, <1>2 DEF RejectPacket, Crash, Event
<1>3. ASSUME NEW k, NEW l, NEW n, AcceptPacket(k, l, n) PROVE FALSE
  BY <1>1, <1>3 DEF AcceptPacket, Silent, Event, NoEvent
<1>4. CASE Arrival
  <2>1. PICK k \in Kinds : AssignStream(k)
    BY <1>4 DEF Arrival, OnRecvData, RtcpSenderCheck, Kinds
  <2> PICK ssrc \in Ssrcs, from \in FromAddrs(k) :
            \/ TooManyStreams(k, ssrc) \/ NewStream(k, ssrc, from)
            \/ WrongStatus(k, ssrc)    \/ KnownStream(k, ssrc, from)
    BY <2>1 DEF AssignStream
  <2>2. ~TooManyStreams(k, ssrc) /\ ~WrongStatus(k, ssrc)
    BY <1>2 DEF TooManyStreams, WrongStatus
  <2>3. ~KnownStream(k, ssrc, from)
    BY <1>1, Zenon DEF KnownStream
  <2>4. NewStream(k, ssrc, from)
    BY <2>1, <2>2, <2>3
  <2>5. k = "data"
    BY <1>1, <2>4, Zenon DEF NewStream, Silent, Kinds
  <2> QED
    BY <2>4, <2>5
<1>5. CASE Reader
  <2>1. ASSUME NEW k, CheckSsrcIncoming(k) PROVE FALSE
    <3>1. ~NoCollision(k, recv[k])
      BY <1>3 DEF NoCollision
    <3>2. ~ForeignCollision(k, recv[k])
      BY <1>2, <1>3 DEF ForeignCollision
    <3>3. ~LocalCollision(k, recv[k])
      BY <1>1, <1>2, Zenon DEF LocalCollision
    <3> QED
      BY <2>1, <3>1, <3>2, <3>3 DEF CheckSsrcIncoming
  <2>2. ~OnRecvCtrl
    BY <1>1 DEF OnRecvCtrl, Report, ReportWithBye, CtrlEvent, Event
  <2>3. ASSUME NEW k, CollisionBye(k) \/ FindIndex(k) PROVE FALSE
    BY <1>1, <2>3, Zenon DEF CollisionBye, FindIndex, Crash
  <2>4. ASSUME NEW k, ReplaceStream(k) PROVE FALSE
    BY <1>1, <1>3, <2>4, Zenon DEF ReplaceStream, Crash
  <2> QED
    BY <1>5, <2>1, <2>2, <2>3, <2>4
       DEF Reader, CheckSsrcIncomingData, CheckSsrcIncomingCtrl
<1>6. CASE RtcpService
  BY <1>1, <1>6 DEF RtcpService, InputPass, OutputPass, WriteReport, Crash
<1>7. CASE Application
  BY <1>1, <1>7, Zenon DEF Application, NewSsrcStreamOut, WriteData, NewDataPacketForStream,
                    SsrcStreamCloseForIndex, Crash
<1> QED
  BY <1>4, <1>5, <1>6, <1>7 DEF Next

\* OnRecvData reads streamInIndex under the mutex that covers the creation of
\* the stream: the index in the event is the one of the new stream, for any
\* number of streams.
THEOREM NewStreamIndexed == Spec => NewStreamDataIndex
<1>1. ASSUME Typed, [Next]_vars
      PROVE  [(event'.type = "NewStreamData") =>
                /\ event'.index \in DOMAIN streamsIn'
                /\ streams'[streamsIn'[event'.index]].ssrc = event'.ssrc]_vars
  <2> SUFFICES ASSUME Next, event'.type = "NewStreamData"
               PROVE  /\ event'.index \in DOMAIN streamsIn'
                      /\ streams'[streamsIn'[event'.index]].ssrc = event'.ssrc
    BY <1>1
  <2>1. PICK ssrc, from : NewStream("data", ssrc, from)
    BY EventOfNewStream
  <2>2. event'.index = inIndex /\ event'.ssrc = ssrc
    BY <2>1 DEF NewStream, Event
  <2>3. inIndex \in DOMAIN streamsIn' /\ streamsIn'[inIndex] = Len(streams')
    BY <2>1 DEF NewStream, AddInput, Put
  <2>4. streams \in Seq(Stream)
    BY <1>1 DEF Typed, TypeOK
  <2>5. streams'[Len(streams')] = [NewSsrcStreamIn(from, ssrc) EXCEPT !.status = "active"]
    BY <2>1, <2>4 DEF NewStream
  <2>6. streams'[Len(streams')].ssrc = ssrc
    BY <2>5 DEF NewSsrcStreamIn
  <2> QED
    BY <2>2, <2>3, <2>6
<1>2. Typed /\ [Next]_vars => Typed'
  BY StepGood, GoodTyped
<1> QED
  BY <1>1, <1>2, InitTyped, PTL DEF Spec, NewStreamDataIndex
=============================================================================
