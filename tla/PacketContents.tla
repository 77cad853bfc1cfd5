--------------------------- MODULE PacketContents ---------------------------
(***************************************************************************)
(* What an RTP packet is for its user: a header, a list of CSRCs, an       *)
(* extension and a payload that can be set in any order, each without an   *)
(* effect on the others, and the number of bytes that go to the network.   *)
(***************************************************************************)
EXTENDS Integers, Sequences

CONSTANTS Headers, Lists, Exts, Datas, PadTos, Capacity

VARIABLES header, csrc, ext, payload, length, padTo

HeaderLength == 12
WordLength == 4

Init ==
    /\ header \in Headers
    /\ csrc = <<>> /\ ext = <<>> /\ payload = <<>>
    /\ length = HeaderLength /\ padTo = 0

\* A new packet is empty.
New ==
    /\ header' \in Headers
    /\ csrc' = <<>> /\ ext' = <<>> /\ payload' = <<>>
    /\ length' = HeaderLength /\ padTo' = 0

SetHeader ==
    /\ header' \in Headers
    /\ UNCHANGED <<csrc, ext, payload, length, padTo>>

SetCsrcList(l) ==
    /\ csrc' = l
    /\ length' = length + WordLength * (Len(l) - Len(csrc))
    /\ length' <= Capacity
    /\ UNCHANGED <<header, ext, payload, padTo>>

\* The one exception: the CSRCs, but not their number, are lost.
SetExtension(e) ==
    /\ ext' = e
    /\ length' = length + Len(e) - Len(ext)
    /\ length' <= Capacity
    /\ Len(csrc') = Len(csrc)
    /\ UNCHANGED <<header, payload, padTo>>

SetPadding(n) ==
    /\ padTo' = n
    /\ UNCHANGED <<header, csrc, ext, payload, length>>

\* A payload that does not fit, with its padding, removes the old one.
SetPayload(s) ==
    /\ \E pad \in 0 .. padTo :
          LET size == length - Len(payload) + Len(s) + pad IN
          IF size <= Capacity
          THEN /\ payload' = s /\ length' = size
               /\ pad = 0 <=> padTo = 0
          ELSE payload' = <<>> /\ length' = length - Len(payload)
    /\ UNCHANGED <<header, csrc, ext, padTo>>

Next ==
    \/ New \/ SetHeader
    \/ \E l \in Lists : SetCsrcList(l)
    \/ \E e \in Exts : SetExtension(e)
    \/ \E n \in PadTos : SetPadding(n)
    \/ \E s \in Datas : SetPayload(s)

vars == <<header, csrc, ext, payload, length, padTo>>
Spec == Init /\ [][Next]_vars
=============================================================================
