---------------------------- MODULE MCDataPacket ----------------------------
(***************************************************************************)
(* Instances of DataPacket: few and short arguments, a buffer that is too  *)
(* small for the largest combination of them.                              *)
(***************************************************************************)
EXTENDS DataPacket

StreamOut == [type |-> 3, ssrc |-> <<1, 2, 3, 4>>,
              timestamp |-> <<5, 6, 7, 8>>, sequence |-> <<9, 10>>]
AnyMarker == BOOLEAN
NewNumbers == {<<11, 12, 13, 14>>, <<15, 16>>}
A == <<21, 22, 23, 24>>
B == <<25, 26, 27, 28>>
Lists == {<<>>, <<A>>, <<B, A>>}
Exts == {<<>>, <<0, 31, 0, 0>>, <<0, 32, 0, 1, 33, 34, 35, 36>>,
         <<0, 37, 0, 1>>}
Datas == {<<>>, <<41>>, <<42, 43, 44, 45, 46>>}

\* A new buffer, and one that longer packets have filled.
Buffers == {[i \in Offsets |-> 0], [i \in Offsets |-> 130 + i]}
=============================================================================
