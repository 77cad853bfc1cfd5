---------------------------- MODULE MCPacketPool ----------------------------
(***************************************************************************)
(* Instance of PacketPool for TLC.                                         *)
(***************************************************************************)
EXTENDS PacketPool, TLC

\* Packets of a type, and buffers, are interchangeable.
Symmetry == Permutations(DataPackets) \cup Permutations(CtrlPackets)
               \cup Permutations(Buffers)

Lengths == [k \in Kinds |-> 1]
=============================================================================
