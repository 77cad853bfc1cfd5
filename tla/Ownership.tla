----------------------------- MODULE Ownership -----------------------------
(***************************************************************************)
(* What a pool promises its users.  A resource (a packet, or the memory of *)
(* a packet) is with nobody, or with exactly one holder, who may give it   *)
(* to another holder or back.  Nobody gets a resource that is with someone *)
(* else.                                                                   *)
(***************************************************************************)
CONSTANTS Resources, Holders

VARIABLE holders   \* resource -> who works with it

Init == holders = [r \in Resources |-> {}]

Acquire(r, h) ==
    /\ holders[r] = {}
    /\ holders' = [holders EXCEPT ![r] = {h}]

Pass(r, h, k) ==
    /\ holders[r] = {h}
    /\ holders' = [holders EXCEPT ![r] = {k}]

Release(r, h) ==
    /\ holders[r] = {h}
    /\ holders' = [holders EXCEPT ![r] = {}]

Next ==
    \E r \in Resources, h \in Holders :
        \/ Acquire(r, h) \/ Release(r, h)
        \/ \E k \in Holders : Pass(r, h, k)

Spec == Init /\ [][Next]_holders
=============================================================================
