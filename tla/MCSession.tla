----------------------------- MODULE MCSession -----------------------------
(* Instances of Session for TLC.  SSRCs are only compared, so they are      *)
(* interchangeable.                                                         *)
EXTENDS Session, TLC

Symmetry == Permutations(Ssrcs)
=============================================================================
