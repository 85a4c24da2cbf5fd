------------------------------ MODULE MCMoments ------------------------------
(***************************************************************************)
(* Instances of Moments for TLC.                                           *)
(***************************************************************************)
EXTENDS Moments, TLC

CONSTANTS u1, u2, m1, k1, s1, s2

TwoUsers   == {u1, u2}
OnePost    == {m1}
OneComment == {k1}
TwoSlots   == {s1, s2}

\* Ids carry no order and no meaning.
Symmetry == Permutations(Slots) \cup Permutations(Users) \cup Permutations(Comments)
==============================================================================
