------------------------------ MODULE MCFriends ------------------------------
(***************************************************************************)
(* Instances of Friends for TLC.  Every row belongs to one pair of users   *)
(* and every statement reads and writes the rows of one pair, so two users *)
(* show all there is to see of concurrency; three users with one slot show *)
(* that the pairs do not disturb one another, and an inactive user.        *)
(***************************************************************************)
EXTENDS Friends, TLC

CONSTANTS u1, u2, u3, p1, p2, p3

TwoUsers   == {u1, u2}
ThreeUsers == {u1, u2, u3}
OneSlot    == {p1}
TwoSlots   == {p1, p2}

SlotSymmetry == Permutations(Slots)
==============================================================================
