--------------------------- MODULE MCConversations ---------------------------
(***************************************************************************)
(* Instances of Conversations for TLC.                                     *)
(***************************************************************************)
EXTENDS Conversations, TLC

CONSTANTS u1, u2, u3, c1, c2, n1, p1, p2

TwoUsers   == {u1, u2}
ThreeUsers == {u1, u2, u3}
OneConv    == {c1}
TwoConvs   == {c1, c2}
OneName    == {n1}
OneSlot    == {p1}
TwoSlots   == {p1, p2}

Everybody == {r \in Users \X Users : r[1] # r[2]}

Line == {<<u1, u2>>, <<u2, u1>>, <<u2, u3>>, <<u3, u2>>}

\* Ids carry no order and no meaning.
Symmetry     == Permutations(Slots) \cup Permutations(Convs)
FullSymmetry == Symmetry \cup Permutations(Users)
==============================================================================
