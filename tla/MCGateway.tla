------------------------------ MODULE MCGateway ------------------------------
(***************************************************************************)
(* Instances of Gateway for TLC.                                           *)
(***************************************************************************)
EXTENDS Gateway, TLC

CONSTANTS u1, u2, d1, d2, d3, d4, c1, c2

TwoUsers     == {u1, u2}
FourSockets  == {d1, d2, d3, d4}
OneRoom      == {c1}

\* Ids carry no order and no meaning.
Symmetry == Permutations(Users) \cup Permutations(Sockets) \cup Permutations(Conversations)
==============================================================================
