----------------------------- MODULE MCMessages -----------------------------
(***************************************************************************)
(* Instances of Messages for TLC.                                          *)
(***************************************************************************)
EXTENDS Messages, TLC

CONSTANTS u1, u2, c1, m1, m2, s1, s2

TwoUsers        == {u1, u2}
OneConversation == {c1}
TwoMessages     == {m1, m2}
TwoSlots        == {s1, s2}

\* Ids are never ordered; only the clock is.
Alike == Permutations(TwoUsers) \cup Permutations(TwoMessages) \cup Permutations(TwoSlots)
==============================================================================
