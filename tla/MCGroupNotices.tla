---------------------------- MODULE MCGroupNotices ----------------------------
(***************************************************************************)
(* Instances of GroupNotices for TLC.                                      *)
(***************************************************************************)
EXTENDS GroupNotices

CONSTANTS u1, u2, c1, n1, p1, p2, k1

TwoUsers  == {u1, u2}
OneConv   == {c1}
OneName   == {n1}
TwoSlots  == {p1, p2}
OneSocket == {k1}

Nobody == {}
==============================================================================
