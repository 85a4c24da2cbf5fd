--------------------------- MODULE MCNotifications ---------------------------
(***************************************************************************)
(* Instances of Notifications for TLC.                                     *)
(***************************************************************************)
EXTENDS Notifications, TLC

CONSTANTS u1, u2, n1, n2, k1, s1, s2

TwoUsers == {u1, u2}
OneUser  == {u1}
TwoNotes == {n1, n2}
OneKind  == {k1}
TwoSlots == {s1, s2}

\* Ids are never ordered, and u1 is the only user with a socket.
Alike == Permutations(TwoNotes) \cup Permutations(TwoSlots)
==============================================================================
