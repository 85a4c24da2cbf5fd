-------------------------- MODULE MCOfflineMessages --------------------------
(***************************************************************************)
(* Instances of OfflineMessages for TLC.                                   *)
(***************************************************************************)
EXTENDS OfflineMessages, TLC

CONSTANTS u1, u2, m1, m2, m3, c1, c2, s1, s2, s3

OneUser       == {u1}
Nobody        == {}
ThreeMessages == {m1, m2, m3}
TwoRooms      == {c1, c2}
ThreeSlots    == {s1, s2, s3}
OneSlot       == {s1}

\* m1 and m2 belong together, m2 is the later one; m3 is as old as m1.
RoomOf  == m1 :> c1 @@ m2 :> c1 @@ m3 :> c2
Created == m1 :> 1 @@ m2 :> 2 @@ m3 :> 1

AnySlot == Permutations(ThreeSlots)
==============================================================================
