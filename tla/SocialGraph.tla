----------------------------- MODULE SocialGraph -----------------------------
(***************************************************************************)
(* What the friends component promises, without handlers, statements or    *)
(* schedules.  People invite one another, an invited person may consent to *)
(* the invitation, and two people become friends only on the strength of   *)
(* such a consent.  Friendship always holds in both directions, and it is  *)
(* created and dissolved as a whole.                                       *)
(*                                                                         *)
(* Friends.tla implements this specification (Friends!Graph), and          *)
(* FriendsProofs.tla proves that it does for every value of the constants. *)
(***************************************************************************)
CONSTANT Users

VARIABLES
  invited,     \* <<a, b>> : a has asked b
  consented,   \* <<a, b>> : b has said yes to a's invitation
  edges        \* <<a, b>> : a and b are friends

graphVars == <<invited, consented, edges>>

Pairs == {r \in Users \X Users : r[1] # r[2]}

Mutual(a, b) == {<<a, b>>, <<b, a>>}

Init ==
  /\ invited = {}
  /\ consented = {}
  /\ edges = {}

Invite(a, b) ==
  /\ <<a, b>> \in Pairs
  /\ invited' = invited \cup {<<a, b>>}
  /\ UNCHANGED <<consented, edges>>

Consent(a, b) ==
  /\ <<a, b>> \in invited
  /\ consented' = consented \cup {<<a, b>>}
  /\ UNCHANGED <<invited, edges>>

Befriend(a, b) ==
  /\ <<a, b>> \in consented
  /\ edges' = edges \cup Mutual(a, b)
  /\ UNCHANGED <<invited, consented>>

Unfriend(a, b) ==
  /\ edges' = edges \ Mutual(a, b)
  /\ UNCHANGED <<invited, consented>>

Next ==
  \E a, b \in Users :
    Invite(a, b) \/ Consent(a, b) \/ Befriend(a, b) \/ Unfriend(a, b)

Spec == Init /\ [][Next]_graphVars
==============================================================================
