--------------------------- MODULE MembershipTable ---------------------------
(***************************************************************************)
(* What the tables conversations and conversation_members look like to a   *)
(* service that only reads them, whoever writes them and however the       *)
(* statements interleave.                                                  *)
(*                                                                         *)
(* A conversation is founded once, without members.  People are admitted to*)
(* one that is there, and only those who are not in it; they depart one by *)
(* one; when it is closed whoever is left goes with it, and it never opens *)
(* again.                                                                  *)
(*                                                                         *)
(* ConversationsService implements this (Conversations!Table), and it is   *)
(* all that Messages has to suffer from it (Messages!Table): the two       *)
(* modules are about the same tables.                                      *)
(***************************************************************************)
CONSTANTS Users, Conversations

VARIABLES
  founded,   \* the conversations there are or have been
  open,      \* those that have not been closed
  members    \* who is in which, as pairs

tableVars == <<founded, open, members>>

Init ==
  /\ founded \subseteq Conversations
  /\ open \subseteq founded
  /\ members \subseteq open \X Users

Found(c) ==
  /\ c \notin founded
  /\ founded' = founded \cup {c}
  /\ open' = open \cup {c}
  /\ UNCHANGED members

Admit(c, joining) ==
  /\ c \in open
  /\ ({c} \X joining) \cap members = {}
  /\ members' = members \cup ({c} \X joining)
  /\ UNCHANGED <<founded, open>>

Depart(c, u) ==
  /\ <<c, u>> \in members
  /\ members' = members \ {<<c, u>>}
  /\ UNCHANGED <<founded, open>>

Close(c) ==
  /\ c \in open
  /\ open' = open \ {c}
  /\ members' = members \ ({c} \X Users)
  /\ UNCHANGED founded

Next ==
  \E c \in Conversations :
    \/ Found(c)
    \/ \E joining \in SUBSET Users : Admit(c, joining)
    \/ \E u \in Users : Depart(c, u)
    \/ Close(c)

Spec == Init /\ [][Next]_tableVars
==============================================================================
