----------------------------- MODULE GroupNotices -----------------------------
(***************************************************************************)
(* GroupChatNotificationService (src/src/modules/chat/services/            *)
(* group-chat-notification.service.ts) put together with its callers, the  *)
(* handlers of Conversations, and with the rooms of ChatGateway.           *)
(*                                                                         *)
(* After the statement that changes a conversation the handler awaits one  *)
(* or more notices.  A notice reads the names of the people it is about,   *)
(* then emits to the sockets that are in the room by then; an error is     *)
(* caught and logged, and the caller goes on.  The variables of            *)
(* Conversations keep their meaning; a handler that has only notices left  *)
(* to await is idle there, and its slot is taken here.                     *)
(*                                                                         *)
(* Sockets join and leave rooms as in Gateway, where it does not matter    *)
(* whose they are.  notifyMembersChanged, which calls two of the others in *)
(* turn, is called by nobody.                                              *)
(***************************************************************************)
EXTENDS Conversations

CONSTANT Sockets

VARIABLES
  notice,         \* the notices the handler in each slot has still to await
  room,           \* which socket is in the room of which conversation
  heard,          \* what the last group_notification told a socket of a fact
  muddled         \* history: facts with a lost notice or two at once, or changed unannounced

notices == <<notice, room, heard, muddled>>

allvars == <<vars, notices>>

\* What the notices followed here are about: somebody's membership of a
\* conversation.  One about the name (of NoUser) is awaited like the others.
Facts == Convs \X Users

Notices == [fact : Convs \X (Users \cup {NoUser}), says : {"in", "out", "updated"}]

NoticesTypeOK ==
  /\ TypeOK
  /\ notice \in [Slots -> SUBSET Notices]
  /\ room \subseteq Sockets \X Convs
  /\ heard \in [Sockets -> [Facts -> {"nothing", "in", "out"}]]
  /\ muddled \subseteq Facts

NoticesInit ==
  /\ Init
  /\ notice = [p \in Slots |-> {}]
  /\ room = {}
  /\ heard = [k \in Sockets |-> [f \in Facts |-> "nothing"]]
  /\ muddled = {}

About(c, people, says) == {[fact |-> <<c, u>>, says |-> says] : u \in people}

------------------------------------------------------------------------------
(* The handlers of Conversations, which await their notices.               *)

\* The request begins in a slot that no handler holds.
BeginRequest(p) ==
  /\ notice[p] = {}
  /\ Request(p) /\ Watch
  /\ UNCHANGED notices

\* Mutant: removeMember announces the member as added.
AnnouncesRemovedAsAdded(h) ==
  CASE h.at \in {"add_row", "group_members", "remove_row"} -> About(h.conv, h.guests, "in")
    [] h.at = "leave_row"  -> About(h.conv, {h.me}, "out")
    [] h.at = "update_row" -> About(h.conv, {NoUser}, "updated")
    [] OTHER -> {}

\* What the statement h has just executed has to be announced.
Announces(h) ==
  CASE h.at \in {"add_row", "group_members"} -> About(h.conv, h.guests, "in")
    [] h.at = "remove_row" -> About(h.conv, h.guests, "out")
    [] h.at = "leave_row"  -> About(h.conv, {h.me}, "out")
    [] h.at = "update_row" -> About(h.conv, {NoUser}, "updated")
    [] OTHER -> {}

\* Those whose membership h has just changed and announces to nobody.
PassesOver(h) ==
  CASE h.at = "private_members" -> {<<h.conv, u>> : u \in {h.me} \cup h.guests}
    [] h.at = "group_members"   -> {<<h.conv, h.me>>}
    [] OTHER -> {}

Pending(f) == \E p \in Slots : \E n \in notice[p] : n.fact = f

\* The statement went through: the handler goes on to the next, or has returned.
Executed(p) == call'[p] # Idle \/ (reply'.at = call[p].at /\ reply'.result = "ok")

Execute(p) ==
  LET said == IF Executed(p) THEN Announces(call[p]) ELSE {} IN
  /\ notice[p] = {}
  /\ Statement(p) /\ Watch
  /\ notice' = [notice EXCEPT ![p] = said]
  /\ muddled' = muddled \cup {f \in Facts : Pending(f) /\ \E n \in said : n.fact = f}
                        \cup (IF Executed(p) THEN PassesOver(call[p]) ELSE {})
  /\ UNCHANGED <<room, heard>>

FailStatement(p) ==
  /\ notice[p] = {}
  /\ Fail(p) /\ Watch
  /\ UNCHANGED notices

------------------------------------------------------------------------------
(* notifyMemberAdded, notifyMemberRemoved, notifyMemberLeft and            *)
(* notifyGroupUpdated                                                      *)

Emit(p, n) ==
  /\ n \in notice[p]
  /\ notice' = [notice EXCEPT ![p] = @ \ {n}]
  /\ heard' = [k \in Sockets |->
       IF n.fact \in Facts /\ <<k, n.fact[1]>> \in room
       THEN [heard[k] EXCEPT ![n.fact] = n.says] ELSE heard[k]]
  /\ UNCHANGED <<vars, room, muddled>>

\* Mutant: an error is not caught, and the caller throws.
SwallowThrows(p, n) ==
  /\ n \in notice[p]
  /\ notice' = [notice EXCEPT ![p] = {}]
  /\ call' = [call EXCEPT ![p] = Idle]
  /\ muddled' = muddled \cup ({m.fact : m \in notice[p]} \cap Facts)
  /\ UNCHANGED <<conv, role, now, reply, newcomers, room, heard>>

\* A query fails; the error is logged.
Swallow(p, n) ==
  /\ n \in notice[p]
  /\ notice' = [notice EXCEPT ![p] = @ \ {n}]
  /\ muddled' = muddled \cup ({n.fact} \cap Facts)
  /\ UNCHANGED <<vars, room, heard>>

Notify(p) == \E n \in notice[p] : Emit(p, n) \/ Swallow(p, n)

------------------------------------------------------------------------------
(* The rooms.                                                              *)

\* A client knows the id of a conversation that exists.
JoinRoom(k, c) ==
  /\ c \in Live
  /\ room' = room \cup {<<k, c>>}
  /\ UNCHANGED <<vars, notice, heard, muddled>>

\* Leaving the room or disconnecting; what was heard is out of date from now on.
LeaveRoom(k, c) ==
  /\ <<k, c>> \in room
  /\ room' = room \ {<<k, c>>}
  /\ heard' = [heard EXCEPT ![k] =
                 [f \in Facts |-> IF f[1] = c THEN "nothing" ELSE heard[k][f]]]
  /\ UNCHANGED <<vars, notice, muddled>>

Rooms == \E k \in Sockets, c \in Convs : JoinRoom(k, c) \/ LeaveRoom(k, c)

------------------------------------------------------------------------------

\* The clock stands still: in one second the read-back of an id may return most rows.
NoticesNext ==
  \/ Rooms
  \/ \E p \in Slots : BeginRequest(p) \/ Execute(p) \/ FailStatement(p) \/ Notify(p)

\* The database answers every statement, if only to refuse it, and a handler
\* resumes after each await: one in flight goes on until it returns or throws.
NoticesSpec ==
  /\ NoticesInit /\ [][NoticesNext]_allvars
  /\ \A p \in Slots : WF_allvars(Execute(p) \/ Notify(p))

------------------------------------------------------------------------------

Truth(f) == IF f[2] \in Members(f[1]) THEN "in" ELSE "out"

\* What a socket in the room of a conversation has heard last of a member is
\* what the tables say, or a notice about it is still on its way, unless one was
\* lost, two handlers were announcing it at once, or it changed with no notice
\* (conversations.service.ts:292, group-chat-notification.service.ts:49).
HeardIsTrue ==
  \A k \in Sockets, f \in Facts \ muddled :
    (f[1] \in Live /\ <<k, f[1]>> \in room) =>
      heard[k][f] \in {"nothing", Truth(f)} \/ Pending(f)

\* Whoever leaves last takes the conversation along, unless somebody was let in
\* meanwhile or the database fails; a notice that fails does not stand in the way
\* (conversations.service.ts:292, 300).
LastToLeaveDeletes ==
  \A c \in Convs :
    (\E p \in Slots : At(p, "leave_count") /\ call[p].conv = c /\ Members(c) = {})
      ~> \/ c \notin Live
         \/ Members(c) # {}
         \/ reply.at \in {"leave_count", "leave_conv"} /\ reply.conv = c
              /\ reply.result = "error"
==============================================================================
