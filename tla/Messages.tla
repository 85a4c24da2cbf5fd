------------------------------ MODULE Messages ------------------------------
(***************************************************************************)
(* MessagesService (src/src/modules/chat/services/messages.service.ts) and *)
(* the three other places that write or count what it is about: opening a  *)
(* conversation and the list of conversations (conversations.service.ts)   *)
(* and markOfflineMessagesAsRead (offline-message.service.ts).             *)
(*                                                                         *)
(* A handler is a sequence of SQL statements, as in Conversations, whose   *)
(* own handlers are external here: members join, leave or are removed, and *)
(* a conversation is deleted, between any two statements, in any way that  *)
(* MembershipTable allows.  The clock of created_at and last_read_at counts*)
(* seconds.                                                                *)
(***************************************************************************)
EXTENDS Naturals, FiniteSets

CONSTANTS
  Users, Conversations, Messages, Slots,
  MaxTime,  \* bound on the clock, in seconds
  NoUser, NoConversation, NoMessage

ASSUME MessagesAssumption ==
  /\ NoUser \notin Users /\ NoConversation \notin Conversations /\ NoMessage \notin Messages
  /\ MaxTime \in Nat \ {0}

VARIABLES
  conversations,  \* table conversations: those not yet deleted
  members,        \* table conversation_members, as pairs
  lastRead,       \* its column last_read_at; 0 is NULL
  message,        \* table messages
  now,            \* the clock of the database
  call,           \* the handler in each slot
  marked,         \* history: what each member has marked as read
  rushed          \* history: two sends of a user to a conversation overlapped

tables == <<conversations, members, lastRead, message, now>>

vars == <<tables, call, marked, rushed>>

SendSteps == {"send_check", "send_insert", "send_read", "send_touch", "send_sender"}
MarkSteps == {"mark_find", "mark_update", "detail_check", "detail_mark", "detail_read",
              "offline_mark"}
Steps     == SendSteps \cup MarkSteps \cup {"delete_find", "delete_update"}

Pairs == Conversations \X Users

\* What ConversationsService makes of the two tables it writes (Conversations!Table).
\* Every conversation is founded before the first message.
Table == INSTANCE MembershipTable WITH founded <- Conversations, open <- conversations

\* on is the message of the request; wrote, row and ousted belong to a send: the
\* message it inserted (history), the row it read back, and whether its user has
\* lost the membership since it was checked (history).
Idle == [at |-> "idle", me |-> NoUser, to |-> NoConversation, on |-> NoMessage,
         wrote |-> NoMessage, row |-> NoMessage, ousted |-> FALSE]

SomeMessage == Messages \cup {NoMessage}

Handlers == [at : Steps, me : Users, to : Conversations \cup {NoConversation},
             on : SomeMessage, wrote : SomeMessage, row : SomeMessage, ousted : BOOLEAN]

\* A row goes when its conversation does (ON DELETE CASCADE); deleteMessage marks.
States == {"unused", "live", "deleted", "gone"}

Blank == [state |-> "unused", to |-> NoConversation, sender |-> NoUser, born |-> 0]

TypeOK ==
  /\ conversations \subseteq Conversations
  /\ members \subseteq conversations \X Users
  /\ lastRead \in [Pairs -> 0..MaxTime]
  /\ message \in [Messages -> [state : States, to : Conversations \cup {NoConversation},
                               sender : Users \cup {NoUser}, born : 0..MaxTime]]
  /\ now \in 1..MaxTime
  /\ call \in [Slots -> {Idle} \cup Handlers]
  /\ marked \subseteq Messages \X Users
  /\ rushed \in BOOLEAN

Init ==
  /\ conversations = Conversations
  /\ members = Pairs
  /\ lastRead = [p \in Pairs |-> 0]
  /\ message = [m \in Messages |-> Blank]
  /\ now = 1
  /\ call = [s \in Slots |-> Idle]
  /\ marked = {}
  /\ rushed = FALSE

\* The rows of a conversation.
In(c) == {m \in Messages : message[m].state \in {"live", "deleted"} /\ message[m].to = c}

------------------------------------------------------------------------------
(* The control of a handler.                                               *)

At(s, step) == call[s].at = step

Begin(s, step, u, c, m) ==
  /\ call[s] = Idle
  /\ call' = [call EXCEPT ![s] = [Idle EXCEPT !.at = step, !.me = u, !.to = c, !.on = m]]
  /\ UNCHANGED <<tables, marked>>

Await(s, step) == call' = [call EXCEPT ![s].at = step]

\* The handler returns or throws: the same to the tables.
End(s) == call' = [call EXCEPT ![s] = Idle]

\* The statement is rejected.  The offline handler swallows the error.
Fail(s) ==
  /\ call[s] # Idle
  /\ End(s)
  /\ UNCHANGED <<tables, marked, rushed>>

------------------------------------------------------------------------------
(* sendMessage                                                             *)

\* Bound: a send is begun only when an id is left for its message.
MessageLeft ==
  Cardinality({m \in Messages : message[m].state = "unused"}) >
    Cardinality({s \in Slots : call[s].at \in {"send_check", "send_insert"}})

\* What validateMessageContent refuses never gets this far.
SendMessage(s, u, c) ==
  /\ MessageLeft
  /\ Begin(s, "send_check", u, c, NoMessage)
  /\ rushed' = (rushed \/ (\E q \in Slots :
                             call[q].at \in SendSteps /\ call[q].me = u /\ call[q].to = c))

\* Mutant: the check is forgotten.
SendCheckNobody(s) ==
  /\ At(s, "send_check")
  /\ Await(s, "send_insert")
  /\ UNCHANGED <<tables, marked, rushed>>

\* A member with an invalid media URL ends here too.
SendCheck(s) ==
  /\ At(s, "send_check")
  /\ \/ <<call[s].to, call[s].me>> \in members /\ Await(s, "send_insert")
     \/ End(s)
  /\ UNCHANGED <<tables, marked, rushed>>

\* The foreign key refuses a message to a conversation deleted meanwhile.
SendInsert(s) ==
  LET c == call[s].to IN
  /\ At(s, "send_insert")
  /\ \/ /\ c \in conversations
        /\ \E m \in Messages :
             /\ message[m].state = "unused"
             /\ message' = [message EXCEPT ![m] =
                  [state |-> "live", to |-> c, sender |-> call[s].me, born |-> now]]
             /\ call' = [call EXCEPT ![s].at = "send_read", ![s].wrote = m,
                                        ![s].ousted = FALSE]
     \/ c \notin conversations /\ End(s) /\ UNCHANGED message
  /\ UNCHANGED <<conversations, members, lastRead, now, marked, rushed>>

\* Mutant: rows marked deleted are not found.
LatestUndeleted(c, u) ==
  LET own == {m \in In(c) : message[m].sender = u /\ message[m].state = "live"} IN
  {m \in own : \A n \in own : message[n].born <= message[m].born}

\* The rows that ORDER BY created_at DESC LIMIT 1 may return.
Latest(c, u) ==
  LET own == {m \in In(c) : message[m].sender = u} IN
  {m \in own : \A n \in own : message[n].born <= message[m].born}

\* When there is no row, a media or emoji message throws (message.id of
\* undefined) and a text goes on with nothing.
SendReadBack(s) ==
  LET found == Latest(call[s].to, call[s].me) IN
  /\ At(s, "send_read")
  /\ \/ \E m \in found : call' = [call EXCEPT ![s].at = "send_touch", ![s].row = m]
     \/ found = {} /\ (Await(s, "send_touch") \/ End(s))
  /\ UNCHANGED <<tables, marked, rushed>>

\* UPDATE of updated_at, which is not modelled; only a broadcast goes on.
SendTouch(s) ==
  /\ At(s, "send_touch")
  /\ Await(s, "send_sender") \/ End(s)
  /\ UNCHANGED <<tables, marked, rushed>>

\* The sender is read, and the row held since SendReadBack emitted to the room.
SendEmit(s) ==
  /\ At(s, "send_sender")
  /\ End(s)
  /\ UNCHANGED <<tables, marked, rushed>>

------------------------------------------------------------------------------
(* deleteMessage                                                           *)

DeleteMessage(s, u, m) == Begin(s, "delete_find", u, NoConversation, m) /\ UNCHANGED rushed

\* A message that is already marked is found again.
DeleteFind(s) ==
  LET m == call[s].on IN
  /\ At(s, "delete_find")
  /\ \/ /\ message[m].state \in {"live", "deleted"} /\ message[m].sender = call[s].me
        /\ Await(s, "delete_update")
     \/ /\ message[m].state \in {"unused", "gone"} \/ message[m].sender # call[s].me
        /\ End(s)
  /\ UNCHANGED <<tables, marked, rushed>>

DeleteUpdate(s) ==
  LET m == call[s].on IN
  /\ At(s, "delete_update")
  /\ message' = IF message[m].state = "live"
                THEN [message EXCEPT ![m].state = "deleted"] ELSE message
  /\ End(s)
  /\ UNCHANGED <<conversations, members, lastRead, now, marked, rushed>>

------------------------------------------------------------------------------
(* Marking as read, from three services, and what counts as unread         *)

\* UPDATE conversation_members SET last_read_at = NOW(), which finds a row or not.
Read(c, u) ==
  /\ lastRead' = IF <<c, u>> \in members THEN [lastRead EXCEPT ![<<c, u>>] = now] ELSE lastRead
  /\ marked' = IF <<c, u>> \in members THEN marked \cup (In(c) \X {u}) ELSE marked
  /\ UNCHANGED <<conversations, members, message, now>>

MarkAsRead(s, u, m) == Begin(s, "mark_find", u, NoConversation, m) /\ UNCHANGED rushed

\* Nobody asks whether the reader is a member.
MarkFind(s) ==
  LET m == call[s].on IN
  /\ At(s, "mark_find")
  /\ \/ /\ message[m].state = "live" /\ message[m].sender # call[s].me
        /\ Await(s, "mark_update")
     \/ /\ message[m].state # "live" \/ message[m].sender = call[s].me
        /\ End(s)
  /\ UNCHANGED <<tables, marked, rushed>>

\* The conversation is looked up again, and is nowhere if it was deleted.
MarkUpdate(s) ==
  LET m == call[s].on IN
  /\ At(s, "mark_update")
  /\ \/ message[m].state # "gone" /\ Read(message[m].to, call[s].me)
     \/ message[m].state = "gone" /\ UNCHANGED <<tables, marked>>
  /\ End(s)
  /\ UNCHANGED rushed

GetConversationDetail(s, u, c) ==
  Begin(s, "detail_check", u, c, NoMessage) /\ UNCHANGED rushed

DetailCheck(s) ==
  /\ At(s, "detail_check")
  /\ \/ <<call[s].to, call[s].me>> \in members    /\ Await(s, "detail_mark")
     \/ <<call[s].to, call[s].me>> \notin members /\ End(s)
  /\ UNCHANGED <<tables, marked, rushed>>

UpdateLastReadAt(s) ==
  /\ At(s, "detail_mark")
  /\ Read(call[s].to, call[s].me)
  /\ Await(s, "detail_read")
  /\ UNCHANGED rushed

DetailRead(s) ==
  /\ At(s, "detail_read")
  /\ End(s)
  /\ UNCHANGED <<tables, marked, rushed>>

MarkOfflineMessagesAsRead(s, u, c) ==
  Begin(s, "offline_mark", u, c, NoMessage) /\ UNCHANGED rushed

OfflineMark(s) ==
  /\ At(s, "offline_mark")
  /\ Read(call[s].to, call[s].me)
  /\ End(s)
  /\ UNCHANGED rushed

\* Mutant: a message of the second of the last reading is unread.
UnreadOrSame(c, u) ==
  {m \in In(c) : message[m].state = "live" /\ lastRead[<<c, u>>] <= message[m].born}

\* What getUnreadCount counts, the user's own messages included.
Unread(c, u) ==
  {m \in In(c) : message[m].state = "live" /\ lastRead[<<c, u>>] < message[m].born}

\* What the list of conversations and the offline service count.
UnreadOfOthers(c, u) == {m \in Unread(c, u) : message[m].sender # u}

------------------------------------------------------------------------------
(* ConversationsService and the clock                                      *)

\* The new rows of conversation_members have never read anything.
Join(c, joining) ==
  /\ Table!Admit(c, joining)
  /\ lastRead' = [p \in Pairs |-> IF p \in {c} \X joining THEN 0 ELSE lastRead[p]]
  /\ UNCHANGED <<message, now, call, marked, rushed>>

\* The marks about c and the memberships of c are lost together.
Unmark(c, lost) == marked \ {p \in Messages \X lost : message[p[1]].to = c}

Oust(c, lost) ==
  call' = [s \in Slots |-> IF At(s, "send_insert") /\ call[s].to = c /\ call[s].me \in lost
                           THEN [call[s] EXCEPT !.ousted = TRUE] ELSE call[s]]

Leave(c, u) ==
  /\ Table!Depart(c, u)
  /\ marked' = Unmark(c, {u})
  /\ Oust(c, {u})
  /\ UNCHANGED <<lastRead, message, now, rushed>>

\* The last leaver's DELETE, which a member may have joined before: the rows of
\* members and messages go too.
DeleteConversation(c) ==
  /\ Table!Close(c)
  /\ message' = [m \in Messages |-> IF m \in In(c) THEN [message[m] EXCEPT !.state = "gone"]
                                    ELSE message[m]]
  /\ marked' = Unmark(c, Users)
  /\ Oust(c, Users)
  /\ UNCHANGED <<lastRead, now, rushed>>

Tick ==
  /\ now < MaxTime  \* bound
  /\ now' = now + 1
  /\ UNCHANGED <<conversations, members, lastRead, message, call, marked, rushed>>

------------------------------------------------------------------------------

Request(s) ==
  \E u \in Users :
    \/ \E c \in Conversations :
         \/ SendMessage(s, u, c) \/ GetConversationDetail(s, u, c)
         \/ MarkOfflineMessagesAsRead(s, u, c)
    \/ \E m \in Messages : DeleteMessage(s, u, m) \/ MarkAsRead(s, u, m)

Statement(s) ==
  \/ SendCheck(s) \/ SendInsert(s) \/ SendReadBack(s) \/ SendTouch(s) \/ SendEmit(s)
  \/ DeleteFind(s) \/ DeleteUpdate(s)
  \/ MarkFind(s) \/ MarkUpdate(s)
  \/ DetailCheck(s) \/ UpdateLastReadAt(s) \/ DetailRead(s) \/ OfflineMark(s)

Membership ==
  \E c \in Conversations :
    \/ DeleteConversation(c)
    \/ \E joining \in SUBSET Users : Join(c, joining)
    \/ \E u \in Users : Leave(c, u)

Next ==
  \/ Tick
  \/ Membership
  \/ \E s \in Slots : Request(s) \/ Statement(s) \/ Fail(s)

Spec == Init /\ [][Next]_vars

------------------------------------------------------------------------------
(* Properties that hold.                                                   *)

\* Only members write: a message appears by the hand of a handler whose user is a
\* member of the conversation, or has ceased to be one while the handler ran,
\* after the check of line 33.
OnlyMembersWrite ==
  [][\A m \in Messages : (message[m].state = "unused" /\ message'[m].state # "unused") =>
       \E s \in Slots :
         /\ At(s, "send_insert")
         /\ call[s].me = message'[m].sender /\ call[s].to = message'[m].to
         /\ call[s].ousted \/ <<call[s].to, call[s].me>> \in members]_vars

\* Another message of the same second, sender and conversation.
Tied(m) ==
  \E n \in Messages \ {m} :
    /\ message[n].state # "unused" /\ message[n].born = message[m].born
    /\ message[n].sender = message[m].sender /\ message[n].to = message[m].to

\* A send returns and announces the message it has inserted, unless its user sent
\* another one in the same second or at the same time, and announces an empty
\* message only if the conversation was deleted meanwhile, whatever members do
\* and whoever deletes or writes messages in between.
SendAnnouncesItsOwn ==
  \A s \in Slots : call[s].at \in {"send_touch", "send_sender"} =>
    \/ call[s].row = call[s].wrote
    \/ call[s].row = NoMessage /\ call[s].to \notin conversations
    \/ call[s].row # NoMessage /\ (rushed \/ Tied(call[s].wrote))

\* A member's unread messages of others are those that neither markAsRead nor
\* opening the conversation nor the offline service has covered since the member
\* joined: what was marked stays read, and what was not stays unread, but for
\* messages that arrive in the very second of the last reading.
UnreadIsUnmarked ==
  \A c \in Conversations, u \in Users : <<c, u>> \in members =>
    \A m \in In(c) : (message[m].state = "live" /\ message[m].sender # u) =>
      /\ <<m, u>> \in marked => m \notin UnreadOfOthers(c, u)
      /\ <<m, u>> \notin marked =>
           m \in UnreadOfOthers(c, u) \/ message[m].born = lastRead[<<c, u>>]

\* Nothing in this module does to the two tables what ConversationsService could not:
\* the handlers write neither, and whatever is external is a step of theirs.
AssumesTable == Table!Spec
==============================================================================
