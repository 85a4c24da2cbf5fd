------------------------------- MODULE Gateway -------------------------------
(***************************************************************************)
(* ChatGateway (src/src/modules/websocket/chat.gateway.ts): the sockets,   *)
(* the map of online users, the rooms of conversations and what is emitted.*)
(*                                                                         *)
(* No handler awaits anything but emits, so each is one step.  A user may  *)
(* have several sockets at once (two devices, or a reconnection that       *)
(* overtakes the disconnection it follows): onlineUsers knows the last one *)
(* only, and the earlier sockets stay connected and stay in their rooms.   *)
(* Rooms belong to socket.io, which empties them when a socket closes.     *)
(* Contents are abstracted: an emission is its event, the users it is      *)
(* about and the sockets it reaches.                                       *)
(***************************************************************************)
EXTENDS Integers, FiniteSets

CONSTANTS
  Users, Sockets, Conversations,
  NoUser, NoSocket

ASSUME GatewayAssumption == NoUser \notin Users /\ NoSocket \notin Sockets

VARIABLES
  owner,              \* userId of the handshake of each open socket
  onlineUsers,        \* Map userId -> its socket; NoSocket when there is no entry
  userConversations,  \* Map userId -> set of conversations
  rooms,              \* socket.io: which socket is in which conversation's room
  emitted,            \* the last emission
  view,               \* what the client of a socket last heard in friend_status
  newest              \* history: the last socket each user opened

vars == <<owner, onlineUsers, userConversations, rooms, emitted, view, newest>>

Open(s) == owner[s] # NoUser

Events == {"friend_status", "user_joined", "user_left", "message", "typing_status",
           "message_read", "online_users", "conversation_members"}

Nothing == [event |-> "none", about |-> {}, from |-> NoSocket, to |-> {}]

Emissions == [event : Events, about : SUBSET Users, from : Sockets, to : SUBSET Sockets]

TypeOK ==
  /\ owner \in [Sockets -> Users \cup {NoUser}]
  /\ onlineUsers \in [Users -> Sockets \cup {NoSocket}]
  /\ userConversations \in [Users -> SUBSET Conversations]
  /\ rooms \in [Conversations -> SUBSET {s \in Sockets : Open(s)}]
  /\ emitted \in Emissions \cup {Nothing}
  /\ view \in [Sockets -> [Users -> {"unheard", "online", "offline"}]]
  /\ newest \in [Users -> Sockets \cup {NoSocket}]

Unheard == [u \in Users |-> "unheard"]

Init ==
  /\ owner = [s \in Sockets |-> NoUser]
  /\ onlineUsers = [u \in Users |-> NoSocket]
  /\ userConversations = [u \in Users |-> {}]
  /\ rooms = [c \in Conversations |-> {}]
  /\ emitted = Nothing
  /\ view = [s \in Sockets |-> Unheard]
  /\ newest = [u \in Users |-> NoSocket]

Registered(s) == \E u \in Users : onlineUsers[u] = s

\* The user of a socket, if onlineUsers knows the socket.
getUserIdBySocket(s) ==
  IF Registered(s) THEN CHOOSE u \in Users : onlineUsers[u] = s ELSE NoUser

Emit(event, about, from, to) ==
  emitted' = [event |-> event, about |-> about, from |-> from, to |-> to]

\* A socket in no room and with no memory, as a fresh or a closed one.
Forgotten(s) == view' = [view EXCEPT ![s] = Unheard]

------------------------------------------------------------------------------
(* Connections.                                                            *)

\* Mutant: the entries of users who have gone are emitted to as well.
NotifyStaleEntries(u, s, status) ==
  LET told == {onlineUsers'[v] : v \in Users} IN
  /\ Emit("friend_status", {u}, s, told)
  /\ view' = [q \in Sockets |->
       IF q \in told THEN [view[q] EXCEPT ![u] = status]
       ELSE IF owner'[q] = NoUser THEN Unheard ELSE view[q]]

\* friend_status goes to the sockets that onlineUsers holds at that instant.
notifyFriendsStatus(u, s, status) ==
  LET told == {onlineUsers'[v] : v \in Users} \ {NoSocket} IN
  /\ Emit("friend_status", {u}, s, told)
  /\ view' = [q \in Sockets |->
       IF q \in told THEN [view[q] EXCEPT ![u] = status]
       ELSE IF owner'[q] = NoUser THEN Unheard ELSE view[q]]

\* The id of a closed socket stands for a new one once nothing remembers it.
Fresh(s) == ~Open(s) /\ \A u \in Users : onlineUsers[u] # s /\ newest[u] # s

\* A connection without a token or a userId is closed at once and leaves no trace.
handleConnection(s, u) ==
  /\ Fresh(s)
  /\ owner' = [owner EXCEPT ![s] = u]
  /\ newest' = [newest EXCEPT ![u] = s]
  /\ onlineUsers' = [onlineUsers EXCEPT ![u] = s]
  /\ notifyFriendsStatus(u, s, "online")
  /\ UNCHANGED <<userConversations, rooms>>

\* Mutant: nobody is told.
DisconnectTellsNobody(s) ==
  /\ Open(s)
  /\ owner' = [owner EXCEPT ![s] = NoUser]
  /\ rooms' = [c \in Conversations |-> rooms[c] \ {s}]
  /\ onlineUsers' = [u \in Users |-> IF onlineUsers[u] = s THEN NoSocket ELSE onlineUsers[u]]
  /\ Forgotten(s)
  /\ UNCHANGED <<userConversations, newest, emitted>>

\* Mutant: the entry is found by the user of the socket, not by the socket.
DisconnectByUser(s) ==
  LET u == owner[s] IN
  /\ Open(s)
  /\ owner' = [owner EXCEPT ![s] = NoUser]
  /\ rooms' = [c \in Conversations |-> rooms[c] \ {s}]
  /\ onlineUsers' = [onlineUsers EXCEPT ![u] = NoSocket]
  /\ notifyFriendsStatus(u, s, "offline")
  /\ UNCHANGED <<userConversations, newest>>

\* The entry goes only when it holds this very socket.
handleDisconnect(s) ==
  LET u == getUserIdBySocket(s) IN
  /\ Open(s)
  /\ owner' = [owner EXCEPT ![s] = NoUser]
  /\ rooms' = [c \in Conversations |-> rooms[c] \ {s}]
  /\ \/ /\ Registered(s)
        /\ onlineUsers' = [onlineUsers EXCEPT ![u] = NoSocket]
        /\ notifyFriendsStatus(u, s, "offline")
     \/ ~Registered(s) /\ Forgotten(s) /\ UNCHANGED <<onlineUsers, emitted>>
  /\ UNCHANGED <<userConversations, newest>>

------------------------------------------------------------------------------
(* Handlers of messages from clients.  An event of a socket that is not    *)
(* registered (any more) is dropped.                                       *)

\* client.to(room): everybody in the room but the client itself.
Others(s, c) == rooms[c] \ {s}

handleJoinConversation(s, c) ==
  LET u == getUserIdBySocket(s) IN
  /\ Registered(s)
  /\ rooms' = [rooms EXCEPT ![c] = @ \cup {s}]
  /\ userConversations' = [userConversations EXCEPT ![u] = @ \cup {c}]
  /\ Emit("user_joined", {u}, s, Others(s, c))
  /\ UNCHANGED <<owner, onlineUsers, view, newest>>

\* Mutant: the record is updated and the room is not.
LeaveStaysInRoom(s, c) ==
  LET u == getUserIdBySocket(s) IN
  /\ Registered(s)
  /\ userConversations' = [userConversations EXCEPT ![u] = @ \ {c}]
  /\ Emit("user_left", {u}, s, Others(s, c))
  /\ UNCHANGED <<owner, onlineUsers, rooms, view, newest>>

handleLeaveConversation(s, c) ==
  LET u == getUserIdBySocket(s) IN
  /\ Registered(s)
  /\ rooms' = [rooms EXCEPT ![c] = @ \ {s}]
  /\ userConversations' = [userConversations EXCEPT ![u] = @ \ {c}]
  /\ Emit("user_left", {u}, s, Others(s, c))
  /\ UNCHANGED <<owner, onlineUsers, view, newest>>

\* The state of the gateway, which messages leave alone.
gateway == <<owner, onlineUsers, userConversations, rooms, view, newest>>

\* Mutant: the payload is spread after the sender, and its senderId wins.
SendMessageAsClaimed(s, c, claimed) ==
  /\ Registered(s)
  /\ Emit("message", {claimed}, s, rooms[c])
  /\ UNCHANGED gateway

\* The sender is the user of the socket, whatever the payload claims.  Nobody
\* asks whether the sender is in the room or in the conversation.
handleSendMessage(s, c, claimed) ==
  /\ Registered(s)
  /\ Emit("message", {getUserIdBySocket(s)}, s, rooms[c])
  /\ UNCHANGED gateway

handleTypingStart(s, c) ==
  /\ Registered(s)
  /\ Emit("typing_status", {getUserIdBySocket(s)}, s, Others(s, c))
  /\ UNCHANGED gateway

handleTypingStop(s, c) ==
  /\ Registered(s)
  /\ Emit("typing_status", {getUserIdBySocket(s)}, s, Others(s, c))
  /\ UNCHANGED gateway

handleMarkAsRead(s, c) ==
  /\ Registered(s)
  /\ Emit("message_read", {getUserIdBySocket(s)}, s, rooms[c])
  /\ UNCHANGED gateway

OnlineIds == {u \in Users : onlineUsers[u] # NoSocket}

handleGetOnlineUsers(s) ==
  /\ Registered(s)
  /\ Emit("online_users", OnlineIds, s, {s})
  /\ UNCHANGED gateway

\* The answer names everybody online but the caller, members or not.
handleGetConversationMembers(s, c) ==
  /\ Registered(s)
  /\ Emit("conversation_members", OnlineIds \ {getUserIdBySocket(s)}, s, {s})
  /\ UNCHANGED gateway

------------------------------------------------------------------------------

Connections ==
  \E s \in Sockets :
    \/ \E u \in Users : handleConnection(s, u)
    \/ handleDisconnect(s)

Messages ==
  \E s \in Sockets :
    \/ handleGetOnlineUsers(s)
    \/ \E c \in Conversations :
         \/ handleJoinConversation(s, c) \/ handleLeaveConversation(s, c)
         \/ \E claimed \in Users : handleSendMessage(s, c, claimed)
         \/ handleTypingStart(s, c) \/ handleTypingStop(s, c)
         \/ handleMarkAsRead(s, c) \/ handleGetConversationMembers(s, c)

Next == Connections \/ Messages

Spec == Init /\ [][Next]_vars

------------------------------------------------------------------------------
(* Properties that hold.                                                   *)

\* The socket of an online user is the last one that user opened, and the user is
\* online exactly as long as that socket is: the late disconnection of an earlier
\* socket takes nobody offline.
OnlineByNewest ==
  \A u \in Users :
    onlineUsers[u] = IF newest[u] # NoSocket /\ Open(newest[u]) THEN newest[u] ELSE NoSocket

\* What a registered client last heard of a user's presence is right: who comes
\* and goes while a client is registered is announced to it, in order, even when
\* the user has several sockets.
PresenceIsCurrent ==
  \A s \in Sockets, u \in Users :
    (Registered(s) /\ view[s][u] # "unheard") =>
      (view[s][u] = "online") = (onlineUsers[u] # NoSocket)

\* A registered socket is in no room that userConversations does not record for
\* its user, whatever the user's earlier sockets joined and left.
RoomsAreRecorded ==
  \A u \in Users, c \in Conversations :
    onlineUsers[u] \in rooms[c] => c \in userConversations[u]

\* What is said in a room is said in the name of the user who opened the socket
\* it came from, and that user is online with that very socket: an earlier socket,
\* though still connected and in the room, can hear but not speak.
SpeaksForItsUser ==
  [][(emitted' # emitted /\ emitted'.event \in {"message", "typing_status", "message_read"}) =>
       \E u \in Users : emitted'.about = {u} /\ owner[emitted'.from] = u /\ newest[u] = emitted'.from]_vars

==============================================================================
