------------------------- MODULE WebSocketProofs -------------------------
(***************************************************************************)
(* The two services of src/src/modules/websocket, for any users, sockets,  *)
(* conversations and any number of calls.  They share no state.            *)
(*                                                                         *)
(* ChatGateway: an entry of onlineUsers is an open socket of that very     *)
(* user, the last one opened, so the search by socket finds one user at    *)
(* most and a disconnection removes the right entry or none.               *)
(*                                                                         *)
(* WebRTCService: the two maps agree as far as the code makes them agree,  *)
(* and the one way to leave a user counted in a call that is gone is the   *)
(* one the model shows.                                                    *)
(***************************************************************************)
EXTENDS Gateway, Calls, TLAPS

------------------------------------------------------------------------------
(* ChatGateway                                                             *)

\* An entry holds the last socket of its user, opened by that user, and the last
\* socket of a user has an entry while it is open.
EntriesAreNewest ==
  \A u \in Users :
    /\ onlineUsers[u] # NoSocket => onlineUsers[u] = newest[u] /\ owner[onlineUsers[u]] = u
    /\ (newest[u] # NoSocket /\ Open(newest[u])) => onlineUsers[u] = newest[u]

\* A client that is not connected has heard nothing.
ClosedIsForgotten == \A s \in Sockets : ~Open(s) => view[s] = Unheard

IInv ==
  /\ TypeOK /\ EntriesAreNewest /\ ClosedIsForgotten
  /\ PresenceIsCurrent /\ RoomsAreRecorded

\* getUserIdBySocket finds the user whose entry holds the socket, who is its owner.
LEMMA TheUser ==
  ASSUME TypeOK, EntriesAreNewest, NEW s \in Sockets, Registered(s)
  PROVE  /\ getUserIdBySocket(s) \in Users
         /\ onlineUsers[getUserIdBySocket(s)] = s
         /\ owner[s] = getUserIdBySocket(s)
         /\ newest[getUserIdBySocket(s)] = s
         /\ Open(s)
<1>1. /\ getUserIdBySocket(s) \in Users
      /\ onlineUsers[getUserIdBySocket(s)] = s
  BY DEF getUserIdBySocket, Registered
<1> QED
  BY <1>1, GatewayAssumption DEF EntriesAreNewest, Open

LEMMA InitHolds == Init => IInv
<1> SUFFICES ASSUME Init PROVE IInv
  OBVIOUS
<1>1. TypeOK
  BY GatewayAssumption DEF Init, TypeOK, Open, Unheard
<1>2. EntriesAreNewest /\ ClosedIsForgotten /\ PresenceIsCurrent /\ RoomsAreRecorded
  BY GatewayAssumption DEF Init, EntriesAreNewest, ClosedIsForgotten, PresenceIsCurrent, RoomsAreRecorded,
     Registered, Unheard
<1> QED
  BY <1>1, <1>2 DEF IInv

\* Messages that leave the gateway's state alone.
LEMMA Spoken ==
  ASSUME IInv, UNCHANGED gateway, emitted' \in Emissions
  PROVE  IInv'
<1>1. TypeOK'
  BY DEF IInv, TypeOK, gateway, Open
<1>2. (EntriesAreNewest /\ ClosedIsForgotten /\ PresenceIsCurrent /\ RoomsAreRecorded)'
  BY DEF IInv, gateway, EntriesAreNewest, ClosedIsForgotten, PresenceIsCurrent, RoomsAreRecorded, Registered, Open
<1> QED
  BY <1>1, <1>2 DEF IInv

\* Emissions of a registered socket have their type, and name who they should.
LEMMA EmissionTyped ==
  ASSUME IInv, NEW s \in Sockets, NEW event \in Events, NEW about \in SUBSET Users,
         NEW to \in SUBSET Sockets, Emit(event, about, s, to)
  PROVE  emitted' \in Emissions
BY DEF Emit, Emissions

LEMMA RoomsOfSockets ==
  ASSUME TypeOK, NEW c \in Conversations, NEW s \in Sockets
  PROVE  rooms[c] \in SUBSET Sockets /\ Others(s, c) \in SUBSET Sockets
BY DEF TypeOK, Others

LEMMA MessageStep ==
  ASSUME IInv, NEW s \in Sockets, NEW c \in Conversations, NEW claimed \in Users,
         \/ handleSendMessage(s, c, claimed)
         \/ handleTypingStart(s, c) \/ handleTypingStop(s, c) \/ handleMarkAsRead(s, c)
         \/ handleGetOnlineUsers(s) \/ handleGetConversationMembers(s, c)
  PROVE  IInv' /\ UNCHANGED gateway
<1> DEFINE u == getUserIdBySocket(s)
<1>1. Registered(s) /\ UNCHANGED gateway
  BY DEF handleSendMessage, handleTypingStart, handleTypingStop, handleMarkAsRead,
     handleGetOnlineUsers, handleGetConversationMembers
<1>2. u \in Users
  BY <1>1, TheUser DEF IInv
<1>3. rooms[c] \in SUBSET Sockets /\ Others(s, c) \in SUBSET Sockets
  BY RoomsOfSockets DEF IInv
<1>4. OnlineIds \in SUBSET Users /\ OnlineIds \ {u} \in SUBSET Users /\ {u} \in SUBSET Users
  BY <1>2 DEF OnlineIds
<1>5. emitted' \in Emissions
  <2>1. CASE handleSendMessage(s, c, claimed)
    BY <2>1, <1>3, <1>4 DEF handleSendMessage, Emit, Emissions, Events
  <2>2. CASE handleTypingStart(s, c)
    BY <2>2, <1>3, <1>4 DEF handleTypingStart, Emit, Emissions, Events
  <2>3. CASE handleTypingStop(s, c)
    BY <2>3, <1>3, <1>4 DEF handleTypingStop, Emit, Emissions, Events
  <2>4. CASE handleMarkAsRead(s, c)
    BY <2>4, <1>3, <1>4 DEF handleMarkAsRead, Emit, Emissions, Events
  <2>5. CASE handleGetOnlineUsers(s)
    BY <2>5, <1>4 DEF handleGetOnlineUsers, Emit, Emissions, Events
  <2>6. CASE handleGetConversationMembers(s, c)
    BY <2>6, <1>4 DEF handleGetConversationMembers, Emit, Emissions, Events
  <2> QED
    BY <2>1, <2>2, <2>3, <2>4, <2>5, <2>6
<1> QED
  BY <1>1, <1>5, Spoken

\* Joining and leaving move the room and the record together.
LEMMA RoomStep ==
  ASSUME IInv, NEW s \in Sockets, NEW c \in Conversations,
         handleJoinConversation(s, c) \/ handleLeaveConversation(s, c)
  PROVE  IInv'
<1> DEFINE u == getUserIdBySocket(s)
<1>1. Registered(s) /\ UNCHANGED <<owner, onlineUsers, view, newest>>
  BY DEF handleJoinConversation, handleLeaveConversation
<1>2. u \in Users /\ onlineUsers[u] = s /\ owner[s] = u /\ newest[u] = s /\ Open(s)
  BY <1>1, TheUser DEF IInv
<1>3. Others(s, c) \in SUBSET Sockets
  BY RoomsOfSockets DEF IInv
<1>4. emitted' \in Emissions
  BY <1>2, <1>3 DEF handleJoinConversation, handleLeaveConversation, Emit, Emissions, Events
<1>5. TypeOK'
  <2>1. /\ rooms' \in [Conversations -> SUBSET {q \in Sockets : Open(q)}]
        /\ userConversations' \in [Users -> SUBSET Conversations]
    <3>1. /\ rooms \in [Conversations -> SUBSET {q \in Sockets : Open(q)}]
          /\ userConversations \in [Users -> SUBSET Conversations]
          /\ s \in {q \in Sockets : Open(q)}
      BY <1>2 DEF IInv, TypeOK
    <3>2. CASE handleJoinConversation(s, c)
      <4>1. /\ rooms' = [rooms EXCEPT ![c] = @ \cup {s}]
            /\ userConversations' = [userConversations EXCEPT ![u] = @ \cup {c}]
        BY <3>2 DEF handleJoinConversation
      <4> QED
        BY <4>1, <3>1, <1>2
    <3>3. CASE handleLeaveConversation(s, c)
      <4>1. /\ rooms' = [rooms EXCEPT ![c] = @ \ {s}]
            /\ userConversations' = [userConversations EXCEPT ![u] = @ \ {c}]
        BY <3>3 DEF handleLeaveConversation
      <4> QED
        BY <4>1, <3>1, <1>2
    <3> QED
      BY <3>2, <3>3
  <2> QED
    BY <2>1, <1>1, <1>4 DEF IInv, TypeOK, Open
<1>6. (EntriesAreNewest /\ ClosedIsForgotten /\ PresenceIsCurrent)'
  BY <1>1 DEF IInv, EntriesAreNewest, ClosedIsForgotten, PresenceIsCurrent, Registered, Open
<1>7. RoomsAreRecorded'
  <2> SUFFICES ASSUME NEW v \in Users, NEW d \in Conversations, onlineUsers[v] \in rooms'[d]
               PROVE  d \in userConversations'[v]
    BY <1>1 DEF RoomsAreRecorded
  <2>1. CASE v = u /\ d = c
    BY <2>1, <1>2 DEF IInv, TypeOK, handleJoinConversation, handleLeaveConversation
  <2>2. CASE v # u \/ d # c
    <3>1. d \in userConversations[v] => d \in userConversations'[v]
      BY <2>2, <1>2 DEF IInv, TypeOK, handleJoinConversation, handleLeaveConversation
    <3>2. onlineUsers[v] \in rooms[d]
      <4>1. CASE d # c
        BY <4>1 DEF IInv, TypeOK, handleJoinConversation, handleLeaveConversation
      <4>2. CASE v # u
        <5>1. onlineUsers[v] # s
          BY <4>2, <1>2, GatewayAssumption DEF IInv, EntriesAreNewest
        <5> QED
          BY <5>1 DEF IInv, TypeOK, handleJoinConversation, handleLeaveConversation
      <4> QED
        BY <2>2, <4>1, <4>2
    <3> QED
      BY <3>1, <3>2 DEF IInv, RoomsAreRecorded
  <2> QED
    BY <2>1, <2>2
<1> QED
  BY <1>5, <1>6, <1>7 DEF IInv

\* What notifyFriendsStatus leaves in view, whoever the told sockets are.
LEMMA Notified ==
  ASSUME TypeOK, NEW u \in Users, NEW s \in Sockets, NEW status \in {"online", "offline"},
         onlineUsers' \in [Users -> Sockets \cup {NoSocket}],
         notifyFriendsStatus(u, s, status)
  PROVE  /\ emitted' \in Emissions
         /\ view' \in [Sockets -> [Users -> {"unheard", "online", "offline"}]]
         /\ \A q \in Sockets : Registered(q)' =>
              /\ view'[q][u] = status
              /\ \A v \in Users : v # u => view'[q][v] = view[q][v]
         /\ \A q \in Sockets : (~Registered(q)' /\ owner'[q] = NoUser) => view'[q] = Unheard
<1> DEFINE told == {onlineUsers'[v] : v \in Users} \ {NoSocket}
<1>1. told \in SUBSET Sockets
  OBVIOUS
<1>2. /\ emitted' = [event |-> "friend_status", about |-> {u}, from |-> s, to |-> told]
      /\ view' = [q \in Sockets |->
           IF q \in told THEN [view[q] EXCEPT ![u] = status]
           ELSE IF owner'[q] = NoUser THEN Unheard ELSE view[q]]
  BY DEF notifyFriendsStatus, Emit
<1>3. emitted' \in Emissions
  BY <1>1, <1>2 DEF Emissions, Events
<1>4. \A q \in Sockets : view[q] \in [Users -> {"unheard", "online", "offline"}]
  BY DEF TypeOK
<1>5. Unheard \in [Users -> {"unheard", "online", "offline"}]
  BY DEF Unheard
<1>6. view' \in [Sockets -> [Users -> {"unheard", "online", "offline"}]]
  <2> SUFFICES ASSUME NEW q \in Sockets
               PROVE  view'[q] \in [Users -> {"unheard", "online", "offline"}]
    BY <1>2
  <2>1. [view[q] EXCEPT ![u] = status] \in [Users -> {"unheard", "online", "offline"}]
    BY <1>4
  <2> QED
    BY <2>1, <1>2, <1>4, <1>5
<1>7. ASSUME NEW q \in Sockets, Registered(q)'
      PROVE  /\ view'[q][u] = status
             /\ \A v \in Users : v # u => view'[q][v] = view[q][v]
  <2>1. q \in told
    BY <1>7, GatewayAssumption DEF Registered
  <2>2. view'[q] = [view[q] EXCEPT ![u] = status]
    BY <2>1, <1>2
  <2> QED
    BY <2>2, <1>4
<1>8. ASSUME NEW q \in Sockets, ~Registered(q)', owner'[q] = NoUser
      PROVE  view'[q] = Unheard
  <2>1. q \notin told
    BY <1>8 DEF Registered
  <2> QED
    BY <2>1, <1>8, <1>2
<1> QED
  BY <1>3, <1>6, <1>7, <1>8

\* A new socket takes the entry of its user, and everybody registered hears of it.
LEMMA ConnectStep ==
  ASSUME IInv, NEW s \in Sockets, NEW u \in Users, handleConnection(s, u)
  PROVE  IInv'
<1>1. /\ Fresh(s)
      /\ owner' = [owner EXCEPT ![s] = u]
      /\ newest' = [newest EXCEPT ![u] = s]
      /\ onlineUsers' = [onlineUsers EXCEPT ![u] = s]
      /\ notifyFriendsStatus(u, s, "online")
      /\ userConversations' = userConversations /\ rooms' = rooms
  BY DEF handleConnection
<1>2. TypeOK /\ EntriesAreNewest /\ ClosedIsForgotten /\ PresenceIsCurrent /\ RoomsAreRecorded
  BY DEF IInv
<1>3. owner[s] = NoUser /\ \A v \in Users : onlineUsers[v] # s /\ newest[v] # s
  BY <1>1 DEF Fresh, Open
<1>4. /\ owner' \in [Sockets -> Users \cup {NoUser}]
      /\ newest' \in [Users -> Sockets \cup {NoSocket}]
      /\ onlineUsers' \in [Users -> Sockets \cup {NoSocket}]
  BY <1>1, <1>2 DEF TypeOK
<1>5. /\ emitted' \in Emissions
      /\ view' \in [Sockets -> [Users -> {"unheard", "online", "offline"}]]
      /\ \A q \in Sockets : Registered(q)' =>
           /\ view'[q][u] = "online"
           /\ \A v \in Users : v # u => view'[q][v] = view[q][v]
      /\ \A q \in Sockets : (~Registered(q)' /\ owner'[q] = NoUser) => view'[q] = Unheard
  BY <1>1, <1>2, <1>4, Notified
<1>6. \A q \in Sockets : Open(q) => Open(q)'
  BY <1>1, <1>2, GatewayAssumption DEF Open, TypeOK
<1>7. TypeOK'
  <2>1. rooms' \in [Conversations -> SUBSET {q \in Sockets : Open(q)'}]
    <3>1. \A c \in Conversations : rooms[c] \subseteq {q \in Sockets : Open(q)'}
      BY <1>2, <1>6 DEF TypeOK
    <3> QED
      BY <3>1, <1>1, <1>2 DEF TypeOK
  <2> QED
    BY <2>1, <1>1, <1>2, <1>4, <1>5 DEF TypeOK
<1>8. EntriesAreNewest'
  <2> SUFFICES ASSUME NEW v \in Users
               PROVE  /\ onlineUsers'[v] # NoSocket =>
                           onlineUsers'[v] = newest'[v] /\ owner'[onlineUsers'[v]] = v
                      /\ (newest'[v] # NoSocket /\ owner'[newest'[v]] # NoUser) =>
                           onlineUsers'[v] = newest'[v]
    BY DEF EntriesAreNewest, Open
  <2>1. CASE v = u
    BY <2>1, <1>1, <1>2 DEF TypeOK
  <2>2. CASE v # u
    <3>1. onlineUsers'[v] = onlineUsers[v] /\ newest'[v] = newest[v]
      BY <2>2, <1>1, <1>2 DEF TypeOK
    <3>2. \A q \in Sockets : q # s => owner'[q] = owner[q]
      BY <1>1, <1>2 DEF TypeOK
    <3>3. /\ onlineUsers[v] \in Sockets \cup {NoSocket}
          /\ newest[v] \in Sockets \cup {NoSocket}
      BY <1>2 DEF TypeOK
    <3> QED
      BY <3>1, <3>2, <3>3, <1>2, <1>3 DEF EntriesAreNewest, Open
  <2> QED
    BY <2>1, <2>2
<1>9. PresenceIsCurrent'
  <2> SUFFICES ASSUME NEW q \in Sockets, NEW v \in Users,
                      Registered(q)', view'[q][v] # "unheard"
               PROVE  (view'[q][v] = "online") = (onlineUsers'[v] # NoSocket)
    BY DEF PresenceIsCurrent
  <2>1. CASE v = u
    BY <2>1, <1>1, <1>2, <1>5, GatewayAssumption DEF TypeOK
  <2>2. CASE v # u
    <3>1. view'[q][v] = view[q][v] /\ onlineUsers'[v] = onlineUsers[v]
      BY <2>2, <1>1, <1>2, <1>5 DEF TypeOK
    <3>2. CASE Registered(q)
      BY <3>1, <3>2, <1>2 DEF PresenceIsCurrent
    <3>3. CASE ~Registered(q)
      <4>1. q = s
        BY <3>3, <1>1, <1>2 DEF Registered, TypeOK
      <4>2. view[q][v] = "unheard"
        BY <4>1, <1>2, <1>3 DEF ClosedIsForgotten, Open, Unheard
      <4> QED
        BY <4>2, <3>1
    <3> QED
      BY <3>2, <3>3
  <2> QED
    BY <2>1, <2>2
<1>10. RoomsAreRecorded'
  <2> SUFFICES ASSUME NEW v \in Users, NEW c \in Conversations, onlineUsers'[v] \in rooms[c]
               PROVE  c \in userConversations[v]
    BY <1>1 DEF RoomsAreRecorded
  <2>1. s \notin rooms[c]
    BY <1>2, <1>3 DEF TypeOK, Open
  <2>2. onlineUsers'[v] = onlineUsers[v]
    BY <2>1, <1>1, <1>2 DEF TypeOK
  <2> QED
    BY <2>2, <1>2 DEF RoomsAreRecorded
<1>11. ClosedIsForgotten'
  <2> SUFFICES ASSUME NEW q \in Sockets, owner'[q] = NoUser
               PROVE  view'[q] = Unheard
    BY DEF ClosedIsForgotten, Open, Unheard
  <2>1. ~Registered(q)'
    <3>1. \A v \in Users : onlineUsers'[v] = q => owner'[q] = v
      BY <1>8, GatewayAssumption DEF EntriesAreNewest
    <3> QED
      BY <3>1, GatewayAssumption DEF Registered
  <2> QED
    BY <2>1, <1>5
<1> QED
  BY <1>7, <1>8, <1>9, <1>10, <1>11 DEF IInv

\* The entry of a socket that closes goes with it, and only that one; who is still
\* registered hears of it.
LEMMA DisconnectStep ==
  ASSUME IInv, NEW s \in Sockets, handleDisconnect(s)
  PROVE  IInv'
<1> DEFINE u == getUserIdBySocket(s)
<1>1. /\ Open(s)
      /\ owner' = [owner EXCEPT ![s] = NoUser]
      /\ rooms' = [c \in Conversations |-> rooms[c] \ {s}]
      /\ userConversations' = userConversations /\ newest' = newest
  BY DEF handleDisconnect
<1>2. TypeOK /\ EntriesAreNewest /\ ClosedIsForgotten /\ PresenceIsCurrent /\ RoomsAreRecorded
  BY DEF IInv
<1>3. /\ owner' \in [Sockets -> Users \cup {NoUser}]
      /\ owner'[s] = NoUser
      /\ \A q \in Sockets : q # s => owner'[q] = owner[q]
  BY <1>1, <1>2 DEF TypeOK
\* In both cases the entry of s, if there is one, is the only one to change.
<1>4. /\ onlineUsers' \in [Users -> Sockets \cup {NoSocket}]
      /\ \A v \in Users : onlineUsers'[v] = IF onlineUsers[v] = s THEN NoSocket ELSE onlineUsers[v]
  <2>1. CASE Registered(s)
    <3>1. u \in Users /\ onlineUsers[u] = s
      BY <2>1, <1>2, TheUser
    <3>2. \A v \in Users : onlineUsers[v] = s => v = u
      BY <3>1, <1>2, GatewayAssumption DEF EntriesAreNewest
    <3>3. onlineUsers' = [onlineUsers EXCEPT ![u] = NoSocket]
      BY <2>1 DEF handleDisconnect
    <3> QED
      BY <3>1, <3>2, <3>3, <1>2 DEF TypeOK
  <2>2. CASE ~Registered(s)
    <3>1. onlineUsers' = onlineUsers
      BY <2>2 DEF handleDisconnect
    <3>2. \A v \in Users : onlineUsers[v] # s
      BY <2>2 DEF Registered
    <3> QED
      BY <3>1, <3>2, <1>2 DEF TypeOK
  <2> QED
    BY <2>1, <2>2
<1>5. EntriesAreNewest'
  <2> SUFFICES ASSUME NEW v \in Users
               PROVE  /\ onlineUsers'[v] # NoSocket =>
                           onlineUsers'[v] = newest[v] /\ owner'[onlineUsers'[v]] = v
                      /\ (newest[v] # NoSocket /\ owner'[newest[v]] # NoUser) =>
                           onlineUsers'[v] = newest[v]
    BY <1>1 DEF EntriesAreNewest, Open
  <2>1. /\ onlineUsers[v] \in Sockets \cup {NoSocket}
        /\ newest[v] \in Sockets \cup {NoSocket}
    BY <1>2 DEF TypeOK
  <2>2. /\ onlineUsers[v] # NoSocket => onlineUsers[v] = newest[v] /\ owner[onlineUsers[v]] = v
        /\ (newest[v] # NoSocket /\ owner[newest[v]] # NoUser) => onlineUsers[v] = newest[v]
    BY <1>2 DEF EntriesAreNewest, Open
  <2> QED
    BY <2>1, <2>2, <1>3, <1>4
<1>6. \A q \in Sockets : Registered(q)' => Registered(q) /\ q # s
  BY <1>4, GatewayAssumption DEF Registered
\* Nobody who stays registered hears anything but the truth about v.
<1>7. /\ view' \in [Sockets -> [Users -> {"unheard", "online", "offline"}]]
      /\ emitted' \in Emissions \cup {Nothing}
      /\ \A q \in Sockets : owner'[q] = NoUser => view'[q] = Unheard
      /\ \A q \in Sockets, v \in Users : (Registered(q)' /\ onlineUsers'[v] = onlineUsers[v]) =>
            view'[q][v] = view[q][v]
      /\ \A q \in Sockets, v \in Users : (Registered(q)' /\ onlineUsers'[v] # onlineUsers[v]) =>
            view'[q][v] = "offline"
  <2>1. CASE Registered(s)
    <3>1. u \in Users /\ onlineUsers[u] = s /\ owner[s] = u
      BY <2>1, <1>2, TheUser
    <3>2. notifyFriendsStatus(u, s, "offline")
      BY <2>1 DEF handleDisconnect
    <3>3. /\ emitted' \in Emissions
          /\ view' \in [Sockets -> [Users -> {"unheard", "online", "offline"}]]
          /\ \A q \in Sockets : Registered(q)' =>
               /\ view'[q][u] = "offline"
               /\ \A v \in Users : v # u => view'[q][v] = view[q][v]
          /\ \A q \in Sockets : (~Registered(q)' /\ owner'[q] = NoUser) => view'[q] = Unheard
      BY <3>1, <3>2, <1>2, <1>4, Notified
    <3>4. \A v \in Users : onlineUsers'[v] # onlineUsers[v] <=> v = u
      BY <3>1, <1>2, <1>4, GatewayAssumption DEF EntriesAreNewest
    <3>5. \A q \in Sockets : owner'[q] = NoUser => ~Registered(q)'
      BY <1>5, GatewayAssumption DEF EntriesAreNewest, Registered
    <3> QED
      BY <3>1, <3>3, <3>4, <3>5
  <2>2. CASE ~Registered(s)
    <3>1. view' = [view EXCEPT ![s] = Unheard] /\ onlineUsers' = onlineUsers /\ emitted' = emitted
      BY <2>2 DEF handleDisconnect, Forgotten
    <3>2. Unheard \in [Users -> {"unheard", "online", "offline"}]
      BY DEF Unheard
    <3>3. \A q \in Sockets : q # s => view'[q] = view[q]
      BY <3>1, <1>2 DEF TypeOK
    <3>4. view'[s] = Unheard
      BY <3>1, <1>2 DEF TypeOK
    <3>5. \A q \in Sockets : owner'[q] = NoUser => view'[q] = Unheard
      BY <3>3, <3>4, <1>2, <1>3 DEF ClosedIsForgotten, Open
    <3> QED
      BY <3>1, <3>2, <3>3, <3>5, <1>2, <1>6 DEF TypeOK
  <2> QED
    BY <2>1, <2>2
<1>8. TypeOK'
  <2>1. rooms' \in [Conversations -> SUBSET {q \in Sockets : Open(q)'}]
    <3>1. \A c \in Conversations : rooms[c] \ {s} \subseteq {q \in Sockets : Open(q)'}
      BY <1>2, <1>3 DEF TypeOK, Open
    <3> QED
      BY <3>1, <1>1
  <2> QED
    BY <2>1, <1>1, <1>2, <1>3, <1>4, <1>7 DEF TypeOK
<1>9. ClosedIsForgotten'
  BY <1>7 DEF ClosedIsForgotten, Open, Unheard
<1>10. PresenceIsCurrent'
  <2> SUFFICES ASSUME NEW q \in Sockets, NEW v \in Users,
                      Registered(q)', view'[q][v] # "unheard"
               PROVE  (view'[q][v] = "online") = (onlineUsers'[v] # NoSocket)
    BY DEF PresenceIsCurrent
  <2>1. CASE onlineUsers'[v] = onlineUsers[v]
    BY <2>1, <1>2, <1>6, <1>7 DEF PresenceIsCurrent
  <2>2. CASE onlineUsers'[v] # onlineUsers[v]
    BY <2>2, <1>4, <1>7
  <2> QED
    BY <2>1, <2>2
<1>11. RoomsAreRecorded'
  <2> SUFFICES ASSUME NEW v \in Users, NEW c \in Conversations, onlineUsers'[v] \in rooms[c] \ {s}
               PROVE  c \in userConversations[v]
    BY <1>1 DEF RoomsAreRecorded
  <2>1. rooms[c] \subseteq Sockets
    BY <1>2 DEF TypeOK
  <2>2. onlineUsers'[v] = onlineUsers[v]
    BY <2>1, <1>4, GatewayAssumption
  <2> QED
    BY <2>2, <1>2 DEF RoomsAreRecorded
<1> QED
  BY <1>5, <1>8, <1>9, <1>10, <1>11 DEF IInv

LEMMA StepHolds == IInv /\ [Next]_vars => IInv'
<1> SUFFICES ASSUME IInv, [Next]_vars PROVE IInv'
  OBVIOUS
<1>1. CASE Connections
  BY <1>1, ConnectStep, DisconnectStep DEF Connections
<1>2. CASE Messages
  <2>1. PICK s \in Sockets :
          \/ handleGetOnlineUsers(s)
          \/ \E c \in Conversations :
               \/ handleJoinConversation(s, c) \/ handleLeaveConversation(s, c)
               \/ \E claimed \in Users : handleSendMessage(s, c, claimed)
               \/ handleTypingStart(s, c) \/ handleTypingStop(s, c)
               \/ handleMarkAsRead(s, c) \/ handleGetConversationMembers(s, c)
    BY <1>2 DEF Messages
  <2>2. Registered(s)
    BY <2>1 DEF handleGetOnlineUsers, handleJoinConversation, handleLeaveConversation,
       handleSendMessage, handleTypingStart, handleTypingStop, handleMarkAsRead,
       handleGetConversationMembers
  <2>3. PICK u \in Users : onlineUsers[u] = s
    BY <2>2 DEF Registered
  <2>4. CASE handleGetOnlineUsers(s)
    <3>1. emitted' \in Emissions /\ UNCHANGED gateway
      BY <2>4 DEF handleGetOnlineUsers, Emit, Emissions, Events, OnlineIds
    <3> QED
      BY <3>1, Spoken
  <2>5. CASE \E c \in Conversations : handleJoinConversation(s, c) \/ handleLeaveConversation(s, c)
    BY <2>5, RoomStep
  <2>6. CASE \E c \in Conversations :
               \/ \E claimed \in Users : handleSendMessage(s, c, claimed)
               \/ handleTypingStart(s, c) \/ handleTypingStop(s, c)
               \/ handleMarkAsRead(s, c) \/ handleGetConversationMembers(s, c)
    BY <2>6, <2>3, MessageStep
  <2> QED
    BY <2>1, <2>4, <2>5, <2>6
<1>3. CASE UNCHANGED vars
  <2>1. UNCHANGED gateway /\ emitted' = emitted
    BY <1>3 DEF vars, gateway
  <2>2. TypeOK'
    BY <2>1 DEF IInv, TypeOK, gateway, Open
  <2>3. (EntriesAreNewest /\ ClosedIsForgotten /\ PresenceIsCurrent /\ RoomsAreRecorded)'
    BY <2>1 DEF IInv, gateway, EntriesAreNewest, ClosedIsForgotten, PresenceIsCurrent,
       RoomsAreRecorded, Registered, Open
  <2> QED
    BY <2>2, <2>3 DEF IInv
<1> QED
  BY <1>1, <1>2, <1>3 DEF Next

------------------------------------------------------------------------------

\* The types, the entries and the views of ChatGateway form an inductive invariant.
THEOREM Invariance == Spec => []IInv
<1>1. Init => IInv
  BY InitHolds
<1>2. IInv /\ [Next]_vars => IInv'
  BY StepHolds
<1> QED
  BY <1>1, <1>2, PTL DEF Spec

\* Only open sockets are in rooms, and what is emitted goes to sockets.
THEOREM TypeCorrect == Spec => []TypeOK
<1>1. IInv => TypeOK
  BY DEF IInv
<1> QED
  BY <1>1, Invariance, PTL

\* A user is online exactly while the last socket opened is, whatever the sockets
\* opened before do (onlineUsers, handleDisconnect).
THEOREM OnlineFollowsNewest == Spec => []OnlineByNewest
<1>1. IInv => OnlineByNewest
  BY GatewayAssumption DEF IInv, TypeOK, EntriesAreNewest, OnlineByNewest, Open
<1> QED
  BY <1>1, Invariance, PTL

\* What a registered client last heard of anybody's presence is right
\* (notifyFriendsStatus).
THEOREM PresenceHolds == Spec => []PresenceIsCurrent
<1>1. IInv => PresenceIsCurrent
  BY DEF IInv
<1> QED
  BY <1>1, Invariance, PTL

\* The rooms of a registered socket are recorded for its user (userConversations).
THEOREM RoomsHold == Spec => []RoomsAreRecorded
<1>1. IInv => RoomsAreRecorded
  BY DEF IInv
<1> QED
  BY <1>1, Invariance, PTL

\* Nothing is said in anybody's name but by the last socket that user opened.
THEOREM SpeechIsOwned == Spec => SpeaksForItsUser
<1>1. IInv /\ [Next]_vars =>
        [(emitted' # emitted /\ emitted'.event \in {"message", "typing_status", "message_read"}) =>
          \E u \in Users : emitted'.about = {u} /\ owner[emitted'.from] = u
                             /\ newest[u] = emitted'.from]_vars
  <2> SUFFICES ASSUME IInv, Next, emitted' # emitted,
                      emitted'.event \in {"message", "typing_status", "message_read"}
               PROVE  \E u \in Users : emitted'.about = {u} /\ owner[emitted'.from] = u
                                          /\ newest[u] = emitted'.from
    OBVIOUS
  <2>1. ~Connections
    BY DEF Connections, handleConnection, handleDisconnect, notifyFriendsStatus, Emit
  <2>2. PICK s \in Sockets, c \in Conversations, claimed \in Users :
          \/ handleSendMessage(s, c, claimed)
          \/ handleTypingStart(s, c) \/ handleTypingStop(s, c)
          \/ handleMarkAsRead(s, c)
    <3>1. Users # {}
      BY <2>1 DEF Next, Messages, Registered, handleGetOnlineUsers, handleJoinConversation,
         handleLeaveConversation, handleTypingStart, handleTypingStop, handleMarkAsRead,
         handleGetConversationMembers
    <3>2. ASSUME NEW q \in Sockets, handleGetOnlineUsers(q) PROVE FALSE
      BY <3>2 DEF handleGetOnlineUsers, Emit
    <3>3. ASSUME NEW q \in Sockets, NEW d \in Conversations,
                 \/ handleJoinConversation(q, d) \/ handleLeaveConversation(q, d)
                 \/ handleGetConversationMembers(q, d)
          PROVE  FALSE
      BY <3>3 DEF handleJoinConversation, handleLeaveConversation,
         handleGetConversationMembers, Emit
    <3> QED
      BY <2>1, <3>1, <3>2, <3>3 DEF Next, Messages
  <2>3. Registered(s)
    BY <2>2 DEF handleSendMessage, handleTypingStart, handleTypingStop, handleMarkAsRead
  <2>4. emitted'.about = {getUserIdBySocket(s)} /\ emitted'.from = s
    BY <2>2 DEF handleSendMessage, handleTypingStart, handleTypingStop, handleMarkAsRead, Emit
  <2>5. /\ getUserIdBySocket(s) \in Users
        /\ owner[s] = getUserIdBySocket(s) /\ newest[getUserIdBySocket(s)] = s
    BY <2>3, TheUser DEF IInv
  <2> QED
    BY <2>4, <2>5
<1> QED
  BY <1>1, Invariance, PTL DEF Spec, SpeaksForItsUser

------------------------------------------------------------------------------
(* WebRTCService                                                           *)

\* The invariant is inductive as it is: an entry is written only together with
\* the row it names, and a row keeps its participants while it is there.
CallsInv == CallsTypeOK /\ CountedInOwnCall /\ CalleeCountedOnceAccepted

LEMMA CallsInitInv == CallsInit => CallsInv
<1> SUFFICES ASSUME CallsInit PROVE CallsInv
  OBVIOUS
<1>1. CallsTypeOK
  BY DEF CallsInit, CallsTypeOK, NoReply, Replies
<1>2. Active = {}
  BY DEF CallsInit, Active
<1> QED
  BY <1>1, <1>2 DEF CallsInv, CountedInOwnCall, CalleeCountedOnceAccepted

\* What is emitted is addressed to users or to the room.
LEMMA Addressees ==
  ASSUME NEW event \in CallEvents, NEW u \in Parties, NEW c \in CallIds
  PROVE  ToUser(event, u, c) \subseteq Emits /\ ToRoom(event, c) \subseteq Emits
BY DEF ToUser, ToRoom, Emits

\* A row of the map is a call between two users.
LEMMA RowOfActive ==
  ASSUME CallsTypeOK, NEW c \in Active
  PROVE  /\ c \in CallIds
         /\ activeCalls[c] \in ActiveCall
         /\ activeCalls[c].caller \in Parties /\ activeCalls[c].callee \in Parties
         /\ activeCalls[c].status \in {"calling", "accepted"}
         /\ Participants(c) \subseteq Parties
BY DEF CallsTypeOK, Active, ActiveCall, Participants

LEMMA CallsTypeStep == CallsTypeOK /\ [CallsNext]_callVars => CallsTypeOK'
<1> SUFFICES ASSUME CallsTypeOK, [CallsNext]_callVars PROVE CallsTypeOK'
  OBVIOUS
<1> USE CallsAssumption
<1>1. ASSUME NEW u \in Parties, NEW v \in Parties, RefuseInitiate(u, v) PROVE CallsTypeOK'
  BY <1>1 DEF CallsTypeOK, RefuseInitiate, Answered, Replies
<1>2. ASSUME NEW u \in Parties, NEW v \in Parties, NEW c \in CallIds, InitiateOffline(u, v, c)
      PROVE CallsTypeOK'
  <2>1. sent' \subseteq Emits
    BY <1>2, Addressees DEF InitiateOffline, CallEvents
  <2> QED
    BY <1>2, <2>1 DEF CallsTypeOK, InitiateOffline, Answered, Replies
<1>3. ASSUME NEW u \in Parties, NEW v \in Parties, NEW c \in CallIds, InitiateCall(u, v, c)
      PROVE CallsTypeOK'
  <2>1. sent' \subseteq Emits
    BY <1>3, Addressees DEF InitiateCall, CallEvents
  <2>2. activeCalls' \in [CallIds -> ActiveCall \cup {Absent}]
    BY <1>3 DEF CallsTypeOK, InitiateCall, ActiveCall
  <2> QED
    BY <1>3, <2>1, <2>2 DEF CallsTypeOK, InitiateCall, Answered, Replies
<1>4. ASSUME NEW u \in Parties, NEW c \in CallIds, AnswerCall(u, c) PROVE CallsTypeOK'
  <2>1. c \in Active /\ activeCalls[c].caller \in Parties
    BY <1>4, RowOfActive DEF AnswerCall
  <2>2. sent' \subseteq Emits
    BY <1>4, <2>1, Addressees DEF AnswerCall, CallEvents
  <2>3. [activeCalls[c] EXCEPT !.status = "accepted"] \in ActiveCall
    BY <2>1, RowOfActive DEF ActiveCall
  <2>4. activeCalls' \in [CallIds -> ActiveCall \cup {Absent}]
    BY <1>4, <2>3 DEF CallsTypeOK, AnswerCall
  <2> QED
    BY <1>4, <2>2, <2>4 DEF CallsTypeOK, AnswerCall, Answered, Replies
<1>5. ASSUME NEW u \in Parties, NEW c \in CallIds, DeclineCall(u, c) PROVE CallsTypeOK'
  <2>1. c \in Active /\ activeCalls[c].caller \in Parties
    BY <1>5, RowOfActive DEF DeclineCall
  <2>2. sent' \subseteq Emits
    BY <1>5, <2>1, Addressees DEF DeclineCall, CallEvents
  <2> QED
    BY <1>5, <2>2 DEF CallsTypeOK, DeclineCall, Remove, Unmark, Answered, Replies
<1>6. ASSUME NEW c \in CallIds, EndCall(c) PROVE CallsTypeOK'
  <2>1. c \in Active /\ Participants(c) \subseteq Parties
    BY <1>6, RowOfActive DEF EndCall
  <2>2. sent' \subseteq Emits
    BY <1>6, <2>1, Addressees DEF EndCall, CallEvents
  <2> QED
    BY <1>6, <2>2 DEF CallsTypeOK, EndCall, Remove, Unmark, Answered, Replies
<1>7. ASSUME NEW u \in Parties, NEW c \in CallIds, SendIceCandidate(u, c) PROVE CallsTypeOK'
  <2>1. c \in Active
    BY <1>7 DEF SendIceCandidate
  <2>2. PICK w \in Parties : sent' = ToUser("ice_candidate", w, c)
    BY <1>7, <2>1, RowOfActive DEF SendIceCandidate
  <2>3. sent' \subseteq Emits
    BY <2>2, Addressees DEF CallEvents
  <2> QED
    BY <1>7, <2>3 DEF CallsTypeOK, SendIceCandidate, Answered, Replies
<1>8. ASSUME NEW u \in Parties, GetUserCallStatus(u) PROVE CallsTypeOK'
  BY <1>8 DEF CallsTypeOK, GetUserCallStatus, Unmark, Answered, Replies
<1>9. CASE UNCHANGED callVars
  BY <1>9 DEF callVars, CallsTypeOK
<1> QED
  BY <1>1, <1>2, <1>3, <1>4, <1>5, <1>6, <1>7, <1>8, <1>9 DEF CallsNext

\* What one step does to one user's entry and to one call's row: the entry stays,
\* goes, or comes to name a call the user takes part in; the row stays, goes, is
\* accepted, or begins while nobody is counted in it.
LEMMA EntryStep ==
  ASSUME CallsTypeOK, CallsTypeOK', [CallsNext]_callVars, NEW u \in Parties
  PROVE  \/ userCallStatus'[u] = userCallStatus[u]
         \/ userCallStatus'[u] = NoCall
         \/ /\ userCallStatus'[u] \in Active'
            /\ \/ u = activeCalls'[userCallStatus'[u]].caller
               \/ /\ u = activeCalls'[userCallStatus'[u]].callee
                  /\ activeCalls'[userCallStatus'[u]].status = "accepted"
<1> USE CallsAssumption
<1>1. ASSUME NEW x \in Parties, NEW v \in Parties, NEW c \in CallIds, InitiateCall(x, v, c)
      PROVE  \/ userCallStatus'[u] = userCallStatus[u]
             \/ userCallStatus'[u] = c /\ c \in Active' /\ u = activeCalls'[c].caller
  <2>1. activeCalls'[c] = [caller |-> x, callee |-> v, status |-> "calling"]
    BY <1>1 DEF InitiateCall, CallsTypeOK
  <2>2. c \in Active'
    BY <2>1 DEF Active, Absent
  <2> QED
    BY <1>1, <2>1, <2>2 DEF InitiateCall, CallsTypeOK
<1>2. ASSUME NEW x \in Parties, NEW c \in CallIds, AnswerCall(x, c)
      PROVE  \/ userCallStatus'[u] = userCallStatus[u]
             \/ /\ userCallStatus'[u] = c /\ c \in Active'
                /\ u = activeCalls'[c].callee /\ activeCalls'[c].status = "accepted"
  <2>1. activeCalls[c] \in ActiveCall
    BY <1>2, RowOfActive DEF AnswerCall
  <2>2. activeCalls'[c] = [activeCalls[c] EXCEPT !.status = "accepted"]
    BY <1>2 DEF AnswerCall, CallsTypeOK
  <2>3. c \in Active' /\ activeCalls'[c].status = "accepted" /\ activeCalls'[c].callee = x
    BY <1>2, <2>1, <2>2 DEF AnswerCall, Active, Absent, ActiveCall
  <2> QED
    BY <1>2, <2>3 DEF AnswerCall, CallsTypeOK
<1>3. ASSUME NEW x \in Parties, NEW c \in CallIds, DeclineCall(x, c)
      PROVE  userCallStatus'[u] \in {userCallStatus[u], NoCall}
  BY <1>3 DEF DeclineCall, Unmark
<1>4. ASSUME NEW c \in CallIds, EndCall(c)
      PROVE  userCallStatus'[u] \in {userCallStatus[u], NoCall}
  BY <1>4 DEF EndCall, Unmark
<1>5. ASSUME NEW x \in Parties, GetUserCallStatus(x)
      PROVE  userCallStatus'[u] \in {userCallStatus[u], NoCall}
  BY <1>5 DEF GetUserCallStatus, Unmark
<1>6. \/ userCallStatus' = userCallStatus
      \/ \E x, v \in Parties, c \in CallIds : InitiateCall(x, v, c)
      \/ \E x \in Parties, c \in CallIds : AnswerCall(x, c) \/ DeclineCall(x, c)
      \/ \E c \in CallIds : EndCall(c)
      \/ \E x \in Parties : GetUserCallStatus(x)
  BY DEF CallsNext, callVars, RefuseInitiate, InitiateOffline, SendIceCandidate
<1> QED
  BY <1>1, <1>2, <1>3, <1>4, <1>5, <1>6

LEMMA RowStep ==
  ASSUME CallsTypeOK, CallsTypeOK', [CallsNext]_callVars, NEW c \in Active'
  PROVE  \/ /\ c \in Active
            /\ activeCalls'[c].caller = activeCalls[c].caller
            /\ activeCalls'[c].callee = activeCalls[c].callee
            /\ activeCalls'[c].status \in {activeCalls[c].status, "accepted"}
         \/ c \notin Active /\ \A u \in Parties : userCallStatus[u] # c
<1> USE CallsAssumption
<1>0. c \in CallIds
  BY DEF Active
<1>1. ASSUME NEW x \in Parties, NEW v \in Parties, NEW d \in CallIds, InitiateCall(x, v, d)
      PROVE  activeCalls'[c] = activeCalls[c] \/ (c = d /\ d \in FreshCall)
  BY <1>0, <1>1 DEF InitiateCall, CallsTypeOK
<1>2. ASSUME NEW x \in Parties, NEW d \in CallIds, AnswerCall(x, d)
      PROVE  \/ activeCalls'[c] = activeCalls[c]
             \/ /\ c = d /\ c \in Active
                /\ activeCalls'[c].caller = activeCalls[c].caller
                /\ activeCalls'[c].callee = activeCalls[c].callee
                /\ activeCalls'[c].status = "accepted"
  <2>1. d \in Active /\ activeCalls[d] \in ActiveCall
    BY <1>2, RowOfActive DEF AnswerCall
  <2>2. activeCalls' = [activeCalls EXCEPT ![d] = [activeCalls[d] EXCEPT !.status = "accepted"]]
    BY <1>2 DEF AnswerCall
  <2>3. activeCalls'[c] = activeCalls[c] \/
        (c = d /\ activeCalls'[c] = [activeCalls[c] EXCEPT !.status = "accepted"])
    BY <1>0, <2>2 DEF CallsTypeOK
  <2> QED
    BY <2>1, <2>3 DEF ActiveCall
<1>3. ASSUME NEW d \in CallIds, Remove(d) PROVE activeCalls'[c] = activeCalls[c]
  BY <1>0, <1>3 DEF Remove, CallsTypeOK, Active
<1>4. \/ activeCalls' = activeCalls
      \/ \E x, v \in Parties, d \in CallIds : InitiateCall(x, v, d)
      \/ \E x \in Parties, d \in CallIds : AnswerCall(x, d)
      \/ \E d \in CallIds : Remove(d)
  BY DEF CallsNext, callVars, RefuseInitiate, InitiateOffline, SendIceCandidate, GetUserCallStatus,
         DeclineCall, EndCall
<1>5. (activeCalls'[c] = activeCalls[c]) => c \in Active
  BY <1>0 DEF Active
<1> QED
  BY <1>1, <1>2, <1>3, <1>4, <1>5 DEF FreshCall

LEMMA ParticipantStep == CallsInv /\ CallsTypeOK' /\ [CallsNext]_callVars => CountedInOwnCall'
<1> SUFFICES ASSUME CallsInv, CallsTypeOK', [CallsNext]_callVars, NEW u \in Parties,
                    userCallStatus'[u] \in Active'
             PROVE  u \in Participants(userCallStatus[u])'
  BY DEF CountedInOwnCall
<1> USE CallsAssumption
<1> DEFINE c == userCallStatus'[u]
<1>1. c # NoCall /\ c \in CallIds
  BY DEF Active
<1>2. CASE c = userCallStatus[u]
  <2>1. c \in Active /\ activeCalls'[c].caller = activeCalls[c].caller
                     /\ activeCalls'[c].callee = activeCalls[c].callee
    BY <1>2, RowStep DEF CallsInv
  <2> QED
    BY <1>2, <2>1 DEF CallsInv, CountedInOwnCall, Participants
<1>3. CASE u \in {activeCalls'[c].caller, activeCalls'[c].callee}
  BY <1>3 DEF Participants
<1> QED
  BY <1>1, <1>2, <1>3, EntryStep DEF CallsInv

LEMMA CalleeStep == CallsInv /\ CallsTypeOK' /\ [CallsNext]_callVars => CalleeCountedOnceAccepted'
<1> SUFFICES ASSUME CallsInv, CallsTypeOK', [CallsNext]_callVars, NEW c \in Active', NEW u \in Parties,
                    userCallStatus'[u] = c, u # activeCalls'[c].caller
             PROVE  activeCalls'[c].status = "accepted"
  BY DEF CalleeCountedOnceAccepted
<1> USE CallsAssumption
<1>1. c # NoCall
  BY DEF Active
<1>2. CASE userCallStatus[u] = c
  <2>1. /\ c \in Active
        /\ activeCalls'[c].caller = activeCalls[c].caller
        /\ activeCalls'[c].status \in {activeCalls[c].status, "accepted"}
    BY <1>2, RowStep DEF CallsInv
  <2> QED
    BY <1>2, <2>1 DEF CallsInv, CalleeCountedOnceAccepted
<1> QED
  BY <1>1, <1>2, EntryStep DEF CallsInv

\* Every reachable state of Calls satisfies CallsInv.
THEOREM CallsInvariance == CallsSpec => []CallsInv
<1>1. CallsInv /\ [CallsNext]_callVars => CallsInv'
  BY CallsTypeStep, ParticipantStep, CalleeStep DEF CallsInv
<1> QED
  BY CallsInitInv, <1>1, PTL DEF CallsSpec

\* Type correctness of the two maps of WebRTCService: between two methods a
\* call in activeCalls is ringing or accepted.
THEOREM CallsTypeCorrect == CallsSpec => []CallsTypeOK
BY CallsInvariance, PTL DEF CallsInv

\* An entry of userCallStatus that names a call in activeCalls belongs to its
\* caller or its callee, whatever answers, declines and ends came in between.
THEOREM EntriesAreParticipants == CallsSpec => []CountedInOwnCall
BY CallsInvariance, PTL DEF CallsInv

\* Ringing does not occupy the callee: a callee counted in a call has answered.
THEOREM RingingIsNotCounted == CallsSpec => []CalleeCountedOnceAccepted
BY CallsInvariance, PTL DEF CallsInv

LEMMA StrandStep ==
  ASSUME CallsInv, [CallsNext]_callVars, NEW c \in Active, NEW u \in Parties,
         c \notin Active', userCallStatus'[u] = c
  PROVE  /\ reply'.method = "decline"
         /\ u = activeCalls[c].callee /\ activeCalls[c].status = "accepted"
<1> USE CallsAssumption
<1>1. c \in CallIds /\ activeCalls[c] # Absent /\ activeCalls'[c] = Absent /\ c # NoCall
  BY DEF Active
<1>2. activeCalls[c] \in ActiveCall
  BY <1>1 DEF CallsInv, CallsTypeOK
<1>3. ASSUME NEW x \in Parties, NEW v \in Parties, NEW d \in CallIds, InitiateCall(x, v, d)
      PROVE  FALSE
  <2>1. d # c
    BY <1>3 DEF InitiateCall, FreshCall
  <2> QED
    BY <1>1, <1>3, <2>1 DEF InitiateCall, CallsInv, CallsTypeOK
<1>4. ASSUME NEW x \in Parties, NEW d \in CallIds, AnswerCall(x, d) PROVE FALSE
  <2>1. activeCalls'[d] = [activeCalls[d] EXCEPT !.status = "accepted"]
    BY <1>4 DEF AnswerCall, CallsInv, CallsTypeOK
  <2>2. c # d => activeCalls'[c] = activeCalls[c]
    BY <1>1, <1>4 DEF AnswerCall, CallsInv, CallsTypeOK
  <2>3. c = d => activeCalls'[c].status = "accepted"
    BY <1>2, <2>1 DEF ActiveCall
  <2> QED
    BY <1>1, <2>2, <2>3 DEF Absent
<1>5. ASSUME NEW d \in CallIds, Remove(d) PROVE d = c
  BY <1>1, <1>5 DEF Remove, CallsInv, CallsTypeOK
<1>6. ASSUME NEW d \in CallIds, EndCall(d) PROVE FALSE
  <2>1. d = c
    BY <1>5, <1>6 DEF EndCall
  <2>2. userCallStatus[u] = c /\ u \notin Participants(c)
    BY <1>1, <1>6, <2>1 DEF EndCall, Unmark
  <2> QED
    BY <2>2 DEF CallsInv, CountedInOwnCall
<1>7. ASSUME NEW x \in Parties, NEW d \in CallIds, DeclineCall(x, d)
      PROVE  /\ reply'.method = "decline"
             /\ u = activeCalls[c].callee /\ activeCalls[c].status = "accepted"
  <2>1. d = c
    BY <1>5, <1>7 DEF DeclineCall
  <2>2. userCallStatus[u] = c /\ u # activeCalls[c].caller
    BY <1>1, <1>7, <2>1 DEF DeclineCall, Unmark
  <2>3. u \in Participants(c) /\ activeCalls[c].status = "accepted"
    BY <2>2 DEF CallsInv, CountedInOwnCall, CalleeCountedOnceAccepted
  <2> QED
    BY <1>7, <2>2, <2>3 DEF DeclineCall, Answered, Participants
<1>8. \/ \E x, v \in Parties, d \in CallIds : InitiateCall(x, v, d)
      \/ \E x \in Parties, d \in CallIds : AnswerCall(x, d) \/ DeclineCall(x, d)
      \/ \E d \in CallIds : EndCall(d)
  BY <1>1 DEF CallsNext, callVars, RefuseInitiate, InitiateOffline, SendIceCandidate, GetUserCallStatus
<1> QED
  BY <1>3, <1>4, <1>6, <1>7, <1>8

\* Only declineCall, called by a callee who had answered, leaves a user counted
\* in a call that is gone (declineCall deletes the caller's entry alone).
THEOREM Stranding == CallsSpec => OnlyLateDeclineStrands
<1>1. CallsInv /\ [CallsNext]_callVars =>
        [\A c \in Active, u \in Parties :
           (c \notin Active' /\ userCallStatus'[u] = c) =>
              /\ reply'.method = "decline"
              /\ u = activeCalls[c].callee /\ activeCalls[c].status = "accepted"]_callVars
  BY StrandStep
<1> QED
  BY CallsInvariance, <1>1, PTL DEF CallsSpec, OnlyLateDeclineStrands
==============================================================================
