--------------------------- MODULE MessagesProofs ---------------------------
(***************************************************************************)
(* Proofs about Messages, for any users, conversations, messages, slots    *)
(* and any bound on the clock.                                             *)
(***************************************************************************)
EXTENDS Messages, TLAPS

------------------------------------------------------------------------------
(* Types.                                                                  *)

\* What a handler in flight is.
LEMMA InFlight ==
  ASSUME TypeOK, NEW s \in Slots, call[s].at \in Steps
  PROVE  call[s] \in Handlers /\ call[s].me \in Users
BY DEF TypeOK, Steps, SendSteps, MarkSteps, Idle, Handlers

LEMMA BeginTypes ==
  ASSUME TypeOK, NEW s \in Slots, NEW st \in Steps, NEW u \in Users,
         NEW c \in Conversations \cup {NoConversation}, NEW m \in SomeMessage,
         Begin(s, st, u, c, m), rushed' \in BOOLEAN
  PROVE  TypeOK'
<1> DEFINE h == [Idle EXCEPT !.at = st, !.me = u, !.to = c, !.on = m]
<1>1. h \in Handlers
  BY DEF Idle, Handlers, SomeMessage
<1>2. call' \in [Slots -> {Idle} \cup Handlers]
  BY <1>1 DEF Begin, TypeOK
<1> QED BY <1>2 DEF Begin, TypeOK, tables

LEMMA EndTypes ==
  ASSUME TypeOK, NEW s \in Slots, End(s)
  PROVE  call' \in [Slots -> {Idle} \cup Handlers]
BY DEF TypeOK, End

LEMMA AwaitTypes ==
  ASSUME TypeOK, NEW s \in Slots, call[s].at \in Steps, NEW st \in Steps, Await(s, st)
  PROVE  call' \in [Slots -> {Idle} \cup Handlers]
<1>1. call[s] \in Handlers
  BY InFlight
<1>2. [call[s] EXCEPT !.at = st] \in Handlers
  BY <1>1 DEF Handlers
<1>3. call' = [call EXCEPT ![s] = [call[s] EXCEPT !.at = st]]
  BY DEF Await
<1> QED BY <1>2, <1>3 DEF TypeOK

LEMMA ReadTypes ==
  ASSUME TypeOK, NEW c, NEW u, Read(c, u), call' \in [Slots -> {Idle} \cup Handlers],
         rushed' \in BOOLEAN
  PROVE  TypeOK'
<1>1. lastRead' \in [Pairs -> 0..MaxTime]
  <2>1. now \in 0..MaxTime
    BY MessagesAssumption DEF TypeOK
  <2> QED BY <2>1 DEF Read, TypeOK
<1>2. marked' \subseteq Messages \X Users
  <2>1. CASE <<c, u>> \in members
    <3>1. u \in Users
      BY <2>1 DEF TypeOK
    <3> QED BY <2>1, <3>1 DEF Read, TypeOK, In
  <2>2. CASE <<c, u>> \notin members
    BY <2>2 DEF Read, TypeOK
  <2> QED BY <2>1, <2>2
<1> QED BY <1>1, <1>2 DEF Read, TypeOK

LEMMA InitTypes == Init => TypeOK
<1> SUFFICES ASSUME Init PROVE TypeOK
  OBVIOUS
<1>1. MaxTime \in Nat /\ 1 \in 1..MaxTime /\ 0 \in 0..MaxTime
  BY MessagesAssumption
<1> QED BY <1>1 DEF Init, TypeOK, Pairs, Blank, States

LEMMA RequestTypes ==
  ASSUME TypeOK, NEW s \in Slots, Request(s)
  PROVE  TypeOK'
<1>1. NoMessage \in SomeMessage /\ Messages \subseteq SomeMessage
  BY DEF SomeMessage
<1>2. {"send_check", "detail_check", "offline_mark", "delete_find", "mark_find"} \subseteq Steps
  BY DEF Steps, SendSteps, MarkSteps
<1>3. ASSUME NEW u \in Users, NEW c \in Conversations, SendMessage(s, u, c)
      PROVE  TypeOK'
  <2>1. rushed' \in BOOLEAN
    BY <1>3 DEF SendMessage, TypeOK
  <2> QED BY <1>1, <1>2, <1>3, <2>1, BeginTypes DEF SendMessage
<1>4. ASSUME NEW u \in Users, NEW c \in Conversations \cup {NoConversation}, NEW m \in SomeMessage,
             NEW st \in Steps, Begin(s, st, u, c, m), UNCHANGED rushed
      PROVE  TypeOK'
  <2>1. rushed' \in BOOLEAN
    BY <1>4 DEF TypeOK
  <2> QED BY <1>4, <2>1, BeginTypes
<1> QED
  BY <1>1, <1>2, <1>3, <1>4
     DEF Request, GetConversationDetail, MarkOfflineMessagesAsRead, DeleteMessage, MarkAsRead

LEMMA InsertTypes ==
  ASSUME TypeOK, NEW s \in Slots, SendInsert(s)
  PROVE  TypeOK'
<1>1. call[s] \in Handlers /\ call[s].me \in Users
  BY InFlight DEF SendInsert, At, Steps, SendSteps
<1>2. CASE call[s].to \in conversations
  <2>1. PICK m \in Messages :
          /\ message' = [message EXCEPT ![m] =
               [state |-> "live", to |-> call[s].to, sender |-> call[s].me, born |-> now]]
          /\ call' = [call EXCEPT ![s].at = "send_read", ![s].wrote = m, ![s].ousted = FALSE]
    BY <1>2 DEF SendInsert
  <2>2. now \in 0..MaxTime
    BY MessagesAssumption DEF TypeOK
  <2>3. message' \in [Messages -> [state : States, to : Conversations \cup {NoConversation},
                                   sender : Users \cup {NoUser}, born : 0..MaxTime]]
    BY <1>1, <1>2, <2>1, <2>2 DEF TypeOK, States
  <2>4. [call[s] EXCEPT !.at = "send_read", !.wrote = m, !.ousted = FALSE] \in Handlers
    BY <1>1 DEF Handlers, Steps, SendSteps, SomeMessage
  <2>5. call' = [call EXCEPT ![s] = [call[s] EXCEPT !.at = "send_read", !.wrote = m, !.ousted = FALSE]]
    BY <2>1
  <2>6. call' \in [Slots -> {Idle} \cup Handlers]
    BY <2>4, <2>5 DEF TypeOK
  <2> QED BY <2>3, <2>6 DEF SendInsert, TypeOK
<1>3. CASE call[s].to \notin conversations
  BY <1>3, EndTypes DEF SendInsert, TypeOK
<1> QED BY <1>2, <1>3

LEMMA ReadBackTypes ==
  ASSUME TypeOK, NEW s \in Slots, SendReadBack(s)
  PROVE  TypeOK'
<1>1. call[s] \in Handlers /\ call[s].at \in Steps /\ "send_touch" \in Steps
  BY InFlight DEF SendReadBack, At, Steps, SendSteps
<1>2. ASSUME NEW m \in Messages, call' = [call EXCEPT ![s].at = "send_touch", ![s].row = m]
      PROVE  call' \in [Slots -> {Idle} \cup Handlers]
  <2>1. [call[s] EXCEPT !.at = "send_touch", !.row = m] \in Handlers
    BY <1>1 DEF Handlers, SomeMessage
  <2>2. call' = [call EXCEPT ![s] = [call[s] EXCEPT !.at = "send_touch", !.row = m]]
    BY <1>2
  <2> QED BY <2>1, <2>2 DEF TypeOK
<1>3. Latest(call[s].to, call[s].me) \subseteq Messages
  BY DEF Latest, In
<1>4. call' \in [Slots -> {Idle} \cup Handlers]
  BY <1>1, <1>2, <1>3, AwaitTypes, EndTypes DEF SendReadBack
<1> QED BY <1>4 DEF SendReadBack, TypeOK, tables

LEMMA StatementTypes ==
  ASSUME TypeOK, NEW s \in Slots, Statement(s)
  PROVE  TypeOK'
<1>1. call[s].at \in Steps
  BY DEF Statement, SendCheck, SendInsert, SendReadBack, SendTouch, SendEmit, DeleteFind, DeleteUpdate,
         MarkFind, MarkUpdate, DetailCheck, UpdateLastReadAt, DetailRead, OfflineMark, At,
         Steps, SendSteps, MarkSteps
<1>2. End(s) => call' \in [Slots -> {Idle} \cup Handlers]
  BY EndTypes
<1>3. \A st \in Steps : Await(s, st) => call' \in [Slots -> {Idle} \cup Handlers]
  BY <1>1, AwaitTypes
<1>4. {"send_insert", "send_sender", "delete_update", "mark_update", "detail_mark", "detail_read"} \subseteq Steps
  BY DEF Steps, SendSteps, MarkSteps
<1>5. CASE SendInsert(s)
  BY <1>5, InsertTypes
<1>6. CASE SendReadBack(s)
  BY <1>6, ReadBackTypes
<1>7. ASSUME SendCheck(s) \/ SendTouch(s) \/ SendEmit(s) \/ DeleteFind(s) \/ MarkFind(s) \/ DetailCheck(s)
               \/ DetailRead(s)
      PROVE  TypeOK'
  <2>1. call' \in [Slots -> {Idle} \cup Handlers]
    BY <1>2, <1>3, <1>4, <1>7 DEF SendCheck, SendTouch, SendEmit, DeleteFind, MarkFind, DetailCheck, DetailRead
  <2>2. UNCHANGED <<tables, marked, rushed>>
    BY <1>7 DEF SendCheck, SendTouch, SendEmit, DeleteFind, MarkFind, DetailCheck, DetailRead
  <2> QED BY <2>1, <2>2 DEF TypeOK, tables
<1>8. CASE DeleteUpdate(s)
  <2>1. message' \in [Messages -> [state : States, to : Conversations \cup {NoConversation},
                                   sender : Users \cup {NoUser}, born : 0..MaxTime]]
    <3> DEFINE m == call[s].on
    <3>1. CASE m \in Messages /\ message[m].state = "live"
      <4>1. [message[m] EXCEPT !.state = "deleted"] \in
              [state : States, to : Conversations \cup {NoConversation}, sender : Users \cup {NoUser}, born : 0..MaxTime]
        BY <3>1 DEF TypeOK, States
      <4>2. message' = [message EXCEPT ![m] = [message[m] EXCEPT !.state = "deleted"]]
        BY <1>8, <3>1 DEF DeleteUpdate
      <4> QED BY <4>1, <4>2 DEF TypeOK
    <3>2. CASE ~(m \in Messages /\ message[m].state = "live")
      BY <1>8, <3>2 DEF DeleteUpdate, TypeOK
    <3> QED BY <3>1, <3>2
  <2> QED BY <1>2, <1>8, <2>1 DEF DeleteUpdate, TypeOK
<1>9. CASE MarkUpdate(s)
  <2>1. call' \in [Slots -> {Idle} \cup Handlers] /\ rushed' \in BOOLEAN
    BY <1>2, <1>9 DEF MarkUpdate, TypeOK
  <2>2. CASE Read(message[call[s].on].to, call[s].me)
    BY <2>1, <2>2, ReadTypes
  <2>3. CASE UNCHANGED <<tables, marked>>
    BY <2>1, <2>3 DEF TypeOK, tables
  <2> QED BY <1>9, <2>2, <2>3 DEF MarkUpdate
<1>10. CASE UpdateLastReadAt(s)
  <2>1. call' \in [Slots -> {Idle} \cup Handlers] /\ rushed' \in BOOLEAN
    BY <1>3, <1>4, <1>10 DEF UpdateLastReadAt, TypeOK
  <2> QED BY <1>10, <2>1, ReadTypes DEF UpdateLastReadAt
<1>11. CASE OfflineMark(s)
  <2>1. call' \in [Slots -> {Idle} \cup Handlers] /\ rushed' \in BOOLEAN
    BY <1>2, <1>11 DEF OfflineMark, TypeOK
  <2> QED BY <1>11, <2>1, ReadTypes DEF OfflineMark
<1> QED BY <1>5, <1>6, <1>7, <1>8, <1>9, <1>10, <1>11 DEF Statement

LEMMA OustTypes ==
  ASSUME TypeOK, NEW c, NEW lost, Oust(c, lost)
  PROVE  call' \in [Slots -> {Idle} \cup Handlers]
<1>1. ASSUME NEW s \in Slots, At(s, "send_insert")
      PROVE  [call[s] EXCEPT !.ousted = TRUE] \in Handlers
  <2>1. call[s] \in Handlers
    BY <1>1, InFlight DEF At, Steps, SendSteps
  <2> QED BY <2>1 DEF Handlers
<1> QED BY <1>1 DEF Oust, TypeOK

LEMMA MembershipTypes ==
  ASSUME TypeOK, Membership
  PROVE  TypeOK'
<1> USE DEF Table!Admit, Table!Depart, Table!Close
<1>1. ASSUME NEW c \in Conversations, NEW joining \in SUBSET Users, Join(c, joining)
      PROVE  TypeOK'
  <2>1. 0 \in 0..MaxTime
    BY MessagesAssumption
  <2>2. lastRead' \in [Pairs -> 0..MaxTime]
    BY <1>1, <2>1 DEF Join, TypeOK
  <2>3. members' \subseteq conversations' \X Users
    BY <1>1 DEF Join, TypeOK
  <2> QED BY <1>1, <2>2, <2>3 DEF Join, TypeOK
<1>2. ASSUME NEW c \in Conversations, NEW u \in Users, Leave(c, u)
      PROVE  TypeOK'
  BY <1>2, OustTypes DEF Leave, Unmark, TypeOK
<1>3. ASSUME NEW c \in Conversations, DeleteConversation(c)
      PROVE  TypeOK'
  <2>1. call' \in [Slots -> {Idle} \cup Handlers]
    BY <1>3, OustTypes DEF DeleteConversation
  <2>2. message' \in [Messages -> [state : States, to : Conversations \cup {NoConversation},
                                   sender : Users \cup {NoUser}, born : 0..MaxTime]]
    BY <1>3 DEF DeleteConversation, TypeOK, States
  <2>3. members' \subseteq conversations' \X Users
    BY <1>3 DEF DeleteConversation, TypeOK
  <2> QED BY <1>3, <2>1, <2>2, <2>3 DEF DeleteConversation, Unmark, TypeOK
<1> QED BY <1>1, <1>2, <1>3 DEF Membership

LEMMA NextTypes == TypeOK /\ [Next]_vars => TypeOK'
<1> SUFFICES ASSUME TypeOK, [Next]_vars PROVE TypeOK'
  OBVIOUS
<1>1. CASE Tick
  BY <1>1, MessagesAssumption DEF Tick, TypeOK
<1>2. CASE Membership
  BY <1>2, MembershipTypes
<1>3. ASSUME NEW s \in Slots, Fail(s) PROVE TypeOK'
  BY <1>3, EndTypes DEF Fail, TypeOK, tables
<1>4. ASSUME NEW s \in Slots, Request(s) \/ Statement(s) PROVE TypeOK'
  BY <1>4, RequestTypes, StatementTypes
<1>5. CASE UNCHANGED vars
  BY <1>5 DEF vars, tables, TypeOK
<1> QED BY <1>1, <1>2, <1>3, <1>4, <1>5 DEF Next

\* Type correctness.
THEOREM TypeCorrect == Spec => []TypeOK
BY InitTypes, NextTypes, PTL DEF Spec

------------------------------------------------------------------------------
(* What a step does to the tables.                                         *)

\* UPDATE ... SET last_read_at finds a member of a conversation or changes nothing.
LEMMA ReadFindsMember ==
  ASSUME TypeOK, NEW c, NEW u, Read(c, u)
  PROVE  \/ UNCHANGED <<tables, marked>>
         \/ c \in Conversations /\ u \in Users
BY DEF Read, TypeOK, tables

LEMMA Effects ==
  ASSUME TypeOK, [Next]_vars
  PROVE  \/ UNCHANGED <<tables, marked>>
         \/ \E s \in Slots : SendInsert(s)
         \/ \E s \in Slots : DeleteUpdate(s)
         \/ \E c \in Conversations, u \in Users : Read(c, u) \/ Leave(c, u)
         \/ \E c \in Conversations, joining \in SUBSET Users : Join(c, joining)
         \/ \E c \in Conversations : DeleteConversation(c)
         \/ Tick
<1> DEFINE Quiet == UNCHANGED <<tables, marked>>
           Reads == \E c \in Conversations, u \in Users : Read(c, u)
<1>1. ASSUME NEW s \in Slots, Request(s) PROVE Quiet
  BY <1>1 DEF Request, SendMessage, GetConversationDetail, MarkOfflineMessagesAsRead, DeleteMessage,
              MarkAsRead, Begin
<1>2. ASSUME NEW s \in Slots, Fail(s) PROVE Quiet
  BY <1>2 DEF Fail
<1>3. ASSUME NEW s \in Slots, MarkUpdate(s) \/ UpdateLastReadAt(s) \/ OfflineMark(s)
      PROVE  Quiet \/ Reads
  BY <1>3, ReadFindsMember DEF MarkUpdate, UpdateLastReadAt, OfflineMark
<1>4. ASSUME NEW s \in Slots, Statement(s)
      PROVE  Quiet \/ Reads \/ SendInsert(s) \/ DeleteUpdate(s)
  BY <1>3, <1>4 DEF Statement, SendCheck, SendReadBack, SendTouch, SendEmit, DeleteFind, MarkFind,
                    DetailCheck, DetailRead
<1>5. CASE UNCHANGED vars
  BY <1>5 DEF vars
<1> QED BY <1>1, <1>2, <1>4, <1>5 DEF Next, Membership

\* The row that a send inserts.
Inserts(s, m) ==
  /\ call[s].to \in conversations
  /\ message[m].state = "unused"
  /\ message' = [message EXCEPT ![m] =
       [state |-> "live", to |-> call[s].to, sender |-> call[s].me, born |-> now]]
  /\ call' = [call EXCEPT ![s].at = "send_read", ![s].wrote = m, ![s].ousted = FALSE]

LEMMA InsertFacts ==
  ASSUME TypeOK, NEW s \in Slots, NEW m \in Messages, At(s, "send_insert"), Inserts(s, m)
  PROVE  /\ message'[m].state = "live" /\ message'[m].to = call[s].to
         /\ message'[m].sender = call[s].me /\ message'[m].born = now
         /\ \A n \in Messages \ {m} : message'[n] = message[n]
         /\ m \notin In(call[s].to)
         /\ In(call[s].to)' = In(call[s].to) \cup {m}
         /\ \A c \in Conversations : c # call[s].to => In(c)' = In(c)
         /\ \A q \in Slots \ {s} : call'[q] = call[q]
         /\ call'[s].at = "send_read" /\ call'[s].wrote = m
         /\ call'[s].me = call[s].me /\ call'[s].to = call[s].to /\ call'[s].row = call[s].row
         /\ call[s].me \in Users
<1>1. call[s] \in Handlers /\ call[s].me \in Users
  BY InFlight DEF At, Steps, SendSteps
<1>2. /\ message'[m] = [state |-> "live", to |-> call[s].to, sender |-> call[s].me, born |-> now]
      /\ \A n \in Messages \ {m} : message'[n] = message[n]
  BY DEF Inserts, TypeOK
<1>3. message[m].state \notin {"live", "deleted"}
  BY DEF Inserts
<1>4. call' = [call EXCEPT ![s] = [call[s] EXCEPT !.at = "send_read", !.wrote = m, !.ousted = FALSE]]
  BY DEF Inserts
<1>5. /\ \A q \in Slots \ {s} : call'[q] = call[q]
      /\ call'[s] = [call[s] EXCEPT !.at = "send_read", !.wrote = m, !.ousted = FALSE]
  <2> DEFINE h == [call[s] EXCEPT !.at = "send_read", !.wrote = m, !.ousted = FALSE]
  <2>1. call' = [call EXCEPT ![s] = h] /\ call \in [Slots -> {Idle} \cup Handlers]
    BY <1>4 DEF TypeOK
  <2> HIDE DEF h
  <2>2. (\A q \in Slots \ {s} : call'[q] = call[q]) /\ call'[s] = h
    BY <2>1
  <2> QED BY <2>2 DEF h
<1>6. /\ call'[s].at = "send_read" /\ call'[s].wrote = m
      /\ call'[s].me = call[s].me /\ call'[s].to = call[s].to /\ call'[s].row = call[s].row
  BY <1>1, <1>5 DEF Handlers
<1>7. /\ m \notin In(call[s].to)
      /\ In(call[s].to)' = In(call[s].to) \cup {m}
      /\ \A c \in Conversations : c # call[s].to => In(c)' = In(c)
  BY <1>2, <1>3, <1>6 DEF In
<1> QED BY <1>1, <1>2, <1>5, <1>6, <1>7

LEMMA InsertCases ==
  ASSUME NEW s \in Slots, SendInsert(s)
  PROVE  \/ \E m \in Messages : Inserts(s, m)
         \/ End(s) /\ UNCHANGED message
BY DEF SendInsert, Inserts

\* deleteMessage marks one row.
LEMMA DeleteFacts ==
  ASSUME TypeOK, NEW s \in Slots, DeleteUpdate(s)
  PROVE  /\ \A m \in Messages :
              /\ message'[m].to = message[m].to /\ message'[m].sender = message[m].sender
              /\ message'[m].born = message[m].born
              /\ message'[m].state = message[m].state
                   \/ (message[m].state = "live" /\ message'[m].state = "deleted")
         /\ \A c \in Conversations : In(c)' = In(c)
<1>1. \A m \in Messages :
        /\ message'[m].to = message[m].to /\ message'[m].sender = message[m].sender
        /\ message'[m].born = message[m].born
        /\ message'[m].state = message[m].state
             \/ (message[m].state = "live" /\ message'[m].state = "deleted")
  <2> DEFINE d == call[s].on
  <2>1. CASE d \in Messages /\ message[d].state = "live"
    <3>1. /\ message'[d] = [message[d] EXCEPT !.state = "deleted"]
          /\ \A m \in Messages \ {d} : message'[m] = message[m]
      BY <2>1 DEF DeleteUpdate, TypeOK
    <3> QED BY <2>1, <3>1 DEF TypeOK
  <2>2. CASE ~(d \in Messages /\ message[d].state = "live")
    <3>1. \A m \in Messages : message'[m] = message[m]
      BY <2>2 DEF DeleteUpdate, TypeOK
    <3> QED BY <3>1
  <2> QED BY <2>1, <2>2
<1> QED BY <1>1 DEF In

\* Deleting a conversation takes its rows along.
LEMMA CascadeFacts ==
  ASSUME TypeOK, NEW c \in Conversations, DeleteConversation(c)
  PROVE  /\ \A m \in Messages :
              /\ message'[m].to = message[m].to /\ message'[m].sender = message[m].sender
              /\ message'[m].born = message[m].born
              /\ m \in In(c) => message[m].state # "unused" /\ message'[m].state = "gone"
              /\ m \notin In(c) => message'[m].state = message[m].state
         /\ In(c)' = {}
         /\ \A d \in Conversations \ {c} : In(d)' = In(d)
<1>1. \A m \in Messages : message'[m] = IF m \in In(c) THEN [message[m] EXCEPT !.state = "gone"] ELSE message[m]
  BY DEF DeleteConversation
<1>2. \A m \in Messages :
        /\ message'[m].to = message[m].to /\ message'[m].sender = message[m].sender
        /\ message'[m].born = message[m].born
        /\ m \in In(c) => message'[m].state = "gone"
        /\ m \notin In(c) => message'[m].state = message[m].state
  BY <1>1 DEF TypeOK
<1>3. \A m \in In(c) : m \in Messages /\ message[m].state # "unused" /\ message[m].to = c
  BY DEF In
<1>4. In(c)' = {}
  <2>1. \A m \in Messages : message'[m].state \in {"live", "deleted"} => message'[m].to # c
    BY <1>2 DEF In
  <2> QED BY <2>1 DEF In
<1>5. ASSUME NEW d \in Conversations \ {c} PROVE In(d)' = In(d)
  BY <1>2, <1>3 DEF In
<1> QED BY <1>2, <1>3, <1>4, <1>5

------------------------------------------------------------------------------
(* What is marked is read, and what is read is marked.                     *)

\* Nothing is dated later than the clock, and rows belong to conversations that
\* are there.
Dated ==
  /\ \A m \in Messages : message[m].born <= now
  /\ \A p \in Pairs : lastRead[p] <= now
  /\ \A m \in Messages : message[m].state \in {"live", "deleted"} => message[m].to \in conversations

\* The clock never runs behind what was marked.
MarkedIsRead ==
  \A m \in Messages, u \in Users : <<m, u>> \in marked =>
    /\ m \in In(message[m].to)
    /\ <<message[m].to, u>> \in members
    /\ message[m].born <= lastRead[<<message[m].to, u>>]

UnmarkedIsLater ==
  \A c \in Conversations, u \in Users : <<c, u>> \in members =>
    \A m \in In(c) : <<m, u>> \in marked \/ lastRead[<<c, u>>] <= message[m].born

ReadInv == TypeOK /\ Dated /\ MarkedIsRead /\ UnmarkedIsLater

LEMMA Numbers ==
  ASSUME TypeOK
  PROVE  /\ now \in Nat /\ MaxTime \in Nat
         /\ \A m \in Messages : message[m].born \in Nat
         /\ \A p \in Pairs : lastRead[p] \in Nat
<1>1. MaxTime \in Nat
  BY MessagesAssumption
<1> QED BY <1>1 DEF TypeOK

LEMMA InitReads == Init => Dated /\ MarkedIsRead /\ UnmarkedIsLater
BY DEF Init, Dated, MarkedIsRead, UnmarkedIsLater, In, Blank

LEMMA InsertReads ==
  ASSUME ReadInv, TypeOK', NEW s \in Slots, SendInsert(s)
  PROVE  Dated' /\ MarkedIsRead' /\ UnmarkedIsLater'
<1> USE DEF ReadInv
<1>1. UNCHANGED <<conversations, members, lastRead, now, marked>>
  BY DEF SendInsert
<1>2. CASE UNCHANGED message
  BY <1>1, <1>2 DEF Dated, MarkedIsRead, UnmarkedIsLater, In
<1>3. ASSUME NEW m \in Messages, Inserts(s, m)
      PROVE  Dated' /\ MarkedIsRead' /\ UnmarkedIsLater'
  <2> DEFINE c == call[s].to
  <2>1. /\ message'[m].state = "live" /\ message'[m].to = c /\ message'[m].born = now
        /\ \A n \in Messages \ {m} : message'[n] = message[n]
        /\ m \notin In(c) /\ In(c)' = In(c) \cup {m}
        /\ \A d \in Conversations : d # c => In(d)' = In(d)
    BY <1>3, InsertFacts DEF SendInsert
  <2>2. c \in conversations /\ message[m].state = "unused" /\ c \in Conversations
    BY <1>3 DEF Inserts, TypeOK
  <2>3. now \in Nat /\ now <= now
    BY Numbers
  <2>4. Dated'
    BY <1>1, <2>1, <2>2, <2>3 DEF Dated
  <2>5. MarkedIsRead'
    <3>1. \A u \in Users : <<m, u>> \notin marked
      BY <2>2 DEF MarkedIsRead, In
    <3> SUFFICES ASSUME NEW n \in Messages, NEW u \in Users, <<n, u>> \in marked'
                 PROVE  /\ n \in In(message[n].to)'
                        /\ <<message'[n].to, u>> \in members'
                        /\ message'[n].born <= lastRead'[<<message'[n].to, u>>]
      BY DEF MarkedIsRead
    <3>2. n # m /\ message'[n] = message[n]
      BY <1>1, <2>1, <3>1
    <3>3. /\ n \in In(message[n].to) /\ <<message[n].to, u>> \in members
          /\ message[n].born <= lastRead[<<message[n].to, u>>]
      BY <1>1 DEF MarkedIsRead
    <3>4. n \in In(message[n].to)'
      BY <3>2, <3>3 DEF In
    <3> QED BY <1>1, <3>2, <3>3, <3>4
  <2>6. UnmarkedIsLater'
    <3> SUFFICES ASSUME NEW d \in Conversations, NEW u \in Users, <<d, u>> \in members',
                        NEW n \in In(d)'
                 PROVE  <<n, u>> \in marked' \/ lastRead'[<<d, u>>] <= message'[n].born
      BY DEF UnmarkedIsLater
    <3>1. CASE n = m
      <4>1. d = c
        BY <2>1, <3>1 DEF In
      <4>2. lastRead[<<c, u>>] <= now
        BY <2>2 DEF Dated, Pairs
      <4> QED BY <1>1, <2>1, <3>1, <4>1, <4>2
    <3>2. CASE n # m
      <4>1. n \in In(d) /\ n \in Messages
        BY <2>1, <3>2 DEF In
      <4>2. message'[n] = message[n]
        BY <2>1, <3>2, <4>1
      <4> QED BY <1>1, <4>1, <4>2 DEF UnmarkedIsLater
    <3> QED BY <3>1, <3>2
  <2> QED BY <2>4, <2>5, <2>6
<1> QED BY <1>2, <1>3, InsertCases DEF SendInsert

LEMMA DeleteReads ==
  ASSUME ReadInv, NEW s \in Slots, DeleteUpdate(s)
  PROVE  Dated' /\ MarkedIsRead' /\ UnmarkedIsLater'
<1> USE DEF ReadInv
<1>1. UNCHANGED <<conversations, members, lastRead, now, marked>>
  BY DEF DeleteUpdate
<1>2. \A m \in Messages :
        /\ message'[m].to = message[m].to /\ message'[m].born = message[m].born
        /\ message'[m].state \in {"live", "deleted"} <=> message[m].state \in {"live", "deleted"}
  BY DeleteFacts
<1>3. \A m \in Messages : m \in In(message[m].to)' <=> m \in In(message[m].to)
  BY <1>2 DEF In
<1>4. \A c \in Conversations : In(c)' = In(c) /\ In(c) \subseteq Messages
  BY DeleteFacts DEF In
<1>5. Dated'
  BY <1>1, <1>2 DEF Dated
<1>6. MarkedIsRead'
  BY <1>1, <1>2, <1>3 DEF MarkedIsRead
<1>7. UnmarkedIsLater'
  BY <1>1, <1>2, <1>4 DEF UnmarkedIsLater
<1> QED BY <1>5, <1>6, <1>7

LEMMA ReadReads ==
  ASSUME ReadInv, NEW c \in Conversations, NEW u \in Users, Read(c, u)
  PROVE  Dated' /\ MarkedIsRead' /\ UnmarkedIsLater'
<1> USE DEF ReadInv
<1>1. UNCHANGED <<conversations, members, message, now>> /\ \A d : In(d)' = In(d)
  BY DEF Read, In
<1>2. CASE <<c, u>> \notin members
  <2>1. UNCHANGED <<lastRead, marked>>
    BY <1>2 DEF Read
  <2> QED BY <1>1, <2>1 DEF Dated, MarkedIsRead, UnmarkedIsLater
<1>3. CASE <<c, u>> \in members
  <2>1. /\ <<c, u>> \in Pairs /\ lastRead'[<<c, u>>] = now
        /\ \A p \in Pairs \ {<<c, u>>} : lastRead'[p] = lastRead[p]
        /\ marked' = marked \cup (In(c) \X {u})
    BY <1>3 DEF Read, TypeOK, Pairs
  <2>2. now \in Nat /\ now <= now
    BY Numbers
  <2>3. Dated'
    BY <1>1, <2>1, <2>2 DEF Dated
  <2>4. MarkedIsRead'
    <3> SUFFICES ASSUME NEW m \in Messages, NEW v \in Users, <<m, v>> \in marked'
                 PROVE  /\ m \in In(message[m].to)
                        /\ <<message[m].to, v>> \in members
                        /\ message[m].born <= lastRead'[<<message[m].to, v>>]
      BY <1>1 DEF MarkedIsRead, In
    <3>1. CASE <<m, v>> \in In(c) \X {u}
      <4>1. v = u /\ m \in In(c) /\ message[m].to = c
        BY <3>1 DEF In
      <4> QED BY <1>3, <2>1, <4>1 DEF Dated
    <3>2. CASE <<m, v>> \in marked
      <4>1. /\ m \in In(message[m].to) /\ <<message[m].to, v>> \in members
            /\ message[m].born <= lastRead[<<message[m].to, v>>]
        BY <3>2 DEF MarkedIsRead
      <4>2. <<message[m].to, v>> \in Pairs
        BY <4>1 DEF TypeOK, Pairs
      <4>3. message[m].born <= now
        BY DEF Dated
      <4> QED BY <2>1, <4>1, <4>2, <4>3
    <3> QED BY <2>1, <3>1, <3>2
  <2>5. UnmarkedIsLater'
    <3> SUFFICES ASSUME NEW d \in Conversations, NEW v \in Users, <<d, v>> \in members, NEW m \in In(d)
                 PROVE  <<m, v>> \in marked' \/ lastRead'[<<d, v>>] <= message[m].born
      BY <1>1 DEF UnmarkedIsLater
    <3>1. CASE d = c /\ v = u
      BY <2>1, <3>1
    <3>2. CASE ~(d = c /\ v = u)
      <4>1. <<d, v>> \in Pairs \ {<<c, u>>}
        BY <3>2 DEF Pairs
      <4> QED BY <2>1, <4>1 DEF UnmarkedIsLater
    <3> QED BY <3>1, <3>2
  <2> QED BY <2>3, <2>4, <2>5
<1> QED BY <1>2, <1>3

LEMMA JoinReads ==
  ASSUME ReadInv, NEW c \in Conversations, NEW joining \in SUBSET Users, Join(c, joining)
  PROVE  Dated' /\ MarkedIsRead' /\ UnmarkedIsLater'
<1> USE DEF ReadInv
<1>1. UNCHANGED <<conversations, message, now, marked>> /\ \A d : In(d)' = In(d)
  BY DEF Join, Table!Admit, In
<1>2. /\ \A p \in Pairs : lastRead'[p] = IF p \in {c} \X joining THEN 0 ELSE lastRead[p]
      /\ ({c} \X joining) \cap members = {} /\ members' = members \cup ({c} \X joining)
  BY DEF Join, Table!Admit, TypeOK
<1>3. now \in Nat /\ \A m \in Messages : message[m].born \in Nat
  BY Numbers
<1>4. Dated'
  BY <1>1, <1>2, <1>3 DEF Dated
<1>5. MarkedIsRead'
  <2> SUFFICES ASSUME NEW m \in Messages, NEW v \in Users, <<m, v>> \in marked
               PROVE  /\ m \in In(message[m].to)
                      /\ <<message[m].to, v>> \in members'
                      /\ message[m].born <= lastRead'[<<message[m].to, v>>]
    BY <1>1 DEF MarkedIsRead, In
  <2>1. /\ m \in In(message[m].to) /\ <<message[m].to, v>> \in members
        /\ message[m].born <= lastRead[<<message[m].to, v>>]
    BY DEF MarkedIsRead
  <2>2. <<message[m].to, v>> \in Pairs /\ <<message[m].to, v>> \notin {c} \X joining
    BY <1>2, <2>1 DEF TypeOK, Pairs
  <2> QED BY <1>2, <2>1, <2>2
<1>6. UnmarkedIsLater'
  <2> SUFFICES ASSUME NEW d \in Conversations, NEW v \in Users, <<d, v>> \in members', NEW m \in In(d)
               PROVE  <<m, v>> \in marked \/ lastRead'[<<d, v>>] <= message[m].born
    BY <1>1 DEF UnmarkedIsLater
  <2>1. <<d, v>> \in Pairs
    BY DEF Pairs
  <2>2. CASE <<d, v>> \in {c} \X joining
    <3>1. m \in Messages
      BY DEF In
    <3>2. lastRead'[<<d, v>>] = 0 /\ message[m].born \in Nat
      BY <1>2, <1>3, <2>1, <2>2, <3>1
    <3> QED BY <3>2
  <2>3. CASE <<d, v>> \notin {c} \X joining
    <3>1. <<d, v>> \in members /\ lastRead'[<<d, v>>] = lastRead[<<d, v>>]
      BY <1>2, <2>1, <2>3
    <3> QED BY <3>1 DEF UnmarkedIsLater
  <2> QED BY <2>2, <2>3
<1> QED BY <1>4, <1>5, <1>6

LEMMA LeaveReads ==
  ASSUME ReadInv, NEW c \in Conversations, NEW u \in Users, Leave(c, u)
  PROVE  Dated' /\ MarkedIsRead' /\ UnmarkedIsLater'
<1> USE DEF ReadInv
<1>1. /\ UNCHANGED <<conversations, lastRead, message, now>> /\ \A d : In(d)' = In(d)
      /\ members' = members \ {<<c, u>>}
      /\ \A m \in Messages, v \in Users :
           <<m, v>> \in marked' <=> <<m, v>> \in marked /\ ~(v = u /\ message[m].to = c)
  BY DEF Leave, Table!Depart, Unmark, In
<1>2. Dated'
  BY <1>1 DEF Dated
<1>3. MarkedIsRead'
  <2> SUFFICES ASSUME NEW m \in Messages, NEW v \in Users, <<m, v>> \in marked'
               PROVE  /\ m \in In(message[m].to)
                      /\ <<message[m].to, v>> \in members'
                      /\ message[m].born <= lastRead[<<message[m].to, v>>]
    BY <1>1 DEF MarkedIsRead, In
  <2>1. <<m, v>> \in marked /\ ~(v = u /\ message[m].to = c)
    BY <1>1
  <2>2. <<message[m].to, v>> # <<c, u>>
    BY <2>1
  <2> QED BY <1>1, <2>1, <2>2 DEF MarkedIsRead
<1>4. UnmarkedIsLater'
  <2> SUFFICES ASSUME NEW d \in Conversations, NEW v \in Users, <<d, v>> \in members', NEW m \in In(d)
               PROVE  <<m, v>> \in marked' \/ lastRead[<<d, v>>] <= message[m].born
    BY <1>1 DEF UnmarkedIsLater
  <2>1. <<d, v>> \in members /\ ~(d = c /\ v = u)
    BY <1>1
  <2>2. m \in Messages /\ message[m].to = d
    BY DEF In
  <2>3. <<m, v>> \in marked \/ lastRead[<<d, v>>] <= message[m].born
    BY <2>1 DEF UnmarkedIsLater
  <2> QED BY <1>1, <2>1, <2>2, <2>3
<1> QED BY <1>2, <1>3, <1>4

LEMMA CascadeReads ==
  ASSUME ReadInv, NEW c \in Conversations, DeleteConversation(c)
  PROVE  Dated' /\ MarkedIsRead' /\ UnmarkedIsLater'
<1> USE DEF ReadInv
<1>1. /\ UNCHANGED <<lastRead, now>>
      /\ conversations' = conversations \ {c}
      /\ members' = members \ ({c} \X Users)
      /\ marked' = marked \ {p \in Messages \X Users : message[p[1]].to = c}
  BY DEF DeleteConversation, Table!Close, Unmark
<1>2. /\ \A m \in Messages :
           /\ message'[m].to = message[m].to /\ message'[m].born = message[m].born
           /\ m \in In(c) => message'[m].state = "gone"
           /\ m \notin In(c) => message'[m].state = message[m].state
      /\ In(c)' = {}
      /\ \A d \in Conversations \ {c} : In(d)' = In(d)
  BY CascadeFacts
<1>3. Dated'
  <2>1. \A m \in Messages : message'[m].state \in {"live", "deleted"} => message[m].to # c
    BY <1>2 DEF In
  <2>2. \A m \in Messages : message'[m].state \in {"live", "deleted"} => message[m].state \in {"live", "deleted"}
    BY <1>2
  <2>3. \A m \in Messages : message'[m].state \in {"live", "deleted"} => message'[m].to \in conversations'
    BY <1>1, <1>2, <2>1, <2>2 DEF Dated
  <2> QED BY <1>1, <1>2, <2>3 DEF Dated
<1>4. MarkedIsRead'
  <2> SUFFICES ASSUME NEW m \in Messages, NEW v \in Users, <<m, v>> \in marked'
               PROVE  /\ m \in In(message[m].to)'
                      /\ <<message'[m].to, v>> \in members'
                      /\ message'[m].born <= lastRead'[<<message'[m].to, v>>]
    BY DEF MarkedIsRead
  <2>1. <<m, v>> \in marked /\ message[m].to # c
    BY <1>1
  <2>2. /\ m \in In(message[m].to) /\ <<message[m].to, v>> \in members
        /\ message[m].born <= lastRead[<<message[m].to, v>>]
    BY <2>1 DEF MarkedIsRead
  <2>3. message'[m].to = message[m].to /\ message'[m].born = message[m].born /\ message'[m].state = message[m].state
    BY <1>2, <2>1 DEF In
  <2>4. m \in In(message[m].to)'
    BY <2>2, <2>3 DEF In
  <2> QED BY <1>1, <2>1, <2>2, <2>3, <2>4
<1>5. UnmarkedIsLater'
  <2> SUFFICES ASSUME NEW d \in Conversations, NEW v \in Users, <<d, v>> \in members', NEW m \in In(d)'
               PROVE  <<m, v>> \in marked' \/ lastRead'[<<d, v>>] <= message'[m].born
    BY DEF UnmarkedIsLater
  <2>1. d # c /\ <<d, v>> \in members
    BY <1>1
  <2>2. m \in In(d) /\ m \in Messages /\ message[m].to = d
    BY <1>2, <2>1 DEF In
  <2>3. <<m, v>> \in marked \/ lastRead[<<d, v>>] <= message[m].born
    BY <2>1, <2>2 DEF UnmarkedIsLater
  <2>4. <<m, v>> \in marked => <<m, v>> \in marked'
    BY <1>1, <2>1, <2>2
  <2> QED BY <1>1, <1>2, <2>2, <2>3, <2>4
<1> QED BY <1>3, <1>4, <1>5

LEMMA TickReads ==
  ASSUME ReadInv, Tick
  PROVE  Dated' /\ MarkedIsRead' /\ UnmarkedIsLater'
<1> USE DEF ReadInv
<1>1. UNCHANGED <<conversations, members, lastRead, message, marked>> /\ now' = now + 1 /\ \A d : In(d)' = In(d)
  BY DEF Tick, In
<1>2. Dated'
  <2>1. /\ now \in Nat
        /\ \A m \in Messages : message[m].born \in Nat
        /\ \A p \in Pairs : lastRead[p] \in Nat
    BY Numbers
  <2> QED BY <1>1, <2>1 DEF Dated
<1> QED BY <1>1, <1>2 DEF MarkedIsRead, UnmarkedIsLater, In

LEMMA NextReads == ReadInv /\ [Next]_vars => ReadInv'
<1> SUFFICES ASSUME ReadInv, [Next]_vars PROVE ReadInv'
  OBVIOUS
<1>1. TypeOK /\ TypeOK'
  BY NextTypes DEF ReadInv
<1>2. CASE UNCHANGED <<tables, marked>>
  BY <1>1, <1>2 DEF ReadInv, tables, Dated, MarkedIsRead, UnmarkedIsLater, In
<1> QED
  BY <1>1, <1>2, Effects, InsertReads, DeleteReads, ReadReads, JoinReads, LeaveReads, CascadeReads,
     TickReads DEF ReadInv

\* A member's unread messages are those nobody has marked for them since they
\* joined, but for those of the second of the last reading.
THEOREM UnreadIsWhatIsUnmarked == Spec => []UnreadIsUnmarked
<1>1. ReadInv => UnreadIsUnmarked
  <2> SUFFICES ASSUME ReadInv, NEW c \in Conversations, NEW u \in Users, <<c, u>> \in members,
                      NEW m \in In(c), message[m].state = "live", message[m].sender # u
               PROVE  /\ <<m, u>> \in marked => m \notin UnreadOfOthers(c, u)
                      /\ <<m, u>> \notin marked =>
                           m \in UnreadOfOthers(c, u) \/ message[m].born = lastRead[<<c, u>>]
    BY DEF UnreadIsUnmarked
  <2>1. m \in Messages /\ message[m].to = c /\ <<c, u>> \in Pairs
    BY DEF In, Pairs
  <2>2. message[m].born \in Nat /\ lastRead[<<c, u>>] \in Nat
    BY <2>1, Numbers DEF ReadInv
  <2>3. m \in UnreadOfOthers(c, u) <=> lastRead[<<c, u>>] < message[m].born
    BY DEF UnreadOfOthers, Unread
  <2>4. <<m, u>> \in marked => message[m].born <= lastRead[<<c, u>>]
    BY <2>1 DEF ReadInv, MarkedIsRead
  <2>5. <<m, u>> \notin marked => lastRead[<<c, u>>] <= message[m].born
    BY DEF ReadInv, UnmarkedIsLater
  <2> QED BY <2>2, <2>3, <2>4, <2>5
<1>2. Init => ReadInv
  BY InitTypes, InitReads DEF ReadInv
<1> QED BY <1>1, <1>2, NextReads, PTL DEF Spec

------------------------------------------------------------------------------
(* Handlers: who writes, what a send has written and what it reads back.   *)

AfterInsert == {"send_read", "send_touch", "send_sender"}

\* A step on a slot leaves the other slots alone.
LEMMA OthersWait ==
  ASSUME TypeOK, NEW s \in Slots, Request(s) \/ Statement(s) \/ Fail(s),
         NEW q \in Slots \ {s}
  PROVE  call'[q] = call[q]
<1>1. call \in [Slots -> {Idle} \cup Handlers]
  BY DEF TypeOK
<1>2. ASSUME NEW st, NEW u, NEW c, NEW m, Begin(s, st, u, c, m) PROVE call'[q] = call[q]
  BY <1>1, <1>2 DEF Begin
<1>3. ASSUME NEW st, Await(s, st) PROVE call'[q] = call[q]
  BY <1>1, <1>3 DEF Await
<1>4. ASSUME End(s) PROVE call'[q] = call[q]
  BY <1>1, <1>4 DEF End
<1>5. CASE Request(s)
  BY <1>2, <1>5 DEF Request, SendMessage, GetConversationDetail, MarkOfflineMessagesAsRead,
                    DeleteMessage, MarkAsRead
<1>6. CASE SendInsert(s)
  <2>1. ASSUME NEW m \in Messages, Inserts(s, m) PROVE call'[q] = call[q]
    BY <1>6, <2>1, InsertFacts DEF SendInsert
  <2> QED BY <1>4, <1>6, <2>1, InsertCases
<1>7. CASE SendReadBack(s)
  <2>1. ASSUME NEW m, call' = [call EXCEPT ![s].at = "send_touch", ![s].row = m]
        PROVE  call'[q] = call[q]
    BY <1>1, <2>1
  <2> QED BY <1>3, <1>4, <1>7, <2>1 DEF SendReadBack
<1>8. CASE Statement(s)
  BY <1>3, <1>4, <1>6, <1>7, <1>8
     DEF Statement, SendCheck, SendTouch, SendEmit, DeleteFind, DeleteUpdate, MarkFind, MarkUpdate,
         DetailCheck, UpdateLastReadAt, DetailRead, OfflineMark
<1> QED BY <1>4, <1>5, <1>8 DEF Fail

\* Membership changes only ousted.
LEMMA OustFacts ==
  ASSUME TypeOK, NEW c, NEW lost, Oust(c, lost), NEW q \in Slots
  PROVE  /\ call'[q].at = call[q].at /\ call'[q].me = call[q].me /\ call'[q].to = call[q].to
         /\ call'[q].wrote = call[q].wrote /\ call'[q].row = call[q].row
         /\ call[q].ousted => call'[q].ousted
         /\ (At(q, "send_insert") /\ call[q].to = c /\ call[q].me \in lost) => call'[q].ousted
<1>1. call'[q] = IF At(q, "send_insert") /\ call[q].to = c /\ call[q].me \in lost
                 THEN [call[q] EXCEPT !.ousted = TRUE] ELSE call[q]
  BY DEF Oust
<1>2. At(q, "send_insert") => call[q] \in Handlers
  BY InFlight DEF At, Steps, SendSteps
<1> QED BY <1>1, <1>2 DEF Handlers

\* How a handler comes to be where it is.
LEMMA SlotShape ==
  ASSUME TypeOK, NEW s \in Slots, Statement(s) \/ Fail(s), call'[s].at # "idle"
  PROVE  /\ call'[s].me = call[s].me /\ call'[s].to = call[s].to
         /\ call'[s].at \in SendSteps => call[s].at \in SendSteps
         /\ call'[s].at # "send_check"
         /\ call'[s].at = "send_insert" => 
              SendCheck(s) /\ call'[s].ousted = call[s].ousted /\ call'[s].row = call[s].row
         /\ call'[s].at = "send_read" => SendInsert(s) /\ call'[s].row = call[s].row
         /\ call'[s].at = "send_touch" => SendReadBack(s)
         /\ call'[s].at = "send_sender" =>
              /\ SendTouch(s) /\ call'[s].wrote = call[s].wrote /\ call'[s].row = call[s].row
<1>1. call \in [Slots -> {Idle} \cup Handlers]
  BY DEF TypeOK
<1>2. ~End(s)
  <2>1. End(s) => call'[s] = Idle
    BY <1>1 DEF End
  <2> QED BY <2>1 DEF Idle
<1>3. Statement(s) /\ call[s].at \in Steps /\ call[s] \in Handlers
  <2>1. Statement(s)
    BY <1>2 DEF Fail
  <2>2. call[s].at \in Steps
    BY <2>1 DEF Statement, SendCheck, SendInsert, SendReadBack, SendTouch, SendEmit, DeleteFind,
                DeleteUpdate, MarkFind, MarkUpdate, DetailCheck, UpdateLastReadAt, DetailRead,
                OfflineMark, At, Steps, SendSteps, MarkSteps
  <2> QED BY <2>1, <2>2, InFlight
<1>4. ASSUME NEW st, Await(s, st)
      PROVE  /\ call'[s].at = st /\ call'[s].me = call[s].me /\ call'[s].to = call[s].to
             /\ call'[s].wrote = call[s].wrote /\ call'[s].row = call[s].row
             /\ call'[s].ousted = call[s].ousted
  <2>1. call' = [call EXCEPT ![s] = [call[s] EXCEPT !.at = st]]
    BY <1>4 DEF Await
  <2>2. call'[s] = [call[s] EXCEPT !.at = st]
    BY <1>1, <2>1
  <2> QED BY <1>3, <2>2 DEF Handlers
<1>5. CASE SendInsert(s)
  <2>1. PICK m \in Messages : Inserts(s, m)
    BY <1>2, <1>5, InsertCases
  <2>2. /\ call'[s].at = "send_read" /\ call'[s].me = call[s].me /\ call'[s].to = call[s].to
        /\ call'[s].row = call[s].row /\ call[s].at = "send_insert"
    BY <1>5, <2>1, InsertFacts DEF SendInsert, At
  <2> QED BY <1>5, <2>2 DEF SendSteps
<1>6. CASE SendReadBack(s)
  <2>1. ASSUME NEW m, call' = [call EXCEPT ![s].at = "send_touch", ![s].row = m]
        PROVE  call'[s].at = "send_touch" /\ call'[s].me = call[s].me /\ call'[s].to = call[s].to
    <3>1. call' = [call EXCEPT ![s] = [call[s] EXCEPT !.at = "send_touch", !.row = m]]
      BY <2>1
    <3>2. call'[s] = [call[s] EXCEPT !.at = "send_touch", !.row = m]
      BY <1>1, <3>1
    <3> QED BY <1>3, <3>2 DEF Handlers
  <2>2. call'[s].at = "send_touch" /\ call'[s].me = call[s].me /\ call'[s].to = call[s].to
    BY <1>2, <1>4, <1>6, <2>1 DEF SendReadBack
  <2> QED BY <1>6, <2>2 DEF SendReadBack, At, SendSteps
<1>7. CASE SendCheck(s)
  BY <1>2, <1>4, <1>7 DEF SendCheck, At, SendSteps
<1>8. CASE SendTouch(s)
  BY <1>2, <1>4, <1>8 DEF SendTouch, At, SendSteps
<1>9. CASE SendEmit(s) \/ DeleteUpdate(s) \/ MarkUpdate(s) \/ DetailRead(s) \/ OfflineMark(s)
  BY <1>2, <1>9 DEF SendEmit, DeleteUpdate, MarkUpdate, DetailRead, OfflineMark
<1>10. CASE DeleteFind(s) \/ MarkFind(s) \/ DetailCheck(s) \/ UpdateLastReadAt(s)
  <2>1. PICK st \in {"delete_update", "mark_update", "detail_mark", "detail_read"} : Await(s, st)
    BY <1>2, <1>10 DEF DeleteFind, MarkFind, DetailCheck, UpdateLastReadAt
  <2> QED BY <1>4, <2>1 DEF SendSteps
<1> QED BY <1>3, <1>5, <1>6, <1>7, <1>8, <1>9, <1>10 DEF Statement

\* A request begins a handler that has not written anything.
LEMMA RequestShape ==
  ASSUME TypeOK, NEW s \in Slots, Request(s)
  PROVE  /\ call'[s].at \notin AfterInsert \cup {"send_insert"}
         /\ \/ call'[s].at \notin SendSteps /\ UNCHANGED rushed
            \/ rushed' = (rushed \/ (\E q \in Slots :
                 call[q].at \in SendSteps /\ call[q].me = call'[s].me /\ call[q].to = call'[s].to))
         /\ call[s] = Idle /\ call'[s].row = NoMessage
<1>1. call \in [Slots -> {Idle} \cup Handlers]
  BY DEF TypeOK
<1>2. ASSUME NEW st, NEW u, NEW c, NEW m, Begin(s, st, u, c, m)
      PROVE  /\ call'[s].at = st /\ call'[s].me = u /\ call'[s].to = c
             /\ call[s] = Idle /\ call'[s].row = NoMessage
  <2>1. call'[s] = [Idle EXCEPT !.at = st, !.me = u, !.to = c, !.on = m] /\ call[s] = Idle
    BY <1>1, <1>2 DEF Begin
  <2> QED BY <2>1 DEF Idle
<1>3. ASSUME NEW u \in Users, NEW c \in Conversations, SendMessage(s, u, c)
      PROVE  /\ call'[s].at = "send_check" /\ call[s] = Idle /\ call'[s].row = NoMessage
             /\ rushed' = (rushed \/ (\E q \in Slots :
                  call[q].at \in SendSteps /\ call[q].me = call'[s].me /\ call[q].to = call'[s].to))
  BY <1>2, <1>3 DEF SendMessage
<1>4. ASSUME NEW u, NEW c, NEW m, NEW st \in {"detail_check", "offline_mark", "delete_find", "mark_find"},
             Begin(s, st, u, c, m), UNCHANGED rushed
      PROVE  call'[s].at = st /\ call[s] = Idle /\ call'[s].row = NoMessage /\ UNCHANGED rushed
  BY <1>2, <1>4
<1>5. {"send_check", "detail_check", "offline_mark", "delete_find", "mark_find"}
        \cap (AfterInsert \cup {"send_insert"}) = {}
      /\ {"detail_check", "offline_mark", "delete_find", "mark_find"} \cap SendSteps = {}
  BY DEF AfterInsert, SendSteps
<1>6. \/ \E u \in Users, c \in Conversations : SendMessage(s, u, c)
      \/ /\ UNCHANGED rushed
         /\ \E u \in Users, c \in Conversations \cup {NoConversation}, m \in SomeMessage :
              \E st \in {"detail_check", "offline_mark", "delete_find", "mark_find"} : Begin(s, st, u, c, m)
  BY DEF Request, GetConversationDetail, MarkOfflineMessagesAsRead, DeleteMessage, MarkAsRead, SomeMessage
<1> QED BY <1>3, <1>4, <1>5, <1>6

------------------------------------------------------------------------------
(* Only members write.                                                     *)

\* A handler past the membership check of line 33 has a member, or one who lost the
\* membership after the check.
PastCheck ==
  \A s \in Slots : At(s, "send_insert") => call[s].ousted \/ <<call[s].to, call[s].me>> \in members

CheckInv == TypeOK /\ PastCheck

LEMMA NextPastCheck == CheckInv /\ [Next]_vars => CheckInv'
<1> SUFFICES ASSUME CheckInv, [Next]_vars PROVE CheckInv'
  OBVIOUS
<1> USE DEF CheckInv
<1>1. TypeOK /\ TypeOK'
  BY NextTypes
<1> SUFFICES ASSUME NEW q \in Slots, At(q, "send_insert")'
             PROVE  call'[q].ousted \/ <<call'[q].to, call'[q].me>> \in members'
  BY <1>1 DEF PastCheck
<1>2. CASE call'[q] = call[q] /\ members \subseteq members'
  BY <1>2 DEF PastCheck, At
<1>3. ASSUME NEW s \in Slots, Request(s) \/ Statement(s) \/ Fail(s)
      PROVE  call'[q].ousted \/ <<call'[q].to, call'[q].me>> \in members'
  <2>1. members' = members
    <3>1. CASE Request(s)
      BY <3>1 DEF Request, SendMessage, GetConversationDetail, MarkOfflineMessagesAsRead, DeleteMessage,
                  MarkAsRead, Begin, tables
    <3>2. CASE Statement(s)
      BY <3>2 DEF Statement, SendCheck, SendInsert, SendReadBack, SendTouch, SendEmit, DeleteFind,
                  DeleteUpdate, MarkFind, MarkUpdate, DetailCheck, UpdateLastReadAt, DetailRead,
                  OfflineMark, Read, tables
    <3> QED BY <1>3, <3>1, <3>2 DEF Fail, tables
  <2>2. CASE q # s
    BY <1>1, <1>2, <1>3, <2>1, <2>2, OthersWait
  <2>3. CASE q = s /\ Request(s)
    BY <1>1, <2>3, RequestShape DEF At
  <2>4. CASE q = s /\ (Statement(s) \/ Fail(s))
    <3>1. SendCheck(s) /\ call'[s].me = call[s].me /\ call'[s].to = call[s].to
      BY <1>1, <2>4, SlotShape DEF At
    <3>2. ~End(s)
      BY <1>1, <2>4 DEF End, Idle, At, TypeOK
    <3> QED BY <2>1, <2>4, <3>1, <3>2 DEF SendCheck
  <2> QED BY <1>3, <2>2, <2>3, <2>4
<1>4. ASSUME NEW c \in Conversations, NEW lost \in SUBSET Users, Oust(c, lost),
             members' = members \ ({c} \X lost)
      PROVE  call'[q].ousted \/ <<call'[q].to, call'[q].me>> \in members'
  <2>1. /\ call'[q].at = call[q].at /\ call'[q].me = call[q].me /\ call'[q].to = call[q].to
        /\ call[q].ousted => call'[q].ousted
        /\ (At(q, "send_insert") /\ call[q].to = c /\ call[q].me \in lost) => call'[q].ousted
    BY <1>1, <1>4, OustFacts
  <2>2. At(q, "send_insert")
    BY <2>1 DEF At
  <2> QED BY <1>4, <2>1, <2>2 DEF PastCheck
<1>5. CASE Membership
  <2>1. ASSUME NEW c \in Conversations, NEW u \in Users, Leave(c, u)
        PROVE  call'[q].ousted \/ <<call'[q].to, call'[q].me>> \in members'
    BY <1>4, <2>1 DEF Leave, Table!Depart
  <2>2. ASSUME NEW c \in Conversations, DeleteConversation(c)
        PROVE  call'[q].ousted \/ <<call'[q].to, call'[q].me>> \in members'
    BY <1>4, <2>2 DEF DeleteConversation, Table!Close
  <2> QED BY <1>2, <1>5, <2>1, <2>2 DEF Membership, Join, Table!Admit
<1>6. CASE Tick
  BY <1>2, <1>6 DEF Tick
<1>7. CASE UNCHANGED vars
  BY <1>2, <1>7 DEF vars, tables
<1> QED BY <1>3, <1>5, <1>6, <1>7 DEF Next

\* A message appears by the hand of a handler whose user is a member, or has lost the
\* membership since the check.
THEOREM MembersWrite == Spec => OnlyMembersWrite
<1>1. Init => CheckInv
  BY InitTypes DEF CheckInv, PastCheck, Init, Idle, At
<1>2. CheckInv /\ [Next]_vars =>
        [\A m \in Messages : (message[m].state = "unused" /\ message'[m].state # "unused") =>
           \E s \in Slots :
             /\ At(s, "send_insert")
             /\ call[s].me = message'[m].sender /\ call[s].to = message'[m].to
             /\ call[s].ousted \/ <<call[s].to, call[s].me>> \in members]_vars
  <2> SUFFICES ASSUME CheckInv, [Next]_vars,
                      NEW m \in Messages, message[m].state = "unused", message'[m].state # "unused"
               PROVE  \E s \in Slots :
                        /\ At(s, "send_insert")
                        /\ call[s].me = message'[m].sender /\ call[s].to = message'[m].to
                        /\ call[s].ousted \/ <<call[s].to, call[s].me>> \in members
    OBVIOUS
  <2>1. TypeOK
    BY DEF CheckInv
  <2>2. PICK s \in Slots : SendInsert(s)
    <3>1. ~UNCHANGED <<tables, marked>> /\ ~Tick
      BY DEF tables, Tick
    <3>2. ~ \E s \in Slots : DeleteUpdate(s)
      BY <2>1, DeleteFacts
    <3>3. /\ ~ \E c \in Conversations, u \in Users : Read(c, u) \/ Leave(c, u)
          /\ ~ \E c \in Conversations, joining \in SUBSET Users : Join(c, joining)
      BY DEF Read, Join, Leave
    <3>4. ~ \E c \in Conversations : DeleteConversation(c)
      BY <2>1, CascadeFacts
    <3> QED BY <2>1, <3>1, <3>2, <3>3, <3>4, Effects
  <2>3. PICK n \in Messages : Inserts(s, n)
    BY <2>2, InsertCases
  <2>4. At(s, "send_insert")
    BY <2>2 DEF SendInsert
  <2>5. n = m /\ message'[m].to = call[s].to /\ message'[m].sender = call[s].me
    BY <2>1, <2>3, <2>4, InsertFacts
  <2> QED BY <2>4, <2>5 DEF CheckInv, PastCheck
<1> QED BY <1>1, <1>2, NextPastCheck, PTL DEF Spec, OnlyMembersWrite

------------------------------------------------------------------------------
(* A send announces its own message.                                       *)

\* Two sends of one user to one conversation in flight have been noticed.
Rushing ==
  \A s, q \in Slots :
    (s # q /\ call[s].at \in SendSteps /\ call[q].at \in SendSteps
       /\ call[s].me = call[q].me /\ call[s].to = call[q].to) => rushed

\* A send that has inserted its message knows a row with its own arguments.
Wrote(s) ==
  /\ call[s].wrote \in Messages
  /\ message[call[s].wrote].state # "unused"
  /\ message[call[s].wrote].to = call[s].to
  /\ message[call[s].wrote].sender = call[s].me
  /\ call[s].to \in Conversations /\ call[s].me \in Users

Written == \A s \in Slots : call[s].at \in AfterInsert => Wrote(s)

\* Until it reads back, the message is there if its conversation is, and nobody
\* but a rival in flight has sent a later one.
Leads(s) ==
  /\ call[s].to \in conversations => call[s].wrote \in In(call[s].to)
  /\ rushed \/
     \A n \in Messages :
       (message[n].state # "unused" /\ message[n].sender = call[s].me /\ message[n].to = call[s].to) =>
         message[n].born <= message[call[s].wrote].born

Leading == \A s \in Slots : At(s, "send_read") => Leads(s)

\* Nothing has been read back before the read-back.
NothingRead ==
  \A s \in Slots : call[s].at \in {"send_check", "send_insert", "send_read"} => call[s].row = NoMessage

\* The SELECT of line 52 finds a row if there is one.
SomeLatest ==
  \A c \in Conversations, u \in Users :
    (\E m \in In(c) : message[m].sender = u) => Latest(c, u) # {}

Announced(s) ==
  \/ call[s].row = call[s].wrote
  \/ call[s].row = NoMessage /\ call[s].to \notin conversations
  \/ call[s].row # NoMessage /\ (rushed \/ Tied(call[s].wrote))

SendInv ==
  TypeOK /\ Dated /\ Rushing /\ Written /\ Leading /\ NothingRead /\ SomeLatest /\ SendAnnouncesItsOwn

LEMMA AnnouncedEach ==
  SendAnnouncesItsOwn <=> \A s \in Slots : call[s].at \in {"send_touch", "send_sender"} => Announced(s)
BY DEF SendAnnouncesItsOwn, Announced

\* What every step but an INSERT does to the rows.
RowsKept ==
  /\ conversations' \subseteq conversations
  /\ \A m \in Messages :
       /\ message'[m].to = message[m].to /\ message'[m].sender = message[m].sender
       /\ message'[m].born = message[m].born
       /\ message'[m].state = "unused" <=> message[m].state = "unused"
  /\ \A c \in Conversations : In(c)' = In(c) \/ (In(c)' = {} /\ c \notin conversations')

LEMMA StepKeepsRows ==
  ASSUME TypeOK, [Next]_vars, \A s \in Slots : ~SendInsert(s)
  PROVE  RowsKept
<1>1. CASE UNCHANGED <<tables, marked>>
  BY <1>1 DEF RowsKept, tables, In
<1>2. ASSUME NEW s \in Slots, DeleteUpdate(s) PROVE RowsKept
  <2>1. conversations' = conversations
    BY <1>2 DEF DeleteUpdate
  <2> QED BY <1>2, <2>1, DeleteFacts DEF RowsKept
<1>3. ASSUME UNCHANGED <<conversations, message>> PROVE RowsKept
  BY <1>3 DEF RowsKept, In
<1>4. ASSUME NEW c \in Conversations, DeleteConversation(c) PROVE RowsKept
  <2>1. conversations' = conversations \ {c}
    BY <1>4 DEF DeleteConversation, Table!Close
  <2>2. /\ \A m \in Messages :
              /\ message'[m].to = message[m].to /\ message'[m].sender = message[m].sender
              /\ message'[m].born = message[m].born
              /\ m \in In(c) => message[m].state # "unused" /\ message'[m].state = "gone"
              /\ m \notin In(c) => message'[m].state = message[m].state
        /\ In(c)' = {}
        /\ \A d \in Conversations \ {c} : In(d)' = In(d)
    BY <1>4, CascadeFacts
  <2>3. \A m \in Messages : message'[m].state = "unused" <=> message[m].state = "unused"
    <3> TAKE m \in Messages
    <3>1. CASE m \in In(c)
      BY <2>2, <3>1
    <3>2. CASE m \notin In(c)
      BY <2>2, <3>2
    <3> QED BY <3>1, <3>2
  <2>4. \A d \in Conversations : In(d)' = In(d) \/ (In(d)' = {} /\ d \notin conversations')
    BY <2>1, <2>2
  <2> QED BY <2>1, <2>2, <2>3, <2>4 DEF RowsKept
<1>5. CASE Tick
  BY <1>5 DEF RowsKept, Tick, In
<1>6. CASE \/ \E c \in Conversations, u \in Users : Read(c, u) \/ Leave(c, u)
           \/ \E c \in Conversations, joining \in SUBSET Users : Join(c, joining)
  BY <1>3, <1>6 DEF Read, Leave, Join, Table!Depart, Table!Admit
<1> QED BY <1>1, <1>2, <1>4, <1>5, <1>6, Effects

LEMMA KeptLatest ==
  ASSUME SomeLatest, RowsKept
  PROVE  SomeLatest'
<1> SUFFICES ASSUME NEW c \in Conversations, NEW u \in Users, NEW m \in In(c)', message'[m].sender = u
             PROVE  Latest(c, u)' # {}
  BY DEF SomeLatest
<1>1. In(c)' = In(c) /\ In(c) \subseteq Messages
  BY DEF RowsKept, In
<1>2. message[m].sender = u
  BY <1>1 DEF RowsKept
<1>3. PICK n \in In(c) : n \in Latest(c, u)
  BY <1>1, <1>2 DEF SomeLatest, Latest
<1>4. n \in Latest(c, u)'
  BY <1>1, <1>3 DEF Latest, RowsKept
<1> QED BY <1>4

\* A handler that a step leaves where it is keeps what it knows.
LEMMA KeptHandler ==
  ASSUME RowsKept, rushed => rushed', NEW q \in Slots, Wrote(q),
         call'[q].at = call[q].at, call'[q].me = call[q].me, call'[q].to = call[q].to,
         call'[q].wrote = call[q].wrote, call'[q].row = call[q].row
  PROVE  /\ Wrote(q)'
         /\ Leads(q) => Leads(q)'
         /\ Announced(q) => Announced(q)'
<1>1. Wrote(q)'
  BY DEF Wrote, RowsKept
<1>2. ASSUME Leads(q) PROVE Leads(q)'
  <2>1. call[q].to \in conversations' => call[q].wrote \in In(call[q].to)'
    BY <1>2 DEF Leads, RowsKept, Wrote, In
  <2>2. ASSUME ~rushed, NEW n \in Messages, message'[n].state # "unused",
               message'[n].sender = call[q].me, message'[n].to = call[q].to
        PROVE  message'[n].born <= message'[call[q].wrote].born
    BY <1>2, <2>2 DEF Leads, RowsKept, Wrote
  <2> QED BY <2>1, <2>2 DEF Leads
<1>3. ASSUME Announced(q) PROVE Announced(q)'
  <2>1. Tied(call[q].wrote) => Tied(call[q].wrote)'
    BY DEF Tied, RowsKept, Wrote
  <2> QED BY <1>3, <2>1 DEF Announced, RowsKept
<1> QED BY <1>1, <1>2, <1>3

\* What the read-back of line 52 returns.
LEMMA ReadBackAnnounces ==
  ASSUME SendInv, NEW s \in Slots, SendReadBack(s), call'[s].at = "send_touch"
  PROVE  Wrote(s)' /\ Announced(s)'
<1> DEFINE c == call[s].to
           u == call[s].me
           w == call[s].wrote
<1> USE DEF SendInv
<1>1. /\ call \in [Slots -> {Idle} \cup Handlers] /\ call[s] \in Handlers
      /\ UNCHANGED <<tables, rushed>>
  BY InFlight DEF SendReadBack, At, Steps, SendSteps, TypeOK
<1>2. Wrote(s) /\ Leads(s)
  BY DEF SendReadBack, Written, Leading, At, AfterInsert
<1>3. ASSUME NEW m \in Latest(c, u), call' = [call EXCEPT ![s].at = "send_touch", ![s].row = m]
      PROVE  Wrote(s)' /\ Announced(s)'
  <2>1. call' = [call EXCEPT ![s] = [call[s] EXCEPT !.at = "send_touch", !.row = m]]
    BY <1>3
  <2>2. call'[s] = [call[s] EXCEPT !.at = "send_touch", !.row = m]
    BY <1>1, <2>1
  <2>3. call'[s].me = u /\ call'[s].to = c /\ call'[s].wrote = w /\ call'[s].row = m
    BY <1>1, <2>2 DEF Handlers
  <2>4. /\ m \in In(c) /\ m \in Messages /\ message[m].sender = u /\ message[m].to = c
        /\ message[m].state # "unused" /\ m # NoMessage /\ c \in conversations
    BY MessagesAssumption DEF Latest, In, Dated
  <2>5. rushed \/ m = w \/ Tied(w)
    <3> SUFFICES ASSUME ~rushed, m # w PROVE Tied(w)
      OBVIOUS
    <3>1. w \in In(c) /\ w \in Messages /\ message[w].sender = u /\ message[w].to = c
      BY <1>2, <2>4 DEF Leads, Wrote
    <3>2. message[w].born <= message[m].born
      BY <3>1 DEF Latest
    <3>3. message[m].born <= message[w].born
      BY <1>2, <2>4 DEF Leads
    <3>4. message[m].born \in Nat /\ message[w].born \in Nat
      BY <2>4, <3>1, Numbers
    <3>5. message[m].born = message[w].born
      BY <3>2, <3>3, <3>4
    <3> QED BY <2>4, <3>1, <3>5 DEF Tied
  <2>6. Wrote(s)'
    BY <1>1, <1>2, <2>3 DEF Wrote, tables
  <2>7. Tied(w) => Tied(call[s].wrote)'
    BY <1>1, <2>3 DEF Tied, tables
  <2> QED BY <1>1, <2>3, <2>4, <2>5, <2>6, <2>7 DEF Announced
<1>4. ASSUME Latest(c, u) = {}, Await(s, "send_touch")
      PROVE  Wrote(s)' /\ Announced(s)'
  <2>1. call' = [call EXCEPT ![s] = [call[s] EXCEPT !.at = "send_touch"]]
    BY <1>4 DEF Await
  <2>2. call'[s] = [call[s] EXCEPT !.at = "send_touch"]
    BY <1>1, <2>1
  <2>3. call'[s].me = u /\ call'[s].to = c /\ call'[s].wrote = w /\ call'[s].row = call[s].row
    BY <1>1, <2>2 DEF Handlers
  <2>4. c \notin conversations
    <3> SUFFICES ASSUME c \in conversations PROVE FALSE
      OBVIOUS
    <3>1. w \in In(c) /\ message[w].sender = u /\ c \in Conversations /\ u \in Users
      BY <1>2 DEF Leads, Wrote
    <3> QED BY <1>4, <3>1 DEF SomeLatest
  <2>5. call[s].row = NoMessage
    BY DEF NothingRead, SendReadBack, At
  <2> QED BY <1>1, <1>2, <2>3, <2>4, <2>5 DEF Announced, Wrote, tables
<1>5. ~End(s)
  BY <1>1 DEF End, Idle
<1> QED BY <1>3, <1>4, <1>5 DEF SendReadBack

LEMMA InitSends == Init => SendInv
<1> SUFFICES ASSUME Init PROVE SendInv
  OBVIOUS
<1>1. TypeOK /\ Dated
  BY InitTypes, InitReads
<1>2. \A s \in Slots : call[s].at = "idle"
  BY DEF Init, Idle
<1>3. Rushing /\ Written /\ Leading /\ NothingRead /\ SendAnnouncesItsOwn
  BY <1>2 DEF Rushing, Written, Leading, NothingRead, SendAnnouncesItsOwn, SendSteps, AfterInsert, At
<1>4. SomeLatest
  BY DEF Init, SomeLatest, In, Blank
<1> QED BY <1>1, <1>3, <1>4 DEF SendInv

\* A step on a slot: what the handlers in the slots, old and new, have in common.
LEMMA NextRushing ==
  ASSUME TypeOK, Rushing, [Next]_vars
  PROVE  Rushing' /\ (rushed => rushed')
<1>1. ASSUME call' = call, rushed' = rushed PROVE Rushing' /\ (rushed => rushed')
  BY <1>1 DEF Rushing
<1>2. ASSUME NEW s \in Slots, Request(s) \/ Statement(s) \/ Fail(s)
      PROVE  Rushing' /\ (rushed => rushed')
  <2>1. rushed => rushed'
    <3>1. CASE Request(s)
      BY <3>1, RequestShape
    <3>2. CASE Statement(s)
      BY <3>2 DEF Statement, SendCheck, SendInsert, SendReadBack, SendTouch, SendEmit, DeleteFind,
                  DeleteUpdate, MarkFind, MarkUpdate, DetailCheck, UpdateLastReadAt, DetailRead,
                  OfflineMark
    <3> QED BY <1>2, <3>1, <3>2 DEF Fail
  <2>2. \A q \in Slots \ {s} : call'[q] = call[q]
    BY <1>2, OthersWait
  <2>3. ASSUME NEW q \in Slots \ {s}, call'[s].at \in SendSteps, call[q].at \in SendSteps,
               call'[s].me = call[q].me, call'[s].to = call[q].to
        PROVE  rushed'
    <3>1. CASE Request(s)
      BY <2>3, <3>1, RequestShape
    <3>2. CASE Statement(s) \/ Fail(s)
      <4>1. call'[s].at # "idle"
        BY <2>3 DEF SendSteps
      <4>2. call'[s].me = call[s].me /\ call'[s].to = call[s].to /\ call[s].at \in SendSteps
        BY <2>3, <3>2, <4>1, SlotShape
      <4> QED BY <2>1, <2>3, <4>2 DEF Rushing
    <3> QED BY <1>2, <3>1, <3>2
  <2>4. Rushing'
    <3> SUFFICES ASSUME NEW p \in Slots, NEW q \in Slots, p # q,
                        call'[p].at \in SendSteps, call'[q].at \in SendSteps,
                        call'[p].me = call'[q].me, call'[p].to = call'[q].to
                 PROVE  rushed'
      BY DEF Rushing
    <3>1. CASE p # s /\ q # s
      BY <2>1, <2>2, <3>1 DEF Rushing
    <3>2. CASE p = s
      BY <2>2, <2>3, <3>2
    <3>3. CASE q = s
      BY <2>2, <2>3, <3>3
    <3> QED BY <3>1, <3>2, <3>3
  <2> QED BY <2>1, <2>4
<1>3. ASSUME NEW c, NEW lost, Oust(c, lost), rushed' = rushed
      PROVE  Rushing' /\ (rushed => rushed')
  <2>1. \A q \in Slots : call'[q].at = call[q].at /\ call'[q].me = call[q].me /\ call'[q].to = call[q].to
    BY <1>3, OustFacts
  <2> QED BY <1>3, <2>1 DEF Rushing
<1>4. CASE Membership
  BY <1>1, <1>3, <1>4 DEF Membership, Join, Leave, DeleteConversation
<1>5. CASE Tick \/ UNCHANGED vars
  BY <1>1, <1>5 DEF Tick, vars
<1> QED BY <1>2, <1>4, <1>5 DEF Next

LEMMA NextNothingRead ==
  ASSUME TypeOK, NothingRead, [Next]_vars
  PROVE  NothingRead'
<1> SUFFICES ASSUME NEW q \in Slots, call'[q].at \in {"send_check", "send_insert", "send_read"}
             PROVE  call'[q].row = NoMessage
  BY DEF NothingRead
<1>1. CASE call'[q].at = call[q].at /\ call'[q].row = call[q].row
  BY <1>1 DEF NothingRead
<1>2. ASSUME NEW s \in Slots, Request(s) \/ Statement(s) \/ Fail(s)
      PROVE  call'[q].row = NoMessage
  <2>1. CASE q # s
    BY <1>1, <1>2, <2>1, OthersWait
  <2>2. CASE q = s /\ Request(s)
    BY <2>2, RequestShape
  <2>3. CASE q = s /\ (Statement(s) \/ Fail(s))
    <3>1. call'[s].row = call[s].row /\ call[s].at \in {"send_check", "send_insert"}
      BY <2>3, SlotShape DEF SendCheck, SendInsert, At
    <3> QED BY <2>3, <3>1 DEF NothingRead
  <2> QED BY <1>2, <2>1, <2>2, <2>3
<1>3. CASE Membership
  <2>1. ASSUME NEW c, NEW lost, Oust(c, lost) PROVE call'[q].row = NoMessage
    BY <1>1, <2>1, OustFacts
  <2> QED BY <1>1, <1>3, <2>1 DEF Membership, Join, Leave, DeleteConversation
<1>4. CASE Tick \/ UNCHANGED vars
  BY <1>1, <1>4 DEF Tick, vars
<1> QED BY <1>2, <1>3, <1>4 DEF Next

\* The INSERT of line 45: the new row leads, and whoever is in flight with the same
\* arguments is a rival.
LEMMA InsertSends ==
  ASSUME SendInv, NEW s \in Slots, SendInsert(s), NEW m \in Messages, Inserts(s, m)
  PROVE  Written' /\ Leading' /\ SomeLatest' /\ SendAnnouncesItsOwn'
<1> DEFINE c == call[s].to
           u == call[s].me
<1> USE DEF SendInv
<1>1. /\ message'[m].state = "live" /\ message'[m].to = c /\ message'[m].sender = u /\ message'[m].born = now
      /\ \A n \in Messages \ {m} : message'[n] = message[n]
      /\ \A d \in Conversations : d # c => In(d)' = In(d)
      /\ \A q \in Slots \ {s} : call'[q] = call[q]
      /\ call'[s].at = "send_read" /\ call'[s].wrote = m /\ call'[s].me = u /\ call'[s].to = c
      /\ u \in Users
  BY InsertFacts DEF SendInsert
<1>2. /\ c \in conversations /\ c \in Conversations /\ message[m].state = "unused"
      /\ UNCHANGED <<conversations, now, rushed>>
  BY DEF Inserts, SendInsert, TypeOK
<1>3. In(c)' = In(c) \cup {m} /\ m \notin In(c) /\ In(c) \subseteq Messages
  <2>1. \A n \in Messages : n \in In(c)' <=> (message'[n].state \in {"live", "deleted"} /\ message'[n].to = c)
    BY <1>1 DEF In
  <2> QED BY <1>1, <1>2, <2>1 DEF In
<1>4. now \in Nat /\ now <= now /\ \A n \in Messages : message'[n].born <= now
  BY <1>1, Numbers DEF Dated
<1>5. Wrote(s)' /\ Leads(s)'
  <2>1. Wrote(s)'
    BY <1>1, <1>2 DEF Wrote
  <2>2. m \in In(c)'
    BY <1>3
  <2>3. call'[s].wrote \in In(call[s].to)'
    BY <1>1, <2>2 DEF In
  <2>4. \A n \in Messages : message'[n].born <= message'[call'[s].wrote].born
    BY <1>1, <1>4
  <2> QED BY <2>1, <2>3, <2>4 DEF Leads
<1>6. ASSUME NEW q \in Slots \ {s}, call[q].at \in AfterInsert
      PROVE  /\ Wrote(q)'
             /\ At(q, "send_read") => Leads(q)'
             /\ call[q].at \in {"send_touch", "send_sender"} => Announced(q)'
  <2> DEFINE w == call[q].wrote
  <2>1. Wrote(q) /\ w # m /\ message'[w] = message[w] /\ call'[q] = call[q] /\ w \in Messages
    BY <1>1, <1>2, <1>6 DEF Written, Wrote
  <2>2. Wrote(q)'
    BY <2>1 DEF Wrote
  <2>3. ASSUME At(q, "send_read") PROVE Leads(q)'
    <3>1. Leads(q)
      BY <2>3 DEF Leading
    <3>2. call[q].to \in conversations => w \in In(call[q].to)'
      BY <2>1, <3>1 DEF Leads, In
    <3>3. ASSUME ~rushed, NEW n \in Messages, message'[n].state # "unused",
                 message'[n].sender = call[q].me, message'[n].to = call[q].to
          PROVE  message'[n].born <= message'[w].born
      <4>1. n # m
        <5>1. call[s].at \in SendSteps /\ call[q].at \in SendSteps
          BY <1>6 DEF SendInsert, At, SendSteps, AfterInsert
        <5> QED BY <1>1, <3>3, <5>1 DEF Rushing
      <4> QED BY <1>1, <2>1, <3>1, <3>3, <4>1 DEF Leads
    <3> QED BY <1>2, <2>1, <3>2, <3>3 DEF Leads
  <2>4. ASSUME call[q].at \in {"send_touch", "send_sender"} PROVE Announced(q)'
    <3>1. Announced(q)
      BY <2>4, AnnouncedEach
    <3>2. Tied(w) => Tied(w)'
      <4> SUFFICES ASSUME NEW n \in Messages \ {w}, message[n].state # "unused", message[n].born = message[w].born,
                          message[n].sender = message[w].sender, message[n].to = message[w].to
                   PROVE  Tied(w)'
        BY DEF Tied
      <4>1. message'[n] = message[n]
        BY <1>1, <1>2
      <4> QED BY <2>1, <4>1 DEF Tied
    <3> QED BY <1>2, <2>1, <3>1, <3>2 DEF Announced
  <2> QED BY <2>2, <2>3, <2>4
<1>7. Written' /\ Leading'
  BY <1>1, <1>5, <1>6 DEF Written, Leading, At, AfterInsert
<1>8. SendAnnouncesItsOwn'
  <2> SUFFICES ASSUME NEW q \in Slots, call'[q].at \in {"send_touch", "send_sender"}
               PROVE  Announced(q)'
    BY DEF SendAnnouncesItsOwn, Announced
  <2>1. q # s /\ call'[q] = call[q]
    BY <1>1
  <2> QED BY <1>6, <2>1 DEF AfterInsert
<1>9. SomeLatest'
  <2> SUFFICES ASSUME NEW d \in Conversations, NEW v \in Users, NEW n \in In(d)', message'[n].sender = v
               PROVE  Latest(d, v)' # {}
    BY DEF SomeLatest
  <2>1. CASE d = c /\ v = u
    <3>1. \A k \in In(d)' : message'[k].born <= message'[m].born
      BY <1>1, <1>3, <1>4, <2>1
    <3>2. m \in In(d)'
      <4>1. d = call[s].to
        BY <2>1
      <4>2. message'[m].state \in {"live", "deleted"} /\ message'[m].to = d
        BY <1>1, <4>1
      <4> QED BY <4>2 DEF In
    <3>3. m \in Latest(d, v)'
      BY <1>1, <2>1, <3>1, <3>2 DEF Latest
    <3> QED BY <3>3
  <2>2. CASE ~(d = c /\ v = u)
    <3>1. \A k \in Messages : (message'[k].sender = v /\ k \in In(d)') <=> (message[k].sender = v /\ k \in In(d))
      <4> TAKE k \in Messages
      <4>1. CASE k = m
        BY <1>1, <1>2, <2>2, <4>1 DEF In
      <4>2. CASE k # m
        BY <1>1, <4>2 DEF In
      <4> QED BY <4>1, <4>2
    <3>2. n \in Messages /\ In(d) \subseteq Messages /\ In(d)' \subseteq Messages
      BY DEF In
    <3>3. PICK k \in Messages : k \in Latest(d, v)
      BY <2>2, <3>1, <3>2 DEF SomeLatest, Latest
    <3>4. k # m /\ \A j \in Messages : (j \in In(d) /\ message[j].sender = v) => j # m
      BY <1>2, <3>3 DEF Latest, In
    <3>5. k \in Latest(d, v)'
      BY <1>1, <3>1, <3>2, <3>3, <3>4 DEF Latest
    <3> QED BY <3>5
  <2> QED BY <2>1, <2>2
<1> QED BY <1>7, <1>8, <1>9

\* Every other step.
LEMMA OtherSends ==
  ASSUME SendInv, [Next]_vars, RowsKept, rushed => rushed', NEW q \in Slots,
         call'[q].at \in AfterInsert, ~SendInsert(q)
  PROVE  /\ Wrote(q)'
         /\ At(q, "send_read")' => Leads(q)'
         /\ call'[q].at \in {"send_touch", "send_sender"} => Announced(q)'
<1> DEFINE Same == /\ call'[q].at = call[q].at /\ call'[q].me = call[q].me /\ call'[q].to = call[q].to
                   /\ call'[q].wrote = call[q].wrote /\ call'[q].row = call[q].row
           Goal == /\ Wrote(q)'
                   /\ At(q, "send_read")' => Leads(q)'
                   /\ call'[q].at \in {"send_touch", "send_sender"} => Announced(q)'
<1> USE DEF SendInv
<1>1. ASSUME Same PROVE Goal
  <2>1. Wrote(q)
    BY <1>1 DEF Written
  <2>2. /\ Wrote(q)'
        /\ Leads(q) => Leads(q)'
        /\ Announced(q) => Announced(q)'
    BY <1>1, <2>1, KeptHandler
  <2>3. At(q, "send_read")' => Leads(q)
    BY <1>1 DEF Leading, At
  <2>4. call'[q].at \in {"send_touch", "send_sender"} => Announced(q)
    BY <1>1, AnnouncedEach
  <2> QED BY <2>2, <2>3, <2>4
<1>2. ASSUME NEW s \in Slots, Request(s) \/ Statement(s) \/ Fail(s) PROVE Goal
  <2>1. CASE q # s
    BY <1>1, <1>2, <2>1, OthersWait
  <2>2. CASE q = s /\ Request(s)
    BY <2>2, RequestShape
  <2>3. CASE q = s /\ (Statement(s) \/ Fail(s))
    <3>1. /\ call'[q].me = call[q].me /\ call'[q].to = call[q].to
          /\ call'[q].at = "send_read" => SendInsert(q)
          /\ call'[q].at = "send_touch" => SendReadBack(q)
          /\ call'[q].at = "send_sender" =>
               SendTouch(q) /\ call'[q].wrote = call[q].wrote /\ call'[q].row = call[q].row
      BY <2>3, SlotShape DEF AfterInsert
    <3>2. CASE call'[q].at = "send_touch"
      BY <3>1, <3>2, ReadBackAnnounces DEF At
    <3>3. CASE call'[q].at = "send_sender"
      <4>1. /\ call[q].at = "send_touch" /\ UNCHANGED <<tables, rushed>>
            /\ call'[q].me = call[q].me /\ call'[q].to = call[q].to
            /\ call'[q].wrote = call[q].wrote /\ call'[q].row = call[q].row
        BY <3>1, <3>3 DEF SendTouch, At
      <4>2. Wrote(q) /\ Announced(q)
        BY <4>1, AnnouncedEach DEF Written, AfterInsert
      <4>3. Wrote(q)' /\ Announced(q)'
        BY <4>1, <4>2 DEF Wrote, Announced, Tied, tables
      <4> QED BY <3>3, <4>3 DEF At
    <3> QED BY <3>1, <3>2, <3>3 DEF AfterInsert
  <2> QED BY <1>2, <2>1, <2>2, <2>3
<1>3. CASE Membership
  <2>1. ASSUME NEW c, NEW lost, Oust(c, lost) PROVE Goal
    BY <1>1, <2>1, OustFacts
  <2> QED BY <1>1, <1>3, <2>1 DEF Membership, Join, Leave, DeleteConversation
<1>4. CASE Tick \/ UNCHANGED vars
  BY <1>1, <1>4 DEF Tick, vars
<1> QED BY <1>2, <1>3, <1>4 DEF Next

LEMMA NextSends == SendInv /\ Dated' /\ [Next]_vars => SendInv'
<1> SUFFICES ASSUME SendInv, Dated', [Next]_vars PROVE SendInv'
  OBVIOUS
<1> USE DEF SendInv
<1>1. TypeOK' /\ Rushing' /\ NothingRead' /\ (rushed => rushed')
  BY NextTypes, NextRushing, NextNothingRead
<1>2. ASSUME NEW s \in Slots, SendInsert(s), NEW m \in Messages, Inserts(s, m)
      PROVE  Written' /\ Leading' /\ SomeLatest' /\ SendAnnouncesItsOwn'
  BY <1>2, InsertSends
<1>3. ASSUME RowsKept, \A q \in Slots : call'[q].at \in AfterInsert => ~SendInsert(q)
      PROVE  Written' /\ Leading' /\ SomeLatest' /\ SendAnnouncesItsOwn'
  <2>1. SomeLatest'
    BY <1>3, KeptLatest
  <2>2. \A q \in Slots : call'[q].at \in AfterInsert =>
          /\ Wrote(q)'
          /\ At(q, "send_read")' => Leads(q)'
          /\ call'[q].at \in {"send_touch", "send_sender"} => Announced(q)'
    BY <1>1, <1>3, OtherSends
  <2>3. Written' /\ Leading'
    BY <2>2 DEF Written, Leading, At, AfterInsert
  <2>4. SendAnnouncesItsOwn'
    BY <2>2 DEF SendAnnouncesItsOwn, Announced, AfterInsert
  <2> QED BY <2>1, <2>3, <2>4
<1>4. CASE \A s \in Slots : ~SendInsert(s)
  BY <1>1, <1>3, <1>4, StepKeepsRows
<1>5. ASSUME NEW s \in Slots, SendInsert(s), End(s), UNCHANGED message
      PROVE  Written' /\ Leading' /\ SomeLatest' /\ SendAnnouncesItsOwn'
  <2>1. RowsKept
    BY <1>5 DEF SendInsert, RowsKept, In
  <2>2. \A q \in Slots \ {s} : call'[q] = call[q]
    BY <1>5 DEF End, TypeOK
  <2>3. call'[s].at \notin AfterInsert
    BY <1>5 DEF End, TypeOK, Idle, AfterInsert
  <2>4. \A q \in Slots : call'[q].at \in AfterInsert => ~SendInsert(q)
    BY <2>2, <2>3 DEF SendInsert, At, AfterInsert
  <2> QED BY <1>3, <2>1, <2>4
<1>6. Written' /\ Leading' /\ SomeLatest' /\ SendAnnouncesItsOwn'
  BY <1>2, <1>4, <1>5, InsertCases
<1> QED BY <1>1, <1>6

\* A send returns and announces the message it has inserted, unless its user sent
\* another one in the same second or at the same time, and nothing only if the
\* conversation was deleted.
THEOREM SendsAnnounceTheirOwn == Spec => []SendAnnouncesItsOwn
<1>1. Init => ReadInv /\ SendInv
  BY InitTypes, InitReads, InitSends DEF ReadInv
<1>2. ReadInv /\ SendInv /\ [Next]_vars => (ReadInv /\ SendInv)'
  BY NextReads, NextSends DEF ReadInv
<1>3. SendInv => SendAnnouncesItsOwn
  BY DEF SendInv
<1> QED BY <1>1, <1>2, <1>3, PTL DEF Spec

------------------------------------------------------------------------------
(* The tables that ConversationsService writes.                            *)

LEMMA TableStep ==
  ASSUME TypeOK, [Next]_vars
  PROVE  [Table!Next]_Table!tableVars
<1> USE DEF Table!tableVars
<1>1. CASE UNCHANGED <<tables, marked>>
  BY <1>1 DEF tables
<1>2. ASSUME NEW s \in Slots, SendInsert(s) \/ DeleteUpdate(s)
      PROVE  UNCHANGED <<conversations, members>>
  BY <1>2 DEF SendInsert, DeleteUpdate
<1>3. ASSUME NEW c, NEW u, Read(c, u)
      PROVE  UNCHANGED <<conversations, members>>
  BY <1>3 DEF Read
<1>4. ASSUME NEW c \in Conversations, NEW joining \in SUBSET Users, Join(c, joining)
      PROVE  Table!Next
  BY <1>4 DEF Join, Table!Next
<1>5. ASSUME NEW c \in Conversations, NEW u \in Users, Leave(c, u)
      PROVE  Table!Next
  BY <1>5 DEF Leave, Table!Next
<1>6. ASSUME NEW c \in Conversations, DeleteConversation(c)
      PROVE  Table!Next
  BY <1>6 DEF DeleteConversation, Table!Next
<1>7. CASE Tick
  BY <1>7 DEF Tick
<1> QED BY <1>1, <1>2, <1>3, <1>4, <1>5, <1>6, <1>7, Effects

\* The tables of conversations and members behave, under Messages, as ConversationsService
\* makes them behave (ConversationsProofs, ConversationsImplementTable): the handlers of
\* messages write neither, and their surroundings do nothing else to them.
THEOREM MessagesKeepToTable == Spec => AssumesTable
<1>1. Init => Table!Init
  BY DEF Init, Table!Init, Pairs
<1>2. TypeOK /\ [Next]_vars => [Table!Next]_Table!tableVars
  BY TableStep
<1> QED BY <1>1, <1>2, TypeCorrect, PTL DEF Spec, AssumesTable, Table!Spec
==============================================================================
