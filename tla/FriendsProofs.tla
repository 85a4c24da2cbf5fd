---------------------------- MODULE FriendsProofs ----------------------------
(***************************************************************************)
(* Proofs about Friends for every set of users and every number of         *)
(* concurrent requests.  The invariants of the component are not inductive *)
(* on their own: AcceptInsert creates a friendship because of something a  *)
(* statement of the same handler found out two awaits ago.  InFlight says  *)
(* what a handler still knows at each of its statements.                   *)
(***************************************************************************)
EXTENDS Friends, TLAPS

Settled == {"accepted", "rejected"}

\* What the earlier statements of the handler in slot p have established and
\* no other handler can take back.
InFlight(p) ==
  call[p] # Idle =>
    LET r == <<call[p].peer, call[p].me>> IN
    /\ call[p].me # call[p].peer
    /\ call[p].at \in {"accept_update", "accept_insert"} => r \in consented
    /\ call[p].at = "accept_insert" => requests[r] \in Settled
    /\ call[p].at = "reject_update" => requests[r] # "none"

\* Consent is given to a request that exists.
ConsentToRequest == \A r \in consented : r \in Pairs /\ requests[r] # "none"

IInv ==
  /\ TypeOK
  /\ FriendshipMutual
  /\ FriendsConsented
  /\ ConsentToRequest
  /\ \A p \in Slots : InFlight(p)

(* A handler step writes no status but those of a request that exists, and *)
(* moves it forward only.                                                  *)
Forward == \A r \in Pairs : requests'[r] # requests[r] =>
             IF requests[r] = "none" THEN requests'[r] = "pending"
                                     ELSE requests'[r] \in Settled

------------------------------------------------------------------------------

USE DEF Settled

\* The steps name different statements and none of them is "idle".
LEMMA StepNames == "idle" \notin Steps
  BY DEF Steps, SendSteps, AcceptSteps, RejectSteps, DeleteSteps

\* The variables always hold values of the declared types.
LEMMA TypeStep ==
  ASSUME TypeOK, [Next]_vars
  PROVE  TypeOK'
<1> DEFINE Typed == /\ friendships \subseteq Users \X Users
                   /\ requests \in [Pairs -> RequestStatus]
                   /\ call \in [Slots -> {Idle} \cup Handlers]
                   /\ reply \in Replies
                   /\ consented \subseteq Users \X Users
<1> USE FriendsAssumption DEF TypeOK, Handlers, Replies, Idle, NoReply, Results, Steps,
        SendSteps, AcceptSteps, RejectSteps, DeleteSteps
<1>1. ASSUME NEW p \in Slots, NEW u \in Users, NEW f \in Users, NEW step \in Steps,
             Begin(p, step, u, f), UNCHANGED <<friendships, requests, consented>>
      PROVE  Typed'
  BY <1>1 DEF Begin
<1>2. ASSUME NEW p \in Slots, Request(p)
      PROVE  Typed'
  BY <1>1, <1>2 DEF Request, SendFriendRequest, AcceptFriendRequest,
                    RejectFriendRequest, DeleteFriend
<1>3. ASSUME NEW p \in Slots, call[p] # Idle, NEW step \in Steps, Await(p, step)
      PROVE  call' \in [Slots -> {Idle} \cup Handlers] /\ reply' \in Replies
  BY <1>3 DEF Await
<1>4. ASSUME NEW p \in Slots, call[p] # Idle, NEW result \in Results, Return(p, result)
      PROVE  call' \in [Slots -> {Idle} \cup Handlers] /\ reply' \in Replies
  BY <1>4 DEF Return
<1>5. ASSUME NEW p \in Slots, Statement(p)
      PROVE  Typed'
  <2>1. ASSUME NEW step \in Steps, At(p, step)
        PROVE  call[p] # Idle /\ call[p] \in Handlers
    BY <2>1, StepNames DEF At
  <2>2. CASE SendFindUser(p)
    BY <2>1, <2>2, <1>3, <1>4 DEF SendFindUser
  <2>3. CASE SendFindFriendship(p)
    BY <2>1, <2>3, <1>3, <1>4 DEF SendFindFriendship
  <2>4. CASE SendFindRequest(p)
    BY <2>1, <2>4, <1>3, <1>4 DEF SendFindRequest
  <2>5. CASE SendInsert(p)
    BY <2>1, <2>5, <1>3, <1>4 DEF SendInsert, RequestStatus
  <2>6. CASE SendReadBack(p)
    BY <2>1, <2>6, <1>3, <1>4 DEF SendReadBack
  <2>7. CASE AcceptFind(p)
    BY <2>1, <2>7, <1>3, <1>4 DEF AcceptFind
  <2>8. CASE AcceptUpdate(p)
    BY <2>1, <2>8, <1>3, <1>4 DEF AcceptUpdate, RequestStatus
  <2>9. CASE AcceptInsert(p)
    BY <2>1, <2>9, <1>3, <1>4 DEF AcceptInsert, Between
  <2>10. CASE RejectFind(p)
    BY <2>1, <2>10, <1>3, <1>4 DEF RejectFind
  <2>11. CASE RejectUpdate(p)
    BY <2>1, <2>11, <1>3, <1>4 DEF RejectUpdate, RequestStatus
  <2>12. CASE DeleteFind(p)
    BY <2>1, <2>12, <1>3, <1>4 DEF DeleteFind
  <2>13. CASE DeleteRows(p)
    BY <2>1, <2>13, <1>3, <1>4 DEF DeleteRows
  <2>14. QED
    BY <1>5, <2>2, <2>3, <2>4, <2>5, <2>6, <2>7, <2>8, <2>9, <2>10, <2>11, <2>12, <2>13
       DEF Statement
<1>6. ASSUME NEW p \in Slots, Fail(p)
      PROVE  Typed'
  BY <1>6, <1>4 DEF Fail
<1>7. CASE UNCHANGED vars
  BY <1>7 DEF vars
<1>8. Typed'
  BY <1>2, <1>5, <1>6, <1>7 DEF Next, Step
<1>9. crossed' \subseteq Pairs /\ contested' \subseteq Pairs
  BY DEF Next, Crossing, Contending, vars
<1>10. QED
  BY <1>8, <1>9


(* What one step does to the rows of friend_requests.                      *)
LEMMA ForwardStep ==
  ASSUME IInv, [Next]_vars
  PROVE  Forward
<1> USE DEF Forward
<1>1. ASSUME NEW p \in Slots, AcceptUpdate(p)
      PROVE  Forward
  <2>1. requests[<<call[p].peer, call[p].me>>] # "none"
    BY <1>1, StepNames DEF AcceptUpdate, IInv, InFlight, ConsentToRequest, At, Idle
  <2>2. QED
    BY <1>1, <2>1 DEF AcceptUpdate, IInv, TypeOK
<1>2. ASSUME NEW p \in Slots, RejectUpdate(p)
      PROVE  Forward
  <2>1. requests[<<call[p].peer, call[p].me>>] # "none"
    BY <1>2, StepNames DEF RejectUpdate, IInv, InFlight, At, Idle
  <2>2. QED
    BY <1>2, <2>1 DEF RejectUpdate, IInv, TypeOK
<1>3. ASSUME NEW p \in Slots, SendInsert(p)
      PROVE  Forward
  BY <1>3 DEF SendInsert, IInv, TypeOK
<1>4. ASSUME UNCHANGED requests
      PROVE  Forward
  BY <1>4
<1>5. QED
  BY <1>1, <1>2, <1>3, <1>4
     DEF Next, Step, Request, Statement, Fail, SendFriendRequest, AcceptFriendRequest,
         RejectFriendRequest, DeleteFriend, SendFindUser, SendFindFriendship,
         SendFindRequest, SendReadBack, AcceptFind, AcceptInsert, RejectFind,
         DeleteFind, DeleteRows, vars

\* Consent is only ever added, and only to a request that exists.
LEMMA ConsentStep ==
  ASSUME IInv, [Next]_vars
  PROVE  consented \subseteq consented' /\ ConsentToRequest'
<1>1. \A r \in Pairs : requests[r] # "none" => requests'[r] # "none"
  BY ForwardStep DEF Forward
<1>2. ASSUME NEW p \in Slots, AcceptFind(p)
      PROVE  consented \subseteq consented' /\ ConsentToRequest'
  <2>1. <<call[p].peer, call[p].me>> \in Pairs
    BY <1>2, StepNames DEF AcceptFind, IInv, TypeOK, InFlight, At, Idle, Handlers, Pairs
  <2>2. QED
    BY <1>1, <1>2, <2>1 DEF AcceptFind, IInv, ConsentToRequest
<1>3. ASSUME UNCHANGED consented
      PROVE  consented \subseteq consented' /\ ConsentToRequest'
  BY <1>1, <1>3 DEF IInv, ConsentToRequest
<1>4. QED
  BY <1>2, <1>3
     DEF Next, Step, Request, Statement, Fail, SendFriendRequest, AcceptFriendRequest,
         RejectFriendRequest, DeleteFriend, SendFindUser, SendFindFriendship,
         SendFindRequest, SendInsert, SendReadBack, AcceptUpdate, AcceptInsert,
         RejectFind, RejectUpdate, DeleteFind, DeleteRows, vars

\* A step moves at most one handler: the others keep what they know.
LEMMA OthersStep ==
  ASSUME IInv, [Next]_vars, NEW q \in Slots, call'[q] = call[q]
  PROVE  InFlight(q)'
<1>1. Forward /\ consented \subseteq consented' /\ InFlight(q)
  BY ForwardStep, ConsentStep DEF IInv
<1>2. CASE call[q] = Idle
  BY <1>2 DEF InFlight
<1>3. CASE call[q] # Idle
  <2>1. <<call[q].peer, call[q].me>> \in Pairs
    BY <1>1, <1>3 DEF IInv, TypeOK, InFlight, Handlers, Pairs
  <2>2. QED
    BY <1>1, <1>3, <2>1 DEF InFlight, Forward
<1>4. QED
  BY <1>2, <1>3

\* The handler that moves knows at its next statement what InFlight says.
LEMMA MoverStep ==
  ASSUME IInv, NEW p \in Slots, Request(p) \/ Statement(p) \/ Fail(p)
  PROVE  InFlight(p)' /\ \A q \in Slots : q # p => call'[q] = call[q]
<1> USE FriendsAssumption DEF IInv, TypeOK, InFlight
<1>0. At(p, "idle") \/ call[p] # Idle
  BY DEF At, Idle
<1>1. ASSUME NEW step \in {"send_user", "accept_find", "reject_find", "delete_find"},
             NEW u \in Users, NEW f \in Users, u # f, Begin(p, step, u, f)
      PROVE  InFlight(p)' /\ \A q \in Slots : q # p => call'[q] = call[q]
  BY <1>1 DEF Begin
<1>2. CASE Request(p)
  BY <1>1, <1>2 DEF Request, SendFriendRequest, AcceptFriendRequest,
                    RejectFriendRequest, DeleteFriend
<1>3. ASSUME NEW result, Return(p, result)
      PROVE  InFlight(p)' /\ \A q \in Slots : q # p => call'[q] = call[q]
  BY <1>3 DEF Return
<1>4. CASE Fail(p)
  BY <1>3, <1>4 DEF Fail
<1>5. ASSUME NEW step \in {"send_friends", "send_request", "send_insert", "send_read",
                           "delete_rows"},
             call[p] # Idle, Await(p, step)
      PROVE  InFlight(p)' /\ \A q \in Slots : q # p => call'[q] = call[q]
  BY <1>5 DEF Await, Handlers
<1>6. CASE Statement(p)
  <2>1. \A step : step \in Steps /\ At(p, step) => call[p] # Idle /\ call[p] \in Handlers
    BY StepNames DEF At, Idle
  <2> USE DEF Steps, SendSteps, AcceptSteps, RejectSteps, DeleteSteps
  <2>2. CASE SendFindUser(p) \/ SendFindFriendship(p) \/ SendFindRequest(p)
             \/ SendInsert(p) \/ DeleteFind(p)
    BY <2>1, <2>2, <1>3, <1>5
       DEF SendFindUser, SendFindFriendship, SendFindRequest, SendInsert, DeleteFind
  <2>3. CASE SendReadBack(p) \/ AcceptInsert(p) \/ RejectUpdate(p) \/ DeleteRows(p)
    BY <2>3, <1>3 DEF SendReadBack, AcceptInsert, RejectUpdate, DeleteRows
  <2>4. CASE AcceptFind(p)
    BY <2>1, <2>4, <1>3 DEF AcceptFind, Await, Handlers
  <2>5. CASE AcceptUpdate(p)
    <3>1. <<call[p].peer, call[p].me>> \in Pairs
      BY <2>1, <2>5 DEF AcceptUpdate, Handlers, Pairs
    <3>2. requests'[<<call[p].peer, call[p].me>>] \in Settled
      BY <3>1, <2>5 DEF AcceptUpdate
    <3>3. QED
      BY <2>1, <2>5, <3>2 DEF AcceptUpdate, Await, Handlers, At
  <2>6. CASE RejectFind(p)
    BY <2>1, <2>6, <1>3 DEF RejectFind, Await, Handlers
  <2>7. QED
    BY <1>6, <2>2, <2>3, <2>4, <2>5, <2>6 DEF Statement
<1>7. QED
  BY <1>2, <1>4, <1>6

\* Friendships are created with a consented, answered request, and the rows of
\* a friendship come and go together.
LEMMA FriendshipStep ==
  ASSUME IInv, [Next]_vars
  PROVE  FriendshipMutual' /\ FriendsConsented'
<1>1. Forward /\ consented \subseteq consented'
  BY ForwardStep, ConsentStep
<1>2. \A s \in consented : s \in Pairs
  BY DEF IInv, ConsentToRequest
<1>3. ASSUME NEW p \in Slots, AcceptInsert(p)
      PROVE  FriendshipMutual' /\ FriendsConsented'
  <2>1. /\ call[p].me # call[p].peer
        /\ <<call[p].peer, call[p].me>> \in consented
        /\ requests[<<call[p].peer, call[p].me>>] \in Settled
    BY <1>3, StepNames DEF AcceptInsert, IInv, InFlight, At, Idle
  <2>2. QED
    BY <1>3, <2>1 DEF AcceptInsert, Between, IInv, FriendshipMutual, FriendsConsented
<1>4. ASSUME NEW p \in Slots, DeleteRows(p)
      PROVE  FriendshipMutual' /\ FriendsConsented'
  <2>1. FriendshipMutual'
    <3>1. \A r \in friendships : r = <<r[1], r[2]>> /\ <<r[2], r[1]>> \in friendships
      <4>1. \A r \in Users \X Users : r = <<r[1], r[2]>>
        OBVIOUS
      <4>2. friendships \subseteq Users \X Users /\ FriendshipMutual
        BY DEF IInv, TypeOK
      <4>3. QED
        BY <4>1, <4>2 DEF FriendshipMutual
    <3>2. \A r : r = <<r[1], r[2]>> /\ r \notin Between(call[p].me, call[p].peer)
                  => <<r[2], r[1]>> \notin Between(call[p].me, call[p].peer)
      BY DEF Between
    <3>3. \A r \in friendships' : r \in friendships /\ r \notin Between(call[p].me, call[p].peer)
      BY <1>4 DEF DeleteRows
    <3>4. \A r \in friendships' : <<r[2], r[1]>> \in friendships'
      BY <1>4, <3>1, <3>2, <3>3 DEF DeleteRows
    <3>5. QED
      BY <3>3, <3>4 DEF IInv, FriendshipMutual
  <2>2. FriendsConsented'
    BY <1>4 DEF DeleteRows, IInv, FriendsConsented
  <2>3. QED
    BY <2>1, <2>2
<1>5. ASSUME UNCHANGED friendships
      PROVE  FriendshipMutual' /\ FriendsConsented'
  <2>1. FriendshipMutual'
    BY <1>5 DEF IInv, FriendshipMutual
  <2>2. ASSUME NEW s, s \in consented, requests[s] \in Settled
        PROVE  s \in consented' /\ requests'[s] \in Settled
    BY <1>1, <1>2, <2>2 DEF Forward
  <2>3. FriendsConsented'
    BY <1>5, <2>2 DEF IInv, FriendsConsented
  <2>4. QED
    BY <2>1, <2>3
<1>6. QED
  BY <1>3, <1>4, <1>5
     DEF Next, Step, Request, Statement, Fail, SendFriendRequest, AcceptFriendRequest,
         RejectFriendRequest, DeleteFriend, SendFindUser, SendFindFriendship,
         SendFindRequest, SendInsert, SendReadBack, AcceptFind, AcceptUpdate,
         RejectFind, RejectUpdate, DeleteFind, vars

LEMMA InvInit == Init => IInv
  BY FriendsAssumption
     DEF Init, IInv, TypeOK, FriendshipMutual, FriendsConsented, ConsentToRequest,
         InFlight, RequestStatus, Replies

LEMMA InvStep == IInv /\ [Next]_vars => IInv'
<1> SUFFICES ASSUME IInv, [Next]_vars
             PROVE  IInv'
  OBVIOUS
<1>1. TypeOK' /\ FriendshipMutual' /\ FriendsConsented' /\ ConsentToRequest'
  BY TypeStep, FriendshipStep, ConsentStep DEF IInv
<1>2. ASSUME NEW q \in Slots
      PROVE  InFlight(q)'
  <2>1. CASE UNCHANGED vars
    BY <2>1, OthersStep DEF vars
  <2>2. ASSUME NEW p \in Slots, Request(p) \/ Statement(p) \/ Fail(p)
        PROVE  InFlight(q)'
    BY <2>2, MoverStep, OthersStep
  <2>3. QED
    BY <2>1, <2>2 DEF Next, Step
<1>3. QED
  BY <1>1, <1>2 DEF IInv

------------------------------------------------------------------------------

\* The inductive invariant holds in every reachable state.
THEOREM Invariance == Spec => []IInv
  BY InvInit, InvStep, PTL DEF Spec

\* Type correctness of the component.
THEOREM TypeCorrect == Spec => []TypeOK
<1>1. IInv => TypeOK
  BY DEF IInv
<1>2. QED
  BY <1>1, Invariance, PTL

\* Friendship is mutual, and never with oneself, in every reachable state.
THEOREM MutualFriendship == Spec => []FriendshipMutual
<1>1. IInv => FriendshipMutual
  BY DEF IInv
<1>2. QED
  BY <1>1, Invariance, PTL

\* Nobody is a friend without having consented to, or having been granted, a
\* request that is answered.
THEOREM ConsentedFriendship == Spec => []FriendsConsented
<1>1. IInv => FriendsConsented
  BY DEF IInv
<1>2. QED
  BY <1>1, Invariance, PTL

\* No step reopens an answered request or creates one that is already answered.
THEOREM RequestsAdvance == Spec => RequestsOnlyAdvance
<1>1. IInv /\ [Next]_vars => Forward
  BY ForwardStep
<1>2. Forward =>
        [\A r \in Pairs : requests'[r] # requests[r] =>
           IF requests[r] = "none" THEN requests'[r] = "pending"
                                   ELSE requests'[r] \in {"accepted", "rejected"}]_vars
  BY DEF Forward
<1>3. QED
  BY <1>1, <1>2, Invariance, PTL DEF Spec, RequestsOnlyAdvance

\* An accepted request is stranded only by a failed INSERT or a deleteFriend: until
\* then its friendship is there or owed by a handler about to insert it.
THEOREM AcceptedAreBefriended == Spec => StrandedOnlyByFailure
<1> DEFINE Excused(r) == \/ reply'.at = "accept_insert" /\ reply'.result = "error"
                         \/ reply'.at = "delete_rows" /\ r \in Between(reply'.me, reply'.peer)
<1>1. ASSUME IInv, [Next]_vars, NEW r \in Pairs, Stranded(r)', ~Stranded(r)
      PROVE  Excused(r)
  <2>0. /\ requests \in [Pairs -> RequestStatus]
        /\ call \in [Slots -> {Idle} \cup Handlers]
        /\ r = <<r[1], r[2]>>
    BY <1>1 DEF IInv, TypeOK, Pairs
  <2>1. requests'[r] = "accepted" /\ r \notin friendships'
        /\ \A p \in Slots : ~(call'[p].at = "accept_insert" /\ r = <<call'[p].peer, call'[p].me>>)
    BY <1>1 DEF Stranded, At
  <2>2. ASSUME NEW p \in Slots, At(p, "accept_insert"), r = <<call[p].peer, call[p].me>>,
               \A q \in Slots : q # p => call'[q] = call[q]
        PROVE  \A q \in Slots : At(q, "accept_insert") /\ r = <<call[q].peer, call[q].me>>
                                  => q = p
    BY <2>1, <2>2 DEF At
  <2>3. ASSUME NEW p \in Slots, AcceptUpdate(p)
        PROVE  Excused(r)
    <3>1. call[p] \in Handlers
      BY <2>0, <2>3, StepNames DEF AcceptUpdate, At, Idle
    <3>2. call'[p].at = "accept_insert" /\ call'[p].me = call[p].me /\ call'[p].peer = call[p].peer
          /\ \A q \in Slots : q # p => call'[q] = call[q]
      BY <2>0, <2>3, <3>1 DEF AcceptUpdate, Await, Handlers
    <3>3. r # <<call[p].peer, call[p].me>>
      BY <2>1, <3>2
    <3>4. requests[r] = "accepted" /\ r \notin friendships
      BY <2>0, <2>1, <2>3, <3>3 DEF AcceptUpdate
    <3>5. PICK q \in Slots : At(q, "accept_insert") /\ r = <<call[q].peer, call[q].me>>
      BY <1>1, <3>4 DEF Stranded
    <3>6. q # p
      BY <3>3, <3>5
    <3>7. QED
      BY <2>1, <3>2, <3>5, <3>6 DEF At
  <2>4. ASSUME NEW p \in Slots, DeleteRows(p)
        PROVE  Excused(r)
    <3>1. requests[r] = "accepted"
      BY <2>1, <2>4 DEF DeleteRows
    <3>2. \A q \in Slots : At(q, "accept_insert") => q # p
      BY <2>4 DEF DeleteRows, At
    <3>3. \A q \in Slots : q # p => call'[q] = call[q]
      BY <2>0, <2>4 DEF DeleteRows, Return
    <3>4. \A q \in Slots : ~(At(q, "accept_insert") /\ r = <<call[q].peer, call[q].me>>)
      BY <2>1, <3>2, <3>3 DEF At
    <3>5. r \in friendships
      BY <1>1, <3>1, <3>4 DEF Stranded
    <3>6. r \in Between(call[p].me, call[p].peer)
      BY <2>1, <2>4, <3>5 DEF DeleteRows
    <3>7. reply'.at = "delete_rows" /\ reply'.me = call[p].me /\ reply'.peer = call[p].peer
      BY <2>4 DEF DeleteRows, Return, At
    <3>8. QED
      BY <3>6, <3>7
  <2>5. ASSUME NEW p \in Slots, AcceptInsert(p)
        PROVE  Excused(r)
    <3>1. requests[r] = "accepted" /\ r \notin friendships
      BY <2>1, <2>5 DEF AcceptInsert
    <3>2. PICK q \in Slots : At(q, "accept_insert") /\ r = <<call[q].peer, call[q].me>>
      BY <1>1, <3>1 DEF Stranded
    <3>3. q # p => call'[q] = call[q]
      BY <2>0, <2>5 DEF AcceptInsert, Return
    <3>4. q = p
      BY <2>1, <3>2, <3>3 DEF At
    <3>5. r \in friendships'
      BY <2>5, <3>2, <3>4 DEF AcceptInsert, Between
    <3>6. QED
      BY <2>1, <3>5
  <2>6. ASSUME requests'[r] = "accepted" => requests[r] = "accepted", UNCHANGED friendships,
               NEW p \in Slots, \A q \in Slots : q # p => call'[q] = call[q],
               ~At(p, "accept_insert")
        PROVE  FALSE
    BY <1>1, <2>1, <2>6 DEF Stranded, At
  <2>7. ASSUME NEW p \in Slots, Fail(p)
        PROVE  Excused(r)
    <3>1. \A q \in Slots : q # p => call'[q] = call[q]
      BY <2>0, <2>7 DEF Fail, Return
    <3>2. At(p, "accept_insert")
      BY <2>6, <2>7, <3>1 DEF Fail
    <3>3. QED
      BY <2>7, <3>2 DEF Fail, Return, At
  <2>8. ASSUME NEW p \in Slots, Request(p)
        PROVE  FALSE
    <3>1. call[p] = Idle /\ \A q \in Slots : q # p => call'[q] = call[q]
      BY <2>0, <2>8 DEF Request, SendFriendRequest, AcceptFriendRequest,
                        RejectFriendRequest, DeleteFriend, Begin
    <3>2. QED
      BY <2>6, <2>8, <3>1 DEF Request, SendFriendRequest, AcceptFriendRequest,
                              RejectFriendRequest, DeleteFriend, At, Idle
  <2>9. ASSUME NEW p \in Slots,
               SendFindUser(p) \/ SendFindFriendship(p) \/ SendFindRequest(p) \/ SendInsert(p)
               \/ SendReadBack(p) \/ AcceptFind(p) \/ RejectFind(p) \/ RejectUpdate(p)
               \/ DeleteFind(p)
        PROVE  FALSE
    <3> USE DEF SendFindUser, SendFindFriendship, SendFindRequest, SendInsert, SendReadBack,
                AcceptFind, RejectFind, RejectUpdate, DeleteFind
    <3>1. \A q \in Slots : q # p => call'[q] = call[q]
      BY <2>0, <2>9 DEF Await, Return
    <3>2. ~At(p, "accept_insert")
      BY <2>9 DEF At
    <3>3. requests'[r] = "accepted" => requests[r] = "accepted"
      BY <2>0, <2>9
    <3>4. UNCHANGED friendships
      BY <2>9
    <3>5. QED
      BY <2>6, <3>1, <3>2, <3>3, <3>4
  <2>10. CASE UNCHANGED vars
    BY <1>1, <2>10 DEF vars, Stranded, At
  <2>11. QED
    BY <1>1, <2>3, <2>4, <2>5, <2>7, <2>8, <2>9, <2>10 DEF Next, Step, Statement
<1>2. IInv /\ [Next]_vars => [\A r \in Pairs : Stranded(r)' /\ ~Stranded(r) => Excused(r)]_vars
  BY <1>1
<1>3. QED
  BY <1>2, Invariance, PTL DEF Spec, StrandedOnlyByFailure

------------------------------------------------------------------------------
(* The component implements the abstract graph of consented friendships.   *)

Invited == {r \in Pairs : requests[r] # "none"}

\* An answer changes the status of a request and not who has been invited.
LEMMA AnswerKeepsInvited ==
  ASSUME IInv, NEW p \in Slots, AcceptUpdate(p) \/ RejectUpdate(p)
  PROVE  Invited' = Invited
<1>1. requests[<<call[p].peer, call[p].me>>] # "none"
  <2>1. call[p] # Idle /\ call[p].at \in {"accept_update", "reject_update"}
    BY DEF AcceptUpdate, RejectUpdate, At, Idle
  <2>2. QED
    BY <2>1 DEF IInv, InFlight, ConsentToRequest
<1>2. \A r \in Pairs : requests'[r] = "none" <=> requests[r] = "none"
  BY <1>1 DEF AcceptUpdate, RejectUpdate, IInv, TypeOK
<1>3. QED
  BY <1>2 DEF Invited

\* Every step of the component is a step of the abstract graph or none at all.
LEMMA GraphStep ==
  ASSUME IInv, [Next]_vars
  PROVE  [Graph!Next]_<<Invited, consented, friendships>>
<1> DEFINE GraphVars == <<Invited, consented, friendships>>
<1>1. ASSUME NEW p \in Slots, SendInsert(p)
      PROVE  Graph!Next
  <2>1. call[p].me \in Users /\ call[p].peer \in Users /\ call[p].me # call[p].peer
    BY <1>1 DEF SendInsert, IInv, TypeOK, InFlight, At, Idle, Handlers
  <2>2. PICK u \in Users, f \in Users : u = call[p].me /\ f = call[p].peer /\ u # f
    BY <2>1
  <2>3. <<u, f>> \in Pairs
    BY <2>2 DEF Pairs
  <2>4. Invited' = Invited \cup {<<u, f>>}
    BY <1>1, <2>2, <2>3 DEF SendInsert, Invited, IInv, TypeOK
  <2>5. Graph!Invite(u, f)
    BY <1>1, <2>3, <2>4 DEF SendInsert, Graph!Invite, Graph!Pairs, Pairs, Invited
  <2>6. QED
    BY <2>5 DEF Graph!Next
<1>2. ASSUME NEW p \in Slots, AcceptFind(p)
      PROVE  Graph!Next \/ UNCHANGED GraphVars
  <2>1. call[p].me \in Users /\ call[p].peer \in Users /\ call[p].me # call[p].peer
    BY <1>2 DEF AcceptFind, IInv, TypeOK, InFlight, At, Idle, Handlers
  <2>2. CASE requests[<<call[p].peer, call[p].me>>] # "pending"
    BY <1>2, <2>2 DEF AcceptFind, Invited
  <2>3. CASE requests[<<call[p].peer, call[p].me>>] = "pending"
    <3>1. <<call[p].peer, call[p].me>> \in Invited
      BY <2>1, <2>3 DEF Invited, Pairs
    <3>2. Graph!Consent(call[p].peer, call[p].me)
      BY <1>2, <2>3, <3>1 DEF AcceptFind, Graph!Consent, Invited
    <3>3. QED
      BY <2>1, <3>2 DEF Graph!Next
  <2>4. QED
    BY <2>2, <2>3
<1>3. ASSUME NEW p \in Slots, AcceptInsert(p)
      PROVE  Graph!Next
  <2>1. /\ call[p].me \in Users /\ call[p].peer \in Users
        /\ <<call[p].peer, call[p].me>> \in consented
    BY <1>3 DEF AcceptInsert, IInv, TypeOK, InFlight, At, Idle, Handlers
  <2>2. Graph!Befriend(call[p].peer, call[p].me)
    BY <1>3, <2>1 DEF AcceptInsert, Between, Graph!Befriend, Graph!Mutual, Invited
  <2>3. QED
    BY <2>1, <2>2 DEF Graph!Next
<1>4. ASSUME NEW p \in Slots, DeleteRows(p)
      PROVE  Graph!Next
  <2>1. call[p].me \in Users /\ call[p].peer \in Users
    BY <1>4 DEF DeleteRows, IInv, TypeOK, At, Idle, Handlers
  <2>2. Graph!Unfriend(call[p].me, call[p].peer)
    BY <1>4 DEF DeleteRows, Between, Graph!Unfriend, Graph!Mutual, Invited
  <2>3. QED
    BY <2>1, <2>2 DEF Graph!Next
<1>5. ASSUME NEW p \in Slots, AcceptUpdate(p) \/ RejectUpdate(p)
      PROVE  UNCHANGED GraphVars
  BY <1>5, AnswerKeepsInvited DEF AcceptUpdate, RejectUpdate
<1>6. ASSUME UNCHANGED <<friendships, requests, consented>>
      PROVE  UNCHANGED GraphVars
  BY <1>6 DEF Invited
<1>7. QED
  BY <1>1, <1>2, <1>3, <1>4, <1>5, <1>6
     DEF Next, Step, Request, Statement, Fail, SendFriendRequest, AcceptFriendRequest,
         RejectFriendRequest, DeleteFriend, SendFindUser, SendFindFriendship,
         SendFindRequest, SendReadBack, RejectFind, DeleteFind, vars

\* Whatever the schedule and whichever statements fail, the component behaves
\* as the abstract graph, in which friendship needs consent and is never halved.
THEOREM FriendsImplementGraph == Spec => ImplementsGraph
<1>1. Init => Graph!Init
  BY DEF Init, Graph!Init
<1>2. IInv /\ [Next]_vars => [Graph!Next]_Graph!graphVars
  BY GraphStep DEF Graph!graphVars, Invited
<1>3. QED
  BY <1>1, <1>2, Invariance, PTL DEF Spec, ImplementsGraph, Graph!Spec

------------------------------------------------------------------------------
(* What the checks before the writes are worth.  A handler that has passed *)
(* a check may find it outdated when it writes, but only in a race that    *)
(* crossed or contested records: RaceInv says so at each statement.        *)

Reverse(r) == <<r[2], r[1]>>

\* What the handler in slot p has checked and only a recorded race takes back.
Checked(p) ==
  LET mine   == <<call[p].me, call[p].peer>>
      theirs == <<call[p].peer, call[p].me>> IN
  /\ call[p].at \in {"send_request", "send_insert"} =>
       \/ mine \notin friendships /\ theirs \notin friendships
       \/ mine \in crossed \/ requests[mine] # "none"
  /\ call[p].at = "send_insert" => requests[theirs] # "pending" \/ mine \in crossed
  /\ call[p].at \in {"accept_update", "accept_insert"} =>
       requests[mine] # "pending" \/ mine \in crossed
  /\ call[p].at = "accept_insert" => requests[theirs] = "accepted" \/ theirs \in contested
  /\ call[p].at = "reject_update" => requests[theirs] # "accepted" \/ theirs \in contested

\* Friends have a request between them that was granted.
FriendsGranted ==
  \A r \in friendships :
    \E s \in {r, Reverse(r)} : s \in consented /\ (requests[s] = "accepted" \/ s \in contested)

RaceInv ==
  /\ Crossing \subseteq crossed
  /\ Contending \subseteq contested
  /\ \A r \in crossed : Reverse(r) \in crossed
  /\ OneOpenRequestPerPair
  /\ NoOpenRequestAmongFriends
  /\ FriendsGranted
  /\ \A p \in Slots : Checked(p)

\* Races are recorded as they happen, both ways round, and never forgotten.
LEMMA RaceStep ==
  ASSUME IInv, RaceInv, [Next]_vars
  PROVE  /\ crossed \subseteq crossed' /\ contested \subseteq contested'
         /\ Crossing' \subseteq crossed' /\ Contending' \subseteq contested'
         /\ \A r \in crossed' : Reverse(r) \in crossed'
<1>1. CASE UNCHANGED vars
  BY <1>1 DEF vars, RaceInv, Crossing, Contending, Doing
<1>2. CASE Next
  <2>1. \A r \in Crossing' : Reverse(r) \in Crossing'
    <3>1. ASSUME NEW r \in Pairs
          PROVE  /\ Reverse(r) \in Pairs
                 /\ Between(Reverse(r)[1], Reverse(r)[2]) = Between(r[1], r[2])
      BY <3>1 DEF Pairs, Reverse, Between
    <3>2. QED
      BY <3>1 DEF Crossing
  <2>2. QED
    BY <1>2, <2>1 DEF Next, RaceInv
<1>3. QED
  BY <1>1, <1>2

\* Which statement can make a request pending or accepted, turn down an accepted
\* one, and make two people friends.
LEMMA Writers ==
  ASSUME IInv, [Next]_vars
  PROVE  /\ \A r \in Pairs : requests'[r] = "pending" /\ requests[r] # "pending" =>
              \E p \in Slots : SendInsert(p) /\ r = <<call[p].me, call[p].peer>>
         /\ \A r \in Pairs : requests'[r] = "accepted" /\ requests[r] # "accepted" =>
              \E p \in Slots : AcceptUpdate(p) /\ r = <<call[p].peer, call[p].me>>
         /\ \A r \in Pairs : requests[r] = "accepted" /\ requests'[r] # "accepted" =>
              \E p \in Slots : RejectUpdate(p) /\ r = <<call[p].peer, call[p].me>>
         /\ \A r \in friendships' \ friendships :
              \E p \in Slots : AcceptInsert(p) /\ r \in Between(call[p].peer, call[p].me)
<1> DEFINE Goal ==
      /\ \A r \in Pairs : requests'[r] = "pending" /\ requests[r] # "pending" =>
           \E p \in Slots : SendInsert(p) /\ r = <<call[p].me, call[p].peer>>
      /\ \A r \in Pairs : requests'[r] = "accepted" /\ requests[r] # "accepted" =>
           \E p \in Slots : AcceptUpdate(p) /\ r = <<call[p].peer, call[p].me>>
      /\ \A r \in Pairs : requests[r] = "accepted" /\ requests'[r] # "accepted" =>
           \E p \in Slots : RejectUpdate(p) /\ r = <<call[p].peer, call[p].me>>
      /\ \A r \in friendships' \ friendships :
           \E p \in Slots : AcceptInsert(p) /\ r \in Between(call[p].peer, call[p].me)
<1>0. requests \in [Pairs -> RequestStatus]
  BY DEF IInv, TypeOK
<1>1. ASSUME NEW p \in Slots, SendInsert(p)
      PROVE  Goal
  <2>1. /\ \A r \in Pairs : r # <<call[p].me, call[p].peer>> => requests'[r] = requests[r]
        /\ \A r \in Pairs : r = <<call[p].me, call[p].peer>> =>
             requests[r] = "none" /\ requests'[r] = "pending"
        /\ friendships' = friendships
    BY <1>0, <1>1 DEF SendInsert
  <2>2. QED
    BY <1>1, <2>1
<1>2. ASSUME NEW p \in Slots, AcceptUpdate(p)
      PROVE  Goal
  <2>1. /\ \A r \in Pairs : r # <<call[p].peer, call[p].me>> => requests'[r] = requests[r]
        /\ \A r \in Pairs : r = <<call[p].peer, call[p].me>> => requests'[r] = "accepted"
        /\ friendships' = friendships
    BY <1>0, <1>2 DEF AcceptUpdate
  <2>2. QED
    BY <1>2, <2>1
<1>3. ASSUME NEW p \in Slots, RejectUpdate(p)
      PROVE  Goal
  <2>1. /\ \A r \in Pairs : r # <<call[p].peer, call[p].me>> => requests'[r] = requests[r]
        /\ \A r \in Pairs : r = <<call[p].peer, call[p].me>> => requests'[r] = "rejected"
        /\ friendships' = friendships
    BY <1>0, <1>3 DEF RejectUpdate
  <2>2. QED
    BY <1>3, <2>1
<1>4. ASSUME NEW p \in Slots, AcceptInsert(p)
      PROVE  Goal
  <2>1. requests' = requests /\ friendships' \ friendships \subseteq Between(call[p].peer, call[p].me)
    BY <1>4 DEF AcceptInsert
  <2>2. QED
    BY <1>4, <2>1
<1>5. ASSUME NEW p \in Slots, DeleteRows(p)
      PROVE  Goal
  BY <1>5 DEF DeleteRows
<1>6. CASE UNCHANGED <<friendships, requests>>
  BY <1>6
<1>7. Goal
  BY <1>1, <1>2, <1>3, <1>4, <1>5, <1>6
     DEF Next, Step, Request, Statement, Fail, SendFriendRequest, AcceptFriendRequest,
         RejectFriendRequest, DeleteFriend, SendFindUser, SendFindFriendship,
         SendFindRequest, SendReadBack, AcceptFind, RejectFind, DeleteFind, vars
<1>8. QED
  BY <1>7

\* A handler that does not move keeps what it has checked, or the race is recorded.
LEMMA OthersChecked ==
  ASSUME IInv, RaceInv, [Next]_vars, NEW q \in Slots, call'[q] = call[q]
  PROVE  Checked(q)'
<1> DEFINE mine   == <<call[q].me, call[q].peer>>
           theirs == <<call[q].peer, call[q].me>>
<1>1. CASE call[q] = Idle
  BY <1>1 DEF Checked, Idle
<1>2. CASE call[q] # Idle
  <2>0. /\ mine \in Pairs /\ theirs \in Pairs /\ call[q].me # call[q].peer
        /\ Checked(q) /\ InFlight(q)
    BY <1>2 DEF IInv, RaceInv, TypeOK, InFlight, Handlers, Pairs
  <2>1. /\ crossed \subseteq crossed' /\ contested \subseteq contested'
        /\ Crossing \subseteq crossed' /\ Contending \subseteq contested' /\ Forward
    BY RaceStep, ForwardStep DEF RaceInv
  <2>2. ASSUME call[q].at \in {"send_request", "send_insert"},
               mine \in friendships' \/ theirs \in friendships'
        PROVE  mine \in crossed' \/ requests'[mine] # "none"
    <3>1. requests[mine] # "none" => requests'[mine] # "none"
      BY <2>0, <2>1 DEF Forward
    <3>2. CASE mine \in friendships \/ theirs \in friendships
      BY <2>0, <2>1, <2>2, <3>1, <3>2 DEF Checked
    <3>3. CASE mine \notin friendships /\ theirs \notin friendships
      <4>1. PICK p \in Slots : AcceptInsert(p) /\ (mine \in Between(call[p].peer, call[p].me)
                                                   \/ theirs \in Between(call[p].peer, call[p].me))
        BY <2>2, <3>3, Writers
      <4>2. At(p, "accept_insert") /\ InFlight(p) /\ call[p] # Idle
        BY <4>1 DEF AcceptInsert, IInv, At, Idle
      <4>3. \/ call[p].me = call[q].me /\ call[p].peer = call[q].peer
            \/ call[p].me = call[q].peer /\ call[p].peer = call[q].me
        BY <4>1 DEF Between
      <4>4. CASE call[p].me = call[q].me /\ call[p].peer = call[q].peer
        <5>1. mine \in Crossing
          BY <2>0, <2>2, <4>2, <4>4 DEF Crossing, Doing, At, Between
        <5>2. QED
          BY <2>1, <5>1
      <4>5. CASE call[p].me = call[q].peer /\ call[p].peer = call[q].me
        <5>1. requests[mine] # "none"
          BY <4>2, <4>5 DEF InFlight, At
        <5>2. QED
          BY <3>1, <5>1
      <4>6. QED
        BY <4>3, <4>4, <4>5
    <3>4. QED
      BY <3>2, <3>3
  <2>3. ASSUME call[q].at = "send_insert", requests'[theirs] = "pending"
        PROVE  mine \in crossed'
    <3>1. CASE requests[theirs] = "pending"
      BY <2>0, <2>1, <2>3, <3>1 DEF Checked
    <3>2. CASE requests[theirs] # "pending"
      <4>1. PICK p \in Slots : SendInsert(p) /\ theirs = <<call[p].me, call[p].peer>>
        BY <2>0, <2>3, <3>2, Writers
      <4>2. mine \in Crossing
        BY <2>0, <2>3, <4>1 DEF SendInsert, Crossing, Doing, At, Between
      <4>3. QED
        BY <2>1, <4>2
    <3>3. QED
      BY <3>1, <3>2
  <2>4. ASSUME call[q].at \in {"accept_update", "accept_insert"}, requests'[mine] = "pending"
        PROVE  mine \in crossed'
    <3>1. CASE requests[mine] = "pending"
      BY <2>0, <2>1, <2>4, <3>1 DEF Checked
    <3>2. CASE requests[mine] # "pending"
      <4>1. PICK p \in Slots : SendInsert(p) /\ mine = <<call[p].me, call[p].peer>>
        BY <2>0, <2>4, <3>2, Writers
      <4>2. mine \in Crossing
        BY <2>0, <2>4, <4>1 DEF SendInsert, Crossing, Doing, At, Between
      <4>3. QED
        BY <2>1, <4>2
    <3>3. QED
      BY <3>1, <3>2
  <2>5. ASSUME call[q].at = "accept_insert"
        PROVE  requests'[theirs] = "accepted" \/ theirs \in contested'
    <3>1. CASE theirs \in contested \/ requests'[theirs] = "accepted"
      BY <2>1, <3>1
    <3>2. CASE theirs \notin contested /\ requests'[theirs] # "accepted"
      <4>1. PICK p \in Slots : RejectUpdate(p) /\ theirs = <<call[p].peer, call[p].me>>
        BY <2>0, <2>5, <3>2, Writers DEF Checked
      <4>2. theirs \in Contending
        BY <2>0, <2>5, <4>1 DEF RejectUpdate, Contending, Doing, At
      <4>3. QED
        BY <2>1, <4>2
    <3>3. QED
      BY <3>1, <3>2
  <2>6. ASSUME call[q].at = "reject_update", requests'[theirs] = "accepted"
        PROVE  theirs \in contested'
    <3>1. CASE requests[theirs] = "accepted"
      BY <2>0, <2>1, <2>6, <3>1 DEF Checked
    <3>2. CASE requests[theirs] # "accepted"
      <4>1. PICK p \in Slots : AcceptUpdate(p) /\ theirs = <<call[p].peer, call[p].me>>
        BY <2>0, <2>6, <3>2, Writers
      <4>2. theirs \in Contending
        BY <2>0, <2>6, <4>1 DEF AcceptUpdate, Contending, Doing, At
      <4>3. QED
        BY <2>1, <4>2
    <3>3. QED
      BY <3>1, <3>2
  <2>7. QED
    BY <2>2, <2>3, <2>4, <2>5, <2>6 DEF Checked
<1>3. QED
  BY <1>1, <1>2

\* The handler that moves has checked what its next statement relies on.
LEMMA MoverChecked ==
  ASSUME IInv, RaceInv, [Next]_vars, NEW p \in Slots, Request(p) \/ Statement(p) \/ Fail(p)
  PROVE  Checked(p)'
<1> USE DEF Checked
<1> DEFINE mine   == <<call[p].me, call[p].peer>>
           theirs == <<call[p].peer, call[p].me>>
<1>0. /\ requests \in [Pairs -> RequestStatus] /\ call \in [Slots -> {Idle} \cup Handlers]
      /\ crossed \subseteq crossed' /\ Checked(p)
  BY RaceStep DEF IInv, TypeOK, RaceInv
<1>1. ASSUME NEW step \in {"send_user", "accept_find", "reject_find", "delete_find"},
             NEW u, NEW f, Begin(p, step, u, f)
      PROVE  Checked(p)'
  BY <1>0, <1>1 DEF Begin
<1>2. CASE Request(p)
  BY <1>1, <1>2 DEF Request, SendFriendRequest, AcceptFriendRequest,
                    RejectFriendRequest, DeleteFriend
<1>3. ASSUME NEW result, Return(p, result)
      PROVE  Checked(p)'
  BY <1>0, <1>3 DEF Return, Idle
<1>4. CASE Fail(p)
  BY <1>3, <1>4 DEF Fail
<1>5. ASSUME NEW step, Await(p, step), At(p, step) \/ call[p] # Idle
      PROVE  call'[p].at = step /\ call'[p].me = call[p].me /\ call'[p].peer = call[p].peer
  BY <1>0, <1>5 DEF Await, Handlers, Idle
<1>6. CASE Statement(p)
  <2>1. ASSUME NEW step \in Steps, At(p, step)
        PROVE  call[p] # Idle /\ mine \in Pairs /\ theirs \in Pairs /\ mine # theirs
    BY <2>1, StepNames DEF IInv, TypeOK, InFlight, At, Idle, Handlers, Pairs
  <2> USE DEF Steps, SendSteps, AcceptSteps, RejectSteps, DeleteSteps
  <2>2. CASE SendFindUser(p) \/ DeleteFind(p) \/ SendInsert(p)
    BY <1>3, <1>5, <2>1, <2>2 DEF SendFindUser, DeleteFind, SendInsert
  <2>3. CASE SendFindFriendship(p)
    BY <1>3, <1>5, <2>1, <2>3 DEF SendFindFriendship, IsFriend, Between
  <2>4. CASE SendFindRequest(p)
    <3>1. CASE Return(p, "request_exists")
      BY <1>3, <3>1
    <3>2. CASE ~RequestExists(call[p].me, call[p].peer) /\ Await(p, "send_insert")
      <4>1. /\ call'[p].at = "send_insert"
            /\ call'[p].me = call[p].me /\ call'[p].peer = call[p].peer
        BY <1>5, <2>1, <2>4, <3>2 DEF SendFindRequest
      <4>2. At(p, "send_request") /\ requests' = requests /\ friendships' = friendships
        BY <2>4 DEF SendFindRequest
      <4>3. requests[theirs] # "pending"
        BY <3>2 DEF RequestExists
      <4>4. QED
        BY <1>0, <4>1, <4>2, <4>3 DEF At
    <3>3. QED
      BY <2>4, <3>1, <3>2 DEF SendFindRequest
  <2>5. CASE AcceptFind(p)
    <3>1. CASE Return(p, "not_found")
      BY <1>3, <3>1
    <3>2. CASE requests[theirs] = "pending" /\ Await(p, "accept_update")
      <4>1. /\ call'[p].at = "accept_update"
            /\ call'[p].me = call[p].me /\ call'[p].peer = call[p].peer
        BY <1>5, <2>1, <2>5, <3>2 DEF AcceptFind
      <4>2. requests' = requests
        BY <2>5 DEF AcceptFind
      <4>3. requests[mine] = "pending" => mine \in crossed
        BY <2>1, <2>5, <3>2 DEF AcceptFind, RaceInv, OneOpenRequestPerPair
      <4>4. QED
        BY <1>0, <4>1, <4>2, <4>3
    <3>3. QED
      BY <2>5, <3>1, <3>2 DEF AcceptFind
  <2>6. CASE AcceptUpdate(p)
    <3>1. /\ call'[p].at = "accept_insert"
          /\ call'[p].me = call[p].me /\ call'[p].peer = call[p].peer
      BY <1>5, <2>1, <2>6 DEF AcceptUpdate
    <3>2. requests'[theirs] = "accepted" /\ requests'[mine] = requests[mine]
      BY <1>0, <2>1, <2>6 DEF AcceptUpdate
    <3>3. requests[mine] = "pending" => mine \in crossed
      BY <1>0, <2>6 DEF AcceptUpdate, At
    <3>4. QED
      BY <1>0, <3>1, <3>2, <3>3
  <2>7. CASE RejectFind(p)
    <3>1. CASE Return(p, "not_found")
      BY <1>3, <3>1
    <3>2. CASE requests[theirs] = "pending" /\ Await(p, "reject_update")
      BY <1>5, <2>1, <2>7, <3>2 DEF RejectFind
    <3>3. QED
      BY <2>7, <3>1, <3>2 DEF RejectFind
  <2>8. CASE SendReadBack(p) \/ AcceptInsert(p) \/ RejectUpdate(p) \/ DeleteRows(p)
    BY <1>3, <2>8 DEF SendReadBack, AcceptInsert, RejectUpdate, DeleteRows
  <2>9. QED
    BY <1>6, <2>2, <2>3, <2>4, <2>5, <2>6, <2>7, <2>8 DEF Statement
<1>7. QED
  BY <1>2, <1>4, <1>6

\* What a step writes keeps the tables in order but for the recorded races.
LEMMA TablesStep ==
  ASSUME IInv, RaceInv, [Next]_vars
  PROVE  OneOpenRequestPerPair' /\ NoOpenRequestAmongFriends' /\ FriendsGranted'
<1>0. /\ requests \in [Pairs -> RequestStatus]
      /\ \A r \in Pairs : Reverse(r) \in Pairs /\ Reverse(Reverse(r)) = r /\ r = <<r[1], r[2]>>
      /\ friendships \subseteq Pairs /\ consented \subseteq Pairs
      /\ \A r \in friendships : Reverse(r) \in friendships
      /\ FriendshipMutual' /\ friendships' \subseteq Pairs
  <2>1. FriendshipMutual' /\ friendships' \subseteq Users \X Users
    BY FriendshipStep, TypeStep DEF IInv, TypeOK
  <2>2. QED
    BY <2>1 DEF IInv, TypeOK, FriendshipMutual, ConsentToRequest, Pairs, Reverse
<1>1. /\ crossed \subseteq crossed' /\ contested \subseteq contested'
      /\ \A r \in crossed' : Reverse(r) \in crossed'
      /\ Forward /\ consented \subseteq consented'
      /\ Contending \subseteq contested
  BY RaceStep, ForwardStep, ConsentStep DEF RaceInv
<1>2. ASSUME NEW p \in Slots, SendInsert(p) \/ AcceptInsert(p) \/ RejectUpdate(p)
      PROVE  /\ Checked(p) /\ InFlight(p)
             /\ <<call[p].me, call[p].peer>> \in Pairs /\ <<call[p].peer, call[p].me>> \in Pairs
  <2>1. call[p] # Idle
    BY <1>2 DEF SendInsert, AcceptInsert, RejectUpdate, At, Idle
  <2>2. QED
    BY <2>1 DEF RaceInv, IInv, TypeOK, InFlight, Handlers, Pairs
<1>3. ASSUME NEW r \in Pairs, requests'[r] = "pending", requests'[Reverse(r)] = "pending"
      PROVE  r \in crossed'
  <2>1. CASE requests[r] = "pending" /\ requests[Reverse(r)] = "pending"
    BY <1>1, <2>1 DEF RaceInv, OneOpenRequestPerPair, Reverse
  <2>2. ASSUME NEW s \in Pairs, requests[s] # "pending", requests'[s] = "pending",
               requests'[Reverse(s)] = "pending"
        PROVE  s \in crossed'
    <3>1. PICK p \in Slots : SendInsert(p) /\ s = <<call[p].me, call[p].peer>>
      BY <2>2, Writers
    <3>2. Reverse(s) = <<call[p].peer, call[p].me>> /\ Reverse(s) # s
      BY <1>2, <3>1 DEF Reverse, Pairs
    <3>3. requests[Reverse(s)] = "pending"
      BY <1>0, <2>2, <3>1, <3>2 DEF SendInsert
    <3>4. s \in crossed
      BY <1>2, <3>1, <3>2, <3>3 DEF Checked, SendInsert, At
    <3>5. QED
      BY <1>1, <3>4
  <2>3. QED
    BY <1>0, <1>1, <1>3, <2>1, <2>2
<1>4. ASSUME NEW r \in friendships', requests'[r] = "pending"
      PROVE  r \in crossed'
  <2>0. r \in Pairs
    BY <1>0, <1>4
  <2>1. CASE r \in friendships /\ requests[r] = "pending"
    BY <1>1, <2>1 DEF RaceInv, NoOpenRequestAmongFriends
  <2>2. CASE requests[r] # "pending"
    <3>1. PICK p \in Slots : SendInsert(p) /\ r = <<call[p].me, call[p].peer>>
      BY <1>4, <2>0, <2>2, Writers
    <3>2. r \in friendships /\ requests[r] = "none"
      BY <1>4, <3>1 DEF SendInsert
    <3>3. r \in crossed
      BY <1>2, <3>1, <3>2 DEF Checked, SendInsert, At
    <3>4. QED
      BY <1>1, <3>3
  <2>3. CASE r \notin friendships
    <3>1. PICK p \in Slots : AcceptInsert(p) /\ r \in Between(call[p].peer, call[p].me)
      BY <1>4, <2>3, Writers
    <3>2. requests' = requests /\ requests[<<call[p].peer, call[p].me>>] # "pending"
      <4>1. call[p].at = "accept_insert" /\ call[p] # Idle /\ requests' = requests
        BY <3>1 DEF AcceptInsert, At, Idle
      <4>2. requests[<<call[p].peer, call[p].me>>] \in Settled
        BY <1>2, <3>1, <4>1 DEF InFlight
      <4>3. QED
        BY <4>1, <4>2
    <3>3. r = <<call[p].me, call[p].peer>>
      BY <1>4, <3>1, <3>2 DEF Between
    <3>4. r \in crossed
      BY <1>2, <1>4, <3>1, <3>2, <3>3 DEF Checked, AcceptInsert, At
    <3>5. QED
      BY <1>1, <3>4
  <2>4. QED
    BY <2>1, <2>2, <2>3
<1>5. ASSUME NEW r \in friendships'
      PROVE  \E s \in {r, Reverse(r)} :
               s \in consented' /\ (requests'[s] = "accepted" \/ s \in contested')
  <2>1. CASE r \in friendships
    <3>1. PICK s \in {r, Reverse(r)} :
            s \in consented /\ (requests[s] = "accepted" \/ s \in contested)
      BY <2>1 DEF RaceInv, FriendsGranted
    <3>2. CASE requests'[s] = "accepted" \/ s \in contested
      BY <1>1, <3>1, <3>2
    <3>3. CASE requests'[s] # "accepted" /\ requests[s] = "accepted"
      <4>1. PICK p \in Slots : RejectUpdate(p) /\ s = <<call[p].peer, call[p].me>>
        BY <1>0, <3>1, <3>3, Writers
      <4>2. s \in contested
        BY <1>2, <3>3, <4>1 DEF Checked, RejectUpdate, At
      <4>3. QED
        BY <1>1, <3>1, <4>2
    <3>4. QED
      BY <3>1, <3>2, <3>3
  <2>2. CASE r \notin friendships
    <3>1. PICK p \in Slots : AcceptInsert(p) /\ r \in Between(call[p].peer, call[p].me)
      BY <2>2, Writers
    <3>2. PICK s : s = <<call[p].peer, call[p].me>>
      OBVIOUS
    <3>3. /\ s \in consented /\ requests' = requests
          /\ requests[s] = "accepted" \/ s \in contested
      <4>1. call[p].at = "accept_insert" /\ call[p] # Idle /\ requests' = requests
        BY <3>1 DEF AcceptInsert, At, Idle
      <4>2. s \in consented
        BY <1>2, <3>1, <3>2, <4>1 DEF InFlight
      <4>3. requests[s] = "accepted" \/ s \in contested
        BY <1>2, <3>1, <3>2, <4>1 DEF Checked
      <4>4. QED
        BY <4>1, <4>2, <4>3
    <3>4. s \in {r, Reverse(r)}
      BY <3>1, <3>2 DEF Between, Reverse
    <3>5. QED
      BY <1>1, <3>3, <3>4
  <2>3. QED
    BY <2>1, <2>2
<1>6. OneOpenRequestPerPair'
  BY <1>3 DEF OneOpenRequestPerPair, Reverse
<1>7. NoOpenRequestAmongFriends'
  BY <1>4 DEF NoOpenRequestAmongFriends
<1>8. FriendsGranted'
  BY <1>5 DEF FriendsGranted, Reverse
<1>9. QED
  BY <1>6, <1>7, <1>8

LEMMA RaceInit == Init => RaceInv
<1> SUFFICES ASSUME Init
             PROVE  RaceInv
  OBVIOUS
<1>1. \A p \in Slots : call[p].at = "idle"
  BY DEF Init, Idle
<1>2. Crossing = {} /\ Contending = {}
  BY <1>1 DEF Crossing, Contending, Doing
<1>3. \A p \in Slots : Checked(p)
  BY <1>1 DEF Checked
<1>4. \A r \in Pairs : requests[r] = "none"
  BY DEF Init
<1>5. QED
  BY <1>2, <1>3, <1>4 DEF Init, RaceInv, OneOpenRequestPerPair, NoOpenRequestAmongFriends,
                          FriendsGranted

LEMMA RaceInvStep == IInv /\ RaceInv /\ [Next]_vars => RaceInv'
<1> SUFFICES ASSUME IInv, RaceInv, [Next]_vars
             PROVE  RaceInv'
  OBVIOUS
<1>1. ASSUME NEW q \in Slots
      PROVE  Checked(q)'
  <2>1. CASE UNCHANGED vars
    BY <2>1, OthersChecked DEF vars
  <2>2. ASSUME NEW p \in Slots, Request(p) \/ Statement(p) \/ Fail(p)
        PROVE  Checked(q)'
    BY <2>2, MoverStep, MoverChecked, OthersChecked
  <2>3. QED
    BY <2>1, <2>2 DEF Next, Step
<1>2. QED
  BY <1>1, RaceStep, TablesStep DEF RaceInv

\* What each check establishes still holds at the write it guards, whatever
\* interleaves or fails, unless one of the recorded races took it back.
THEOREM RaceInvariance == Spec => []RaceInv
  BY RaceInit, RaceInvStep, Invariance, InvStep, PTL DEF Spec

\* Two people have requests open in both directions only after a crossing.
THEOREM OneRequestPerPair == Spec => []OneOpenRequestPerPair
<1>1. RaceInv => OneOpenRequestPerPair
  BY DEF RaceInv
<1>2. QED
  BY <1>1, RaceInvariance, PTL

\* Friends have an open request between them only after a crossing.
THEOREM FriendsAreSettled == Spec => []NoOpenRequestAmongFriends
<1>1. RaceInv => NoOpenRequestAmongFriends
  BY DEF RaceInv
<1>2. QED
  BY <1>1, RaceInvariance, PTL

\* Friends have between them a request that was consented to and is not rejected,
\* unless its two verdicts raced.
THEOREM FriendsWereGranted == Spec => []FriendsNotRejected
<1>1. IInv /\ RaceInv => FriendsNotRejected
  <2>1. ASSUME IInv, FriendsGranted, NEW r \in friendships
        PROVE  \E s \in Between(r[1], r[2]) :
                 s \in consented /\ (requests[s] # "rejected" \/ s \in contested)
    <3>1. PICK s \in {r, Reverse(r)} :
            s \in consented /\ (requests[s] = "accepted" \/ s \in contested)
      BY <2>1 DEF FriendsGranted
    <3>2. s \in Between(r[1], r[2])
      BY <2>1, <3>1 DEF IInv, TypeOK, Between, Reverse
    <3>3. QED
      BY <3>1, <3>2
  <2>2. QED
    BY <2>1 DEF RaceInv, FriendsNotRejected
<1>2. QED
  BY <1>1, Invariance, RaceInvariance, PTL

==============================================================================
