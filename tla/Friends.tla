------------------------------- MODULE Friends -------------------------------
(***************************************************************************)
(* FriendsService (src/src/modules/friends/services/friends.service.ts).   *)
(*                                                                         *)
(* Every method is an async handler that awaits one SQL statement after    *)
(* another, outside any transaction, so the statements of concurrent       *)
(* requests interleave.  A handler in flight occupies a slot; call[p].at   *)
(* names the statement it executes next.  A statement is atomic.  Any      *)
(* statement may be rejected instead of executed (Fail), which makes the   *)
(* handler throw and leaves what it has already written.                   *)
(*                                                                         *)
(* A row of friend_requests is identified with its pair <<requester,       *)
(* receiver>>: the schema has one row per ordered pair (uk_friend_request) *)
(* and no method ever deletes one.  A row of friendships is its pair       *)
(* <<user_a, user_b>>: no method writes a status other than 0.             *)
(***************************************************************************)
CONSTANTS
  Users,       \* the rows of the users table
  Active,      \* those with is_active = true
  Slots,       \* the requests that can be in flight at the same time
  NoUser

ASSUME FriendsAssumption ==
  /\ Active \subseteq Users
  /\ NoUser \notin Users

VARIABLES
  friendships, \* the rows of table friendships, as pairs
  requests,    \* the status of each row of table friend_requests
  call,        \* the handler in each slot
  reply,       \* what the last step returned or threw, if it ended a handler
  consented,   \* history: pairs whose receiver started to accept a pending request
  crossed,     \* history: pairs between whom a send has raced: see Crossing
  contested    \* history: requests whose verdicts have raced: see Contending

vars == <<friendships, requests, call, reply, consented, crossed, contested>>

Pairs == {r \in Users \X Users : r[1] # r[2]}

Between(a, b) == {<<a, b>>, <<b, a>>}

SendSteps   == {"send_user", "send_friends", "send_request", "send_insert", "send_read"}
AcceptSteps == {"accept_find", "accept_update", "accept_insert"}
RejectSteps == {"reject_find", "reject_update"}
DeleteSteps == {"delete_find", "delete_rows"}
Steps       == SendSteps \cup AcceptSteps \cup RejectSteps \cup DeleteSteps

Results == {"ok", "no_user", "already_friends", "request_exists", "not_found", "error"}

RequestStatus == {"none", "pending", "accepted", "rejected"}

Idle == [at |-> "idle", me |-> NoUser, peer |-> NoUser]

Handlers == [at : Steps, me : Users, peer : Users]

NoReply == [at |-> "idle", me |-> NoUser, peer |-> NoUser, result |-> "ok"]

Replies == {NoReply} \cup [at : Steps, me : Users, peer : Users, result : Results]

TypeOK ==
  /\ friendships \subseteq Users \X Users
  /\ requests \in [Pairs -> RequestStatus]
  /\ call \in [Slots -> {Idle} \cup Handlers]
  /\ reply \in Replies
  /\ consented \subseteq Users \X Users
  /\ crossed \subseteq Pairs
  /\ contested \subseteq Pairs

Init ==
  /\ friendships = {}
  /\ requests = [r \in Pairs |-> "none"]
  /\ call = [p \in Slots |-> Idle]
  /\ reply = NoReply
  /\ consented = {}
  /\ crossed = {}
  /\ contested = {}

------------------------------------------------------------------------------
(* The control of a handler.                                               *)

At(p, step) == call[p].at = step

Begin(p, step, u, f) ==
  /\ call[p] = Idle
  /\ call' = [call EXCEPT ![p] = [at |-> step, me |-> u, peer |-> f]]
  /\ reply' = NoReply

Await(p, step) ==
  /\ call' = [call EXCEPT ![p].at = step]
  /\ reply' = NoReply

Return(p, result) ==
  /\ call' = [call EXCEPT ![p] = Idle]
  /\ reply' = [at |-> call[p].at, me |-> call[p].me, peer |-> call[p].peer,
               result |-> result]

Fail(p) ==
  /\ call[p] # Idle
  /\ Return(p, "error")
  /\ UNCHANGED <<friendships, requests, consented>>

------------------------------------------------------------------------------
(* sendFriendRequest(userId, friendId)                                     *)

IsFriend(u, f) == Between(u, f) \cap friendships # {}

\* Mutant: the reverse direction is not looked at.
RequestExistsOneWay(u, f) == requests[<<u, f>>] # "none"

\* AND binds tighter than OR in the WHERE clause: a request in the same
\* direction counts whatever its status, one in the other only while pending.
RequestExists(u, f) ==
  \/ requests[<<u, f>>] # "none"
  \/ requests[<<f, u>>] = "pending"

SendFriendRequest(p, u, f) ==
  /\ u # f
  /\ Begin(p, "send_user", u, f)
  /\ UNCHANGED <<friendships, requests, consented>>

SendFindUser(p) ==
  /\ At(p, "send_user")
  /\ \/ call[p].peer \in Active    /\ Await(p, "send_friends")
     \/ call[p].peer \notin Active /\ Return(p, "no_user")
  /\ UNCHANGED <<friendships, requests, consented>>

\* Mutant: the check for an existing friendship is left out.
SendSkipsFriendship(p) ==
  /\ At(p, "send_friends")
  /\ Await(p, "send_request")
  /\ UNCHANGED <<friendships, requests, consented>>

SendFindFriendship(p) ==
  /\ At(p, "send_friends")
  /\ \/ ~IsFriend(call[p].me, call[p].peer) /\ Await(p, "send_request")
     \/ IsFriend(call[p].me, call[p].peer)  /\ Return(p, "already_friends")
  /\ UNCHANGED <<friendships, requests, consented>>

SendFindRequest(p) ==
  /\ At(p, "send_request")
  /\ \/ ~RequestExists(call[p].me, call[p].peer) /\ Await(p, "send_insert")
     \/ RequestExists(call[p].me, call[p].peer)  /\ Return(p, "request_exists")
  /\ UNCHANGED <<friendships, requests, consented>>

\* Mutant: INSERT ... ON DUPLICATE KEY UPDATE status = 0.
SendUpsert(p) ==
  /\ At(p, "send_insert")
  /\ requests' = [requests EXCEPT ![<<call[p].me, call[p].peer>>] = "pending"]
  /\ Await(p, "send_read")
  /\ UNCHANGED <<friendships, consented>>

\* uk_friend_request rejects a second row of the same pair: see Fail.
SendInsert(p) ==
  LET r == <<call[p].me, call[p].peer>> IN
  /\ At(p, "send_insert")
  /\ requests[r] = "none"
  /\ requests' = [requests EXCEPT ![r] = "pending"]
  /\ Await(p, "send_read")
  /\ UNCHANGED <<friendships, consented>>

SendReadBack(p) ==
  /\ At(p, "send_read")
  /\ Return(p, "ok")
  /\ UNCHANGED <<friendships, requests, consented>>

------------------------------------------------------------------------------
(* acceptFriendRequest(userId, requestId), rejectFriendRequest(...): the   *)
(* caller is the receiver and the request is <<requester, caller>>.        *)

AcceptFriendRequest(p, u, f) ==
  /\ u # f
  /\ Begin(p, "accept_find", u, f)
  /\ UNCHANGED <<friendships, requests, consented>>

AcceptFind(p) ==
  LET r == <<call[p].peer, call[p].me>> IN
  /\ At(p, "accept_find")
  /\ \/ /\ requests[r] = "pending"
        /\ consented' = consented \cup {r}
        /\ Await(p, "accept_update")
     \/ /\ requests[r] # "pending"
        /\ Return(p, "not_found")
        /\ UNCHANGED consented
  /\ UNCHANGED <<friendships, requests>>

\* Mutant: the handler returns without the INSERT.
AcceptUpdateReturns(p) ==
  /\ At(p, "accept_update")
  /\ requests' = [requests EXCEPT ![<<call[p].peer, call[p].me>>] = "accepted"]
  /\ Return(p, "ok")
  /\ UNCHANGED <<friendships, consented>>

\* The UPDATE names the row only: it does not look at the status again.
AcceptUpdate(p) ==
  /\ At(p, "accept_update")
  /\ requests' = [requests EXCEPT ![<<call[p].peer, call[p].me>>] = "accepted"]
  /\ Await(p, "accept_insert")
  /\ UNCHANGED <<friendships, consented>>

\* One INSERT of both rows.  uk_friendship_pair rejects it when either is there.
AcceptInsert(p) ==
  LET rows == Between(call[p].peer, call[p].me) IN
  /\ At(p, "accept_insert")
  /\ rows \cap friendships = {}
  /\ friendships' = friendships \cup rows
  /\ Return(p, "ok")
  /\ UNCHANGED <<requests, consented>>

RejectFriendRequest(p, u, f) ==
  /\ u # f
  /\ Begin(p, "reject_find", u, f)
  /\ UNCHANGED <<friendships, requests, consented>>

\* Mutant: the SELECT forgets AND status = 0.
RejectFindAnyStatus(p) ==
  LET r == <<call[p].peer, call[p].me>> IN
  /\ At(p, "reject_find")
  /\ \/ requests[r] # "none" /\ Await(p, "reject_update")
     \/ requests[r] = "none" /\ Return(p, "not_found")
  /\ UNCHANGED <<friendships, requests, consented>>

RejectFind(p) ==
  LET r == <<call[p].peer, call[p].me>> IN
  /\ At(p, "reject_find")
  /\ \/ requests[r] = "pending" /\ Await(p, "reject_update")
     \/ requests[r] # "pending" /\ Return(p, "not_found")
  /\ UNCHANGED <<friendships, requests, consented>>

RejectUpdate(p) ==
  /\ At(p, "reject_update")
  /\ requests' = [requests EXCEPT ![<<call[p].peer, call[p].me>>] = "rejected"]
  /\ Return(p, "ok")
  /\ UNCHANGED <<friendships, consented>>

------------------------------------------------------------------------------
(* deleteFriend(userId, friendId)                                          *)

DeleteFriend(p, u, f) ==
  /\ u # f
  /\ Begin(p, "delete_find", u, f)
  /\ UNCHANGED <<friendships, requests, consented>>

DeleteFind(p) ==
  /\ At(p, "delete_find")
  /\ \/ IsFriend(call[p].me, call[p].peer)  /\ Await(p, "delete_rows")
     \/ ~IsFriend(call[p].me, call[p].peer) /\ Return(p, "not_found")
  /\ UNCHANGED <<friendships, requests, consented>>

\* Mutant: the DELETE names the caller's row only.
DeleteRowsOneWay(p) ==
  /\ At(p, "delete_rows")
  /\ friendships' = friendships \ {<<call[p].me, call[p].peer>>}
  /\ Return(p, "ok")
  /\ UNCHANGED <<requests, consented>>

DeleteRows(p) ==
  /\ At(p, "delete_rows")
  /\ friendships' = friendships \ Between(call[p].me, call[p].peer)
  /\ Return(p, "ok")
  /\ UNCHANGED <<requests, consented>>

------------------------------------------------------------------------------

\* Only an active user logs in; the other one may be anybody.
Request(p) ==
  \E u \in Active, f \in Users :
    \/ SendFriendRequest(p, u, f)
    \/ AcceptFriendRequest(p, u, f)
    \/ RejectFriendRequest(p, u, f)
    \/ DeleteFriend(p, u, f)

Statement(p) ==
  \/ SendFindUser(p) \/ SendFindFriendship(p) \/ SendFindRequest(p)
  \/ SendInsert(p) \/ SendReadBack(p)
  \/ AcceptFind(p) \/ AcceptUpdate(p) \/ AcceptInsert(p)
  \/ RejectFind(p) \/ RejectUpdate(p)
  \/ DeleteFind(p) \/ DeleteRows(p)

Step == \E p \in Slots : Request(p) \/ Statement(p) \/ Fail(p)

------------------------------------------------------------------------------
(* History: the races the checks before the writes do not exclude.         *)

\* The handler in slot p works on u's rows with f and is at one of these steps.
Doing(p, steps, u, f) == call[p].at \in steps /\ call[p].me = u /\ call[p].peer = f

\* Two sends in opposite directions, both past their checks and before their
\* INSERTs, or a send past the friendship check while its caller is accepting a
\* request of the same peer.
Crossing ==
  {r \in Pairs : \E s \in Between(r[1], r[2]), p, q \in Slots :
     \/ /\ Doing(p, {"send_insert"}, s[1], s[2])
        /\ Doing(q, {"send_insert"}, s[2], s[1])
     \/ /\ Doing(p, {"send_request", "send_insert"}, s[1], s[2])
        /\ Doing(q, {"accept_update", "accept_insert"}, s[1], s[2])}

\* A request whose receiver is accepting and rejecting it, both past the check
\* that it is pending.
Contending ==
  {r \in Pairs : \E p, q \in Slots :
     /\ Doing(p, {"accept_update", "accept_insert"}, r[2], r[1])
     /\ Doing(q, {"reject_update"}, r[2], r[1])}

Next ==
  /\ Step
  /\ crossed' = crossed \cup Crossing'
  /\ contested' = contested \cup Contending'

Spec == Init /\ [][Next]_vars

------------------------------------------------------------------------------
(* Properties that hold for any number of concurrent requests.             *)

\* Friendship is mutual at every instant and never with oneself, although the
\* rows are written by several methods and checked by none: getFriendsList
\* reads one direction and createConversation either.
FriendshipMutual ==
  \A r \in friendships : r[1] # r[2] /\ <<r[2], r[1]>> \in friendships

\* Two people are friends only if one of them consented to a request of the
\* other, and that request has left the list of pending ones.
FriendsConsented ==
  \A r \in friendships :
    \E s \in Between(r[1], r[2]) :
      s \in consented /\ requests[s] \in {"accepted", "rejected"}

\* A request is created pending, and a verdict is never withdrawn: no schedule
\* of accept, reject and repeated sends makes an answered request pending again.
RequestsOnlyAdvance ==
  [][\A r \in Pairs : requests'[r] # requests[r] =>
       IF requests[r] = "none" THEN requests'[r] = "pending"
                               ELSE requests'[r] \in {"accepted", "rejected"}]_vars

\* The request says accepted, its two people are no friends, and no handler is
\* about to make them.
Stranded(r) ==
  /\ requests[r] = "accepted"
  /\ r \notin friendships
  /\ \A p \in Slots : ~(At(p, "accept_insert") /\ r = <<call[p].peer, call[p].me>>)

\* An accepted request is left without its friendship by nothing but an INSERT that
\* fails, and by deleteFriend: no other schedule strands it (friends.service.ts:84).
StrandedOnlyByFailure ==
  [][\A r \in Pairs : (Stranded(r)' /\ ~Stranded(r)) =>
       \/ reply'.at = "accept_insert" /\ reply'.result = "error"
       \/ reply'.at = "delete_rows" /\ r \in Between(reply'.me, reply'.peer)]_vars

\* The component implements the abstract graph of consented friendships.
Graph == INSTANCE SocialGraph WITH
           invited <- {r \in Pairs : requests[r] # "none"}, edges <- friendships

ImplementsGraph == Graph!Spec

------------------------------------------------------------------------------
(* Properties that only one race each can break: whatever else interleaves *)
(* or fails, the checks before the writes are enough.                      *)

\* Two people have requests open in both directions only if both of their sends
\* were past the check that looks at both directions (friends.service.ts:37)
\* before either wrote, or if one of them sent while accepting the other's.
OneOpenRequestPerPair ==
  \A r \in Pairs :
    requests[r] = "pending" /\ requests[<<r[2], r[1]>>] = "pending" => r \in crossed

\* Friends have no open request between them ("already friends", SRS line 335)
\* unless it was being sent while they became friends.
NoOpenRequestAmongFriends ==
  \A r \in friendships : requests[r] = "pending" => r \in crossed

\* Friends have a request between them that its receiver consented to and has not
\* rejected, unless the two verdicts on it raced: no repeated, failed or late
\* request turns down what a friendship rests on (friends.service.ts:97).
FriendsNotRejected ==
  \A r \in friendships :
    \E s \in Between(r[1], r[2]) :
      s \in consented /\ (requests[s] # "rejected" \/ s \in contested)

------------------------------------------------------------------------------
(* What the comments and the requirements say and the code does not do.    *)

\* Friends whose request has an answer were accepted: the friendship is not built
\* on a request that says rejected (01-init.sql:118 gives the statuses' meaning).
NoFriendshipOnRejection ==
  \A r \in friendships : \E s \in Between(r[1], r[2]) : requests[s] = "accepted"
==============================================================================
