---------------------------- MODULE Conversations ----------------------------
(***************************************************************************)
(* ConversationsService                                                    *)
(* (src/src/modules/conversations/services/conversations.service.ts):      *)
(* private conversations, groups and their members.                        *)
(*                                                                         *)
(* As in Friends, a handler is a sequence of SQL statements that interleave*)
(* with those of other requests, without a transaction; a statement that   *)
(* the database refuses makes the handler throw and undoes nothing.        *)
(*                                                                         *)
(* The database generates conversation ids and never reuses one.  The code *)
(* does not learn the id of the row it inserts: it reads back the latest   *)
(* row of the same type (or the same name) by created_at, a TIMESTAMP of   *)
(* one-second resolution.  Rows of the same second tie, and the SELECT may *)
(* return any of them.  The GroupChatNotificationService calls at the end  *)
(* of the handlers write nothing and catch every error.                    *)
(*                                                                         *)
(* Column owner_id is left out: it is written by the INSERT and read by no *)
(* method.  Columns updated_at and last_read_at belong to messages.        *)
(***************************************************************************)
EXTENDS Naturals, FiniteSets

CONSTANTS
  Users, Convs, Names, Slots,
  Friendships,    \* the rows of friendships, as pairs, both directions
  MaxSecond,      \* bound on the clock
  NoUser, NoConv, NoName

ASSUME ConversationsAssumption ==
  /\ MaxSecond \in Nat
  /\ NoUser \notin Users
  /\ NoConv \notin Convs
  /\ NoName \notin Names
  /\ Friendships \subseteq Users \X Users
  /\ \A r \in Friendships : r[1] # r[2] /\ <<r[2], r[1]>> \in Friendships

VARIABLES
  conv,           \* table conversations
  role,           \* table conversation_members: role of u in c, or "none"
  now,            \* the second of the database's clock
  call,           \* the handler in each slot
  reply,          \* what the last step returned or threw, if it ended a handler
  newcomers       \* history: who joined since a handler decided to delete: see Watch

vars == <<conv, role, now, call, reply, newcomers>>

PrivateSteps == {"private_friends", "private_existing", "private_insert",
                 "private_read", "private_members"}
GroupSteps   == {"group_insert", "group_read", "group_members"}
UpdateSteps  == {"update_owner", "update_row"}
LeaveSteps   == {"leave_member", "leave_row", "leave_count", "leave_conv"}
AddSteps     == {"add_owner", "add_existing", "add_row"}
RemoveSteps  == {"remove_rights", "remove_target", "remove_row"}
Steps == PrivateSteps \cup GroupSteps \cup UpdateSteps \cup LeaveSteps
           \cup AddSteps \cup RemoveSteps

Results == {"ok", "refused", "not_found", "error"}

Rows == [state : {"unused", "live", "deleted"}, type : {"private", "group"},
         name : Names \cup {NoName}, born : 0..MaxSecond]

Handlers == [at : Steps, me : Users, guests : SUBSET Users,
             conv : Convs \cup {NoConv}, name : Names \cup {NoName}]

Idle == [at |-> "idle", me |-> NoUser, guests |-> {}, conv |-> NoConv, name |-> NoName]

Replies == [at : Steps, me : Users, guests : SUBSET Users,
            conv : Convs \cup {NoConv}, result : Results]

NoReply == [at |-> "idle", me |-> NoUser, guests |-> {}, conv |-> NoConv, result |-> "ok"]

TypeOK ==
  /\ conv \in [Convs -> Rows]
  /\ role \in [Convs \X Users -> {"none", "member", "owner"}]
  /\ now \in 0..MaxSecond
  /\ call \in [Slots -> {Idle} \cup Handlers]
  /\ reply \in {NoReply} \cup Replies
  /\ newcomers \in [Slots -> SUBSET Users]

Init ==
  /\ conv = [c \in Convs |->
               [state |-> "unused", type |-> "private", name |-> NoName, born |-> 0]]
  /\ role = [m \in Convs \X Users |-> "none"]
  /\ now = 0
  /\ call = [p \in Slots |-> Idle]
  /\ reply = NoReply
  /\ newcomers = [p \in Slots |-> {}]

Live == {c \in Convs : conv[c].state = "live"}

Members(c) == {u \in Users : role[<<c, u>>] # "none"}

\* ORDER BY created_at DESC LIMIT 1: the rows it may return.
Latest(S) == {c \in S : \A d \in S : conv[d].born <= conv[c].born}

------------------------------------------------------------------------------
(* The control of a handler.                                               *)

At(p, step) == call[p].at = step

Begin(p, step, u, guests, c, name) ==
  /\ call[p] = Idle
  /\ call' = [call EXCEPT ![p] =
       [at |-> step, me |-> u, guests |-> guests, conv |-> c, name |-> name]]
  /\ reply' = NoReply
  /\ UNCHANGED <<conv, role, now>>

Await(p, step) ==
  /\ call' = [call EXCEPT ![p].at = step]
  /\ reply' = NoReply

AwaitWith(p, step, c) ==
  /\ call' = [call EXCEPT ![p].at = step, ![p].conv = c]
  /\ reply' = NoReply

ReturnConv(p, result, c) ==
  /\ call' = [call EXCEPT ![p] = Idle]
  /\ reply' = [at |-> call[p].at, me |-> call[p].me, guests |-> call[p].guests,
               conv |-> c, result |-> result]

Return(p, result) == ReturnConv(p, result, call[p].conv)

\* The statement is rejected, or the connection to the database is lost.
Fail(p) ==
  /\ call[p] # Idle
  /\ Return(p, "error")
  /\ UNCHANGED <<conv, role, now>>

\* The next second of the database's clock.
Tick ==
  /\ now < MaxSecond
  /\ now' = now + 1
  /\ reply' = NoReply
  /\ UNCHANGED <<conv, role, call>>

------------------------------------------------------------------------------
(* createConversation({type: 0, friendId})                                 *)

\* Bound: a creation starts only when an id is left for it.
IdLeft ==
  Cardinality({c \in Convs : conv[c].state = "unused"}) >
    Cardinality({p \in Slots : call[p].at \in {"private_friends", "private_existing",
                                               "private_insert", "group_insert"}})

CreatePrivate(p, u, f) ==
  /\ IdLeft
  /\ Begin(p, "private_friends", u, {f}, NoConv, NoName)

PrivateCheckFriends(p) ==
  LET areFriends == \E f \in call[p].guests : <<call[p].me, f>> \in Friendships IN
  /\ At(p, "private_friends")
  /\ \/ areFriends  /\ Await(p, "private_existing")
     \/ ~areFriends /\ Return(p, "refused")
  /\ UNCHANGED <<conv, role, now>>

\* user_id IN ($1, $2): a private conversation of either of the two.
ExistingPrivate(u, guests) ==
  {c \in Live : conv[c].type = "private" /\ Members(c) \cap ({u} \cup guests) # {}}

PrivateFindExisting(p) ==
  LET found == ExistingPrivate(call[p].me, call[p].guests) IN
  /\ At(p, "private_existing")
  /\ \/ found = {} /\ Await(p, "private_insert")
     \/ \E c \in found : ReturnConv(p, "ok", c)
  /\ UNCHANGED <<conv, role, now>>

InsertConv(c, type, name) ==
  /\ conv[c].state = "unused"
  /\ conv' = [conv EXCEPT ![c] =
                [state |-> "live", type |-> type, name |-> name, born |-> now]]
  /\ UNCHANGED <<role, now>>

PrivateInsert(p) ==
  /\ At(p, "private_insert")
  /\ \E c \in Convs : InsertConv(c, "private", NoName)
  /\ Await(p, "private_read")

\* With no row, rows[0] is undefined and reading its id throws.
ReadBack(p, S, step) ==
  /\ \/ \E c \in Latest(S) : AwaitWith(p, step, c)
     \/ S = {} /\ Return(p, "error")
  /\ UNCHANGED <<conv, role, now>>

PrivateReadBack(p) ==
  /\ At(p, "private_read")
  /\ ReadBack(p, {c \in Live : conv[c].type = "private"}, "private_members")

\* One INSERT of several rows: the foreign key wants the conversation, and
\* unique key (conversation_id, user_id) none of the rows.
InsertMembers(p, c, owners, members) ==
  LET fits == c \in Live /\ Members(c) \cap (owners \cup members) = {}
                         /\ owners \cap members = {} IN
  /\ \/ /\ fits
        /\ role' = [m \in Convs \X Users |->
                      IF m[1] = c /\ m[2] \in owners THEN "owner"
                      ELSE IF m[1] = c /\ m[2] \in members THEN "member"
                      ELSE role[m]]
        /\ Return(p, "ok")
     \/ ~fits /\ Return(p, "error") /\ UNCHANGED role
  /\ UNCHANGED <<conv, now>>

PrivateAddMembers(p) ==
  /\ At(p, "private_members")
  /\ InsertMembers(p, call[p].conv, {}, {call[p].me} \cup call[p].guests)

------------------------------------------------------------------------------
(* createConversation({type: 1, name, memberIds}).  guests is the set of   *)
(* memberIds; a list that repeats an id is rejected like one that holds    *)
(* the caller's own.                                                       *)

CreateGroup(p, u, guests, name) ==
  /\ IdLeft
  /\ guests # {}
  /\ Begin(p, "group_insert", u, guests, NoConv, name)

GroupInsert(p) ==
  /\ At(p, "group_insert")
  /\ \E c \in Convs : InsertConv(c, "group", call[p].name)
  /\ Await(p, "group_read")

\* Mutant: the read-back does not ask for type = 1.
GroupReadBackAnyType(p) ==
  /\ At(p, "group_read")
  /\ ReadBack(p, Live, "group_members")

GroupReadBack(p) ==
  /\ At(p, "group_read")
  /\ ReadBack(p, {c \in Live : conv[c].type = "group" /\ conv[c].name = call[p].name},
              "group_members")

GroupAddMembers(p) ==
  /\ At(p, "group_members")
  /\ InsertMembers(p, call[p].conv, {call[p].me}, call[p].guests)

------------------------------------------------------------------------------
(* updateConversation, for the field that another method reads: the name.  *)

IsOwner(u, c) == role[<<c, u>>] = "owner"

UpdateConversation(p, u, c, name) == Begin(p, "update_owner", u, {}, c, name)

\* Mutant: the check forgets AND role = 2.
UpdateCheckMember(p) ==
  /\ At(p, "update_owner")
  /\ call[p].me \in Members(call[p].conv)
  /\ Await(p, "update_row")
  /\ UNCHANGED <<conv, role, now>>

UpdateCheckOwner(p) ==
  /\ At(p, "update_owner")
  /\ \/ IsOwner(call[p].me, call[p].conv)  /\ Await(p, "update_row")
     \/ ~IsOwner(call[p].me, call[p].conv) /\ Return(p, "not_found")
  /\ UNCHANGED <<conv, role, now>>

UpdateRow(p) ==
  /\ At(p, "update_row")
  /\ conv' = [c \in Convs |-> IF c = call[p].conv /\ c \in Live
                              THEN [conv[c] EXCEPT !.name = call[p].name]
                              ELSE conv[c]]
  /\ Return(p, "ok")
  /\ UNCHANGED <<role, now>>

------------------------------------------------------------------------------
(* leaveConversation                                                       *)

LeaveConversation(p, u, c) == Begin(p, "leave_member", u, {}, c, NoName)

LeaveCheckMember(p) ==
  /\ At(p, "leave_member")
  /\ \/ call[p].me \in Members(call[p].conv)    /\ Await(p, "leave_row")
     \/ call[p].me \notin Members(call[p].conv) /\ Return(p, "not_found")
  /\ UNCHANGED <<conv, role, now>>

LeaveDeleteRow(p) ==
  /\ At(p, "leave_row")
  /\ role' = [role EXCEPT ![<<call[p].conv, call[p].me>>] = "none"]
  /\ Await(p, "leave_count")
  /\ UNCHANGED <<conv, now>>

\* Mutants: the conversation goes when one member is left; it never goes.
LeaveCountOne(p) ==
  /\ At(p, "leave_count")
  /\ \/ Cardinality(Members(call[p].conv)) <= 1 /\ Await(p, "leave_conv")
     \/ Cardinality(Members(call[p].conv)) > 1  /\ Return(p, "ok")
  /\ UNCHANGED <<conv, role, now>>

LeaveKeepsConv(p) ==
  /\ At(p, "leave_count")
  /\ Return(p, "ok")
  /\ UNCHANGED <<conv, role, now>>

LeaveCount(p) ==
  /\ At(p, "leave_count")
  /\ \/ Members(call[p].conv) = {} /\ Await(p, "leave_conv")
     \/ Members(call[p].conv) # {} /\ Return(p, "ok")
  /\ UNCHANGED <<conv, role, now>>

\* Mutant: the rows of c stay, as without the foreign key of conversation_members.
LeaveDeletesOnlyConv(p) ==
  /\ At(p, "leave_conv")
  /\ conv' = [conv EXCEPT ![call[p].conv].state = "deleted"]
  /\ Return(p, "ok")
  /\ UNCHANGED <<role, now>>

\* The foreign key of conversation_members deletes the rows of c with it.
LeaveDeleteConv(p) ==
  LET c == call[p].conv IN
  /\ At(p, "leave_conv")
  /\ conv' = [conv EXCEPT ![c].state = "deleted"]
  /\ role' = [m \in Convs \X Users |-> IF m[1] = c THEN "none" ELSE role[m]]
  /\ Return(p, "ok")
  /\ UNCHANGED now

------------------------------------------------------------------------------
(* addMember and removeMember                                              *)

AddMember(p, u, c, g) == Begin(p, "add_owner", u, {g}, c, NoName)

\* Mutant: any member may add.
AddCheckMember(p) ==
  /\ At(p, "add_owner")
  /\ call[p].me \in Members(call[p].conv)
  /\ Await(p, "add_existing")
  /\ UNCHANGED <<conv, role, now>>

AddCheckOwner(p) ==
  /\ At(p, "add_owner")
  /\ \/ IsOwner(call[p].me, call[p].conv)  /\ Await(p, "add_existing")
     \/ ~IsOwner(call[p].me, call[p].conv) /\ Return(p, "not_found")
  /\ UNCHANGED <<conv, role, now>>

AddCheckExisting(p) ==
  LET isMember == call[p].guests \subseteq Members(call[p].conv) IN
  /\ At(p, "add_existing")
  /\ \/ ~isMember /\ Await(p, "add_row")
     \/ isMember  /\ Return(p, "refused")
  /\ UNCHANGED <<conv, role, now>>

AddInsertRow(p) ==
  /\ At(p, "add_row")
  /\ InsertMembers(p, call[p].conv, {}, call[p].guests)

RemoveMember(p, u, c, g) == Begin(p, "remove_rights", u, {g}, c, NoName)

\* role IN (1, 2): no method ever writes role 1.
RemoveCheckRights(p) ==
  /\ At(p, "remove_rights")
  /\ \/ IsOwner(call[p].me, call[p].conv)  /\ Await(p, "remove_target")
     \/ ~IsOwner(call[p].me, call[p].conv) /\ Return(p, "not_found")
  /\ UNCHANGED <<conv, role, now>>

\* Mutant: the role of the target is not looked at.
RemoveSkipsTarget(p) ==
  /\ At(p, "remove_target")
  /\ Await(p, "remove_row")
  /\ UNCHANGED <<conv, role, now>>

\* The role of somebody who is no member is read from an undefined row.
RemoveCheckTarget(p) ==
  LET roles == {role[<<call[p].conv, g>>] : g \in call[p].guests} IN
  /\ At(p, "remove_target")
  /\ \/ roles = {"member"} /\ Await(p, "remove_row")
     \/ roles = {"owner"}  /\ Return(p, "refused")
     \/ roles = {"none"}   /\ Return(p, "error")
  /\ UNCHANGED <<conv, role, now>>

RemoveDeleteRow(p) ==
  /\ At(p, "remove_row")
  /\ role' = [m \in Convs \X Users |->
                IF m[1] = call[p].conv /\ m[2] \in call[p].guests THEN "none" ELSE role[m]]
  /\ Return(p, "ok")
  /\ UNCHANGED <<conv, now>>

------------------------------------------------------------------------------

Create(p) ==
  \E u \in Users :
    \/ \E f \in Users : CreatePrivate(p, u, f)
    \/ \E guests \in SUBSET Users, name \in Names : CreateGroup(p, u, guests, name)

Manage(p) ==
  \E u \in Users, c \in Convs :
    \/ LeaveConversation(p, u, c)
    \/ \E name \in Names : UpdateConversation(p, u, c, name)
    \/ \E g \in Users : AddMember(p, u, c, g) \/ RemoveMember(p, u, c, g)

Request(p) == Create(p) \/ Manage(p)

Statement(p) ==
  \/ PrivateCheckFriends(p) \/ PrivateFindExisting(p) \/ PrivateInsert(p)
  \/ PrivateReadBack(p) \/ PrivateAddMembers(p)
  \/ GroupInsert(p) \/ GroupReadBack(p) \/ GroupAddMembers(p)
  \/ UpdateCheckOwner(p) \/ UpdateRow(p)
  \/ LeaveCheckMember(p) \/ LeaveDeleteRow(p) \/ LeaveCount(p) \/ LeaveDeleteConv(p)
  \/ AddCheckOwner(p) \/ AddCheckExisting(p) \/ AddInsertRow(p)
  \/ RemoveCheckRights(p) \/ RemoveCheckTarget(p) \/ RemoveDeleteRow(p)

Step == Tick \/ \E p \in Slots : Request(p) \/ Statement(p) \/ Fail(p)

\* History: while a handler is about to delete a conversation or a member, those who
\* have joined the conversation since its last statement.
Watch ==
  newcomers' = [p \in Slots |->
    IF call'[p] = call[p] /\ call[p].at \in {"leave_conv", "remove_row"}
    THEN newcomers[p] \cup {u \in Users : /\ role[<<call[p].conv, u>>] = "none"
                                           /\ role'[<<call[p].conv, u>>] # "none"}
    ELSE {}]

Next == Step /\ Watch

Spec == Init /\ [][Next]_vars

------------------------------------------------------------------------------
(* Properties that hold for any number of concurrent requests.             *)

\* Nobody owns a private conversation, although INSERTs into
\* conversation_members go to whatever conversation a read-back returned.
PrivateHasNoOwner ==
  \A c \in Convs, u \in Users : IsOwner(u, c) => conv[c].type = "group"

\* What only an owner may do reaches groups only: no rename, addition or
\* removal that has passed its check is aimed at a private conversation.
OnlyGroupsAreManaged ==
  \A p \in Slots :
    call[p].at \in {"update_row", "add_existing", "add_row", "remove_target", "remove_row"}
      => conv[call[p].conv].type = "group"

\* A private conversation gains members only from a createConversation that
\* names them: addMember cannot widen it, whatever else is going on.
PrivateGainsOnlyItsPair ==
  [][\A c \in Convs : (conv[c].type = "private" /\ Members(c)' \ Members(c) # {}) =>
       \E p \in Slots : /\ call[p].at = "private_members" /\ call[p].conv = c
                        /\ Members(c)' \ Members(c) = {call[p].me} \cup call[p].guests]_vars

\* A member's role never changes while the membership lasts: nobody is promoted,
\* and ownership is not handed over.
RolesAreForLife ==
  [][\A m \in Convs \X Users :
       role[m] # "none" /\ role'[m] # "none" => role'[m] = role[m]]_vars

\* To a service that reads them, the two tables behave as MembershipTable says, under
\* any interleaving and any failure: a conversation is founded once, nobody is admitted
\* twice or to one that is closed, and a closed one never opens again.
Founded == {c \in Convs : conv[c].state # "unused"}

MemberRows == {m \in Convs \X Users : role[m] # "none"}

Table == INSTANCE MembershipTable WITH
           Conversations <- Convs, founded <- Founded, open <- Live, members <- MemberRows

ImplementsTable == Table!Spec

\* The handler in slot p executes its statement.
Executes(p, steps) == call[p].at \in steps /\ call'[p] # call[p]

\* A conversation is deleted by somebody who counted nobody in it, and with nobody
\* but people who joined after that count (conversations.service.ts:294, "if no
\* members are left, delete it").
DeletedOnlyWhenCountedEmpty ==
  [][\A c \in Convs : (conv[c].state = "live" /\ conv'[c].state = "deleted") =>
       \E p \in Slots : /\ Executes(p, {"leave_conv"}) /\ call[p].conv = c
                        /\ Members(c) \subseteq newcomers[p]]_vars

\* While a conversation lives, its owner's row goes when the owner leaves, or with a
\* removal that checked the role of the same person before he came back as the owner
\* (conversations.service.ts:355, "the owner cannot be removed").
OwnerIsNotRemoved ==
  [][\A c \in Live, u \in Users : (IsOwner(u, c) /\ ~IsOwner(u, c)' /\ c \in Live') =>
       \E p \in Slots :
         /\ call[p].conv = c
         /\ \/ Executes(p, {"leave_row"}) /\ call[p].me = u
            \/ Executes(p, {"remove_row"}) /\ u \in newcomers[p]]_vars

\* A handler will put somebody into c, or delete it.
Owed(c) ==
  \E p \in Slots :
    \/ At(p, "private_read") /\ c \in Latest({d \in Live : conv[d].type = "private"})
    \/ /\ At(p, "group_read")
       /\ c \in Latest({d \in Live : conv[d].type = "group" /\ conv[d].name = call[p].name})
    \/ /\ call[p].at \in {"private_members", "group_members", "leave_count", "leave_conv"}
       /\ call[p].conv = c

Abandoned == {c \in Live : Members(c) = {} /\ ~Owed(c)}

Outdone(c) == \E d \in Live \ {c} : conv[d].born >= conv[c].born

\* No conversation is left behind with nobody in it, for ever, except by a handler
\* that throws between its INSERTs or before its DELETE, by one whose row is no more the
\* one that its creator reads back, and by a removal whose caller is its owner no more
\* or has come back as its owner (conversations.service.ts:60, 67, 300, 367).
AbandonedOnlyByFailure ==
  [][reply'.result = "error" \/
     \A c \in Abandoned' \ Abandoned :
       \E p \in Slots :
         \/ /\ Executes(p, {"private_insert", "private_read", "group_insert", "group_read",
                            "update_row"})
            /\ Outdone(c)'
         \/ Executes(p, {"update_row"}) /\ call[p].conv = c
         \/ /\ Executes(p, {"remove_row"}) /\ call[p].conv = c
            /\ ~IsOwner(call[p].me, c) \/ call[p].me \in newcomers[p]]_vars

------------------------------------------------------------------------------
(* What the comments and the requirements say and the code does not do.    *)

\* The private conversation that "already exists" is one of the two people
\* (conversations.service.ts:35).
ExistingIsShared ==
  (reply.at = "private_existing" /\ reply.result = "ok") =>
    {reply.me} \cup reply.guests \subseteq Members(reply.conv)
==============================================================================
