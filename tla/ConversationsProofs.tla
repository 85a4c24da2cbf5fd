------------------------- MODULE ConversationsProofs -------------------------
(***************************************************************************)
(* Proofs about Conversations and GroupNotices for every set of users,     *)
(* conversations, names and sockets and every number of concurrent         *)
(* requests.                                                               *)
(*                                                                         *)
(* The read-back of createConversation may return somebody else's          *)
(* conversation, so nothing can be said of whose rows an INSERT joins.     *)
(* What survives is the type: a conversation keeps it for life (TypeFixed),*)
(* and every statement in flight is aimed at a conversation of the type    *)
(* its method deals with (InFlight).  What a handler read before it deletes*)
(* is still so, but for those who have joined since (WatchInv).            *)
(* The last part is about GroupNotices: what a notice on its way says      *)
(* (Honest) and what the sockets have heard (Heard).                       *)
(***************************************************************************)
EXTENDS GroupNotices, TLAPS

GroupOnly == {"group_members", "update_row", "add_existing", "add_row",
              "remove_target", "remove_row"}

OwnerChecks == {"update_owner", "add_owner", "remove_rights"}

\* The conversation a handler has read back, or whose owner it has found the
\* caller to be, exists or has existed, and is of the handler's type.
InFlight(p) ==
  LET c == call[p].conv IN
  /\ call[p].at \in OwnerChecks => c \in Convs
  /\ call[p].at \in GroupOnly =>
       c \in Convs /\ conv[c].state # "unused" /\ conv[c].type = "group"
  /\ call[p].at = "private_members" =>
       c \in Convs /\ conv[c].state # "unused" /\ conv[c].type = "private"

\* The foreign key: a member row belongs to a row of conversations.
MembersOfLive ==
  \A c \in Convs, u \in Users : role[<<c, u>>] # "none" => conv[c].state = "live"

IInv ==
  /\ TypeOK
  /\ MembersOfLive
  /\ PrivateHasNoOwner
  /\ \A p \in Slots : InFlight(p)

\* A conversation that exists keeps its type, and its id is not given again.
TypeFixed ==
  \A c \in Convs : conv[c].state # "unused" =>
    conv'[c].state # "unused" /\ conv'[c].type = conv[c].type

Handle(p) == Request(p) \/ Statement(p) \/ Fail(p)

------------------------------------------------------------------------------

LEMMA StepNames == "idle" \notin Steps /\ GroupOnly \subseteq Steps
  BY DEF Steps, PrivateSteps, GroupSteps, UpdateSteps, LeaveSteps, AddSteps,
         RemoveSteps, GroupOnly

\* A new request touches nothing but its slot.
LEMMA RequestFrame ==
  ASSUME NEW p \in Slots, Request(p)
  PROVE  \E step \in {"private_friends", "group_insert", "update_owner", "leave_member",
                      "add_owner", "remove_rights"}, u \in Users, guests \in SUBSET Users,
            c \in Convs \cup {NoConv}, name \in Names \cup {NoName} :
           /\ Begin(p, step, u, guests, c, name)
           /\ step \in OwnerChecks \cup {"leave_member"} => c \in Convs
<1>1. CASE Create(p)
  <2>1. PICK u \in Users :
          \/ \E f \in Users : CreatePrivate(p, u, f)
          \/ \E guests \in SUBSET Users, name \in Names : CreateGroup(p, u, guests, name)
    BY <1>1 DEF Create
  <2>2. CASE \E f \in Users : CreatePrivate(p, u, f)
    BY <2>2 DEF CreatePrivate, OwnerChecks
  <2>3. CASE \E guests \in SUBSET Users, name \in Names : CreateGroup(p, u, guests, name)
    BY <2>3 DEF CreateGroup, OwnerChecks
  <2>4. QED
    BY <2>1, <2>2, <2>3
<1>2. CASE Manage(p)
  <2>1. PICK u \in Users, c \in Convs :
          \/ LeaveConversation(p, u, c)
          \/ \E name \in Names : UpdateConversation(p, u, c, name)
          \/ \E g \in Users : AddMember(p, u, c, g) \/ RemoveMember(p, u, c, g)
    BY <1>2 DEF Manage
  <2>2. CASE LeaveConversation(p, u, c)
    BY <2>2 DEF LeaveConversation
  <2>3. CASE \E name \in Names : UpdateConversation(p, u, c, name)
    BY <2>3 DEF UpdateConversation
  <2>4. CASE \E g \in Users : AddMember(p, u, c, g) \/ RemoveMember(p, u, c, g)
    BY <2>4 DEF AddMember, RemoveMember
  <2>5. QED
    BY <2>1, <2>2, <2>3, <2>4
<1>3. QED
  BY <1>1, <1>2 DEF Request

LEMMA TypeFixedStep ==
  ASSUME TypeOK, [Next]_vars
  PROVE  TypeFixed
<1> USE DEF TypeFixed, TypeOK, Rows
<1>1. ASSUME NEW c \in Convs, NEW type, NEW name, InsertConv(c, type, name)
      PROVE  TypeFixed
  BY <1>1 DEF InsertConv
<1>2. ASSUME NEW p \in Slots, UpdateRow(p)
      PROVE  TypeFixed
  BY <1>2 DEF UpdateRow
<1>3. ASSUME NEW p \in Slots, LeaveDeleteConv(p)
      PROVE  TypeFixed
  BY <1>3 DEF LeaveDeleteConv
<1>4. ASSUME UNCHANGED conv
      PROVE  TypeFixed
  BY <1>4
<1>5. ASSUME NEW p \in Slots, Request(p)
      PROVE  UNCHANGED conv
  BY <1>5, RequestFrame DEF Begin
<1>6. ASSUME NEW p \in Slots, Statement(p)
      PROVE  TypeFixed
  BY <1>6, <1>1, <1>2, <1>3, <1>4
     DEF Statement, PrivateCheckFriends, PrivateFindExisting, PrivateInsert,
         PrivateReadBack, PrivateAddMembers, GroupInsert, GroupReadBack, GroupAddMembers,
         ReadBack, InsertMembers, UpdateCheckOwner, LeaveCheckMember, LeaveDeleteRow,
         LeaveCount, AddCheckOwner, AddCheckExisting, AddInsertRow, RemoveCheckRights,
         RemoveCheckTarget, RemoveDeleteRow
<1>7. QED
  BY <1>4, <1>5, <1>6 DEF Next, Step, Tick, Fail, vars

\* Writes to conversation_members: InsertMembers fills empty places only.
LEMMA InsertFillsGaps ==
  ASSUME TypeOK, NEW p \in Slots, NEW c, NEW owners, NEW members,
         InsertMembers(p, c, owners, members)
  PROVE  /\ UNCHANGED <<conv, now>>
         /\ \A m \in Convs \X Users : role'[m] # role[m] =>
              /\ role[m] = "none" /\ m[1] = c /\ c \in Live
              /\ \/ m[2] \in owners /\ role'[m] = "owner"
                 \/ m[2] \in members /\ role'[m] = "member"
         /\ role' \in [Convs \X Users -> {"none", "member", "owner"}]
<1>1. CASE UNCHANGED role
  BY <1>1 DEF InsertMembers, TypeOK
<1>2. CASE role' = [m \in Convs \X Users |->
                      IF m[1] = c /\ m[2] \in owners THEN "owner"
                      ELSE IF m[1] = c /\ m[2] \in members THEN "member"
                      ELSE role[m]]
           /\ c \in Live /\ Members(c) \cap (owners \cup members) = {}
  <2>1. ASSUME NEW m \in Convs \X Users, role'[m] # role[m]
        PROVE  /\ role[m] = "none" /\ m[1] = c /\ c \in Live
               /\ \/ m[2] \in owners /\ role'[m] = "owner"
                  \/ m[2] \in members /\ role'[m] = "member"
    <3>1. m[1] = c /\ m[2] \in owners \cup members /\ m[2] \in Users
      BY <1>2, <2>1
    <3>2. m[2] \notin Members(c)
      BY <1>2, <3>1
    <3>3. m = <<c, m[2]>>
      <4>1. \A n \in Convs \X Users : n = <<n[1], n[2]>>
        OBVIOUS
      <4>2. QED
        BY <3>1, <4>1
    <3>4. role[m] = "none"
      BY <3>1, <3>2, <3>3 DEF Members
    <3>5. QED
      BY <1>2, <2>1, <3>1, <3>4
  <2>2. role' \in [Convs \X Users -> {"none", "member", "owner"}]
    BY <1>2 DEF TypeOK
  <2>3. QED
    BY <2>1, <2>2, <1>2 DEF InsertMembers
<1>3. QED
  BY <1>1, <1>2 DEF InsertMembers

------------------------------------------------------------------------------
(* Type correctness.                                                       *)

\* The steps of a handler keep its slot well-typed.
LEMMA ControlTypes ==
  ASSUME TypeOK, NEW p \in Slots
  PROVE  /\ \A step \in Steps, u \in Users, guests \in SUBSET Users,
               c \in Convs \cup {NoConv}, name \in Names \cup {NoName} :
              Begin(p, step, u, guests, c, name) =>
                /\ call' \in [Slots -> {Idle} \cup Handlers]
                /\ reply' \in {NoReply} \cup Replies
         /\ call[p] # Idle =>
              \A step \in Steps, c \in Convs \cup {NoConv}, result \in Results :
                Await(p, step) \/ AwaitWith(p, step, c) \/ ReturnConv(p, result, c)
                  \/ Return(p, result)
                => /\ call' \in [Slots -> {Idle} \cup Handlers]
                   /\ reply' \in {NoReply} \cup Replies
<1> USE DEF TypeOK, Handlers, Replies
<1>1. \A step \in Steps, u \in Users, guests \in SUBSET Users,
         c \in Convs \cup {NoConv}, name \in Names \cup {NoName} :
        Begin(p, step, u, guests, c, name) =>
          /\ call' \in [Slots -> {Idle} \cup Handlers]
          /\ reply' \in {NoReply} \cup Replies
  BY DEF Begin
<1>2. ASSUME call[p] # Idle, NEW step \in Steps, NEW c \in Convs \cup {NoConv},
             NEW result \in Results
      PROVE  Await(p, step) \/ AwaitWith(p, step, c) \/ ReturnConv(p, result, c)
                  \/ Return(p, result)
                => /\ call' \in [Slots -> {Idle} \cup Handlers]
                   /\ reply' \in {NoReply} \cup Replies
  <2>1. call[p] \in Handlers
    BY <1>2
  <2>2. CASE Await(p, step)
    BY <2>1, <2>2 DEF Await
  <2>3. CASE AwaitWith(p, step, c)
    BY <2>1, <2>3 DEF AwaitWith
  <2>4. ASSUME NEW d \in Convs \cup {NoConv}, ReturnConv(p, result, d)
        PROVE  /\ call' \in [Slots -> {Idle} \cup Handlers]
               /\ reply' \in {NoReply} \cup Replies
    BY <2>1, <2>4 DEF ReturnConv
  <2>5. CASE Return(p, result)
    BY <2>1, <2>4, <2>5 DEF Return
  <2>6. QED
    BY <2>2, <2>3, <2>4, <2>5
<1>3. QED
  BY <1>1, <1>2

\* The steps of a handler keep the two tables well-typed.
LEMMA TableTypes ==
  ASSUME TypeOK, NEW p \in Slots, Statement(p)
  PROVE  conv' \in [Convs -> Rows] /\ now' = now
         /\ role' \in [Convs \X Users -> {"none", "member", "owner"}]
<1> USE DEF TypeOK
<1>1. ASSUME NEW c, NEW type \in {"private", "group"}, NEW name \in Names \cup {NoName},
             InsertConv(c, type, name)
      PROVE  conv' \in [Convs -> Rows] /\ UNCHANGED <<role, now>>
  BY <1>1 DEF InsertConv, Rows
<1>2. ASSUME NEW step, At(p, step), step \in Steps
      PROVE  call[p] \in Handlers
  BY <1>2, StepNames DEF At, Idle
<1>3. CASE PrivateInsert(p)
  BY <1>1, <1>3 DEF PrivateInsert
<1>4. CASE GroupInsert(p)
  <2>1. call[p].name \in Names \cup {NoName}
    BY <1>2, <1>4 DEF GroupInsert, Handlers, Steps, GroupSteps
  <2>2. QED
    BY <1>1, <1>4, <2>1 DEF GroupInsert
<1>5. CASE PrivateAddMembers(p) \/ GroupAddMembers(p) \/ AddInsertRow(p)
  BY <1>5, InsertFillsGaps DEF PrivateAddMembers, GroupAddMembers, AddInsertRow
<1>6. CASE UpdateRow(p)
  <2>1. call[p].name \in Names \cup {NoName}
    BY <1>2, <1>6 DEF UpdateRow, Handlers, Steps, UpdateSteps
  <2>2. QED
    BY <1>6, <2>1 DEF UpdateRow, Rows
<1>7. CASE LeaveDeleteRow(p)
  BY <1>7 DEF LeaveDeleteRow
<1>8. CASE LeaveDeleteConv(p)
  BY <1>8 DEF LeaveDeleteConv, Rows
<1>9. CASE RemoveDeleteRow(p)
  BY <1>9 DEF RemoveDeleteRow
<1>10. CASE UNCHANGED <<conv, role, now>>
  BY <1>10
<1>11. QED
  BY <1>3, <1>4, <1>5, <1>6, <1>7, <1>8, <1>9, <1>10
     DEF Statement, PrivateCheckFriends, PrivateFindExisting, PrivateReadBack,
         GroupReadBack, ReadBack, UpdateCheckOwner, LeaveCheckMember, LeaveCount,
         AddCheckOwner, AddCheckExisting, RemoveCheckRights, RemoveCheckTarget

\* The next step of a handler is one of its own, or its end.
LEMMA StatementControl ==
  ASSUME NEW p \in Slots, Statement(p)
  PROVE  /\ \E step \in Steps : At(p, step)
         /\ \/ \E step \in Steps : Await(p, step)
            \/ \E step \in Steps, c \in Live : AwaitWith(p, step, c)
            \/ \E result \in Results, c \in Live : ReturnConv(p, result, c)
            \/ \E result \in Results : Return(p, result)
<1> USE DEF Steps, PrivateSteps, GroupSteps, UpdateSteps, LeaveSteps, AddSteps,
        RemoveSteps, Results
<1>1. CASE PrivateCheckFriends(p) \/ PrivateInsert(p) \/ PrivateAddMembers(p)
  BY <1>1 DEF PrivateCheckFriends, PrivateInsert, PrivateAddMembers, InsertMembers
<1>2. CASE PrivateFindExisting(p)
  BY <1>2 DEF PrivateFindExisting, ExistingPrivate
<1>3. CASE PrivateReadBack(p) \/ GroupReadBack(p)
  BY <1>3 DEF PrivateReadBack, GroupReadBack, ReadBack, Latest
<1>4. CASE GroupInsert(p) \/ GroupAddMembers(p) \/ UpdateCheckOwner(p) \/ UpdateRow(p)
  BY <1>4 DEF GroupInsert, GroupAddMembers, InsertMembers, UpdateCheckOwner, UpdateRow
<1>5. CASE LeaveCheckMember(p) \/ LeaveDeleteRow(p) \/ LeaveCount(p) \/ LeaveDeleteConv(p)
  BY <1>5 DEF LeaveCheckMember, LeaveDeleteRow, LeaveCount, LeaveDeleteConv
<1>6. CASE AddCheckOwner(p) \/ AddCheckExisting(p) \/ AddInsertRow(p)
  BY <1>6 DEF AddCheckOwner, AddCheckExisting, AddInsertRow, InsertMembers
<1>7. CASE RemoveCheckRights(p) \/ RemoveCheckTarget(p) \/ RemoveDeleteRow(p)
  BY <1>7 DEF RemoveCheckRights, RemoveCheckTarget, RemoveDeleteRow
<1>8. QED
  BY <1>1, <1>2, <1>3, <1>4, <1>5, <1>6, <1>7 DEF Statement

\* A step of the handlers or of the clock, whatever the history records.
LEMMA StepTypes ==
  ASSUME TypeOK, Step
  PROVE  /\ conv' \in [Convs -> Rows]
         /\ role' \in [Convs \X Users -> {"none", "member", "owner"}]
         /\ now' \in 0..MaxSecond
         /\ call' \in [Slots -> {Idle} \cup Handlers]
         /\ reply' \in {NoReply} \cup Replies
<1> DEFINE Typed == /\ conv' \in [Convs -> Rows]
                    /\ role' \in [Convs \X Users -> {"none", "member", "owner"}]
                    /\ now' \in 0..MaxSecond
                    /\ call' \in [Slots -> {Idle} \cup Handlers]
                    /\ reply' \in {NoReply} \cup Replies
<1>1. ASSUME NEW p \in Slots, Request(p)
      PROVE  Typed
  <2>1. {"private_friends", "group_insert", "update_owner", "leave_member",
         "add_owner", "remove_rights"} \subseteq Steps
    BY DEF Steps, PrivateSteps, GroupSteps, UpdateSteps, LeaveSteps, AddSteps, RemoveSteps
  <2>2. PICK step \in Steps, u \in Users, guests \in SUBSET Users,
             c \in Convs \cup {NoConv}, name \in Names \cup {NoName} :
          Begin(p, step, u, guests, c, name)
    BY <1>1, <2>1, RequestFrame
  <2>3. call' \in [Slots -> {Idle} \cup Handlers] /\ reply' \in {NoReply} \cup Replies
    BY <2>2, ControlTypes
  <2>4. QED
    BY <2>2, <2>3 DEF Begin, TypeOK
<1>2. ASSUME NEW p \in Slots, Statement(p)
      PROVE  Typed
  <2>1. conv' \in [Convs -> Rows] /\ now' = now
         /\ role' \in [Convs \X Users -> {"none", "member", "owner"}]
    BY <1>2, TableTypes
  <2>2. call[p] # Idle
    BY <1>2, StatementControl, StepNames DEF At, Idle
  <2>3. Live \subseteq Convs /\ Results # {} /\ Steps # {}
    BY DEF Live, Results, Steps, LeaveSteps
  <2>4. call' \in [Slots -> {Idle} \cup Handlers] /\ reply' \in {NoReply} \cup Replies
    BY <1>2, <2>2, <2>3, StatementControl, ControlTypes
  <2>5. QED
    BY <2>1, <2>4 DEF TypeOK
<1>3. ASSUME NEW p \in Slots, Fail(p)
      PROVE  Typed
  <2>1. "error" \in Results /\ "leave_row" \in Steps /\ NoConv \in Convs \cup {NoConv}
    BY DEF Results, Steps, LeaveSteps
  <2>2. call' \in [Slots -> {Idle} \cup Handlers] /\ reply' \in {NoReply} \cup Replies
    BY <1>3, <2>1, ControlTypes DEF Fail
  <2>3. QED
    BY <1>3, <2>2 DEF Fail, TypeOK
<1>4. CASE Tick
  BY <1>4, ConversationsAssumption DEF Tick, TypeOK
<1>5. QED
  BY <1>1, <1>2, <1>3, <1>4 DEF Step

LEMMA TypeStep ==
  ASSUME TypeOK, [Next]_vars
  PROVE  TypeOK'
<1>1. CASE Next
  <2>1. newcomers' \in [Slots -> SUBSET Users]
    BY <1>1 DEF Next, Watch, TypeOK
  <2>2. QED
    BY <1>1, <2>1, StepTypes DEF Next, TypeOK
<1>2. CASE UNCHANGED vars
  BY <1>2 DEF vars, TypeOK
<1>3. QED
  BY <1>1, <1>2

------------------------------------------------------------------------------
(* The step of the invariant.                                              *)

\* The statement of slot p puts m[2] into the conversation m[1].
Joins(p, m) ==
  /\ role[m] = "none" /\ m[1] \in Live /\ m[1] = call[p].conv
  /\ \/ call[p].at = "private_members" /\ role'[m] = "member"
     \/ call[p].at \in {"group_members", "add_row"}

\* A member row is only ever deleted or inserted where there was none.
LEMMA RoleStep ==
  ASSUME IInv, [Next]_vars
  PROVE  \A m \in Convs \X Users : role'[m] # role[m] =>
           \/ role'[m] = "none"
           \/ UNCHANGED conv /\ \E p \in Slots : Joins(p, m)
<1> USE DEF IInv
<1>1. ASSUME NEW p \in Slots, PrivateAddMembers(p)
      PROVE  UNCHANGED conv /\ \A m \in Convs \X Users : role'[m] # role[m] => Joins(p, m)
  BY <1>1, InsertFillsGaps DEF PrivateAddMembers, Joins, At
<1>2. ASSUME NEW p \in Slots, GroupAddMembers(p)
      PROVE  UNCHANGED conv /\ \A m \in Convs \X Users : role'[m] # role[m] => Joins(p, m)
  BY <1>2, InsertFillsGaps DEF GroupAddMembers, Joins, At
<1>3. ASSUME NEW p \in Slots, AddInsertRow(p)
      PROVE  UNCHANGED conv /\ \A m \in Convs \X Users : role'[m] # role[m] => Joins(p, m)
  BY <1>3, InsertFillsGaps DEF AddInsertRow, Joins, At
<1>4. ASSUME NEW p \in Slots,
             LeaveDeleteRow(p) \/ LeaveDeleteConv(p) \/ RemoveDeleteRow(p)
      PROVE  \A m \in Convs \X Users : role'[m] # role[m] => role'[m] = "none"
  BY <1>4 DEF LeaveDeleteRow, LeaveDeleteConv, RemoveDeleteRow, TypeOK
<1>5. ASSUME NEW p \in Slots, Request(p)
      PROVE  UNCHANGED role
  BY <1>5, RequestFrame DEF Begin
<1>6. ASSUME NEW p \in Slots, Statement(p)
      PROVE  \A m \in Convs \X Users : role'[m] # role[m] =>
               \/ role'[m] = "none"
               \/ UNCHANGED conv /\ Joins(p, m)
  BY <1>6, <1>1, <1>2, <1>3, <1>4
     DEF Statement, PrivateCheckFriends, PrivateFindExisting, PrivateInsert,
         PrivateReadBack, GroupInsert, GroupReadBack, InsertConv, ReadBack, UpdateCheckOwner,
         UpdateRow, LeaveCheckMember, LeaveCount, AddCheckOwner, AddCheckExisting,
         RemoveCheckRights, RemoveCheckTarget
<1>7. QED
  BY <1>5, <1>6 DEF Next, Step, Tick, Fail, vars

\* A conversation that goes takes its member rows along.
LEMMA LiveStep ==
  ASSUME IInv, [Next]_vars, NEW c \in Live, c \notin Live'
  PROVE  \A u \in Users : role'[<<c, u>>] = "none"
<1> USE DEF IInv, TypeOK, Rows, Live
<1>1. ASSUME NEW p \in Slots, LeaveDeleteConv(p)
      PROVE  \A u \in Users : role'[<<c, u>>] = "none"
  <2>1. c = call[p].conv
    BY <1>1 DEF LeaveDeleteConv
  <2>2. QED
    BY <1>1, <2>1 DEF LeaveDeleteConv
<1>2. ASSUME NEW p \in Slots, UpdateRow(p)
      PROVE  FALSE
  BY <1>2 DEF UpdateRow
<1>3. ASSUME NEW d \in Convs, NEW type, NEW name, InsertConv(d, type, name)
      PROVE  FALSE
  BY <1>3 DEF InsertConv
<1>4. ASSUME NEW p \in Slots, Request(p)
      PROVE  UNCHANGED conv
  BY <1>4, RequestFrame DEF Begin
<1>5. ASSUME NEW p \in Slots, Statement(p)
      PROVE  \A u \in Users : role'[<<c, u>>] = "none"
  BY <1>5, <1>1, <1>2, <1>3
     DEF Statement, PrivateCheckFriends, PrivateFindExisting, PrivateInsert,
         PrivateReadBack, PrivateAddMembers, GroupInsert, GroupReadBack, GroupAddMembers,
         ReadBack, InsertMembers, UpdateCheckOwner, LeaveCheckMember, LeaveDeleteRow,
         LeaveCount, AddCheckOwner, AddCheckExisting, AddInsertRow, RemoveCheckRights,
         RemoveCheckTarget, RemoveDeleteRow
<1>6. QED
  BY <1>4, <1>5 DEF Next, Step, Tick, Fail, vars

LEMMA MembershipStep ==
  ASSUME IInv, [Next]_vars
  PROVE  MembersOfLive' /\ PrivateHasNoOwner'
<1>1. TypeFixed
  BY TypeFixedStep DEF IInv
<1>2. ASSUME NEW c \in Convs, NEW u \in Users, role'[<<c, u>>] # "none",
             role'[<<c, u>>] = role[<<c, u>>]
      PROVE  /\ conv'[c].state = "live"
             /\ role'[<<c, u>>] = "owner" => conv'[c].type = "group"
  <2>1. c \in Live
    BY <1>2 DEF IInv, MembersOfLive, Live
  <2>2. c \in Live'
    BY <1>2, <2>1, LiveStep
  <2>3. QED
    BY <1>1, <1>2, <2>1, <2>2 DEF IInv, PrivateHasNoOwner, IsOwner, TypeFixed, Live
<1>3. ASSUME NEW c \in Convs, NEW u \in Users, role'[<<c, u>>] # "none",
             role'[<<c, u>>] # role[<<c, u>>]
      PROVE  /\ conv'[c].state = "live"
             /\ role'[<<c, u>>] = "owner" => conv'[c].type = "group"
  <2>1. PICK p \in Slots : UNCHANGED conv /\ Joins(p, <<c, u>>)
    BY <1>3, RoleStep
  <2>2. QED
    BY <2>1 DEF Joins, Live, IInv, InFlight, GroupOnly
<1>4. QED
  BY <1>2, <1>3 DEF MembersOfLive, PrivateHasNoOwner, IsOwner

\* A step moves at most one handler; the others keep what they know.
LEMMA OthersStep ==
  ASSUME IInv, [Next]_vars, NEW q \in Slots, call'[q] = call[q]
  PROVE  InFlight(q)'
  BY TypeFixedStep DEF IInv, InFlight, TypeFixed

\* The handler that moves keeps its conversation when it awaits its next
\* statement; what it knows of it comes from the statement just executed.
LEMMA MoverStep ==
  ASSUME IInv, NEW p \in Slots, Handle(p)
  PROVE  InFlight(p)' /\ \A q \in Slots : q # p => call'[q] = call[q]
<1> USE DEF IInv, GroupOnly, OwnerChecks
<1>1. ASSUME NEW step, NEW u, NEW guests, NEW c, NEW name,
             Begin(p, step, u, guests, c, name), step \notin GroupOnly,
             step # "private_members", step \in OwnerChecks => c \in Convs
      PROVE  InFlight(p)' /\ \A q \in Slots : q # p => call'[q] = call[q]
  BY <1>1 DEF Begin, InFlight, TypeOK
<1>2. CASE Request(p)
  BY <1>1, <1>2, RequestFrame
<1>3. ASSUME NEW result, NEW c, ReturnConv(p, result, c)
      PROVE  InFlight(p)' /\ \A q \in Slots : q # p => call'[q] = call[q]
  BY <1>3 DEF ReturnConv, InFlight, TypeOK, Idle
<1>4. ASSUME NEW result, Return(p, result)
      PROVE  InFlight(p)' /\ \A q \in Slots : q # p => call'[q] = call[q]
  BY <1>3, <1>4 DEF Return
<1>5. CASE Fail(p)
  BY <1>4, <1>5 DEF Fail
<1>6. CASE Statement(p)
  <2>0. call[p] \in Handlers
    BY <1>6, StatementControl, StepNames DEF At, Idle, TypeOK
  <2>1. ASSUME NEW step, Await(p, step), step \notin GroupOnly \cup OwnerChecks,
               step # "private_members"
        PROVE  InFlight(p)' /\ \A q \in Slots : q # p => call'[q] = call[q]
    BY <2>0, <2>1 DEF Await, InFlight, TypeOK, Handlers
  <2>2. ASSUME NEW step, Await(p, step), step # "private_members", UNCHANGED conv,
               call[p].conv \in Convs, conv[call[p].conv].state # "unused",
               conv[call[p].conv].type = "group"
        PROVE  InFlight(p)' /\ \A q \in Slots : q # p => call'[q] = call[q]
    BY <2>0, <2>2 DEF Await, InFlight, TypeOK, Handlers
  <2>3. CASE \/ PrivateCheckFriends(p) \/ PrivateFindExisting(p) \/ PrivateInsert(p)
             \/ PrivateAddMembers(p) \/ GroupInsert(p) \/ GroupAddMembers(p)
             \/ UpdateRow(p) \/ AddInsertRow(p) \/ RemoveDeleteRow(p)
    BY <2>3, <2>1, <1>3, <1>4
       DEF PrivateCheckFriends, PrivateFindExisting, PrivateInsert, PrivateAddMembers,
           GroupInsert, GroupAddMembers, InsertMembers, UpdateRow, AddInsertRow,
           RemoveDeleteRow
  <2>4. CASE LeaveCheckMember(p) \/ LeaveDeleteRow(p) \/ LeaveCount(p) \/ LeaveDeleteConv(p)
    BY <2>4, <2>1, <1>4
       DEF LeaveCheckMember, LeaveDeleteRow, LeaveCount, LeaveDeleteConv
  <2>5. ASSUME NEW S, NEW step, ReadBack(p, S, step), S \subseteq Live,
               \/ step = "private_members" /\ (\A c \in S : conv[c].type = "private")
               \/ step = "group_members" /\ (\A c \in S : conv[c].type = "group")
        PROVE  InFlight(p)' /\ \A q \in Slots : q # p => call'[q] = call[q]
    BY <2>0, <2>5, <1>4 DEF ReadBack, AwaitWith, InFlight, Latest, Live, TypeOK, Handlers
  <2>6. CASE PrivateReadBack(p)
    BY <2>5, <2>6 DEF PrivateReadBack
  <2>7. CASE GroupReadBack(p)
    BY <2>5, <2>7 DEF GroupReadBack
  <2>8. CASE UpdateCheckOwner(p) \/ AddCheckOwner(p) \/ RemoveCheckRights(p)
    <3>1. CASE ~IsOwner(call[p].me, call[p].conv)
      BY <2>8, <3>1, <1>4 DEF UpdateCheckOwner, AddCheckOwner, RemoveCheckRights
    <3>2. CASE IsOwner(call[p].me, call[p].conv) /\ call[p].conv \in Convs
      <4>1. conv[call[p].conv].state = "live" /\ conv[call[p].conv].type = "group"
        BY <2>0, <3>2 DEF MembersOfLive, PrivateHasNoOwner, IsOwner, Handlers
      <4>2. QED
        BY <2>2, <2>8, <3>2, <4>1 DEF UpdateCheckOwner, AddCheckOwner, RemoveCheckRights
    <3>3. call[p].conv \in Convs
      BY <2>8 DEF UpdateCheckOwner, AddCheckOwner, RemoveCheckRights, At, InFlight
    <3>4. QED
      BY <3>1, <3>2, <3>3
  <2>9. CASE AddCheckExisting(p) \/ RemoveCheckTarget(p)
    <3>1. /\ call[p].conv \in Convs
          /\ conv[call[p].conv].state # "unused" /\ conv[call[p].conv].type = "group"
      BY <2>9 DEF AddCheckExisting, RemoveCheckTarget, At, InFlight
    <3>2. QED
      BY <2>2, <2>9, <3>1, <1>4 DEF AddCheckExisting, RemoveCheckTarget
  <2>10. QED
    BY <1>6, <2>3, <2>4, <2>6, <2>7, <2>8, <2>9 DEF Statement
<1>7. QED
  BY <1>2, <1>5, <1>6 DEF Handle

LEMMA InvInit == Init => IInv
<1> SUFFICES ASSUME Init PROVE IInv
  OBVIOUS
<1>1. TypeOK
  BY ConversationsAssumption DEF Init, TypeOK, Rows
<1>2. QED
  BY <1>1, ConversationsAssumption
     DEF Init, IInv, MembersOfLive, PrivateHasNoOwner, IsOwner, InFlight,
         Idle, GroupOnly, OwnerChecks

LEMMA InvStep == IInv /\ [Next]_vars => IInv'
<1> SUFFICES ASSUME IInv, [Next]_vars
             PROVE  IInv'
  OBVIOUS
<1>1. TypeOK' /\ MembersOfLive' /\ PrivateHasNoOwner'
  BY TypeStep, MembershipStep DEF IInv
<1>2. ASSUME NEW q \in Slots
      PROVE  InFlight(q)'
  <2>1. CASE UNCHANGED call
    BY <2>1, OthersStep
  <2>2. ASSUME NEW p \in Slots, Handle(p)
        PROVE  InFlight(q)'
    BY <2>2, MoverStep, OthersStep
  <2>3. QED
    BY <2>1, <2>2 DEF Next, Step, Tick, Handle, vars
<1>3. QED
  BY <1>1, <1>2 DEF IInv

------------------------------------------------------------------------------

\* The inductive invariant holds in every reachable state.
THEOREM Invariance == Spec => []IInv
  BY InvInit, InvStep, PTL DEF Spec

\* Type correctness of the component.
THEOREM TypeCorrect == Spec => []TypeOK
<1>1. IInv => TypeOK
  BY DEF IInv
<1>2. QED
  BY <1>1, Invariance, PTL

\* No schedule of read-backs and member INSERTs gives a private conversation an owner.
THEOREM PrivateOwnerless == Spec => []PrivateHasNoOwner
<1>1. IInv => PrivateHasNoOwner
  BY DEF IInv
<1>2. QED
  BY <1>1, Invariance, PTL

\* Whatever passed an owner check is aimed at a group, even if the conversation
\* was deleted since.
THEOREM ManagementOfGroups == Spec => []OnlyGroupsAreManaged
<1>1. IInv => OnlyGroupsAreManaged
  BY DEF IInv, InFlight, OnlyGroupsAreManaged, GroupOnly
<1>2. QED
  BY <1>1, Invariance, PTL

\* No step changes the role of somebody who stays a member.
THEOREM RoleStability == Spec => RolesAreForLife
<1>1. IInv /\ [Next]_vars =>
        \A m \in Convs \X Users :
          role[m] # "none" /\ role'[m] # "none" => role'[m] = role[m]
  BY RoleStep DEF Joins
<1>2. QED
  BY <1>1, Invariance, PTL DEF Spec, RolesAreForLife

\* What PrivateGainsOnlyItsPair asks of conversation c in slot p's step.
GainsPair(p, c) ==
  /\ call[p].at = "private_members" /\ call[p].conv = c
  /\ Members(c)' \ Members(c) = {call[p].me} \cup call[p].guests

LEMMA PrivateGainStep ==
  ASSUME IInv, [Next]_vars, NEW c \in Convs, conv[c].type = "private",
         Members(c)' \ Members(c) # {}
  PROVE  \E p \in Slots : GainsPair(p, c)
<1> USE DEF IInv
<1>1. ASSUME NEW p \in Slots, PrivateAddMembers(p)
      PROVE  GainsPair(p, c)
  <2> DEFINE new == {call[p].me} \cup call[p].guests
  <2>1. At(p, "private_members") /\ InsertMembers(p, call[p].conv, {}, new)
    BY <1>1 DEF PrivateAddMembers
  <2>2. new \subseteq Users
    BY <2>1, StepNames DEF At, TypeOK, Handlers, Idle
  <2>3. \A u \in Users : u \in Members(c)' \ Members(c) => call[p].conv = c
    BY <2>1, InsertFillsGaps DEF Members
  <2>4. call[p].conv = c /\ role' # role
    BY <2>3 DEF Members
  <2>5. /\ Members(c) \cap new = {}
        /\ role' = [m \in Convs \X Users |->
                      IF m[1] = c /\ m[2] \in {} THEN "owner"
                      ELSE IF m[1] = c /\ m[2] \in new THEN "member"
                      ELSE role[m]]
    BY <2>1, <2>4 DEF InsertMembers
  <2>6. \A u \in Users : role'[<<c, u>>] # "none" <=> u \in new \/ role[<<c, u>>] # "none"
    BY <2>5
  <2>7. Members(c)' \ Members(c) = new
    BY <2>2, <2>5, <2>6 DEF Members
  <2>8. QED
    BY <2>1, <2>4, <2>7 DEF GainsPair, At
<1>2. ASSUME \A u \in Users : role'[<<c, u>>] # role[<<c, u>>] => role'[<<c, u>>] = "none"
      PROVE  FALSE
  BY <1>2 DEF Members
<1>3. ASSUME NEW p \in Slots, GroupAddMembers(p) \/ AddInsertRow(p)
      PROVE  FALSE
  <2>1. call[p].conv # c
    BY <1>3 DEF GroupAddMembers, AddInsertRow, At, InFlight, GroupOnly
  <2>2. \E owners, members : InsertMembers(p, call[p].conv, owners, members)
    BY <1>3 DEF GroupAddMembers, AddInsertRow
  <2>3. \A u \in Users : role'[<<c, u>>] = role[<<c, u>>]
    BY <2>1, <2>2, InsertFillsGaps
  <2>4. QED
    BY <1>2, <2>3
<1>4. ASSUME NEW p \in Slots,
             LeaveDeleteRow(p) \/ LeaveDeleteConv(p) \/ RemoveDeleteRow(p)
      PROVE  FALSE
  <2>1. \A m \in Convs \X Users : role'[m] # role[m] => role'[m] = "none"
    BY <1>4 DEF LeaveDeleteRow, LeaveDeleteConv, RemoveDeleteRow, TypeOK
  <2>2. QED
    BY <1>2, <2>1
<1>5. ASSUME UNCHANGED role
      PROVE  FALSE
  BY <1>2, <1>5
<1>6. ASSUME NEW p \in Slots, Request(p)
      PROVE  UNCHANGED role
  BY <1>6, RequestFrame DEF Begin
<1>7. ASSUME NEW p \in Slots, Statement(p)
      PROVE  GainsPair(p, c)
  BY <1>7, <1>1, <1>3, <1>4, <1>5
     DEF Statement, PrivateCheckFriends, PrivateFindExisting, PrivateInsert,
         PrivateReadBack, GroupInsert, GroupReadBack, InsertConv, ReadBack, UpdateCheckOwner,
         UpdateRow, LeaveCheckMember, LeaveCount, AddCheckOwner, AddCheckExisting,
         RemoveCheckRights, RemoveCheckTarget
<1>8. QED
  BY <1>5, <1>6, <1>7 DEF Next, Step, Tick, Fail, vars

\* A private conversation is widened by no method but the one that creates it.
THEOREM PrivateMembership == Spec => PrivateGainsOnlyItsPair
<1>1. IInv /\ [Next]_vars =>
        \A c \in Convs : (conv[c].type = "private" /\ Members(c)' \ Members(c) # {}) =>
          \E p \in Slots : /\ call[p].at = "private_members" /\ call[p].conv = c
                           /\ Members(c)' \ Members(c) = {call[p].me} \cup call[p].guests
  BY PrivateGainStep DEF GainsPair
<1>2. QED
  BY <1>1, Invariance, PTL DEF Spec, PrivateGainsOnlyItsPair

------------------------------------------------------------------------------
(* What a handler has read before it deletes.                              *)

ReadySteps == {"leave_conv", "remove_target", "remove_row"}

LeavingSteps == {"leave_member", "leave_row"}

\* Whoever is in the conversation that is to be deleted, or owns the one that he is to be
\* removed from, has joined since the handler looked.
Watched(p) ==
  LET h == call[p] IN
  /\ h.at = "leave_conv" => Members(h.conv) \subseteq newcomers[p]
  /\ h.at = "remove_row" => \A g \in h.guests : IsOwner(g, h.conv) => g \in newcomers[p]

WatchInv == \A p \in Slots : Watched(p)

LEMMA AwaitsAt ==
  ASSUME IInv, NEW p \in Slots, call[p] \in Handlers, NEW step, Await(p, step)
  PROVE  /\ call'[p].at = step /\ call'[p].conv = call[p].conv /\ call'[p].me = call[p].me
         /\ call'[p].guests = call[p].guests /\ call'[p].name = call[p].name
         /\ call'[p] # Idle \/ step = "idle"
BY DEF Await, IInv, TypeOK, Handlers, Idle

LEMMA AwaitsWith ==
  ASSUME IInv, NEW p \in Slots, call[p] \in Handlers, NEW step, NEW c, AwaitWith(p, step, c)
  PROVE  call'[p].at = step /\ call'[p].conv = c
BY DEF AwaitWith, IInv, TypeOK, Handlers

LEMMA Returns ==
  ASSUME IInv, NEW p \in Slots, NEW result, NEW c, ReturnConv(p, result, c)
  PROVE  call'[p] = Idle /\ reply'.result = result
BY DEF ReturnConv, IInv, TypeOK

\* Only four statements lead to those about whose premises something is said.
LEMMA NotReady ==
  ASSUME IInv, NEW p \in Slots, Statement(p), call[p] \in Handlers,
         ~LeaveCheckMember(p), ~LeaveCount(p), ~RemoveCheckRights(p), ~RemoveCheckTarget(p)
  PROVE  call'[p].at \notin ReadySteps \cup LeavingSteps
<1>1. ASSUME NEW step, Await(p, step), step \notin ReadySteps \cup LeavingSteps
      PROVE  call'[p].at \notin ReadySteps \cup LeavingSteps
  BY <1>1, AwaitsAt
<1>2. ASSUME NEW step, NEW c, AwaitWith(p, step, c), step \notin ReadySteps \cup LeavingSteps
      PROVE  call'[p].at \notin ReadySteps \cup LeavingSteps
  BY <1>2, AwaitsWith
<1>3. ASSUME NEW result, NEW c, ReturnConv(p, result, c)
      PROVE  call'[p].at \notin ReadySteps \cup LeavingSteps
  BY <1>3, Returns DEF Idle, ReadySteps, LeavingSteps
<1>4. CASE \/ PrivateCheckFriends(p) \/ PrivateFindExisting(p) \/ PrivateInsert(p)
           \/ PrivateReadBack(p) \/ PrivateAddMembers(p)
  BY <1>1, <1>2, <1>3, <1>4
     DEF PrivateCheckFriends, PrivateFindExisting, PrivateInsert, PrivateReadBack, ReadBack,
         PrivateAddMembers, InsertMembers, Return, ReadySteps, LeavingSteps
<1>5. CASE GroupInsert(p) \/ GroupReadBack(p) \/ GroupAddMembers(p) \/ UpdateCheckOwner(p) \/ UpdateRow(p)
  BY <1>1, <1>2, <1>3, <1>5
     DEF GroupInsert, GroupReadBack, ReadBack, GroupAddMembers, InsertMembers, UpdateCheckOwner,
         UpdateRow, Return, ReadySteps, LeavingSteps
<1>6. CASE \/ LeaveDeleteRow(p) \/ LeaveDeleteConv(p)
           \/ AddCheckOwner(p) \/ AddCheckExisting(p) \/ AddInsertRow(p) \/ RemoveDeleteRow(p)
  BY <1>1, <1>3, <1>6
     DEF LeaveDeleteRow, LeaveDeleteConv, AddCheckOwner, AddCheckExisting,
         AddInsertRow, InsertMembers, RemoveDeleteRow, Return, ReadySteps, LeavingSteps
<1> QED BY <1>4, <1>5, <1>6 DEF Statement

\* A handler goes on to a DELETE from what it has just read.
LEMMA WatchMover ==
  ASSUME IInv, NEW p \in Slots, Handle(p)
  PROVE  Watched(p)'
<1>1. CASE Request(p)
  <2>1. PICK step \in {"private_friends", "group_insert", "update_owner", "leave_member",
                      "add_owner", "remove_rights"}, u \in Users, guests \in SUBSET Users,
             c \in Convs \cup {NoConv}, name \in Names \cup {NoName} :
          Begin(p, step, u, guests, c, name)
    BY <1>1, RequestFrame
  <2>2. call'[p].at = step
    BY <2>1 DEF Begin, IInv, TypeOK
  <2> QED BY <2>2 DEF Watched
<1>2. ASSUME NEW result, Return(p, result)
      PROVE  Watched(p)'
  BY <1>2, Returns DEF Return, Idle, Watched
<1>3. CASE Fail(p)
  BY <1>2, <1>3 DEF Fail
<1>4. CASE Statement(p)
  <2>1. call[p] \in Handlers
    BY <1>4, StatementControl, StepNames DEF At, Idle, IInv, TypeOK
  <2>2. CASE LeaveCount(p)
    <3>1. CASE Members(call[p].conv) = {} /\ Await(p, "leave_conv")
      <4>1. call'[p].at = "leave_conv" /\ call'[p].conv = call[p].conv
        BY <2>1, <3>1, AwaitsAt
      <4> QED BY <2>2, <3>1, <4>1 DEF LeaveCount, Watched, Members
    <3> QED BY <1>2, <2>2, <3>1 DEF LeaveCount
  <2>3. CASE RemoveCheckTarget(p)
    <3> DEFINE roles == {role[<<call[p].conv, g>>] : g \in call[p].guests}
    <3>1. CASE roles = {"member"} /\ Await(p, "remove_row")
      <4>1. /\ call'[p].at = "remove_row" /\ call'[p].conv = call[p].conv
            /\ call'[p].guests = call[p].guests
        BY <2>1, <3>1, AwaitsAt
      <4>2. \A g \in call[p].guests : role[<<call[p].conv, g>>] = "member"
        BY <3>1
      <4> QED BY <2>3, <4>1, <4>2 DEF RemoveCheckTarget, Watched, IsOwner
    <3> QED BY <1>2, <2>3, <3>1 DEF RemoveCheckTarget
  <2>4. CASE LeaveCheckMember(p) \/ RemoveCheckRights(p)
    <3>1. Await(p, "leave_row") => call'[p].at = "leave_row"
      BY <2>1, AwaitsAt
    <3>2. Await(p, "remove_target") => call'[p].at = "remove_target"
      BY <2>1, AwaitsAt
    <3> QED BY <1>2, <2>4, <3>1, <3>2 DEF LeaveCheckMember, RemoveCheckRights, Watched
  <2>5. CASE ~LeaveCheckMember(p) /\ ~LeaveCount(p) /\ ~RemoveCheckRights(p) /\ ~RemoveCheckTarget(p)
    BY <1>4, <2>1, <2>5, NotReady DEF Watched, ReadySteps
  <2> QED BY <2>2, <2>3, <2>4, <2>5
<1> QED BY <1>1, <1>3, <1>4 DEF Handle

\* A handler that waits is told of all who join its conversation.
LEMMA WatchOthers ==
  ASSUME IInv, [Next]_vars, Watch, NEW q \in Slots, call'[q] = call[q], Watched(q)
  PROVE  Watched(q)'
<1> DEFINE c == call[q].conv
<1>1. ASSUME call[q].at \in {"leave_conv", "remove_row"}
      PROVE  newcomers'[q] = newcomers[q] \cup
               {u \in Users : role[<<c, u>>] = "none" /\ role'[<<c, u>>] # "none"}
  BY <1>1 DEF Watch
<1>2. CASE call[q].at = "leave_conv"
  BY <1>1, <1>2 DEF Watched, Members
<1>3. CASE call[q].at = "remove_row"
  <2>1. c \in Convs /\ call[q].guests \subseteq Users
    BY <1>3, StepNames DEF IInv, InFlight, GroupOnly, TypeOK, Handlers, Idle
  <2>2. ASSUME NEW g \in call[q].guests, role'[<<c, g>>] = "owner"
        PROVE  g \in newcomers'[q]
    <3>1. g \in Users /\ <<c, g>> \in Convs \X Users
      BY <2>1
    <3>2. role[<<c, g>>] \in {"none", "owner"}
      BY <2>2, <3>1, RoleStep DEF Joins, IInv, TypeOK
    <3> QED BY <1>1, <1>3, <2>2, <3>1, <3>2 DEF Watched, IsOwner
  <2> QED BY <1>3, <2>2 DEF Watched, IsOwner
<1> QED BY <1>2, <1>3 DEF Watched

LEMMA WatchStep == IInv /\ WatchInv /\ [Next]_vars => WatchInv'
<1> SUFFICES ASSUME IInv, WatchInv, [Next]_vars PROVE WatchInv'
  OBVIOUS
<1>1. CASE UNCHANGED vars
  BY <1>1 DEF vars, WatchInv, Watched, Members, IsOwner
<1>2. ASSUME Watch, UNCHANGED call
      PROVE  WatchInv'
  BY <1>2, WatchOthers DEF WatchInv
<1>3. ASSUME Watch, NEW p \in Slots, Handle(p)
      PROVE  WatchInv'
  <2>1. ASSUME NEW q \in Slots, q # p
        PROVE  Watched(q)'
    BY <1>3, <2>1, MoverStep, WatchOthers DEF WatchInv
  <2> QED BY <1>3, <2>1, WatchMover DEF WatchInv
<1> QED BY <1>1, <1>2, <1>3 DEF Next, Step, Tick, Handle

\* Whatever a handler has read before a DELETE has changed only by somebody joining.
THEOREM WatchInvariance == Spec => []WatchInv
<1>1. Init => WatchInv
  BY DEF Init, WatchInv, Watched, Idle
<1> QED BY <1>1, Invariance, WatchStep, PTL DEF Spec

\* A statement moves its handler.
LEMMA Moves ==
  ASSUME IInv, NEW p \in Slots, Statement(p)
  PROVE  /\ call[p] \in Handlers /\ call'[p] # call[p]
         /\ \A q \in Slots \ {p} : call'[q] = call[q]
<1>1. call[p] \in Handlers
  BY StatementControl, StepNames DEF At, Idle, IInv, TypeOK
<1>2. \A q \in Slots \ {p} : call'[q] = call[q]
  BY MoverStep DEF Handle
<1>3. ASSUME NEW step, Await(p, step)
      PROVE  call'[p].at = step
  BY <1>1, <1>3, AwaitsAt
<1>4. ASSUME NEW step, NEW c, AwaitWith(p, step, c)
      PROVE  call'[p].at = step
  BY <1>1, <1>4, AwaitsWith
<1>5. ASSUME NEW result, NEW c, ReturnConv(p, result, c)
      PROVE  call'[p].at = "idle"
  BY <1>5, Returns DEF Idle
<1>6. ASSUME \/ PrivateCheckFriends(p) \/ PrivateFindExisting(p) \/ PrivateInsert(p)
             \/ PrivateReadBack(p) \/ PrivateAddMembers(p)
      PROVE  call'[p].at # call[p].at
  BY <1>3, <1>4, <1>5, <1>6
     DEF PrivateCheckFriends, PrivateFindExisting, PrivateInsert, PrivateReadBack, ReadBack,
         PrivateAddMembers, InsertMembers, Return, At
<1>7. ASSUME \/ GroupInsert(p) \/ GroupReadBack(p) \/ GroupAddMembers(p)
             \/ UpdateCheckOwner(p) \/ UpdateRow(p)
      PROVE  call'[p].at # call[p].at
  BY <1>3, <1>4, <1>5, <1>7
     DEF GroupInsert, GroupReadBack, ReadBack, GroupAddMembers, InsertMembers,
         UpdateCheckOwner, UpdateRow, Return, At
<1>8. ASSUME LeaveCheckMember(p) \/ LeaveDeleteRow(p) \/ LeaveCount(p) \/ LeaveDeleteConv(p)
      PROVE  call'[p].at # call[p].at
  BY <1>3, <1>5, <1>8
     DEF LeaveCheckMember, LeaveDeleteRow, LeaveCount, LeaveDeleteConv, Return, At
<1>9. ASSUME \/ AddCheckOwner(p) \/ AddCheckExisting(p) \/ AddInsertRow(p)
             \/ RemoveCheckRights(p) \/ RemoveCheckTarget(p) \/ RemoveDeleteRow(p)
      PROVE  call'[p].at # call[p].at
  BY <1>3, <1>5, <1>9
     DEF AddCheckOwner, AddCheckExisting, AddInsertRow, InsertMembers, RemoveCheckRights,
         RemoveCheckTarget, RemoveDeleteRow, Return, At
<1> QED BY <1>1, <1>2, <1>6, <1>7, <1>8, <1>9 DEF Statement

LEMMA DeletionStep ==
  ASSUME IInv, WatchInv, [Next]_vars, NEW c \in Convs,
         conv[c].state = "live", conv'[c].state = "deleted"
  PROVE  \E p \in Slots : /\ Executes(p, {"leave_conv"}) /\ call[p].conv = c
                          /\ Members(c) \subseteq newcomers[p]
<1> DEFINE Goal == \E p \in Slots : /\ Executes(p, {"leave_conv"}) /\ call[p].conv = c
                                    /\ Members(c) \subseteq newcomers[p]
<1> USE DEF IInv, TypeOK, Rows
<1>1. ASSUME NEW p \in Slots, LeaveDeleteConv(p)
      PROVE  Goal
  <2>1. Statement(p)
    BY <1>1 DEF Statement
  <2>2. call[p].at = "leave_conv" /\ c = call[p].conv
    BY <1>1 DEF LeaveDeleteConv, At
  <2>3. Executes(p, {"leave_conv"})
    BY <2>1, <2>2, Moves DEF Executes
  <2> QED BY <2>2, <2>3 DEF WatchInv, Watched
<1>2. ASSUME NEW p \in Slots, UpdateRow(p)
      PROVE  FALSE
  BY <1>2 DEF UpdateRow
<1>3. ASSUME NEW d \in Convs, NEW type, NEW name, InsertConv(d, type, name)
      PROVE  FALSE
  BY <1>3 DEF InsertConv
<1>4. ASSUME NEW p \in Slots, Request(p)
      PROVE  UNCHANGED conv
  BY <1>4, RequestFrame DEF Begin
<1>5. ASSUME NEW p \in Slots, Statement(p)
      PROVE  Goal
  BY <1>5, <1>1, <1>2, <1>3
     DEF Statement, PrivateCheckFriends, PrivateFindExisting, PrivateInsert,
         PrivateReadBack, PrivateAddMembers, GroupInsert, GroupReadBack, GroupAddMembers,
         ReadBack, InsertMembers, UpdateCheckOwner, LeaveCheckMember, LeaveDeleteRow,
         LeaveCount, AddCheckOwner, AddCheckExisting, AddInsertRow, RemoveCheckRights,
         RemoveCheckTarget, RemoveDeleteRow
<1>6. QED
  BY <1>4, <1>5 DEF Next, Step, Tick, Fail, vars

\* However requests overlap, a conversation goes with nobody but those who joined it
\* after it had been counted empty.
THEOREM DeletionOfEmpty == Spec => DeletedOnlyWhenCountedEmpty
<1>1. IInv /\ WatchInv /\ [Next]_vars =>
        \A c \in Convs : (conv[c].state = "live" /\ conv'[c].state = "deleted") =>
          \E p \in Slots : /\ Executes(p, {"leave_conv"}) /\ call[p].conv = c
                           /\ Members(c) \subseteq newcomers[p]
  BY DeletionStep
<1> QED BY <1>1, Invariance, WatchInvariance, PTL DEF Spec, DeletedOnlyWhenCountedEmpty

\* What OwnerIsNotRemoved asks of slot p's step.
Ousts(p, c, u) ==
  /\ call[p].conv = c
  /\ \/ Executes(p, {"leave_row"}) /\ call[p].me = u
     \/ Executes(p, {"remove_row"}) /\ u \in newcomers[p]

LEMMA OwnerStep ==
  ASSUME IInv, WatchInv, [Next]_vars, NEW c \in Live, NEW u \in Users,
         role[<<c, u>>] = "owner", role'[<<c, u>>] # "owner", c \in Live'
  PROVE  \E p \in Slots : Ousts(p, c, u)
<1> DEFINE m == <<c, u>>
<1>1. m \in Convs \X Users /\ c \in Convs
  BY DEF Live
<1>2. ASSUME NEW p \in Slots, LeaveDeleteRow(p)
      PROVE  Ousts(p, c, u)
  <2>1. call[p].at = "leave_row" /\ <<call[p].conv, call[p].me>> = m
    BY <1>1, <1>2 DEF LeaveDeleteRow, At, IInv, TypeOK
  <2>2. Executes(p, {"leave_row"})
    BY <1>2, <2>1, Moves DEF Executes, Statement
  <2> QED BY <2>1, <2>2 DEF Ousts
<1>3. ASSUME NEW p \in Slots, LeaveDeleteConv(p)
      PROVE  FALSE
  <2>1. call[p].conv = c
    BY <1>1, <1>3 DEF LeaveDeleteConv
  <2>2. conv'[c].state = "deleted"
    BY <1>1, <1>3, <2>1 DEF LeaveDeleteConv, IInv, TypeOK, Rows
  <2> QED BY <2>2 DEF Live
<1>4. ASSUME NEW p \in Slots, RemoveDeleteRow(p)
      PROVE  Ousts(p, c, u)
  <2>1. call[p].conv = c /\ u \in call[p].guests /\ call[p].at = "remove_row"
    BY <1>1, <1>4 DEF RemoveDeleteRow, At
  <2>2. u \in newcomers[p]
    BY <2>1 DEF WatchInv, Watched, IsOwner
  <2>3. Executes(p, {"remove_row"})
    BY <1>4, <2>1, Moves DEF Executes, Statement
  <2> QED BY <2>1, <2>2, <2>3 DEF Ousts
<1>5. ASSUME NEW p \in Slots, NEW d, NEW owners, NEW members, InsertMembers(p, d, owners, members)
      PROVE  FALSE
  BY <1>1, <1>5, InsertFillsGaps DEF IInv
<1>6. ASSUME NEW p \in Slots, Request(p)
      PROVE  UNCHANGED role
  BY <1>6, RequestFrame DEF Begin
<1>7. ASSUME NEW p \in Slots, Statement(p)
      PROVE  Ousts(p, c, u)
  BY <1>7, <1>2, <1>3, <1>4, <1>5
     DEF Statement, PrivateCheckFriends, PrivateFindExisting, PrivateInsert,
         PrivateReadBack, PrivateAddMembers, GroupInsert, GroupReadBack, GroupAddMembers,
         InsertConv, ReadBack, UpdateCheckOwner, UpdateRow, LeaveCheckMember, LeaveCount,
         AddCheckOwner, AddCheckExisting, AddInsertRow, RemoveCheckRights, RemoveCheckTarget
<1> QED
  BY <1>6, <1>7 DEF Next, Step, Tick, Fail, vars

\* However requests overlap, nobody is removed from the conversation that he owned when
\* his role was checked.
THEOREM OwnersStay == Spec => OwnerIsNotRemoved
<1>1. IInv /\ WatchInv /\ [Next]_vars =>
        \A c \in Live, u \in Users : (IsOwner(u, c) /\ ~IsOwner(u, c)' /\ c \in Live') =>
          \E p \in Slots :
            /\ call[p].conv = c
            /\ \/ Executes(p, {"leave_row"}) /\ call[p].me = u
               \/ Executes(p, {"remove_row"}) /\ u \in newcomers[p]
  BY OwnerStep DEF IsOwner, Ousts
<1> QED BY <1>1, Invariance, WatchInvariance, PTL DEF Spec, OwnerIsNotRemoved

------------------------------------------------------------------------------
(* What is abandoned, and by whom.                                         *)

\* Handler h will put somebody into c, or delete it.
OwedBy(h, c) ==
  \/ h.at = "private_read" /\ c \in Latest({d \in Live : conv[d].type = "private"})
  \/ /\ h.at = "group_read"
     /\ c \in Latest({d \in Live : conv[d].type = "group" /\ conv[d].name = h.name})
  \/ h.at \in {"private_members", "group_members", "leave_count", "leave_conv"} /\ h.conv = c

LEMMA OwedBySomebody == \A c : Owed(c) <=> \E p \in Slots : OwedBy(call[p], c)
BY DEF Owed, OwedBy, At

\* What AbandonedOnlyByFailure asks of slot p's step, if it does not fail.
Excused(p, c) ==
  \/ /\ Executes(p, {"private_insert", "private_read", "group_insert", "group_read",
                     "update_row"})
     /\ Outdone(c)'
  \/ Executes(p, {"update_row"}) /\ call[p].conv = c
  \/ /\ Executes(p, {"remove_row"}) /\ call[p].conv = c
     /\ ~IsOwner(call[p].me, c) \/ call[p].me \in newcomers[p]

\* INSERT of members that fits: c gets those it is for, others keep theirs.
LEMMA InsertAdds ==
  ASSUME IInv, NEW p \in Slots, NEW d, NEW owners, NEW members,
         InsertMembers(p, d, owners, members), reply'.result # "error", NEW c \in Convs
  PROVE  /\ UNCHANGED conv
         /\ \A u \in Users : role'[<<c, u>>] = "none" => role[<<c, u>>] = "none"
         /\ c # d => \A u \in Users : role'[<<c, u>>] = role[<<c, u>>]
         /\ c = d => \A u \in Users \cap (owners \cup members) : role'[<<c, u>>] # "none"
<1>1. ~Return(p, "error")
  BY Returns DEF Return
<1>2. role' = [m \in Convs \X Users |->
                 IF m[1] = d /\ m[2] \in owners THEN "owner"
                 ELSE IF m[1] = d /\ m[2] \in members THEN "member"
                 ELSE role[m]]
  BY <1>1 DEF InsertMembers
<1>3. \A u \in Users : role'[<<c, u>>] = IF c = d /\ u \in owners THEN "owner"
                                         ELSE IF c = d /\ u \in members THEN "member"
                                         ELSE role[<<c, u>>]
  BY <1>2
<1> QED BY <1>3 DEF InsertMembers

\* Another row of conversations changes: whoever had to see to c still has, unless the
\* other one is no older than c.
LEMMA PeersStep ==
  ASSUME TypeOK, TypeOK', NEW c \in Convs, NEW e \in Convs, NEW q \in Slots,
         c \in Live, c \in Live', conv'[c] = conv[c], call'[q] = call[q], OwedBy(call[q], c),
         \A d \in Convs \ {e} : conv'[d] = conv[d],
         e \notin Live' \/ ~Outdone(c)'
  PROVE  OwedBy(call[q], c)'
<1>1. ASSUME NEW d \in Live', ~(conv'[d].born <= conv'[c].born)
      PROVE  d \in Live /\ conv'[d] = conv[d]
  <2>1. d \in Convs /\ conv'[d].born \in Nat /\ conv'[c].born \in Nat
    BY <1>1, ConversationsAssumption DEF Live, TypeOK, Rows
  <2>2. d # e
    BY <1>1, <2>1 DEF Outdone
  <2>3. conv'[d] = conv[d]
    BY <2>1, <2>2
  <2> QED BY <1>1, <2>1, <2>3 DEF Live
<1>2. CASE call[q].at = "private_read"
  BY <1>1, <1>2 DEF OwedBy, Latest, Live
<1>3. CASE call[q].at = "group_read"
  BY <1>1, <1>3 DEF OwedBy, Latest, Live
<1>4. CASE call[q].at \notin {"private_read", "group_read"}
  BY <1>4 DEF OwedBy
<1> QED BY <1>2, <1>3, <1>4

LEMMA InsertedRow ==
  ASSUME TypeOK, NEW d \in Convs, NEW type, NEW name, InsertConv(d, type, name)
  PROVE  /\ conv'[d].state = "live" /\ conv'[d].type = type /\ conv'[d].name = name
         /\ d \notin Live /\ UNCHANGED role
         /\ \A e \in Convs \ {d} : conv'[e] = conv[e]
BY DEF InsertConv, TypeOK, Live

\* The statement of one handler relieves another of what it owes only as excused.
LEMMA OwedStays ==
  ASSUME IInv, TypeOK', NEW p \in Slots, Statement(p), NEW q \in Slots \ {p},
         NEW c \in Convs, c \in Live, c \in Live', OwedBy(call[q], c)
  PROVE  OwedBy(call[q], c)' \/ Excused(p, c)
<1> USE DEF IInv
<1>1. call'[q] = call[q] /\ call'[p] # call[p]
  BY Moves
<1>2. CASE UNCHANGED conv
  BY <1>1, <1>2 DEF OwedBy, Latest, Live
<1>3. ASSUME NEW d \in Convs, NEW type, NEW name, InsertConv(d, type, name),
             call[p].at \in {"private_insert", "group_insert"}
      PROVE  OwedBy(call[q], c)' \/ Excused(p, c)
  <2>1. c # d /\ conv'[c] = conv[c] /\ \A e \in Convs \ {d} : conv'[e] = conv[e]
    BY <1>3, InsertedRow
  <2>2. CASE Outdone(c)'
    BY <1>1, <1>3, <2>2 DEF Excused, Executes
  <2>3. CASE ~Outdone(c)'
    BY <1>1, <2>1, <2>3, PeersStep
  <2> QED BY <2>2, <2>3
<1>4. CASE PrivateInsert(p) \/ GroupInsert(p)
  BY <1>3, <1>4 DEF PrivateInsert, GroupInsert, At
<1>5. CASE UpdateRow(p)
  <2>1. call[p].at = "update_row"
    BY <1>5 DEF UpdateRow, At
  <2>2. call[p].conv \in Convs /\ \A e \in Convs \ {call[p].conv} : conv'[e] = conv[e]
    BY <1>5, <2>1 DEF UpdateRow, InFlight, GroupOnly
  <2>3. CASE c = call[p].conv
    BY <1>1, <2>1, <2>3 DEF Excused, Executes
  <2>4. CASE c # call[p].conv /\ Outdone(c)'
    BY <1>1, <2>1, <2>4 DEF Excused, Executes
  <2>5. CASE c # call[p].conv /\ ~Outdone(c)'
    <3>1. PICK e \in Convs : e = call[p].conv
      BY <2>2
    <3> QED BY <1>1, <2>2, <2>5, <3>1, PeersStep
  <2> QED BY <2>3, <2>4, <2>5
<1>6. CASE LeaveDeleteConv(p)
  <2>1. CASE call[p].conv \in Convs
    <3>1. PICK e \in Convs : e = call[p].conv
      BY <2>1
    <3>2. e \notin Live' /\ \A d \in Convs \ {e} : conv'[d] = conv[d]
      BY <1>6, <3>1 DEF LeaveDeleteConv, TypeOK, Rows, Live
    <3>3. c # e
      BY <3>2
    <3> QED BY <1>1, <3>2, <3>3, PeersStep
  <2>2. CASE call[p].conv \notin Convs
    <3>1. UNCHANGED conv
      BY <1>6, <2>2 DEF LeaveDeleteConv, TypeOK
    <3> QED BY <1>2, <3>1
  <2> QED BY <2>1, <2>2
<1> QED
  BY <1>2, <1>4, <1>5, <1>6
     DEF Statement, PrivateCheckFriends, PrivateFindExisting, PrivateReadBack,
         PrivateAddMembers, GroupReadBack, GroupAddMembers, ReadBack, InsertMembers,
         UpdateCheckOwner, LeaveCheckMember, LeaveDeleteRow, LeaveCount, AddCheckOwner,
         AddCheckExisting, AddInsertRow, RemoveCheckRights, RemoveCheckTarget,
         RemoveDeleteRow

LEMMA AbandonStatement ==
  ASSUME IInv, TypeOK', WatchInv, NEW p \in Slots, Statement(p), reply'.result # "error",
         NEW c \in Convs, c \in Live', \A u \in Users : role'[<<c, u>>] = "none",
         \A q \in Slots : ~OwedBy(call[q], c)', c \notin Abandoned
  PROVE  Excused(p, c)
<1>1. call[p] \in Handlers /\ call'[p] # call[p] /\ ~OwedBy(call[p], c)'
  BY Moves
<1>2. ASSUME conv'[c].state = conv[c].state, \A u \in Users : role[<<c, u>>] = "none"
      PROVE  OwedBy(call[p], c) \/ Excused(p, c)
  <2>1. c \in Live /\ Members(c) = {}
    BY <1>2 DEF Live, Members
  <2>2. PICK q \in Slots : OwedBy(call[q], c)
    BY <2>1, OwedBySomebody DEF Abandoned
  <2>3. CASE q = p
    BY <2>2, <2>3
  <2>4. CASE q # p
    <3>1. ~OwedBy(call[q], c)'
      OBVIOUS
    <3> QED BY <2>1, <2>2, <2>4, <3>1, OwedStays
  <2> QED BY <2>3, <2>4
<1>3. ASSUME UNCHANGED <<conv, role>>
      PROVE  OwedBy(call[p], c) \/ Excused(p, c)
  BY <1>2, <1>3
<1>4. ASSUME NEW d \in Convs, NEW type, NEW name, NEW step, InsertConv(d, type, name),
             Await(p, step), call[p].at \in {"private_insert", "group_insert"},
             \/ step = "private_read" /\ type = "private"
             \/ step = "group_read" /\ type = "group" /\ name = call[p].name
      PROVE  Excused(p, c)
  <2>1. CASE c = d
    <3>1. call'[p].at = step /\ call'[p].name = call[p].name
      BY <1>1, <1>4, AwaitsAt
    <3>2. conv'[c].type = type /\ conv'[c].name = name
      BY <1>4, <2>1, InsertedRow DEF IInv
    <3>3. PICK e \in Live' : ~(conv'[e].born <= conv'[c].born)
      BY <1>1, <1>4, <3>1, <3>2 DEF OwedBy, Latest, Live
    <3>4. e # c /\ conv'[e].born >= conv'[c].born
      <4>1. conv'[e].born \in Nat /\ conv'[c].born \in Nat
        BY ConversationsAssumption DEF TypeOK, Rows, Live
      <4> QED BY <3>3, <4>1
    <3>5. Outdone(c)'
      BY <3>4 DEF Outdone
    <3> QED BY <1>1, <1>4, <3>5 DEF Excused, Executes
  <2>2. CASE c # d
    <3>1. conv'[c] = conv[c] /\ UNCHANGED role
      BY <1>4, <2>2, InsertedRow DEF IInv
    <3> QED BY <1>2, <1>4, <3>1 DEF OwedBy
  <2> QED BY <2>1, <2>2
<1>5. CASE PrivateInsert(p) \/ GroupInsert(p)
  BY <1>4, <1>5 DEF PrivateInsert, GroupInsert, At
<1>6. ASSUME NEW S, NEW step \in {"private_members", "group_members"}, ReadBack(p, S, step),
             S \subseteq Live, OwedBy(call[p], c) => c \in Latest(S),
             call[p].at \in {"private_read", "group_read"}
      PROVE  Excused(p, c)
  <2>1. ~Return(p, "error")
    BY Returns DEF Return
  <2>2. PICK d \in Latest(S) : AwaitWith(p, step, d)
    BY <1>6, <2>1 DEF ReadBack
  <2>3. call'[p].at = step /\ call'[p].conv = d
    BY <1>1, <2>2, AwaitsWith
  <2>4. d # c
    BY <1>1, <2>3 DEF OwedBy
  <2>5. c \in Latest(S) \/ Excused(p, c)
    BY <1>3, <1>6 DEF ReadBack
  <2>6. CASE c \in Latest(S)
    <3>1. conv[c].born <= conv[d].born /\ d \in Live
      BY <1>6, <2>2, <2>6 DEF Latest
    <3>2. conv[d].born >= conv[c].born
      <4>1. conv[d].born \in Nat /\ conv[c].born \in Nat
        BY <3>1, ConversationsAssumption DEF IInv, TypeOK, Rows, Live
      <4> QED BY <3>1, <4>1
    <3>3. Outdone(c)'
      BY <1>6, <2>4, <3>1, <3>2 DEF ReadBack, Outdone, Live
    <3> QED BY <1>1, <1>6, <3>3 DEF Excused, Executes
  <2> QED BY <2>5, <2>6
<1>7. CASE PrivateReadBack(p)
  BY <1>6, <1>7 DEF PrivateReadBack, At, OwedBy
<1>8. CASE GroupReadBack(p)
  BY <1>6, <1>8 DEF GroupReadBack, At, OwedBy
<1>9. ASSUME NEW owners, NEW members, InsertMembers(p, call[p].conv, owners, members),
             \/ call[p].at \in {"private_members", "group_members"} /\ call[p].me \in owners \cup members
             \/ call[p].at = "add_row"
      PROVE  Excused(p, c)
  <2>1. call[p].me \in Users
    BY <1>1 DEF Handlers
  <2>2. \A u \in Users : role[<<c, u>>] = "none"
    BY <1>9, InsertAdds
  <2>3. OwedBy(call[p], c) \/ Excused(p, c)
    BY <1>2, <1>9, <2>2, InsertAdds
  <2>4. CASE OwedBy(call[p], c)
    <3>1. call[p].at # "add_row" /\ c = call[p].conv
      BY <1>9, <2>4 DEF OwedBy
    <3>2. role'[<<c, call[p].me>>] # "none"
      BY <1>9, <2>1, <3>1, InsertAdds
    <3> QED BY <2>1, <3>2
  <2> QED BY <2>3, <2>4
<1>10. CASE PrivateAddMembers(p) \/ GroupAddMembers(p) \/ AddInsertRow(p)
  BY <1>9, <1>10 DEF PrivateAddMembers, GroupAddMembers, AddInsertRow, At
<1>11. CASE UpdateRow(p)
  <2>1. conv'[c].state = conv[c].state /\ UNCHANGED role /\ call[p].at = "update_row"
    BY <1>11 DEF UpdateRow, At, IInv, TypeOK, Rows
  <2> QED BY <1>2, <2>1 DEF OwedBy
<1>12. CASE LeaveDeleteRow(p)
  <2>1. /\ call'[p].at = "leave_count" /\ call'[p].conv = call[p].conv /\ call[p].at = "leave_row"
        /\ UNCHANGED conv
    BY <1>1, <1>12, AwaitsAt DEF LeaveDeleteRow, At
  <2>2. c # call[p].conv
    BY <1>1, <2>1 DEF OwedBy
  <2>3. \A u \in Users : role'[<<c, u>>] = role[<<c, u>>]
    BY <1>12, <2>2 DEF LeaveDeleteRow, IInv, TypeOK
  <2> QED BY <1>2, <2>1, <2>3 DEF OwedBy
<1>13. CASE LeaveCount(p)
  <2>1. call[p].at = "leave_count" /\ UNCHANGED <<conv, role>>
    BY <1>13 DEF LeaveCount, At
  <2>2. CASE OwedBy(call[p], c)
    <3>1. call[p].conv = c /\ Members(c) = {}
      BY <2>1, <2>2 DEF OwedBy, Members
    <3>2. Await(p, "leave_conv")
      BY <1>13, <3>1 DEF LeaveCount
    <3>3. call'[p].at = "leave_conv" /\ call'[p].conv = c
      BY <1>1, <3>1, <3>2, AwaitsAt
    <3> QED BY <1>1, <3>3 DEF OwedBy
  <2> QED BY <1>3, <2>1, <2>2
<1>14. CASE LeaveDeleteConv(p)
  <2>1. call[p].at = "leave_conv"
    BY <1>14 DEF LeaveDeleteConv, At
  <2>2. c # call[p].conv
    BY <1>14 DEF LeaveDeleteConv, IInv, TypeOK, Rows, Live
  <2>3. conv'[c] = conv[c] /\ \A u \in Users : role'[<<c, u>>] = role[<<c, u>>]
    BY <1>14, <2>2 DEF LeaveDeleteConv, IInv, TypeOK
  <2> QED BY <1>2, <2>1, <2>2, <2>3 DEF OwedBy
<1>15. CASE RemoveDeleteRow(p)
  <2>1. call[p].at = "remove_row" /\ UNCHANGED conv
    BY <1>15 DEF RemoveDeleteRow, At
  <2>2. CASE c = call[p].conv
    <3>1. call[p].me \in call[p].guests \/ ~IsOwner(call[p].me, c)
      <4>1. call[p].me \in Users
        BY <1>1 DEF Handlers
      <4>2. call[p].me \notin call[p].guests => role'[<<c, call[p].me>>] = role[<<c, call[p].me>>]
        BY <1>15, <2>2, <4>1 DEF RemoveDeleteRow
      <4> QED BY <4>1, <4>2 DEF IsOwner
    <3>2. ~IsOwner(call[p].me, c) \/ call[p].me \in newcomers[p]
      BY <2>1, <2>2, <3>1 DEF WatchInv, Watched
    <3> QED BY <1>1, <2>1, <2>2, <3>2 DEF Excused, Executes
  <2>3. CASE c # call[p].conv
    <3>1. \A u \in Users : role'[<<c, u>>] = role[<<c, u>>]
      BY <1>15, <2>3 DEF RemoveDeleteRow
    <3> QED BY <1>2, <2>1, <3>1 DEF OwedBy
  <2> QED BY <2>2, <2>3
<1>16. CASE \/ PrivateCheckFriends(p) \/ PrivateFindExisting(p) \/ UpdateCheckOwner(p)
            \/ LeaveCheckMember(p) \/ AddCheckOwner(p) \/ AddCheckExisting(p)
            \/ RemoveCheckRights(p) \/ RemoveCheckTarget(p)
  <2>1. /\ UNCHANGED <<conv, role>>
        /\ call[p].at \in {"private_friends", "private_existing", "update_owner", "leave_member",
                           "add_owner", "add_existing", "remove_rights", "remove_target"}
    BY <1>16 DEF PrivateCheckFriends, PrivateFindExisting, UpdateCheckOwner, LeaveCheckMember,
                 AddCheckOwner, AddCheckExisting, RemoveCheckRights, RemoveCheckTarget, At
  <2> QED BY <1>3, <2>1 DEF OwedBy
<1> QED
  BY <1>5, <1>7, <1>8, <1>10, <1>11, <1>12, <1>13, <1>14, <1>15, <1>16 DEF Statement

LEMMA AbandonStep ==
  ASSUME IInv, WatchInv, [Next]_vars, reply'.result # "error",
         NEW c \in Abandoned', c \notin Abandoned
  PROVE  \E p \in Slots : Excused(p, c)
<1>1. /\ c \in Live' /\ c \in Convs /\ \A u \in Users : role'[<<c, u>>] = "none"
      /\ \A q \in Slots : ~OwedBy(call[q], c)'
  BY OwedBySomebody DEF Abandoned, Members, Owed, OwedBy, At, Live
<1>2. ASSUME UNCHANGED <<conv, role>>
      PROVE  \E q \in Slots : OwedBy(call[q], c)
  BY <1>1, <1>2, OwedBySomebody DEF Abandoned, Live, Members
<1>3. ASSUME UNCHANGED <<conv, role, call>>
      PROVE  FALSE
  BY <1>1, <1>2, <1>3 DEF OwedBy, Latest, Live
<1>4. ASSUME NEW p \in Slots, Request(p)
      PROVE  FALSE
  <2>1. /\ UNCHANGED <<conv, role>> /\ call[p] = Idle
        /\ \A q \in Slots \ {p} : call'[q] = call[q]
    BY <1>4, RequestFrame DEF Begin, IInv, TypeOK
  <2>2. PICK q \in Slots : OwedBy(call[q], c)
    BY <1>2, <2>1
  <2>3. q # p
    BY <2>1, <2>2 DEF OwedBy, Idle
  <2>4. call'[q] = call[q]
    BY <2>1, <2>3
  <2> QED BY <1>1, <2>1, <2>2, <2>4 DEF OwedBy, Latest, Live
<1>5. ASSUME NEW p \in Slots, Fail(p)
      PROVE  FALSE
  BY <1>5, Returns DEF Fail, Return
<1>6. TypeOK'
  BY TypeStep DEF IInv
<1>7. ASSUME NEW p \in Slots, Statement(p)
      PROVE  Excused(p, c)
  BY <1>1, <1>6, <1>7, AbandonStatement
<1> QED BY <1>3, <1>4, <1>5, <1>7 DEF Next, Step, Tick, vars

\* However requests overlap: a conversation is left with nobody in it and nobody about
\* to change that only by a failure, beside a row that outdoes it in the read-back of its
\* creator, or by a removal whose caller is not the owner that he was.
THEOREM AbandonmentByFailure == Spec => AbandonedOnlyByFailure
<1>1. IInv /\ WatchInv /\ [Next]_vars =>
        (reply'.result = "error" \/
         \A c \in Abandoned' \ Abandoned :
           \E p \in Slots :
             \/ /\ Executes(p, {"private_insert", "private_read", "group_insert", "group_read",
                                "update_row"})
                /\ Outdone(c)'
             \/ Executes(p, {"update_row"}) /\ call[p].conv = c
             \/ /\ Executes(p, {"remove_row"}) /\ call[p].conv = c
                /\ ~IsOwner(call[p].me, c) \/ call[p].me \in newcomers[p])
  BY AbandonStep DEF Excused
<1> QED BY <1>1, Invariance, WatchInvariance, PTL DEF Spec, AbandonedOnlyByFailure

------------------------------------------------------------------------------
(* The tables, as a service that only reads them sees them.                *)

\* Whoever leaves names a conversation, and one that has been founded once he was found
\* in it; a removal is of one person.
Departing(p) ==
  LET h == call[p] IN
  /\ h.at \in LeaveSteps => h.conv \in Convs
  /\ h.at \in LeaveSteps \ {"leave_member"} => conv[h.conv].state # "unused"
  /\ h.at \in RemoveSteps => \E g \in Users : h.guests = {g}

Departures == \A p \in Slots : Departing(p)

LEMMA DepartingRequest ==
  ASSUME IInv, NEW p \in Slots, Request(p)
  PROVE  Departing(p)'
<1> USE DEF Departing, LeaveSteps, RemoveSteps
<1>1. ASSUME NEW step, NEW u, NEW guests, NEW c, NEW name,
             Begin(p, step, u, guests, c, name)
      PROVE  call'[p].at = step /\ call'[p].conv = c /\ call'[p].guests = guests
  BY <1>1 DEF Begin, IInv, TypeOK
<1>2. CASE Create(p)
  <2>1. call'[p].at \in {"private_friends", "group_insert"}
    BY <1>1, <1>2 DEF Create, CreatePrivate, CreateGroup
  <2> QED BY <2>1
<1>3. CASE Manage(p)
  <2>1. PICK u \in Users, c \in Convs :
          \/ LeaveConversation(p, u, c)
          \/ \E name \in Names : UpdateConversation(p, u, c, name)
          \/ \E g \in Users : AddMember(p, u, c, g) \/ RemoveMember(p, u, c, g)
    BY <1>3 DEF Manage
  <2>2. CASE LeaveConversation(p, u, c)
    BY <1>1, <2>2 DEF LeaveConversation
  <2>3. CASE \E name \in Names : UpdateConversation(p, u, c, name)
    BY <1>1, <2>3 DEF UpdateConversation
  <2>4. ASSUME NEW g \in Users, AddMember(p, u, c, g) \/ RemoveMember(p, u, c, g)
        PROVE  Departing(p)'
    BY <1>1, <2>4 DEF AddMember, RemoveMember
  <2> QED BY <2>1, <2>2, <2>3, <2>4
<1> QED BY <1>2, <1>3 DEF Request

LEMMA DepartingStatement ==
  ASSUME IInv, NEW p \in Slots, Departing(p), Statement(p), TypeFixed
  PROVE  Departing(p)'
<1> USE DEF LeaveSteps, RemoveSteps
<1>1. call[p] \in Handlers
  BY StatementControl, StepNames DEF At, Idle, IInv, TypeOK
<1>3. ASSUME NEW step, Await(p, step), step \notin LeaveSteps \cup RemoveSteps
      PROVE  Departing(p)'
  BY <1>1, <1>3, AwaitsAt DEF Departing
<1>4. ASSUME NEW step, NEW c, AwaitWith(p, step, c), step \notin LeaveSteps \cup RemoveSteps
      PROVE  Departing(p)'
  BY <1>1, <1>4, AwaitsWith DEF Departing
<1>5. ASSUME NEW result, NEW c, ReturnConv(p, result, c)
      PROVE  Departing(p)'
  BY <1>5, Returns DEF Departing, Idle
<1>6. ASSUME NEW step \in LeaveSteps, Await(p, step), call[p].conv \in Convs,
             conv[call[p].conv].state # "unused"
      PROVE  Departing(p)'
  BY <1>1, <1>6, AwaitsAt DEF Departing, TypeFixed
<1>7. ASSUME NEW step \in RemoveSteps, Await(p, step), call[p].at \in RemoveSteps
      PROVE  Departing(p)'
  BY <1>1, <1>7, AwaitsAt DEF Departing
<1>8. CASE \/ PrivateCheckFriends(p) \/ PrivateFindExisting(p) \/ PrivateInsert(p)
           \/ PrivateReadBack(p) \/ PrivateAddMembers(p)
  BY <1>3, <1>4, <1>5, <1>8
     DEF PrivateCheckFriends, PrivateFindExisting, PrivateInsert, PrivateReadBack, ReadBack,
         PrivateAddMembers, InsertMembers, Return
<1>9. CASE \/ GroupInsert(p) \/ GroupReadBack(p) \/ GroupAddMembers(p)
           \/ UpdateCheckOwner(p) \/ UpdateRow(p)
  BY <1>3, <1>4, <1>5, <1>9
     DEF GroupInsert, GroupReadBack, ReadBack, GroupAddMembers, InsertMembers,
         UpdateCheckOwner, UpdateRow, Return
<1>10. CASE AddCheckOwner(p) \/ AddCheckExisting(p) \/ AddInsertRow(p)
  BY <1>3, <1>5, <1>10
     DEF AddCheckOwner, AddCheckExisting, AddInsertRow, InsertMembers, Return
<1>11. CASE LeaveCheckMember(p)
  <2>1. CASE call[p].me \in Members(call[p].conv) /\ Await(p, "leave_row")
    <3>1. call[p].conv \in Convs
      BY <1>11 DEF LeaveCheckMember, At, Departing
    <3>2. conv[call[p].conv].state # "unused"
      BY <2>1, <3>1 DEF Members, IInv, MembersOfLive
    <3> QED BY <1>6, <2>1, <3>1, <3>2
  <2>2. CASE Return(p, "not_found")
    BY <1>5, <2>2 DEF Return
  <2> QED BY <1>11, <2>1, <2>2 DEF LeaveCheckMember
<1>12. CASE LeaveDeleteRow(p) \/ LeaveCount(p) \/ LeaveDeleteConv(p)
  <2>1. call[p].conv \in Convs /\ conv[call[p].conv].state # "unused"
    BY <1>12 DEF LeaveDeleteRow, LeaveCount, LeaveDeleteConv, At, Departing
  <2> QED
    BY <1>5, <1>6, <1>12, <2>1 DEF LeaveDeleteRow, LeaveCount, LeaveDeleteConv, Return
<1>13. CASE RemoveCheckRights(p) \/ RemoveCheckTarget(p) \/ RemoveDeleteRow(p)
  BY <1>5, <1>7, <1>13
     DEF RemoveCheckRights, RemoveCheckTarget, RemoveDeleteRow, At, Return
<1> QED BY <1>8, <1>9, <1>10, <1>11, <1>12, <1>13 DEF Statement

LEMMA DeparturesStep == IInv /\ Departures /\ [Next]_vars => Departures'
<1> SUFFICES ASSUME IInv, Departures, [Next]_vars PROVE Departures'
  OBVIOUS
<1>1. TypeFixed
  BY TypeFixedStep DEF IInv
<1>2. ASSUME NEW q \in Slots, call'[q] = call[q]
      PROVE  Departing(q)'
  BY <1>1, <1>2 DEF Departures, Departing, TypeFixed, LeaveSteps
<1>3. ASSUME NEW p \in Slots, Handle(p)
      PROVE  Departures'
  <2>1. \A q \in Slots : q # p => Departing(q)'
    BY <1>2, <1>3, MoverStep
  <2>2. CASE Request(p)
    BY <2>1, <2>2, DepartingRequest DEF Departures
  <2>3. CASE Statement(p)
    BY <1>1, <2>1, <2>3, DepartingStatement DEF Departures
  <2>4. CASE Fail(p)
    <3>1. call'[p] = Idle
      BY <2>4, Returns DEF Fail, Return
    <3>2. Departing(p)'
      BY <3>1 DEF Departing, Idle, LeaveSteps, RemoveSteps
    <3> QED BY <2>1, <3>2 DEF Departures
  <2> QED BY <1>3, <2>2, <2>3, <2>4 DEF Handle
<1>4. CASE UNCHANGED call
  BY <1>2, <1>4 DEF Departures
<1> QED BY <1>3, <1>4 DEF Next, Step, Tick, Handle, vars

\* One row goes, or none.
LEMMA DepartsOrStays ==
  ASSUME TypeOK, NEW c \in Convs, NEW u \in Users, UNCHANGED conv,
         role' = [m \in Convs \X Users |-> IF m = <<c, u>> THEN "none" ELSE role[m]]
  PROVE  [Table!Next]_Table!tableVars
<1>1. MemberRows' = MemberRows \ {<<c, u>>} /\ Founded' = Founded /\ Live' = Live
  BY DEF MemberRows, Founded, Live
<1>2. CASE <<c, u>> \in MemberRows
  BY <1>1, <1>2 DEF Table!Next, Table!Depart
<1>3. CASE <<c, u>> \notin MemberRows
  BY <1>1, <1>3 DEF Table!tableVars
<1> QED BY <1>2, <1>3

LEMMA FoundingFounds ==
  ASSUME TypeOK, NEW c \in Convs, NEW type, NEW name, InsertConv(c, type, name)
  PROVE  Table!Next
<1>1. c \notin Founded /\ Founded' = Founded \cup {c}
  BY DEF InsertConv, Founded, TypeOK
<1>2. Live' = Live \cup {c}
  BY DEF InsertConv, Live, TypeOK
<1>3. MemberRows' = MemberRows
  BY DEF InsertConv, MemberRows
<1> QED BY <1>1, <1>2, <1>3 DEF Table!Next, Table!Found

LEMMA InsertAdmits ==
  ASSUME TypeOK, NEW p \in Slots, NEW c, NEW owners, NEW new,
         InsertMembers(p, c, owners, new)
  PROVE  [Table!Next]_Table!tableVars
<1> DEFINE joining == (owners \cup new) \cap Users
<1>1. Founded' = Founded /\ Live' = Live
  BY DEF InsertMembers, Founded, Live
<1>2. CASE UNCHANGED role
  BY <1>1, <1>2 DEF MemberRows, Table!tableVars
<1>3. CASE /\ c \in Live
           /\ Members(c) \cap (owners \cup new) = {}
           /\ role' = [m \in Convs \X Users |->
                         IF m[1] = c /\ m[2] \in owners THEN "owner"
                         ELSE IF m[1] = c /\ m[2] \in new THEN "member"
                         ELSE role[m]]
  <2>1. c \in Convs
    BY <1>3 DEF Live
  <2>2. ({c} \X joining) \cap MemberRows = {}
    BY <1>3, <2>1 DEF MemberRows, Members
  <2>3. \A m \in Convs \X Users :
          role'[m] # "none" <=> (m[1] = c /\ m[2] \in joining) \/ role[m] # "none"
    BY <1>3
  <2>4. MemberRows' = MemberRows \cup ({c} \X joining)
    BY <2>1, <2>3 DEF MemberRows
  <2>5. Table!Admit(c, joining)
    BY <1>1, <1>3, <2>2, <2>4 DEF Table!Admit
  <2> QED BY <2>1, <2>5 DEF Table!Next
<1> QED BY <1>2, <1>3 DEF InsertMembers

LEMMA DeletionCloses ==
  ASSUME IInv, NEW p \in Slots, Departing(p), LeaveDeleteConv(p)
  PROVE  [Table!Next]_Table!tableVars
<1> USE DEF IInv, TypeOK
<1>1. PICK c \in Convs : c = call[p].conv /\ conv[c].state # "unused"
  BY DEF LeaveDeleteConv, At, Departing, LeaveSteps
<1>2. Founded' = Founded
  BY <1>1 DEF LeaveDeleteConv, Founded, Rows
<1>3. Live' = Live \ {c}
  BY <1>1 DEF LeaveDeleteConv, Live, Rows
<1>4. MemberRows' = MemberRows \ ({c} \X Users)
  BY <1>1 DEF LeaveDeleteConv, MemberRows
<1>5. CASE c \in Live
  BY <1>2, <1>3, <1>4, <1>5 DEF Table!Next, Table!Close
<1>6. CASE c \notin Live
  <2>1. \A u \in Users : <<c, u>> \notin MemberRows
    BY <1>6 DEF MembersOfLive, MemberRows, Live
  <2>2. MemberRows' = MemberRows /\ Live' = Live
    BY <1>3, <1>4, <1>6, <2>1
  <2> QED BY <1>2, <2>2 DEF Table!tableVars
<1> QED BY <1>5, <1>6

\* Every step of the component is a step of the abstract tables or none at all.
LEMMA TableStep ==
  ASSUME IInv, Departures, [Next]_vars
  PROVE  [Table!Next]_Table!tableVars
<1>1. ASSUME UNCHANGED <<conv, role>>
      PROVE  [Table!Next]_Table!tableVars
  BY <1>1 DEF Table!tableVars, Founded, Live, MemberRows
<1>2. ASSUME NEW p \in Slots, PrivateInsert(p) \/ GroupInsert(p)
      PROVE  [Table!Next]_Table!tableVars
  BY <1>2, FoundingFounds DEF PrivateInsert, GroupInsert, IInv
<1>3. ASSUME NEW p \in Slots, PrivateAddMembers(p) \/ GroupAddMembers(p) \/ AddInsertRow(p)
      PROVE  [Table!Next]_Table!tableVars
  BY <1>3, InsertAdmits DEF PrivateAddMembers, GroupAddMembers, AddInsertRow, IInv
<1>4. ASSUME NEW p \in Slots, UpdateRow(p)
      PROVE  [Table!Next]_Table!tableVars
  <2>1. \A c \in Convs : conv'[c].state = conv[c].state
    BY <1>4 DEF UpdateRow, IInv, TypeOK, Rows
  <2> QED BY <1>4, <2>1 DEF UpdateRow, Table!tableVars, Founded, Live, MemberRows
<1>5. ASSUME NEW p \in Slots, LeaveDeleteRow(p)
      PROVE  [Table!Next]_Table!tableVars
  <2>1. PICK c \in Convs, u \in Users : c = call[p].conv /\ u = call[p].me
    BY <1>5, StepNames
       DEF LeaveDeleteRow, At, Departures, Departing, LeaveSteps, IInv, TypeOK, Handlers, Idle
  <2>2. role' = [m \in Convs \X Users |-> IF m = <<c, u>> THEN "none" ELSE role[m]]
    BY <1>5, <2>1 DEF LeaveDeleteRow, IInv, TypeOK
  <2> QED BY <1>5, <2>2, DepartsOrStays DEF LeaveDeleteRow, IInv
<1>6. ASSUME NEW p \in Slots, RemoveDeleteRow(p)
      PROVE  [Table!Next]_Table!tableVars
  <2>1. PICK c \in Convs, u \in Users : c = call[p].conv /\ call[p].guests = {u}
    BY <1>6 DEF RemoveDeleteRow, At, Departures, Departing, RemoveSteps, IInv, InFlight, GroupOnly
  <2>2. role' = [m \in Convs \X Users |-> IF m = <<c, u>> THEN "none" ELSE role[m]]
    BY <1>6, <2>1 DEF RemoveDeleteRow
  <2> QED BY <1>6, <2>2, DepartsOrStays DEF RemoveDeleteRow, IInv
<1>7. ASSUME NEW p \in Slots, LeaveDeleteConv(p)
      PROVE  [Table!Next]_Table!tableVars
  BY <1>7, DeletionCloses DEF Departures
<1>8. ASSUME NEW p \in Slots, Request(p)
      PROVE  UNCHANGED <<conv, role>>
  BY <1>8, RequestFrame DEF Begin
<1>9. ASSUME NEW p \in Slots, Statement(p)
      PROVE  [Table!Next]_Table!tableVars
  BY <1>9, <1>1, <1>2, <1>3, <1>4, <1>5, <1>6, <1>7
     DEF Statement, PrivateCheckFriends, PrivateFindExisting, PrivateReadBack,
         GroupReadBack, ReadBack, UpdateCheckOwner, LeaveCheckMember, LeaveCount,
         AddCheckOwner, AddCheckExisting, RemoveCheckRights, RemoveCheckTarget
<1> QED BY <1>1, <1>8, <1>9 DEF Next, Step, Tick, Fail, vars

\* Whatever the schedule and whichever statements fail, the two tables behave as
\* MembershipTable, which is all that Messages assumes of them
\* (MessagesProofs, MessagesKeepToTable).
THEOREM ConversationsImplementTable == Spec => ImplementsTable
<1>1. Init => Table!Init /\ Departures
  BY DEF Init, Table!Init, Founded, Live, MemberRows, Departures, Departing, Idle,
         LeaveSteps, RemoveSteps
<1>2. IInv /\ Departures /\ [Next]_vars => Departures' /\ [Table!Next]_Table!tableVars
  BY DeparturesStep, TableStep
<1> QED BY <1>1, <1>2, Invariance, PTL DEF Spec, ImplementsTable, Table!Spec

------------------------------------------------------------------------------
(* The notices and the rooms.                                              *)

\* Whoever leaves names a conversation.
Leaving == \A p \in Slots : call[p].at \in LeavingSteps => call[p].conv \in Convs

\* A socket outside a room has heard nothing there.
Deaf == \A k \in Sockets, f \in Facts : <<k, f[1]>> \notin room => heard[k][f] = "nothing"

\* A notice on its way says what is so.
Honest ==
  \A p \in Slots : \A n \in notice[p] :
    (n.fact \in Facts \ muddled /\ conv[n.fact[1]].state # "deleted") => n.says = Truth(n.fact)

\* What HeardIsTrue says, in rooms or not, from before a conversation lives.
Heard ==
  \A k \in Sockets, f \in Facts \ muddled :
    conv[f[1]].state # "deleted" => heard[k][f] \in {"nothing", Truth(f)} \/ Pending(f)

\* Only a notice about the name says "updated".
Told == \A p \in Slots : \A n \in notice[p] : n.fact \in Facts => n.says \in {"in", "out"}

NoticesInv ==
  /\ IInv
  /\ Leaving
  /\ NoticesTypeOK
  /\ Told
  /\ Deaf
  /\ Honest
  /\ Heard

LEMMA NoticesStepIsStep == [NoticesNext]_allvars => [Next]_vars
BY DEF NoticesNext, allvars, vars, notices, Rooms, JoinRoom, LeaveRoom, BeginRequest, Execute,
       FailStatement, Notify, Emit, Swallow, Next, Step

\* A deleted conversation stays deleted.
LEMMA DeletedStays ==
  ASSUME TypeOK, [Next]_vars, NEW c \in Convs, conv'[c].state # "deleted"
  PROVE  conv[c].state # "deleted"
<1> USE DEF TypeOK, Rows
<1>1. ASSUME NEW d \in Convs, NEW type, NEW name, InsertConv(d, type, name)
      PROVE  conv[c].state # "deleted"
  BY <1>1 DEF InsertConv
<1>2. ASSUME NEW p \in Slots, UpdateRow(p)
      PROVE  conv[c].state # "deleted"
  BY <1>2 DEF UpdateRow
<1>3. ASSUME NEW p \in Slots, LeaveDeleteConv(p)
      PROVE  conv[c].state # "deleted"
  BY <1>3 DEF LeaveDeleteConv
<1>4. ASSUME UNCHANGED conv
      PROVE  conv[c].state # "deleted"
  BY <1>4
<1>5. ASSUME NEW p \in Slots, Request(p)
      PROVE  UNCHANGED conv
  BY <1>5, RequestFrame DEF Begin
<1>6. ASSUME NEW p \in Slots, Statement(p)
      PROVE  conv[c].state # "deleted"
  BY <1>6, <1>1, <1>2, <1>3, <1>4
     DEF Statement, PrivateCheckFriends, PrivateFindExisting, PrivateInsert,
         PrivateReadBack, PrivateAddMembers, GroupInsert, GroupReadBack, GroupAddMembers,
         ReadBack, InsertMembers, UpdateCheckOwner, LeaveCheckMember, LeaveDeleteRow,
         LeaveCount, AddCheckOwner, AddCheckExisting, AddInsertRow, RemoveCheckRights,
         RemoveCheckTarget, RemoveDeleteRow
<1>7. QED
  BY <1>4, <1>5, <1>6 DEF Next, Step, Tick, Fail, vars

LEMMA LeavingStep ==
  ASSUME IInv, Leaving, [Next]_vars
  PROVE  Leaving'
<1>1. CASE UNCHANGED call
  BY <1>1 DEF Leaving
<1>2. ASSUME NEW p \in Slots, Handle(p), call'[p].at \in LeavingSteps => call'[p].conv \in Convs
      PROVE  Leaving'
  BY <1>2, MoverStep DEF Leaving
<1>3. ASSUME NEW p \in Slots, Request(p)
      PROVE  call'[p].at \in LeavingSteps => call'[p].conv \in Convs
  BY <1>3, RequestFrame DEF Begin, LeavingSteps, IInv, TypeOK
<1>4. ASSUME NEW p \in Slots, Statement(p)
      PROVE  call'[p].at \in LeavingSteps => call'[p].conv \in Convs
  <2>1. call[p] \in Handlers
    BY <1>4, StatementControl, StepNames DEF At, Idle, IInv, TypeOK
  <2>2. CASE LeaveCheckMember(p)
    <3>1. call[p].conv \in Convs
      BY <2>2 DEF LeaveCheckMember, At, Leaving, LeavingSteps
    <3>2. Await(p, "leave_row") => call'[p].conv = call[p].conv
      BY <2>1, AwaitsAt
    <3>3. Return(p, "not_found") => call'[p].at = "idle"
      BY Returns DEF Return, Idle
    <3> QED BY <2>2, <3>1, <3>2, <3>3 DEF LeaveCheckMember, LeavingSteps
  <2>3. CASE LeaveCount(p) \/ RemoveCheckRights(p) \/ RemoveCheckTarget(p)
    <3>1. ASSUME NEW step \in ReadySteps, Await(p, step)
          PROVE  call'[p].at \notin LeavingSteps
      BY <2>1, <3>1, AwaitsAt DEF ReadySteps, LeavingSteps
    <3>2. ASSUME NEW result, Return(p, result)
          PROVE  call'[p].at \notin LeavingSteps
      BY <3>2, Returns DEF Return, Idle, LeavingSteps
    <3> QED BY <2>3, <3>1, <3>2 DEF LeaveCount, RemoveCheckRights, RemoveCheckTarget, ReadySteps
  <2> QED BY <1>4, <2>1, <2>2, <2>3, NotReady
<1>5. ASSUME NEW p \in Slots, Fail(p)
      PROVE  call'[p].at \in LeavingSteps => call'[p].conv \in Convs
  BY <1>5, Returns DEF Fail, Return, Idle, LeavingSteps
<1> QED BY <1>1, <1>2, <1>3, <1>4, <1>5 DEF Next, Step, Tick, Handle, vars

\* What a statement that went through announces is so, unless the conversation is gone.
LEMMA AnnouncesTruth ==
  ASSUME IInv, NEW p \in Slots, Statement(p), Executed(p),
         NEW n \in Announces(call[p]), n.fact \in Facts
  PROVE  n.says = Truth(n.fact)'
<1>1. call[p] \in Handlers
  BY StatementControl, StepNames DEF At, Idle, IInv, TypeOK
<1>2. \A result : Return(p, result) => result = "ok"
  <2> SUFFICES ASSUME NEW result, Return(p, result) PROVE result = "ok"
    OBVIOUS
  <2> QED BY Returns DEF Return, Executed
<1> DEFINE c == n.fact[1]
           u == n.fact[2]
<1>3. c \in Convs /\ u \in Users /\ n.fact = <<c, u>>
  BY DEF Facts
<1>4. ASSUME NEW owners, NEW members, InsertMembers(p, c, owners, members), u \in members \cup owners
      PROVE  Truth(n.fact)' = "in"
  <2>1. role' = [m \in Convs \X Users |->
                   IF m[1] = c /\ m[2] \in owners THEN "owner"
                   ELSE IF m[1] = c /\ m[2] \in members THEN "member"
                   ELSE role[m]]
    BY <1>2, <1>4 DEF InsertMembers
  <2>2. role'[<<c, u>>] # "none"
    BY <1>3, <1>4, <2>1
  <2> QED BY <1>3, <2>2 DEF Truth, Members
<1>5. CASE call[p].at = "add_row" \/ call[p].at = "group_members"
  <2>1. n.says = "in" /\ c = call[p].conv /\ u \in call[p].guests
    BY <1>5 DEF Announces, About
  <2>2. AddInsertRow(p) \/ GroupAddMembers(p)
    BY <1>5 DEF Statement, At, PrivateCheckFriends, PrivateFindExisting, PrivateInsert, PrivateReadBack,
                PrivateAddMembers, GroupInsert, GroupReadBack, UpdateCheckOwner, UpdateRow,
                LeaveCheckMember, LeaveDeleteRow, LeaveCount, LeaveDeleteConv, AddCheckOwner,
                AddCheckExisting, RemoveCheckRights, RemoveCheckTarget, RemoveDeleteRow
  <2> QED BY <1>4, <2>1, <2>2 DEF AddInsertRow, GroupAddMembers
<1>6. CASE call[p].at = "remove_row"
  <2>1. n.says = "out" /\ c = call[p].conv /\ u \in call[p].guests
    BY <1>6 DEF Announces, About
  <2>2. RemoveDeleteRow(p)
    BY <1>6 DEF Statement, At, PrivateCheckFriends, PrivateFindExisting, PrivateInsert, PrivateReadBack,
                PrivateAddMembers, GroupInsert, GroupReadBack, GroupAddMembers, UpdateCheckOwner,
                UpdateRow, LeaveCheckMember, LeaveDeleteRow, LeaveCount, LeaveDeleteConv, AddCheckOwner,
                AddCheckExisting, AddInsertRow, RemoveCheckRights, RemoveCheckTarget
  <2>3. role'[<<c, u>>] = "none"
    BY <1>3, <2>1, <2>2 DEF RemoveDeleteRow
  <2> QED BY <1>3, <2>1, <2>3 DEF Truth, Members
<1>7. CASE call[p].at = "leave_row"
  <2>1. n.says = "out" /\ c = call[p].conv /\ u = call[p].me
    BY <1>7 DEF Announces, About
  <2>2. LeaveDeleteRow(p)
    BY <1>7 DEF Statement, At, PrivateCheckFriends, PrivateFindExisting, PrivateInsert, PrivateReadBack,
                PrivateAddMembers, GroupInsert, GroupReadBack, GroupAddMembers, UpdateCheckOwner,
                UpdateRow, LeaveCheckMember, LeaveCount, LeaveDeleteConv, AddCheckOwner,
                AddCheckExisting, AddInsertRow, RemoveCheckRights, RemoveCheckTarget, RemoveDeleteRow
  <2>3. role'[<<c, u>>] = "none"
    BY <1>3, <2>1, <2>2 DEF LeaveDeleteRow, IInv, TypeOK
  <2> QED BY <1>3, <2>1, <2>3 DEF Truth, Members
<1>8. CASE call[p].at = "update_row"
  <2>1. u = NoUser
    BY <1>8 DEF Announces, About
  <2> QED BY <1>3, <2>1, ConversationsAssumption
<1> QED BY <1>5, <1>6, <1>7, <1>8 DEF Announces

\* Whose membership a statement changes is announced, or passed over by its method.
LEMMA TruthChange ==
  ASSUME IInv, NEW p \in Slots, Statement(p), NEW f \in Facts,
         conv'[f[1]].state # "deleted", Truth(f)' # Truth(f)
  PROVE  /\ Executed(p)
         /\ f \in PassesOver(call[p]) \/ \E n \in Announces(call[p]) : n.fact = f
<1>1. call[p] \in Handlers
  BY StatementControl, StepNames DEF At, Idle, IInv, TypeOK
<1>2. f[1] \in Convs /\ f[2] \in Users /\ f = <<f[1], f[2]>>
  BY DEF Facts
<1>3. role'[f] # role[f]
  BY <1>2 DEF Truth, Members
<1>4. Return(p, "ok") => Executed(p)
  BY DEF Return, ReturnConv, Executed
<1>5. ASSUME NEW d, NEW owners, NEW members, InsertMembers(p, d, owners, members)
      PROVE  Executed(p) /\ f[1] = d /\ f[2] \in owners \cup members
  <2>1. Executed(p)
    BY <1>3, <1>4, <1>5 DEF InsertMembers
  <2>2. f \in Convs \X Users
    BY DEF Facts
  <2> QED BY <1>3, <1>5, <2>1, <2>2, InsertFillsGaps DEF IInv
<1>6. ASSUME NEW u, NEW people, NEW says, u \in people
      PROVE  \E n \in About(call[p].conv, people, says) : n.fact = <<call[p].conv, u>>
  <2>1. [fact |-> <<call[p].conv, u>>, says |-> says] \in About(call[p].conv, people, says)
    BY <1>6 DEF About
  <2>2. [fact |-> <<call[p].conv, u>>, says |-> says].fact = <<call[p].conv, u>>
    OBVIOUS
  <2> QED BY <2>1, <2>2
<1>7. CASE PrivateAddMembers(p)
  BY <1>2, <1>5, <1>7 DEF PrivateAddMembers, At, PassesOver
<1>8. CASE GroupAddMembers(p)
  <2>1. Executed(p) /\ f[1] = call[p].conv /\ f[2] \in {call[p].me} \cup call[p].guests
    BY <1>5, <1>8 DEF GroupAddMembers
  <2>2. f[2] = call[p].me => f \in PassesOver(call[p])
    BY <1>2, <1>8, <2>1 DEF GroupAddMembers, At, PassesOver
  <2>3. Announces(call[p]) = About(call[p].conv, call[p].guests, "in")
    BY <1>8 DEF GroupAddMembers, At, Announces
  <2> QED
    <3>1. f = <<call[p].conv, f[2]>>
      BY <1>2, <2>1
    <3>2. f[2] \in call[p].guests =>
            \E n \in About(call[p].conv, call[p].guests, "in") : n.fact = <<call[p].conv, f[2]>>
      BY <1>6
    <3> QED BY <2>1, <2>2, <2>3, <3>1, <3>2
<1>9. CASE AddInsertRow(p)
  <2>1. Executed(p) /\ f[1] = call[p].conv /\ f[2] \in call[p].guests
    BY <1>5, <1>9 DEF AddInsertRow
  <2>2. Announces(call[p]) = About(call[p].conv, call[p].guests, "in")
    BY <1>9 DEF AddInsertRow, At, Announces
  <2>3. f = <<call[p].conv, f[2]>>
    BY <1>2, <2>1
  <2>4. \E n \in About(call[p].conv, call[p].guests, "in") : n.fact = <<call[p].conv, f[2]>>
    BY <1>6, <2>1
  <2> QED BY <2>1, <2>2, <2>3, <2>4
<1>10. CASE RemoveDeleteRow(p)
  <2>1. f[1] = call[p].conv /\ f[2] \in call[p].guests
    BY <1>2, <1>3, <1>10 DEF RemoveDeleteRow
  <2>2. Announces(call[p]) = About(call[p].conv, call[p].guests, "out")
    BY <1>10 DEF RemoveDeleteRow, At, Announces
  <2>3. Executed(p)
    BY <1>4, <1>10 DEF RemoveDeleteRow
  <2>4. f = <<call[p].conv, f[2]>>
    BY <1>2, <2>1
  <2>5. \E n \in About(call[p].conv, call[p].guests, "out") : n.fact = <<call[p].conv, f[2]>>
    BY <1>6, <2>1
  <2> QED BY <2>2, <2>3, <2>4, <2>5
<1>11. CASE LeaveDeleteRow(p)
  <2>1. f = <<call[p].conv, call[p].me>>
    BY <1>3, <1>11 DEF LeaveDeleteRow, IInv, TypeOK, Facts
  <2>2. Announces(call[p]) = About(call[p].conv, {call[p].me}, "out")
    BY <1>11 DEF LeaveDeleteRow, At, Announces
  <2>3. call'[p].at = "leave_count"
    BY <1>1, <1>11, AwaitsAt DEF LeaveDeleteRow
  <2>4. Executed(p)
    BY <2>3 DEF Executed, Idle
  <2> QED BY <1>6, <2>1, <2>2, <2>4
<1>12. CASE LeaveDeleteConv(p)
  <2>1. f[1] = call[p].conv
    BY <1>2, <1>3, <1>12 DEF LeaveDeleteConv
  <2>2. conv'[f[1]].state = "deleted"
    BY <1>2, <1>12, <2>1 DEF LeaveDeleteConv, IInv, TypeOK, Rows
  <2> QED BY <2>2
<1>13. CASE UNCHANGED role
  BY <1>3, <1>13
<1> QED
  BY <1>7, <1>8, <1>9, <1>10, <1>11, <1>12, <1>13
     DEF Statement, PrivateCheckFriends, PrivateFindExisting, PrivateInsert, InsertConv,
         PrivateReadBack, GroupInsert, GroupReadBack, ReadBack, UpdateCheckOwner, UpdateRow,
         LeaveCheckMember, LeaveCount, AddCheckOwner, AddCheckExisting, RemoveCheckRights,
         RemoveCheckTarget

\* What a statement announces, and whom its method passes over.
LEMMA AnnouncesTypes ==
  ASSUME IInv, Leaving, NEW p \in Slots, Statement(p)
  PROVE  /\ Announces(call[p]) \subseteq Notices
         /\ \A n \in Announces(call[p]) : n.fact \in Facts => n.says \in {"in", "out"}
         /\ PassesOver(call[p]) \subseteq Facts
<1>1. call[p] \in Handlers
  BY StatementControl, StepNames DEF At, Idle, IInv, TypeOK
<1>2. call[p].me \in Users /\ call[p].guests \subseteq Users
  BY <1>1 DEF Handlers
<1>3. call[p].at \in {"add_row", "group_members", "remove_row", "update_row", "leave_row",
                      "private_members"} => call[p].conv \in Convs
  BY DEF IInv, InFlight, GroupOnly, Leaving, LeavingSteps
<1>4. ASSUME call[p].conv \in Convs, NEW people \in SUBSET (Users \cup {NoUser}),
             NEW says \in {"in", "out", "updated"}
      PROVE  About(call[p].conv, people, says) \subseteq Notices
  BY <1>4 DEF About, Notices
<1>5. ASSUME NEW people, NEW says
      PROVE  \A n \in About(call[p].conv, people, says) : n.says = says
                /\ \E u \in people : n.fact = <<call[p].conv, u>>
  BY DEF About
<1>6. <<call[p].conv, NoUser>> \notin Facts
  BY ConversationsAssumption DEF Facts
<1>7. \/ Announces(call[p]) = {}
      \/ /\ call[p].conv \in Convs
         /\ \/ \E says \in {"in", "out"}, people \in SUBSET Users :
                 Announces(call[p]) = About(call[p].conv, people, says)
            \/ Announces(call[p]) = About(call[p].conv, {NoUser}, "updated")
  BY <1>2, <1>3 DEF Announces
<1>8. Announces(call[p]) \subseteq Notices
  BY <1>4, <1>7
<1>9. \A n \in Announces(call[p]) : n.fact \in Facts => n.says \in {"in", "out"}
  BY <1>5, <1>6, <1>7
<1>10. PassesOver(call[p]) \subseteq Facts
  BY <1>2, <1>3 DEF PassesOver, Facts
<1> QED BY <1>8, <1>9, <1>10

\* The conversation and the membership of a fact.
LEMMA FactParts ==
  ASSUME NEW f \in Facts
  PROVE  f[1] \in Convs /\ f[2] \in Users
BY DEF Facts

\* Nothing the notices are about changes while the tables stand still.
LEMMA TruthFrame ==
  ASSUME UNCHANGED <<conv, role>>, NEW f
  PROVE  Truth(f)' = Truth(f) /\ conv'[f[1]].state = conv[f[1]].state
BY DEF Truth, Members

LEMMA TruthRange == \A f : Truth(f) \in {"in", "out"}
BY DEF Truth

\* A statement, with the notices it leaves to be awaited.
LEMMA ExecuteStep ==
  ASSUME NoticesInv, IInv', Leaving', NEW p \in Slots, Execute(p)
  PROVE  NoticesInv'
<1> DEFINE said == IF Executed(p) THEN Announces(call[p]) ELSE {}
           passed == IF Executed(p) THEN PassesOver(call[p]) ELSE {}
<1>1. /\ notice[p] = {}
      /\ Statement(p)
      /\ notice' = [notice EXCEPT ![p] = said]
      /\ muddled' = muddled \cup {f \in Facts : Pending(f) /\ \E n \in said : n.fact = f}
                            \cup passed
      /\ UNCHANGED <<room, heard>>
  BY DEF Execute
<1>2. said \subseteq Announces(call[p]) /\ passed \subseteq PassesOver(call[p])
  OBVIOUS
<1>3. /\ said \subseteq Notices
      /\ \A n \in said : n.fact \in Facts => n.says \in {"in", "out"}
      /\ passed \subseteq Facts
  BY <1>1, <1>2, AnnouncesTypes DEF NoticesInv
<1>4. \A n \in said : n.fact \in Facts => n.says = Truth(n.fact)'
  <2> SUFFICES ASSUME NEW n \in said, n.fact \in Facts PROVE n.says = Truth(n.fact)'
    OBVIOUS
  <2>1. Executed(p) /\ n \in Announces(call[p])
    OBVIOUS
  <2> QED BY <1>1, <2>1, AnnouncesTruth DEF NoticesInv
<1>5. ASSUME NEW f \in Facts, conv'[f[1]].state # "deleted", Truth(f)' # Truth(f)
      PROVE  f \in passed \/ \E n \in said : n.fact = f
  BY <1>1, <1>5, TruthChange DEF NoticesInv
<1>6. ASSUME NEW f \in Facts, conv'[f[1]].state # "deleted"
      PROVE  conv[f[1]].state # "deleted"
  <2>1. [Next]_vars
    BY DEF Execute, Next, Step
  <2> QED BY <1>6, <2>1, FactParts, DeletedStays DEF NoticesInv, IInv
<1> HIDE DEF said, passed
<1>7. notice \in [Slots -> SUBSET Notices]
  BY DEF NoticesInv, NoticesTypeOK
<1>8. notice'[p] = said /\ \A q \in Slots \ {p} : notice'[q] = notice[q]
  BY <1>1, <1>7
<1>9. ASSUME NEW f
      PROVE  /\ Pending(f) => Pending(f)'
             /\ (\E n \in said : n.fact = f) => Pending(f)'
  BY <1>1, <1>8 DEF Pending
<1>10. NoticesTypeOK'
  <2>1. notice' \in [Slots -> SUBSET Notices]
    BY <1>1, <1>3, <1>7
  <2>2. muddled' \subseteq Facts
    BY <1>1, <1>3 DEF NoticesInv, NoticesTypeOK
  <2>3. room' \subseteq Sockets \X Convs /\ heard' \in [Sockets -> [Facts -> {"nothing", "in", "out"}]]
    BY <1>1 DEF NoticesInv, NoticesTypeOK
  <2>4. TypeOK'
    BY DEF IInv
  <2> QED BY <2>1, <2>2, <2>3, <2>4 DEF NoticesTypeOK
<1>11. Told'
  BY <1>3, <1>8 DEF NoticesInv, Told
<1>12. Deaf'
  BY <1>1 DEF NoticesInv, Deaf
<1>13. Honest'
  <2> SUFFICES ASSUME NEW q \in Slots, NEW n \in notice'[q], n.fact \in Facts, n.fact \notin muddled',
                      conv'[n.fact[1]].state # "deleted"
               PROVE  n.says = Truth(n.fact)'
    BY DEF Honest
  <2>1. CASE q = p
    BY <1>4, <1>8, <2>1
  <2>2. CASE q # p
    <3>1. n \in notice[q] /\ n.fact \notin muddled /\ conv[n.fact[1]].state # "deleted"
      BY <1>1, <1>6, <1>8, <2>2
    <3>2. n.says = Truth(n.fact)
      BY <3>1 DEF NoticesInv, Honest
    <3>3. Pending(n.fact)
      BY <3>1 DEF Pending
    <3>4. Truth(n.fact)' = Truth(n.fact)
      BY <1>1, <1>5, <3>3
    <3> QED BY <3>2, <3>4
  <2> QED BY <2>1, <2>2
<1>14. Heard'
  <2> SUFFICES ASSUME NEW k \in Sockets, NEW f \in Facts, f \notin muddled', conv'[f[1]].state # "deleted"
               PROVE  heard'[k][f] \in {"nothing", Truth(f)'} \/ Pending(f)'
    BY DEF Heard
  <2>1. f \notin muddled /\ conv[f[1]].state # "deleted" /\ heard'[k][f] = heard[k][f]
    BY <1>1, <1>6
  <2>2. heard[k][f] \in {"nothing", Truth(f)} \/ Pending(f)
    BY <2>1 DEF NoticesInv, Heard
  <2>3. CASE Truth(f)' = Truth(f)
    BY <1>9, <2>1, <2>2, <2>3
  <2>4. CASE Truth(f)' # Truth(f)
    BY <1>1, <1>5, <1>9, <2>4
  <2> QED BY <2>3, <2>4
<1> QED BY <1>10, <1>11, <1>12, <1>13, <1>14 DEF NoticesInv

\* An emit, or a notice that is lost.
LEMMA NotifyStep ==
  ASSUME NoticesInv, IInv', Leaving', NEW p \in Slots, NEW n \in notice[p], Emit(p, n) \/ Swallow(p, n)
  PROVE  NoticesInv'
<1> USE DEF NoticesInv
<1>1. /\ notice' = [notice EXCEPT ![p] = @ \ {n}]
      /\ UNCHANGED <<vars, room>>
  BY DEF Emit, Swallow
<1>2. UNCHANGED <<conv, role>>
  BY <1>1 DEF vars
<1>3. notice \in [Slots -> SUBSET Notices] /\ heard \in [Sockets -> [Facts -> {"nothing", "in", "out"}]]
  BY DEF NoticesTypeOK
<1>4. \A q \in Slots : notice'[q] \subseteq notice[q]
  BY <1>1, <1>3
<1>5. ASSUME NEW f, f # n.fact, Pending(f)
      PROVE  Pending(f)'
  <2>1. PICK q \in Slots : \E m \in notice[q] : m.fact = f
    BY <1>5 DEF Pending
  <2>2. PICK m \in notice[q] : m.fact = f
    BY <2>1
  <2>3. m \in notice'[q]
    BY <1>1, <1>3, <1>5, <2>2
  <2> QED BY <2>2, <2>3 DEF Pending
<1>6. notice' \in [Slots -> SUBSET Notices]
  BY <1>3, <1>1
<1>7. Told'
  BY <1>4 DEF Told
<1>8. TypeOK' /\ room' \subseteq Sockets \X Convs
  BY <1>1 DEF IInv, NoticesTypeOK
<1>9. ASSUME muddled \subseteq muddled'
      PROVE  Honest'
  <2> SUFFICES ASSUME NEW q \in Slots, NEW m \in notice'[q], m.fact \in Facts, m.fact \notin muddled',
                      conv'[m.fact[1]].state # "deleted"
               PROVE  m.says = Truth(m.fact)'
    BY DEF Honest
  <2>1. m \in notice[q] /\ m.fact \notin muddled /\ conv[m.fact[1]].state # "deleted"
    BY <1>2, <1>4, <1>9
  <2> QED BY <1>2, <2>1, TruthFrame DEF Honest
<1>10. CASE Emit(p, n)
  <2>1. heard' = [k \in Sockets |->
          IF n.fact \in Facts /\ <<k, n.fact[1]>> \in room
          THEN [heard[k] EXCEPT ![n.fact] = n.says] ELSE heard[k]]
    BY <1>10 DEF Emit
  <2>2. UNCHANGED muddled
    BY <1>10 DEF Emit
  <2>3. n.fact \in Facts => n.says \in {"in", "out"}
    BY DEF Told
  <2>4. \A k \in Sockets, f \in Facts :
          heard'[k][f] = IF f = n.fact /\ <<k, f[1]>> \in room THEN n.says ELSE heard[k][f]
    BY <1>3, <2>1
  <2>5. heard' \in [Sockets -> [Facts -> {"nothing", "in", "out"}]]
    BY <1>3, <2>1, <2>3
  <2>6. NoticesTypeOK'
    BY <1>6, <1>8, <2>2, <2>5 DEF NoticesTypeOK
  <2>7. Deaf'
    BY <1>1, <2>4 DEF Deaf
  <2>8. Heard'
    <3> SUFFICES ASSUME NEW k \in Sockets, NEW f \in Facts, f \notin muddled, conv'[f[1]].state # "deleted"
                 PROVE  heard'[k][f] \in {"nothing", Truth(f)'} \/ Pending(f)'
      BY <2>2 DEF Heard
    <3>1. Truth(f)' = Truth(f) /\ conv[f[1]].state # "deleted"
      BY <1>2, TruthFrame
    <3>2. CASE f # n.fact
      <4>1. heard[k][f] \in {"nothing", Truth(f)} \/ Pending(f)
        BY <3>1 DEF Heard
      <4> QED BY <1>5, <2>4, <3>1, <3>2, <4>1
    <3>3. CASE f = n.fact
      <4>1. n.says = Truth(f)
        BY <3>1, <3>3 DEF Honest
      <4>2. <<k, f[1]>> \notin room => heard[k][f] = "nothing"
        BY DEF Deaf
      <4> QED BY <2>4, <3>1, <3>3, <4>1, <4>2
    <3> QED BY <3>2, <3>3
  <2> QED BY <1>7, <1>9, <2>2, <2>6, <2>7, <2>8
<1>11. CASE Swallow(p, n)
  <2>1. heard' = heard /\ muddled' = muddled \cup ({n.fact} \cap Facts)
    BY <1>11 DEF Swallow
  <2>2. NoticesTypeOK'
    BY <1>6, <1>8, <2>1 DEF NoticesTypeOK
  <2>3. Deaf'
    BY <1>1, <2>1 DEF Deaf
  <2>4. Heard'
    <3> SUFFICES ASSUME NEW k \in Sockets, NEW f \in Facts, f \notin muddled', conv'[f[1]].state # "deleted"
                 PROVE  heard'[k][f] \in {"nothing", Truth(f)'} \/ Pending(f)'
      BY DEF Heard
    <3>1. Truth(f)' = Truth(f) /\ conv[f[1]].state # "deleted" /\ f \notin muddled /\ f # n.fact
      BY <1>2, <2>1, TruthFrame
    <3>2. heard[k][f] \in {"nothing", Truth(f)} \/ Pending(f)
      BY <3>1 DEF Heard
    <3> QED BY <1>5, <2>1, <3>1, <3>2
  <2> QED BY <1>7, <1>9, <2>1, <2>2, <2>3, <2>4
<1> QED BY <1>10, <1>11
\* Sockets coming and going.
LEMMA RoomsStep ==
  ASSUME NoticesInv, IInv', Leaving', NEW k \in Sockets, NEW c \in Convs, JoinRoom(k, c) \/ LeaveRoom(k, c)
  PROVE  NoticesInv'
<1> USE DEF NoticesInv
<1>1. UNCHANGED <<conv, role, notice, muddled>>
  BY DEF JoinRoom, LeaveRoom, vars
<1>2. heard \in [Sockets -> [Facts -> {"nothing", "in", "out"}]]
  BY DEF NoticesTypeOK
<1>3. \A f : Pending(f)' <=> Pending(f)
  BY <1>1 DEF Pending
<1>4. heard' \in [Sockets -> [Facts -> {"nothing", "in", "out"}]] /\ room' \subseteq Sockets \X Convs
  <2>1. CASE JoinRoom(k, c)
    BY <1>2, <2>1 DEF JoinRoom, NoticesTypeOK
  <2>2. CASE LeaveRoom(k, c)
    BY <1>2, <2>2 DEF LeaveRoom, NoticesTypeOK
  <2> QED BY <2>1, <2>2
<1>5. NoticesTypeOK'
  BY <1>1, <1>4 DEF NoticesTypeOK, IInv
<1>6. Told'
  BY <1>1 DEF Told
<1>7. Honest'
  BY <1>1, TruthFrame DEF Honest
<1>8. \A j \in Sockets, f \in Facts :
        \/ heard'[j][f] = "nothing"
        \/ heard'[j][f] = heard[j][f] /\ (<<j, f[1]>> \in room => <<j, f[1]>> \in room')
  <2>1. CASE JoinRoom(k, c)
    BY <2>1 DEF JoinRoom
  <2>2. CASE LeaveRoom(k, c)
    <3>1. \A j \in Sockets, f \in Facts :
            heard'[j][f] = IF j = k /\ f[1] = c THEN "nothing" ELSE heard[j][f]
      BY <1>2, <2>2 DEF LeaveRoom
    <3> QED BY <2>2, <3>1 DEF LeaveRoom
  <2> QED BY <2>1, <2>2
<1>9. Deaf'
  BY <1>8 DEF Deaf
<1>10. Heard'
  <2> SUFFICES ASSUME NEW j \in Sockets, NEW f \in Facts, f \notin muddled', conv'[f[1]].state # "deleted"
               PROVE  heard'[j][f] \in {"nothing", Truth(f)'} \/ Pending(f)'
    BY DEF Heard
  <2>1. heard[j][f] \in {"nothing", Truth(f)} \/ Pending(f)
    BY <1>1 DEF Heard
  <2>2. Truth(f)' = Truth(f)
    BY <1>1, TruthFrame
  <2> QED BY <1>3, <1>8, <2>1, <2>2
<1> QED BY <1>5, <1>6, <1>7, <1>9, <1>10

\* A step that leaves the tables and the notices alone.
LEMMA NoticesFrame ==
  ASSUME NoticesInv, IInv', Leaving', UNCHANGED <<conv, role, notices>>
  PROVE  NoticesInv'
<1> USE DEF NoticesInv, notices
<1>1. \A f : Pending(f)' <=> Pending(f)
  BY DEF Pending
<1>2. NoticesTypeOK'
  BY DEF NoticesTypeOK, IInv
<1>3. Told' /\ Deaf'
  BY DEF Told, Deaf
<1>4. Honest'
  BY TruthFrame DEF Honest
<1>5. Heard'
  BY <1>1, TruthFrame DEF Heard
<1> QED BY <1>2, <1>3, <1>4, <1>5

LEMMA NoticesInvInit == NoticesInit => NoticesInv
<1> SUFFICES ASSUME NoticesInit PROVE NoticesInv
  OBVIOUS
<1> USE DEF NoticesInit
<1>1. IInv
  BY InvInit
<1>2. Leaving
  BY DEF Init, Leaving, LeavingSteps, Idle
<1>3. NoticesTypeOK
  BY <1>1 DEF NoticesTypeOK, IInv
<1>4. Told /\ Deaf /\ Honest /\ Heard
  BY DEF Told, Deaf, Honest, Heard
<1> QED BY <1>1, <1>2, <1>3, <1>4 DEF NoticesInv

LEMMA NoticesInvStep == NoticesInv /\ [NoticesNext]_allvars => NoticesInv'
<1> SUFFICES ASSUME NoticesInv, [NoticesNext]_allvars PROVE NoticesInv'
  OBVIOUS
<1>1. IInv' /\ Leaving'
  BY NoticesStepIsStep, InvStep, LeavingStep DEF NoticesInv
<1>2. ASSUME NEW p \in Slots, BeginRequest(p)
      PROVE  UNCHANGED <<conv, role, notices>>
  BY <1>2, RequestFrame DEF BeginRequest, Begin
<1>3. ASSUME NEW p \in Slots, FailStatement(p)
      PROVE  UNCHANGED <<conv, role, notices>>
  BY <1>3 DEF FailStatement, Fail
<1>4. CASE UNCHANGED allvars
  BY <1>1, <1>4, NoticesFrame DEF allvars, vars
<1> QED
  BY <1>1, <1>2, <1>3, <1>4, NoticesFrame, ExecuteStep, NotifyStep, RoomsStep
     DEF NoticesNext, Rooms, Notify

\* The notices are about what they can be about, and what a socket has heard is well-typed.
THEOREM NoticesTypeCorrect == NoticesSpec => []NoticesTypeOK
<1>1. NoticesInv => NoticesTypeOK
  BY DEF NoticesInv
<1> QED BY <1>1, NoticesInvInit, NoticesInvStep, PTL DEF NoticesSpec

\* However requests, notices and sockets interleave: a socket in a room has heard last
\* of a member what the tables say, or a notice about it is on its way, unless one was
\* lost, two handlers were announcing it at once, or it changed with no notice.
THEOREM NoticesHold == NoticesSpec => []HeardIsTrue
<1>1. NoticesInv => HeardIsTrue
  BY FactParts DEF NoticesInv, Heard, HeardIsTrue, Live
<1> QED BY <1>1, NoticesInvInit, NoticesInvStep, PTL DEF NoticesSpec
==============================================================================
