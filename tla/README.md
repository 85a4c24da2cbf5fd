# Verification of chat_backend

TLA+ models of the chat backend under `src/src` (a NestJS application: friends,
conversations, messages over WebSocket, moments, calls, notifications), TLC runs over
small instances of them, and TLAPS proofs of the properties that matter most for instances
of any size. File names below are relative to `src/src/modules` unless they say otherwise.

Contents: 1 the system and what is hard about it; 2 the modelling stance; 3 modules, one by
one; 4 runs, bounds and fairness; 5 proofs; 6 what the code does that its comments and
documents do not say; 7 what is not modelled; 8 plan.

## 1. The system

One Node.js process serves HTTP controllers and a socket.io gateway. State lives in three
places: MySQL (`src/docker/mysql/init/01-init.sql`), Redis, and maps in the memory of the
process.

| Component | Source | State | Operations that write | What makes it correct |
|---|---|---|---|---|
| Friends | friends/services/friends.service.ts | tables friendships, friend_requests | send, accept, reject, delete | friendship is mutual and consented; one open request per pair; verdicts stand |
| Conversations | conversations/services/conversations.service.ts | conversations, conversation_members | create (private, group), update, leave, add and remove member | a private conversation is for its two people and has no owner; only owners manage; empty conversations go, others stay |
| Messages | chat/services/messages.service.ts, media-message.service.ts | messages, last_read_at | send, delete, mark read | only members write; a send announces its own message; unread counts count what was not read |
| Gateway | websocket/chat.gateway.ts | onlineUsers, userConversations; socket.io rooms | connect, disconnect, join, leave, send, typing, read, two queries | presence follows connections; messages carry their true sender |
| Calls | websocket/services/webrtc.service.ts | activeCalls, userCallStatus | initiate, answer, decline, end, ICE, status | who is counted in a call is in it; nobody stays busy without a call |
| Offline messages | chat/services/offline-message.service.ts | a Redis list per user | store, send, clear, refresh | nothing stored is lost before it is delivered, nothing is delivered twice |
| Group notices | chat/services/group-chat-notification.service.ts | none | emits to a room, after reading names | what a room has heard of a member is so; a notice never stops its caller |
| Moments | moments/services/moments.service.ts | posts, comments, likes and their counters | create/delete post, like, comment, delete comment | counters agree with the rows they count; only authors delete |
| Notifications | notifications/services/notification.service.ts | notifications, a Redis cache per row | create, bulk, mark read, mark all, delete | the cache never says what the table does not |
| Authentication | auth/services/auth.service.ts | users | register, login, refresh, validate, logout | tokens go to whom they are due, and to nobody else; a registration is its own |
| Users | users/services/users.service.ts | users, user_settings | profile, avatar, password, settings | a password changes for who knew it; defaults never replace what was chosen |
| Uploads | uploads/services/uploads.service.ts | object store, media_files | put, delete | a row for every object and an object for every row |
| Search, HTTP surface, database wrapper | search/, controllers, `src/src/common` | none of their own | read-only or wiring | |

How they interact. Services share the database and nothing else: createConversation reads
friendships, messages read conversation_members, unread counts read messages and
last_read_at. ConversationsService awaits GroupChatNotificationService after the statement
that changes a membership, and in leaveConversation before the one that deletes the
conversation; WebRTCService and OfflineMessageService emit through the gateway's server.
OfflineMessageService has no caller in the repository and NotificationService only its own
controller: their methods may be called at any time by code to come.

What is hard here, and hardly reached by unit tests with a mocked database:

- every handler is a sequence of awaited statements without a transaction
  (`DatabaseService.transaction` is never used), so handlers interleave between any two of
  them, and a check may be stale when the write it guards is executed;
- a statement may fail after others have been executed, and nothing is undone;
- ids are not returned by an INSERT: the row is read back as the latest of its kind, with
  timestamps of one second;
- one user may have several sockets, and the disconnection of an old one may arrive after
  the connection of the new one;
- maps about calls are overwritten and deleted by methods about other calls;
- a row and the counter or the cache kept beside it are written by different statements.

PROJECT.json lists these hazards at their lines, each with the properties that cover it.

## 2. Modelling stance

The database is external, and modelled from how the code uses it together with the
constraints of 01-init.sql (unique keys, foreign keys, cascades, column types): a statement
is atomic; parameters written `$n` are bound; generated ids are fresh; NOW() has a
resolution of one second, and rows of the same second may come back in any order. This is
the database the services were written for. (The wrapper in the repository hands the text
to a MySQL driver, whose placeholder is `?`, and 01-init.sql gives `id CHAR(36) PRIMARY KEY`
no default; with that combination no INSERT would succeed and there would be nothing to
model.) Any statement may also be rejected, in every module about the database: action
`Fail` makes the handler throw and keeps what it has written.

A handler in flight occupies a *slot*; `call[p].at` names the statement it executes next,
and a new statement is one action that reads and writes the tables and moves on. Requests
arrive at the methods of the services with a caller id as an argument; controllers, guards
and DTOs are not modelled. Where being logged in matters, the caller is an active user
(auth.service.ts:88), and the other person may be anybody.

In-memory services are modelled one method per step, because between two awaits that wait
for something JavaScript runs without interruption, and these methods await nothing else.

Texts, names, media and wording are abstracted to model values or left out; results are
kept as far as properties tell them apart.

A variable marked *history* is not in the code; it records what a property has to refer to:
`consented`, `crossed` and `contested` (Friends: who consented, the pairs whose sends crossed each
other or an accept, and the requests that were accepted and rejected at the same time),
`newcomers` (Conversations: who has joined the conversation of a handler since its last look),
`repeated` and `failed` (Moments), `newest` and `view` (Gateway), `swept`,
`missed` and `overlapped` (Notifications; the last: two handlers have been in flight at once),
`stored`, `late`, `removed`, `bare` and `shaky` (OfflineMessages), `marked`, `rushed` and the
fields `wrote` and `ousted` (Messages), the fields `wrote`, `ever` and `always` of a handler (Accounts: the account it inserted, those that
deserved what it asks for at some moment since it began, and at every moment), `heard` and
`muddled` (GroupNotices).
A *mutant* is an operator `XWithTheFault` next to `X`, used by no action: it is the plausible
mistake that the property named for it in PROJECT.json must notice.

## 3. Modules

**SocialGraph** is the abstract promise of Friends: people invite, an invited person
consents, and only the consented become friends, always in both directions.

**Friends** (friends.service.ts 8-133). One action per SQL statement of the four handlers.
A request row is its ordered pair (the schema has one per pair and nothing deletes them).
`SendFindRequest` keeps the precedence of the SQL of line 39 (`a AND b OR c AND d AND
status = 0`): a request in the sender's direction counts whatever its status.
Properties: `RequestsOnlyAdvance` and `ImplementsGraph` (a refinement of SocialGraph, of
which `FriendshipMutual` and `FriendsConsented` are parts; these two are proved and not run)
hold under any interleaving and any failure, and `StrandedOnlyByFailure` says that an accepted
request without its friendship is left by an INSERT that failed or by deleteFriend, never by a
schedule; `OneOpenRequestPerPair`, `NoOpenRequestAmongFriends` and `FriendsNotRejected` are what
the checks before the writes are for, and hold whatever overlaps or fails but for one race each: two
sends past the check before either writes, or a send during an accept (`crossed`), and an accept
and a reject of one request past their checks together (`contested`).

**MembershipTable** is what the tables conversations and conversation_members promise to a
service that only reads them: a conversation is founded once, people are admitted to one that
is there and only if they are not in it, they depart one by one, and a closed conversation
takes its members along and never opens again.

**Conversations** (conversations.service.ts 13-111, 223-377). One action per statement.
`Latest` is the set of rows the read-back may return. Under any interleaving:
`PrivateHasNoOwner`, `PrivateGainsOnlyItsPair`, and (proved, not run) `OnlyGroupsAreManaged`,
`RolesAreForLife`; `ImplementsTable`, a refinement of MembershipTable; `DeletedOnlyWhenCountedEmpty`
(with a conversation go only those who joined after its last members were counted) and
`OwnerIsNotRemoved` (a removal takes the owner only if he came back as the owner after the role was
checked), both with `newcomers`; and `AbandonedOnlyByFailure`: the steps that leave a conversation
with no member and nobody about to give it some or delete it are a statement that failed, a
creation or rename after which the creator's read-back returns another row, and a removal by
somebody who is not the owner any more or has become it again.

**GroupNotices** (group-chat-notification.service.ts 20-201) EXTENDS Conversations and puts its
handlers together with the notices they await and with the rooms of the gateway. A notice is
two steps in the code, a query for names and an emission; the query can fail, which is logged
(`Swallow`), and the emission reaches the sockets that are in the room by then (`Emit`).
`HeardIsTrue`: what a socket in a room has heard last of a member is what the tables say, or
the notice is under way, unless one was lost, two handlers were announcing the same fact at
once, or the change is one the code announces to nobody (`muddled`). `LastToLeaveDeletes`
(liveness): whoever leaves last takes the conversation along, although the notice of the
departure is awaited before the members are counted. The clock stands still in this module, so
that a read-back may take any row.

**Accounts** (auth.service.ts 28-188, users.service.ts 28-179). One action per statement of
register, login, refreshTokens, logout, changePassword, getUserSettings, updateUserSettings and
updateUserProfile. A row of users is its username, e-mail, phone (or none), password and
state; bcrypt belongs to the statement before it. Whoever bars and restores accounts is
external (`Administer`). `RegisteredIsOwn`: although the inserted row is read back by
username OR e-mail, the account answered for is the one inserted. `TokensAreDeserved`: tokens
are signed after two awaits, for an account that deserved them at some moment of the request.
`DeservedIsGranted`: a login that was due throughout is refused only if what it gave as its name is
the phone of one account and a name of another. `ChangesAreProven`: a password is replaced by the
handler of who had given the current one, by what that request asked for, and with nothing else
of the row.
`SettingsAreNeverReset`: the late INSERT of the defaults loses against what is there.

**Calls** (webrtc.service.ts). One action per method over the two maps.
`CountedInOwnCall` and `CalleeCountedOnceAccepted` relate the maps to each other;
`OnlyLateDeclineStrands` says which single order of methods leaves a user counted in a call
that is gone. Two facts about the surroundings are constants: who has a socket (`Reachable`;
the shipped lookup is a stub that finds nobody) and whether the repairing method is routed
(`StatusRouted`; it is not, its route is shadowed).

**Gateway** (chat.gateway.ts). One action per handler. `handleDisconnect` includes what
socket.io does (the closed socket leaves its rooms). An emission is its event, the users it
is about and the sockets it reaches; `view` is what a client concludes from friend_status.
`OnlineByNewest`: presence is that of the last socket opened, however late the others close.
`PresenceIsCurrent`: what a registered client last heard is right. `RoomsAreRecorded`: the
registered socket is in recorded rooms only. `SpeaksForItsUser` (proved, not run): the
payload's claim about its sender never survives, and a replaced socket can hear but not speak.

**Moments** (moments.service.ts). One action per statement; likePost and likeComment are one
algorithm on two pairs of tables, so a target is a post or a comment. `CountersExact`
gives the counters as functions of the rows and of the updates that
handlers in flight still owe, as long as nobody repeats what is done or under way and no
failure leaves a counter owed. `CountersNeverHigh` drops the first condition: repetition can
only lose counts.

**Notifications** (notification.service.ts; the three cache methods of
`src/src/common/services/redis.service.ts`). One action per SQL statement or Redis command.
A row has one copy in the cache, written by the creation after the row was read back, and
deleted by the methods that mark or delete the row; a Redis command that fails is swallowed
and the handler goes on. So is any statement of a creation that is rejected: its user is done
with, and a bulk creation goes on to the next of those it was given (`NextUser`; a list that names
somebody twice is not distinguished). `CopyNeverHidesUnread`: a copy never says read of a row that is
unread, under any interleaving. As long as requests do not overlap and nothing fails between a
row and its copy, `CopyIsCurrent`: a copy says what the row says, except where the code never deletes it
(markAllAsRead and deleteNotification use keys that nobody writes) or is about to.
`AloneIsPushedOnce`: while requests do not overlap, a notification alone in its second is
pushed once at most. Nobody reads the copies (the getter is not
used), so the properties are about what a reader would find.

**OfflineMessages** (offline-message.service.ts). One action per Redis command. A user's
list is a sequence, its time to live a flag; a process crash ends every handler and leaves
Redis alone; a command may fail before it is executed, or be executed and its answer lost.
`NothingIsLost`: what was stored for a user with a socket is in the list or delivered, or
among the losses the definition names (pushed between the LRANGE and the DEL of a send,
expired, cleared). `DeliveredOnce`: a message is delivered once unless two sends of one user overlap or a send
leaves its list behind. `ListsExpire`: a list without a time to live is one whose
EXPIRE is under way or was missed. `BatchesAreOrdered`: whatever the order of storing, a
batch is in order of creation.

**Messages** (messages.service.ts 20-119, 176-244; conversations.service.ts 129-139, 181-221,
379-385; offline-message.service.ts 204-222). One action per statement; `Join`, `Leave` and
`DeleteConversation` are what the handlers of Conversations do to the tables, external here,
at any time: the steps `Admit`, `Depart` and `Close` of MembershipTable, each with what it means
for the rows and handlers of this module. (`Found` is left out: a conversation that is founded
and one that everybody has left look the same to these methods.) So Messages assumes of the
tables what Conversations is proved to guarantee, and `AssumesTable` (proved, not run) says that
nothing else happens to them here. `OnlyMembersWrite` relates the INSERT to the membership check of an earlier
statement: the writer is a member or lost the membership in between, and nothing else.
`SendAnnouncesItsOwn`: the row read back is the one inserted, unless the sender raced himself
or sent twice in a second; it is missing only if the conversation was deleted.
`UnreadIsUnmarked`: three services write last_read_at and three count by it; what a
member has marked stays read, through departures, returns and the clock, and what is not
marked is counted, except in the very second of the last reading.

**MC\*** modules give the constants their small values and define symmetry sets.
**\*Proofs** modules hold the theorems.

## 4. Runs, bounds and fairness

| Run | Instance | Result |
|---|---|---|
| friends_concurrent | 3 users (2 can act), 2 requests in flight | 6 properties hold |
| friends_contradiction | 2 users, 2 in flight | `NoFriendshipOnRejection` is violated |
| conversations_concurrent | 2 users, 2 conversations, 2 in flight, 2 seconds | 6 properties hold, one of them a refinement |
| conversations_existing | 3 users, friends in a line, 1 in flight | `ExistingIsShared` is violated |
| notices_concurrent | 2 users, 1 conversation, 2 in flight, 1 socket, one second, fair | 2 properties hold, one of them liveness |
| calls_reachable | 3 users, one unreachable, 3 calls | 3 properties hold |
| gateway_reconnect | 2 users, 4 sockets, 1 room | 3 properties hold |
| moments_concurrent | 2 users, 1 post, 1 comment, 2 in flight, drift 0 | 2 properties hold |
| notifications_cache | 2 users (1 with a socket), 2 notifications of 1 kind, 2 in flight, 2 seconds | 3 properties hold |
| offline_concurrent | 1 user, 3 messages in 2 conversations, 3 in flight, 2 deliveries of a message | 4 properties hold |
| messages_concurrent | 2 users, 1 conversation, 2 messages, 2 in flight, 2 seconds | 3 properties hold |
| accounts_concurrent | 2 accounts, 2 usernames, 2 e-mails, 1 phone, 2 passwords, 2 in flight, settings of 1 account | 5 properties hold |

The type invariant of every module is proved (`TypeCorrect`, in GroupNotices
`NoticesTypeCorrect`, in Calls `CallsTypeCorrect`); no run checks one again.

Why the bounds are enough. Every check-then-write of these services involves two handlers,
so two in flight reach every pairwise interleaving; the third user of Friends and Calls is
the one who must not be affected (or who rings meanwhile). Two conversations are needed for a
read-back to return the wrong one, and two seconds (`MaxSecond` = 1) for it to be sure of the
right one. In `notices_concurrent` one conversation can be deleted but is never reused, one
socket stands for any (sockets do not affect one another), and everything happens in one second,
the most permissive clock. Four
sockets let two users have two each, or one user have three and reconnect. `MaxDrift` bounds
how far a counter may already be wrong when a request that moves it starts; 0 still lets two
concurrent requests take it to -2. `PostLeft` and `CommentLeft` bound the ids; `Fresh` reuses
the id of a closed socket once nothing remembers it, so the number of connections in a
behaviour is unbounded. `Fail` in Moments stops once a counter is owed for ever: nothing is
claimed about counters after that. In Notifications a second user matters only as somebody whose
rows must not be touched, and two rows of one kind in one second are what the read-back
confuses. In OfflineMessages every command names one user's key, so one user shows all;
three slots let a store and two sends of that user overlap. In Messages two messages are
what a read-back confuses, two seconds what the clock distinguishes, and the second slot
or the external actions come between any two statements; every statement
there names its conversation, so one conversation is enough for the interleavings, and does
not exercise a confusion of two conversations. In Accounts two accounts are what the read-back
and the login can confuse; the phone that may be given is one of the usernames, the only case in
which login has two candidates; `MaxOpened` = 1 bounds the rows of user_settings, whose
statements name one account each. The proofs of section 5 need none of these bounds. Deadlock
is checked in every run.

Fairness is stated in one specification, `GroupNotices!NoticesSpec`: weak fairness of
`Execute(p) \/ Notify(p)` for each slot. An awaited statement settles its promise, by its
result or by an error, and the event loop resumes the handler; nothing else is assumed (no
fairness of requests, of failures or of what clients do). Statements may still fail, and
`LastToLeaveDeletes` says so. Everything else is safety and holds without fairness.

Symmetry is used only where no property is a liveness property and ids are never compared or
ordered by the module; the usernames of `accounts_concurrent` are not symmetric, since one of
them is a phone.

## 5. Proofs

Eight modules. Each argument is an inductive invariant `IInv` with `Init => IInv`,
`IInv /\ [Next]_vars => IInv'`, one lemma per handler or action, and the checked properties
derived from it. The theorems cover all ten components with state, and every property a passing
run checks but one, the liveness of GroupNotices. The assumptions are those of the component's module (placeholders are not
members of the sets; Friendships symmetric; the messages of OfflineMessages have a
conversation and a time). The sets of users, conversations, sockets, calls
and slots are arbitrary, infinite ones included.

- **FriendsProofs.** `FriendshipMutual` is preserved because both rows are written and deleted
  by one statement. `FriendsConsented` needs two strengthenings: `ConsentToRequest` (consent is
  about a request that exists) and `InFlight` (a handler about to insert the friendship holds
  a consented request that is no longer pending: what it has established survives what
  others do meanwhile, since requests only advance). From the same invariant: `RequestsAdvance` and
  `AcceptedAreBefriended` (action properties) and `FriendsImplementGraph` (each statement is a step of
  SocialGraph or a stutter). A second invariant, `RaceInv`, holds under any interleaving: what a
  handler past its check has read is still so, or one of the races of `crossed` and `contested`
  has been recorded (`Checked`). It gives `OneRequestPerPair`, `FriendsAreSettled` and
  `FriendsWereGranted`.
- **ConversationsProofs.** `MembersOfLive` and `InFlight`: a handler past its ownership check is
  aimed at a conversation that has been used and is a group, and a conversation never changes
  its type (`TypeFixed`), so the stale check cannot become wrong in that respect.
  From it: `PrivateOwnerless`, `ManagementOfGroups`, `RoleStability`, `PrivateMembership`. `WatchInv`,
  inductive with it: who is in the conversation a handler is about to delete, or has become the owner
  of the one it is about to remove him from, is among the `newcomers` of that handler. From
  it: `DeletionOfEmpty` and `OwnersStay`; and, statement by statement, `AbandonmentByFailure` (a
  conversation nobody is in stays owed by a handler, `OwedStays`, unless the step is one of those
  the property names). For GroupNotices
  the invariant is that a notice on its way says what the tables say (`Honest`), that a socket
  outside a room has heard nothing there (`Deaf`), and `HeardIsTrue` without regard to rooms, from
  before a conversation lives (`Heard`). It is kept because a statement announces whatever it changes
  in a conversation that stays, or its method passes over it (`TruthChange`), and what it
  announces is so (`AnnouncesTruth`). From it: `NoticesHold`, for any number of handlers, notices
  and sockets. The refinement, `ConversationsImplementTable`, needs `Departures`: whoever is leaving
  was found in a conversation that has been founded, and a removal is of one person. Then
  each INSERT of members is an `Admit`, by the foreign key and the unique key; each DELETE of a row
  a `Depart` or, when somebody else was faster, nothing; the last leaver's DELETE a `Close` or, when
  the conversation has gone already, nothing, because `MembersOfLive` leaves nobody in it.
- **WebSocketProofs** is about the two services of the gateway that keep their state in memory;
  they share none of it, and the module EXTENDS both. Of Calls: the agreement of the two maps is
  inductive with the types, and `Stranding` examines each method for the entries it leaves
  behind. Of Gateway: `EntriesAreNewest`: an entry of onlineUsers is an open socket of that very
  user and the last one opened, and the last one opened has an entry while open. Hence
  the search by socket finds at most one user, a disconnection removes the right entry or none, and
  `OnlineFollowsNewest`, `PresenceHolds`, `RoomsHold`, `SpeechIsOwned` follow, with
  `ClosedIsForgotten` for clients that are not connected.
- **OfflineMessagesProofs.** All four checked properties. `StoredMessagesStay` from
  `ListIsHeld`: what a send has read is still in the list, or accounted for, until its DEL, so
  what the DEL takes away was emitted or came late. `DeliveryIsOnce` needs that a user who is
  not in `shaky` has at most one send between its LRANGE and its DEL (`OneSendAtATime`), that
  what such a send holds is not delivered before it emits (`HeldIsNew`), and that what is
  delivered has left the list when the next send reads it (`DeliveredLeaves`).
  `BatchesInOrder` rests on what a stable sort by creation time promises (`HeldInOrder`).
- **MessagesProofs.** All three checked properties. `UnreadIsUnmarked` from three facts: nothing is
  dated after the clock (`Dated`), what is marked for a member is not younger than the member's
  last reading (`MarkedIsRead`), and what is not marked is not older (`UnmarkedIsLater`).
  `OnlyMembersWrite` from `PastCheck`: a handler past the check is a member's or has been
  ousted. For `SendAnnouncesItsOwn`: two sends of a user to a conversation overlap only in
  `rushed` (`Rushing`); until it is read back, the inserted row is the sender's newest, unless
  `rushed`, or its conversation is gone (`Written`, `Leading`); and an own row in the table means
  that the read-back returns one (`SomeLatest`). `MessagesKeepToTable` is the assumption's side of the
  composition with Conversations: the statements of the handlers here change neither table, and
  every other step is one of MembershipTable.
- **NotificationsProofs.** All three checked properties. `CopiesHideNothing` from `Carries` (what a
  creation has seen of the row it will cache is read only if the row is no longer unread) and
  `CopiesAreOwners`. Two more invariants hold while requests do not overlap (`OneHandler`):
  `Current` (what a creation is about to cache is what the row says; a copy out of date was
  swept, or its row deleted, or the markAsRead in flight is its owner's) and `Once` (the row a
  creation has inserted is dated last and was never pushed, so what is read back is that
  row or one of its kind and second).
- **AccountsProofs.** All five checked properties, from `Unique` (names and e-mails), `Sound` (what
  a handler has read is of its account), `Watched` (the histories `ever` and `always` are what
  the tables showed) and `Replied`.

- **MomentsProofs.** Both checked properties. A counter is compared with the rows it counts, less
  what handlers in flight have still to add, plus what they have still to take away; the
  difference is its gap (`LikeGap`, `CommentGap`). `Gaps`: until a handler fails owing a counter
  no gap is negative, and as long as nobody repeats what is done or under way every gap is
  zero. The second half needs that no user acts twice on one thing at a time (`Alone`) and that
  what is about to be deleted is still there (`Unspent`); both are lost with the first
  repetition, and with them the zero, but not the sign: a DELETE that finds no row before a
  decrement only widens a gap. Nothing assumes finite sets: `Finite` is part of the invariant (of
  the handlers in flight, of the rows of one target and of the comments there have been), and the
  cardinality theorems are applied to these.

Only model-checked: `LastToLeaveDeletes` (liveness under fairness is out of the prover's reach),
and the two violations of section 6, which are counterexamples.

## 6. What the code does that its texts do not say

Each of the following has a run whose property quotes the text and whose trace shows the
disagreement (PROJECT.json, findings): a friendship whose only request says rejected
(accept racing reject); a private conversation returned as "existing" that is with somebody
else.

Observed while modelling, without a run of their own:

- accepting keeps the record of the request, with status 1 (friends.service.ts:81), although
  srs.md:355 says that it is deleted; nothing deletes a request, so `FriendsNotRejected` and
  `ImplementsGraph` can speak of the one a friendship rests on;
- after reject or deleteFriend the same direction of request is refused for ever
  (friends.service.ts:39, operator precedence);
- an accept that fails between UPDATE and INSERT cannot be retried (l. 81, 84; the SRS, l. 354,
  promises the friendship);
- the owner may leave a group that has other members (srs.md:601 says otherwise), and a private
  conversation may be left;
- a failed INSERT of members leaves a conversation nobody is in, and memberIds containing the
  creator make that INSERT fail (primary key);
- a member added between the last leaver's count and DELETE loses the conversation;
- two failed or simultaneous creations can put two couples into one private conversation
  (conversations.service.ts:60 reads the id back as the latest of its type);
- stored messages are deleted "after sending" although nobody was reachable, since the lookup of
  sockets is a stub (chat/services/offline-message.service.ts:132, 262);
- the guard puts the token's payload, with `sub`, into the request, and controllers read
  `user.id`; it does not ask about the account's state, so a barred account keeps what its
  tokens allow until they expire; logout changes a table nobody inserts into, and the tokens
  stay valid (the code has a TODO);
- updateUserSettings before the first getUserSettings changes no row and answers with nothing;
  two first getUserSettings at once: one of them fails on the primary key;
- a registration with a taken name or e-mail is answered with 401, not the documented 400, and one with
  a taken phone with the error of the database;
- a login under a username that is somebody else's phone may be refused (auth.service.ts:77 takes the
  first row that matches);
- the initial members of a group are announced into a room that is still empty (srs.md:541);
  the creator, and the members of a private conversation, are not announced at all;
  notifyMembersChanged has no caller;
- a callee who declines after accepting stays busy for ever (`OnlyLateDeclineStrands`);
- a user who reconnects is in no room of the conversations that userConversations still records
  (chat.gateway.ts);
- a comment deleted twice is counted down twice (moments.service.ts:268, 280);
- two messages in one second: the second send may announce the first message again and
  its own never (messages.service.ts:54); a text whose conversation was deleted meanwhile is
  announced without content; no caller in the repository asks for the broadcast, and
  messages sent through the gateway are not stored;
- getUnreadCount counts the user's own messages (messages.service.ts:231), the list of conversations
  does not (conversations.service.ts:134), and the offline count adds the Redis list to
  rows that may be the same messages (offline-message.service.ts:249);
- markAllAsRead deletes the key notifications:<user>, which nobody writes
  (notification.service.ts:354), and deleteNotification notification:undefined:<id> (l. 255): the
  copies stay for 30 days;
- offline messages of one second are delivered in the reverse of the order of storing, LPUSH with a
  stable sort (offline-message.service.ts:65);
- a user may be in two accepted calls at once (webrtc.service.ts:75 does not look at ringing calls,
  l. 150 overwrites the entry), and the end of an accepted call is never announced, because
  line 259 tests the status that line 228 has overwritten.

## 7. Not modelled

- **Uploads**: an object is put into MinIO and then a row inserted; nothing undoes the first when
  the second fails, and deleteFile removes the object and keeps the row. Two steps without a
  recovery, over a table no other component reads: there is no property between "both were
  done" and the observation above.
- **Search**, lists, feeds and getters: read-only.
- **The HTTP surface** (controllers, DTOs, guards, filters) and the **database wrapper**: stateless
  wiring; what the wrapper promises is section 2.
- `saveCallRecord` and `notifyMembersChanged` (no caller), the parts of messages.service.ts and
  media-message.service.ts that only format, the column updated_at, the columns of a profile.
- Contents, formats, the arithmetic of hashes and signatures, and media are outside what these
  properties are about.

## 8. Plan

Done: the ten components with state, each with its proofs, and the two refinements (SocialGraph
by Friends, MembershipTable by Conversations, the latter used by Messages).

Left, in order of importance:

1. An abstract specification of OfflineMessages, a mailbox that delivers at least once but for the
   losses `NothingIsLost` names, and the refinement; composed with Gateway's presence to
   replace `Reachable`.
2. Composition of Gateway and Calls: a disconnect during a call, which no method of
   WebRTCService hears of.

A run answers one question, and there is one concurrent run per component.
