---------------------------- MODULE Notifications ----------------------------
(***************************************************************************)
(* NotificationService                                                     *)
(* (src/src/modules/notifications/services/notification.service.ts): the   *)
(* table of notifications, the copies kept in Redis and the pushes.        *)
(*                                                                         *)
(* A handler is a sequence of statements to MySQL and commands to Redis    *)
(* that interleave with those of others.  createNotification swallows every*)
(* error, so a bulk creation goes on to the next user.  As elsewhere the   *)
(* inserted row is read back as the latest of its user, type and title.    *)
(* The kind of a notification is its type and title.  The table is the one *)
(* the statements name (with data, metadata and read_at).                  *)
(***************************************************************************)
EXTENDS Naturals, FiniteSets

CONSTANTS
  Users, Notes, Kinds, Slots,
  Reachable,   \* users with a socket id (nobody in the shipped stub, line 366)
  MaxSecond,   \* bound on the clock
  NoUser, NoNote, NoKind

ASSUME NotificationsAssumption ==
  /\ Reachable \subseteq Users
  /\ MaxSecond \in Nat
  /\ NoUser \notin Users /\ NoNote \notin Notes /\ NoKind \notin Kinds

VARIABLES
  note,        \* table notifications
  cache,       \* Redis: the copy under key notification:<user>:<id>
  now,         \* the second of the database's clock
  pushed,      \* how often each notification has been pushed
  call,        \* the handler in each slot
  swept,       \* history: notifications that markAllAsRead marked
  missed,      \* history: Redis failed, or a statement between a row and its copy did
  overlapped   \* history: two handlers have been in flight at the same time

vars == <<note, cache, now, pushed, call, swept, missed, overlapped>>

CreateSteps == {"create_insert", "create_read", "create_cache"}
MarkSteps   == {"mark_update", "mark_read", "mark_uncache"}
AllSteps    == {"all_update", "all_uncache"}
DeleteSteps == {"delete_row", "delete_uncache"}
Steps == CreateSteps \cup MarkSteps \cup AllSteps \cup DeleteSteps

Keys == Users \X Notes

Unused == [state |-> "unused", user |-> NoUser, kind |-> NoKind, born |-> 0]

Rows == [state : {"unread", "read", "deleted"}, user : Users, kind : Kinds, born : 0..MaxSecond]

Idle == [at |-> "idle", me |-> NoUser, note |-> NoNote, seen |-> "none", kind |-> NoKind, todo |-> {}]

Handlers == [at : Steps, me : Users \cup {NoUser}, note : Notes \cup {NoNote},
             seen : {"none", "unread", "read"}, kind : Kinds \cup {NoKind}, todo : SUBSET Users]

TypeOK ==
  /\ note \in [Notes -> {Unused} \cup Rows]
  /\ cache \in [Keys -> {"none", "unread", "read"}]
  /\ now \in 0..MaxSecond
  /\ pushed \in [Notes -> Nat]
  /\ call \in [Slots -> {Idle} \cup Handlers]
  /\ swept \subseteq Notes
  /\ missed \in BOOLEAN /\ overlapped \in BOOLEAN

Init ==
  /\ note = [n \in Notes |-> Unused]
  /\ cache = [k \in Keys |-> "none"]
  /\ now = 0
  /\ pushed = [n \in Notes |-> 0]
  /\ call = [s \in Slots |-> Idle]
  /\ swept = {}
  /\ missed = FALSE /\ overlapped = FALSE

Present(n) == note[n].state \in {"unread", "read"}

------------------------------------------------------------------------------
(* The control of a handler.                                               *)

At(s, step) == call[s].at = step

Begin(s, handler) ==
  /\ call[s] = Idle
  /\ call' = [call EXCEPT ![s] = handler]
  /\ overlapped' = (overlapped \/ \E q \in Slots \ {s} : call[q] # Idle)
  /\ UNCHANGED <<note, cache, now, pushed, swept, missed>>

Await(s, step) == call' = [call EXCEPT ![s].at = step]

End(s) == call' = [call EXCEPT ![s] = Idle]

\* A creation for u; the others come after it, in any order, and nobody comes twice.
Creating(u, others, k) ==
  [Idle EXCEPT !.at = "create_insert", !.me = u, !.kind = k, !.todo = others]

\* A creation is over, done or not: the next user of a bulk, or the end.
NextUser(s) ==
  LET users == call[s].todo IN
  \/ users = {} /\ End(s)
  \/ \E u \in users : call' = [call EXCEPT ![s] = Creating(u, users \ {u}, call[s].kind)]

\* A statement is rejected: createNotification swallows it, so that its user gets no
\* notification, or an unpushed one, and a bulk goes on; the other handlers end.
Fail(s) ==
  /\ call[s].at \in Steps \ {"create_cache", "mark_uncache", "all_uncache", "delete_uncache"}
  /\ \/ call[s].at \in CreateSteps /\ NextUser(s)
     \/ call[s].at \notin CreateSteps /\ End(s)
  /\ missed' = (missed \/ At(s, "mark_read"))
  /\ UNCHANGED <<note, cache, now, pushed, swept, overlapped>>

------------------------------------------------------------------------------
(* Redis.                                                                  *)

cacheNotification(key, state) == cache' = [cache EXCEPT ![key] = state]

\* DEL of a key that is not there changes nothing.
Del(key) == cache' = [k \in Keys |-> IF k = key THEN "none" ELSE cache[k]]

\* A copy has a time to live: 30 days, from whenever it was made.
Expire(k) ==
  /\ cache[k] # "none"
  /\ cache' = [cache EXCEPT ![k] = "none"]
  /\ UNCHANGED <<note, now, pushed, call, swept, missed, overlapped>>

------------------------------------------------------------------------------
(* createNotification and createBulkNotifications                          *)

\* Bound: a creation is begun only when ids are left for all of its users.
NotesLeft(us) ==
  Cardinality({n \in Notes : note[n].state = "unused"}) >=
    Cardinality(us) + Cardinality({q \in Slots : call[q].at = "create_insert"}) +
    Cardinality({q \in Slots \X Users : q[2] \in call[q[1]].todo})

createBulkNotifications(s, us, k) ==
  /\ NotesLeft(us)
  /\ \E u \in us : Begin(s, Creating(u, us \ {u}, k))

createNotification(s, u, k) == createBulkNotifications(s, {u}, k)

\* notifyFriendRequest to notifySystem: each has a type, and a title that it or its caller chooses.
notify(s, u, k) == createNotification(s, u, k)

CreateInsert(s) ==
  /\ At(s, "create_insert")
  /\ \E n \in Notes :
       /\ note[n].state = "unused"
       /\ note' = [note EXCEPT ![n] =
            [state |-> "unread", user |-> call[s].me, kind |-> call[s].kind, born |-> now]]
  /\ Await(s, "create_read")
  /\ UNCHANGED <<cache, now, pushed, swept, missed, overlapped>>

\* Mutant: ORDER BY created_at without DESC.
Oldest(u, k) ==
  LET like == {n \in Notes : Present(n) /\ note[n].user = u /\ note[n].kind = k} IN
  {n \in like : \A m \in like : note[n].born <= note[m].born}

\* The rows that ORDER BY created_at DESC LIMIT 1 may return.
Latest(u, k) ==
  LET like == {n \in Notes : Present(n) /\ note[n].user = u /\ note[n].kind = k} IN
  {n \in like : \A m \in like : note[n].born >= note[m].born}

\* When no row comes back, reading its id fails, twice, and is swallowed twice.
CreateRead(s) ==
  LET rows == Latest(call[s].me, call[s].kind) IN
  /\ At(s, "create_read")
  /\ \/ \E n \in rows :
          call' = [call EXCEPT ![s].at = "create_cache", ![s].note = n, ![s].seen = note[n].state]
     \/ rows = {} /\ NextUser(s)
  /\ UNCHANGED <<note, cache, now, pushed, swept, missed, overlapped>>

pushNotificationToUser(u, n) ==
  pushed' = IF u \in Reachable THEN [pushed EXCEPT ![n] = @ + 1] ELSE pushed

\* Mutant: the copy says that it has been read.
CreateCacheAsRead(s) ==
  /\ At(s, "create_cache")
  /\ cacheNotification(<<call[s].me, call[s].note>>, "read")
  /\ pushNotificationToUser(call[s].me, call[s].note)
  /\ NextUser(s)
  /\ UNCHANGED <<note, now, swept, missed, overlapped>>

\* What was read back is cached as it was then, and pushed even if Redis fails.
CreateCache(s) ==
  /\ At(s, "create_cache")
  /\ \/ cacheNotification(<<call[s].me, call[s].note>>, call[s].seen) /\ UNCHANGED missed
     \/ missed' = TRUE /\ UNCHANGED cache
  /\ pushNotificationToUser(call[s].me, call[s].note)
  /\ NextUser(s)
  /\ UNCHANGED <<note, now, swept, overlapped>>

------------------------------------------------------------------------------
(* markAsRead, markAllAsRead, deleteNotification                           *)

\* A key is deleted, or Redis fails and the error is swallowed; the handler ends.
Uncache(s, key) ==
  /\ \/ Del(key) /\ UNCHANGED missed
     \/ missed' = TRUE /\ UNCHANGED cache
  /\ End(s)
  /\ UNCHANGED <<note, now, pushed, swept, overlapped>>

markAsRead(s, u, n) == Begin(s, [Idle EXCEPT !.at = "mark_update", !.me = u, !.note = n])

MarkUpdate(s) ==
  LET n == call[s].note IN
  /\ At(s, "mark_update")
  /\ note' = IF Present(n) /\ note[n].user = call[s].me
             THEN [note EXCEPT ![n].state = "read"] ELSE note
  /\ Await(s, "mark_read")
  /\ UNCHANGED <<cache, now, pushed, swept, missed, overlapped>>

MarkRead(s) ==
  LET n == call[s].note
      found == Present(n) /\ note[n].user = call[s].me IN
  /\ At(s, "mark_read")
  /\ \/ found /\ Await(s, "mark_uncache")
     \/ ~found /\ End(s)
  /\ UNCHANGED <<note, cache, now, pushed, swept, missed, overlapped>>

\* Mutant: the key is the one markAllAsRead clears.
MarkUncacheWrongKey(s) ==
  /\ At(s, "mark_uncache")
  /\ Uncache(s, <<call[s].me>>)

MarkUncache(s) ==
  /\ At(s, "mark_uncache")
  /\ Uncache(s, <<call[s].me, call[s].note>>)

markAllAsRead(s, u) == Begin(s, [Idle EXCEPT !.at = "all_update", !.me = u])

AllUpdate(s) ==
  LET unread == {n \in Notes : note[n].state = "unread" /\ note[n].user = call[s].me} IN
  /\ At(s, "all_update")
  /\ note' = [n \in Notes |-> IF n \in unread THEN [note[n] EXCEPT !.state = "read"] ELSE note[n]]
  /\ swept' = swept \cup unread
  /\ Await(s, "all_uncache")
  /\ UNCHANGED <<cache, now, pushed, missed, overlapped>>

\* clearUserNotificationCache deletes notifications:<user>, a key nobody writes.
AllUncache(s) ==
  /\ At(s, "all_uncache")
  /\ Uncache(s, <<call[s].me>>)

deleteNotification(s, u, n) == Begin(s, [Idle EXCEPT !.at = "delete_row", !.me = u, !.note = n])

DeleteRow(s) ==
  LET n == call[s].note
      found == Present(n) /\ note[n].user = call[s].me IN
  /\ At(s, "delete_row")
  /\ \/ found /\ note' = [note EXCEPT ![n].state = "deleted"] /\ Await(s, "delete_uncache")
     \/ ~found /\ End(s) /\ UNCHANGED note
  /\ UNCHANGED <<cache, now, pushed, swept, missed, overlapped>>

\* The object passed on has no user_id: the key is notification:undefined:<id>.
DeleteUncache(s) ==
  /\ At(s, "delete_uncache")
  /\ Uncache(s, <<NoUser, call[s].note>>)

------------------------------------------------------------------------------

Tick ==
  /\ now < MaxSecond  \* bound
  /\ now' = now + 1
  /\ UNCHANGED <<note, cache, pushed, call, swept, missed, overlapped>>

\* Bound: requests name ids that have been given.
Given == {n \in Notes : note[n].state # "unused"}

Request(s) ==
  \/ \E k \in Kinds :
       \/ \E u \in Users : notify(s, u, k)
       \/ \E us \in SUBSET Users : Cardinality(us) > 1 /\ createBulkNotifications(s, us, k)
  \/ \E u \in Users :
       \/ markAllAsRead(s, u)
       \/ \E n \in Given : markAsRead(s, u, n) \/ deleteNotification(s, u, n)

Statement(s) ==
  \/ CreateInsert(s) \/ CreateRead(s) \/ CreateCache(s)
  \/ MarkUpdate(s) \/ MarkRead(s) \/ MarkUncache(s)
  \/ AllUpdate(s) \/ AllUncache(s)
  \/ DeleteRow(s) \/ DeleteUncache(s)

Next ==
  \/ Tick
  \/ \E k \in Keys : Expire(k)
  \/ \E s \in Slots : Request(s) \/ Statement(s) \/ Fail(s)

Spec == Init /\ [][Next]_vars

------------------------------------------------------------------------------
(* Properties that hold.                                                   *)

Stale(k) == cache[k] \notin {"none", note[k[2]].state}

\* A copy never says read of a notification that is still unread, whatever the
\* order of reading a row back, marking it and caching it.
CopyNeverHidesUnread ==
  \A k \in Keys : cache[k] = "read" => note[k[2]].state # "unread"

\* While requests do not overlap and nothing fails between a row and its copy, a copy
\* goes out of date only through markAllAsRead and deleteNotification, or until the
\* markAsRead in flight deletes it: creating and marking keep up, even when a creation
\* reads back and caches an older row of the same second.
BeingMarked(n) == \E s \in Slots : call[s].note = n /\ call[s].at \in {"mark_read", "mark_uncache"}

CopyIsCurrent ==
  overlapped \/ missed \/
  \A k \in Keys : Stale(k) =>
    k[2] \in swept \/ note[k[2]].state = "deleted" \/ BeingMarked(k[2])

Alone(n) ==
  \A m \in Notes \ {n} :
    (note[m].user = note[n].user /\ note[m].kind = note[n].kind) => note[m].born # note[n].born

\* While requests do not overlap, a notification that is the only one of its kind in
\* its second is pushed once at most, however many of its kind surround it.
AloneIsPushedOnce ==
  overlapped \/ \A n \in Notes : Alone(n) => pushed[n] <= 1
==============================================================================
