--------------------------- MODULE OfflineMessages ---------------------------
(***************************************************************************)
(* OfflineMessageService                                                   *)
(* (src/src/modules/chat/services/offline-message.service.ts): per user, a *)
(* Redis list of the messages that arrived while the user was away.        *)
(*                                                                         *)
(* A handler is a sequence of Redis commands that interleave with those of *)
(* others.  A command may fail before Redis executes it (Fail), and the    *)
(* answer to one that was executed may be lost; every error is swallowed.  *)
(* The process may crash, while Redis keeps its lists.                     *)
(***************************************************************************)
EXTENDS Naturals, Sequences, FiniteSets

CONSTANTS
  Users, Messages, Conversations, Slots,
  conversationOf, createdAt,  \* of a message; the second in which it was created
  Reachable,     \* users with a socket id (nobody in the shipped stub, line 262)
  MaxDelivered,  \* bound on how often a message is delivered before a send is begun
  NoUser, NoMessage

ASSUME OfflineAssumption ==
  /\ conversationOf \in [Messages -> Conversations]
  /\ createdAt \in [Messages -> Nat]
  /\ Reachable \subseteq Users
  /\ NoUser \notin Users /\ NoMessage \notin Messages

VARIABLES
  list,       \* Redis: offline:message:<user>, the latest pushed message first
  expiring,   \* Redis: users whose list has a time to live
  delivered,  \* how often each message has been emitted to each user
  call,       \* the handler in each slot
  stored,     \* history: messages that have been in a user's list
  late,       \* history: those pushed between the LRANGE and the DEL of a send
  removed,    \* history: those that a clear or the time to live took away
  bare,       \* history: users for whose list an EXPIRE is missing
  shaky       \* history: users whose sends overlapped or left their list behind

vars == <<list, expiring, delivered, call, stored, late, removed, bare, shaky>>

Steps == {"store_push", "store_expire", "send_range", "send_emit", "send_clear", "clear", "refresh"}

Pairs == Users \X Messages

Idle == [at |-> "idle", me |-> NoUser, message |-> NoMessage, got |-> <<>>]

Handlers ==
  {h \in [at : Steps, me : Users, message : Messages \cup {NoMessage}, got : Seq(Messages)] :
     h.at = "store_push" => h.message \in Messages}

TypeOK ==
  /\ list \in [Users -> Seq(Messages)]
  /\ expiring \subseteq Users
  /\ delivered \in [Pairs -> Nat]
  /\ call \in [Slots -> {Idle} \cup Handlers]
  /\ stored \subseteq Pairs /\ late \subseteq Pairs /\ removed \subseteq Pairs
  /\ bare \subseteq Users /\ shaky \subseteq Users

Init ==
  /\ list = [u \in Users |-> <<>>]
  /\ expiring = {}
  /\ delivered = [p \in Pairs |-> 0]
  /\ call = [s \in Slots |-> Idle]
  /\ stored = {} /\ late = {} /\ removed = {}
  /\ bare = {} /\ shaky = {}

Elements(q) == {q[i] : i \in DOMAIN q}

Listed(u) == {u} \X Elements(list[u])

At(s, step) == call[s].at = step

\* A send of u that has read the list and not yet deleted it.
Sending(s, u) == call[s].me = u /\ call[s].at \in {"send_emit", "send_clear"}

Begin(s, handler) ==
  /\ call[s] = Idle
  /\ call' = [call EXCEPT ![s] = handler]
  /\ UNCHANGED <<list, expiring, delivered, stored, late, removed, bare, shaky>>

Await(s, step) == call' = [call EXCEPT ![s].at = step]

End(s) == call' = [call EXCEPT ![s] = Idle]

------------------------------------------------------------------------------
(* Redis commands.                                                         *)

\* LPUSH: a list that exists keeps its time to live, a new one has none.
Push(u, m) ==
  /\ list' = [list EXCEPT ![u] = <<m>> \o @]
  /\ UNCHANGED expiring

\* EXPIRE of a key that is not there does nothing.
Expire(u) ==
  /\ expiring' = IF list[u] = <<>> THEN expiring ELSE expiring \cup {u}
  /\ bare' = bare \ {u}
  /\ UNCHANGED list

Del(u) ==
  /\ list' = [list EXCEPT ![u] = <<>>]
  /\ expiring' = expiring \ {u}
  /\ bare' = bare \ {u}

------------------------------------------------------------------------------
(* storeOfflineMessage                                                     *)

\* Bound: each message is stored once for a user.
storeOfflineMessage(s, u, m) ==
  /\ <<u, m>> \notin stored
  /\ \A q \in Slots : ~(call[q].me = u /\ call[q].message = m)
  /\ Begin(s, [Idle EXCEPT !.at = "store_push", !.me = u, !.message = m])

\* Mutant: the EXPIRE is left out.
StorePushOnly(s) ==
  LET u == call[s].me  m == call[s].message IN
  /\ At(s, "store_push")
  /\ Push(u, m)
  /\ stored' = stored \cup {<<u, m>>}
  /\ late' = IF \E q \in Slots : Sending(q, u) THEN late \cup {<<u, m>>} ELSE late
  /\ End(s)
  /\ UNCHANGED <<delivered, removed, bare, shaky>>

\* When the answer is lost, the message is in the list and EXPIRE is not reached.
StorePush(s) ==
  LET u == call[s].me  m == call[s].message IN
  /\ At(s, "store_push")
  /\ Push(u, m)
  /\ stored' = stored \cup {<<u, m>>}
  /\ late' = IF \E q \in Slots : Sending(q, u) THEN late \cup {<<u, m>>} ELSE late
  /\ \/ Await(s, "store_expire") /\ UNCHANGED bare
     \/ End(s) /\ bare' = bare \cup {u}
  /\ UNCHANGED <<delivered, removed, shaky>>

StoreExpire(s) ==
  /\ At(s, "store_expire")
  /\ Expire(call[s].me)
  /\ End(s)
  /\ UNCHANGED <<delivered, stored, late, removed, shaky>>

------------------------------------------------------------------------------
(* getOfflineMessages and groupMessagesByConversation                      *)

\* The order of a stable sort by creation.
Before(q, i, j) ==
  createdAt[q[i]] < createdAt[q[j]] \/ (createdAt[q[i]] = createdAt[q[j]] /\ i < j)

\* Mutant: the list in the order Redis returns it.
InListOrder(q) == {q}

\* What sorting a list may return (one order, as the sort is stable).
Sorted(q) ==
  LET order == {f \in [DOMAIN q -> DOMAIN q] :
        /\ \A i \in DOMAIN q : \E j \in DOMAIN q : f[j] = i
        /\ \A i, j \in DOMAIN q : i < j => Before(q, f[i], f[j])} IN
  {[i \in DOMAIN q |-> q[f[i]]] : f \in order}

\* The positions in q of the messages that are emitted together for conversation c.
Batch(q, c) == {i \in DOMAIN q : conversationOf[q[i]] = c}

------------------------------------------------------------------------------
(* sendOfflineMessages                                                     *)

sendOfflineMessages(s, u) ==
  /\ \A m \in Messages : delivered[<<u, m>>] < MaxDelivered  \* bound
  /\ Begin(s, [Idle EXCEPT !.at = "send_range", !.me = u])

Hold(s, got) == call' = [call EXCEPT ![s].at = "send_emit", ![s].got = got]

\* Mutant: the list is deleted before the messages are emitted.
SendRangeAndClear(s) ==
  LET u == call[s].me IN
  /\ At(s, "send_range")
  /\ \/ list[u] = <<>> /\ End(s)
     \/ \E got \in Sorted(list[u]) : got # <<>> /\ Hold(s, got)
  /\ Del(u)
  /\ UNCHANGED <<delivered, stored, late, removed, shaky>>

SendRange(s) ==
  LET u == call[s].me IN
  /\ At(s, "send_range")
  /\ \/ list[u] = <<>> /\ End(s) /\ UNCHANGED shaky
     \/ /\ \E got \in Sorted(list[u]) : got # <<>> /\ Hold(s, got)
        /\ shaky' = IF \E q \in Slots : Sending(q, u) THEN shaky \cup {u} ELSE shaky
  /\ UNCHANGED <<list, expiring, delivered, stored, late, removed, bare>>

\* One emission for each conversation, to the socket of the user if one is found.
SendEmit(s) ==
  LET u == call[s].me  q == call[s].got
      sent == {<<u, q[i]>> : i \in UNION {Batch(q, c) : c \in Conversations}} IN
  /\ At(s, "send_emit")
  /\ delivered' = [p \in Pairs |->
       IF u \in Reachable /\ p \in sent THEN delivered[p] + 1 ELSE delivered[p]]
  /\ Await(s, "send_clear")
  /\ UNCHANGED <<list, expiring, stored, late, removed, bare, shaky>>

\* Mutant: the DEL is left out.
SendKeepsList(s) ==
  /\ At(s, "send_clear")
  /\ End(s)
  /\ UNCHANGED <<list, expiring, delivered, stored, late, removed, bare, shaky>>

\* Deletes whatever is in the list by now, sent or not.
SendClear(s) ==
  /\ At(s, "send_clear")
  /\ Del(call[s].me)
  /\ End(s)
  /\ UNCHANGED <<delivered, stored, late, removed, shaky>>

------------------------------------------------------------------------------
(* clearOfflineMessages and refreshOfflineMessagesTTL                      *)

clearOfflineMessages(s, u) == Begin(s, [Idle EXCEPT !.at = "clear", !.me = u])

Clear(s) ==
  /\ At(s, "clear")
  /\ removed' = removed \cup Listed(call[s].me)
  /\ Del(call[s].me)
  /\ End(s)
  /\ UNCHANGED <<delivered, stored, late, shaky>>

refreshOfflineMessagesTTL(s, u) == Begin(s, [Idle EXCEPT !.at = "refresh", !.me = u])

Refresh(s) ==
  /\ At(s, "refresh")
  /\ Expire(call[s].me)
  /\ End(s)
  /\ UNCHANGED <<delivered, stored, late, removed, shaky>>

------------------------------------------------------------------------------
(* Failures and time.                                                      *)

Owes(s, u) == call[s].me = u /\ call[s].at = "store_expire"

\* A send that has emitted and not deleted leaves its messages to be sent again.
Leaves(s, u) == call[s].me = u /\ call[s].at = "send_clear"

\* A command is not executed; the handler logs the error and ends.
Fail(s) ==
  /\ call[s].at \in Steps \ {"send_emit"}
  /\ End(s)
  /\ bare' = bare \cup {u \in Users : Owes(s, u)}
  /\ shaky' = shaky \cup {u \in Users : Leaves(s, u)}
  /\ UNCHANGED <<list, expiring, delivered, stored, late, removed>>

\* The process stops and starts again.
Crash ==
  /\ call' = [s \in Slots |-> Idle]
  /\ bare' = bare \cup {u \in Users : \E s \in Slots : Owes(s, u)}
  /\ shaky' = shaky \cup {u \in Users : \E s \in Slots : Leaves(s, u)}
  /\ UNCHANGED <<list, expiring, delivered, stored, late, removed>>

\* The seven days of a list are over.
TimeToLiveEnds(u) ==
  /\ u \in expiring
  /\ removed' = removed \cup Listed(u)
  /\ Del(u)
  /\ UNCHANGED <<delivered, call, stored, late, shaky>>

------------------------------------------------------------------------------

Request(s) == \E u \in Users :
  \/ \E m \in Messages : storeOfflineMessage(s, u, m)
  \/ sendOfflineMessages(s, u)
  \/ clearOfflineMessages(s, u)
  \/ refreshOfflineMessagesTTL(s, u)

Command(s) ==
  \/ StorePush(s) \/ StoreExpire(s)
  \/ SendRange(s) \/ SendEmit(s) \/ SendClear(s)
  \/ Clear(s) \/ Refresh(s)

Next ==
  \/ \E s \in Slots : Request(s) \/ Command(s) \/ Fail(s)
  \/ Crash
  \/ \E u \in Users : TimeToLiveEnds(u)

Spec == Init /\ [][Next]_vars

------------------------------------------------------------------------------
(* Properties that hold.                                                   *)

Kept(p) == p[2] \in Elements(list[p[1]]) \/ delivered[p] > 0 \/ p \in late \cup removed

\* What is stored for a user with a socket stays in the list or has been delivered,
\* whatever fails and however sends overlap, unless it was cleared, expired, or
\* pushed while a send was between its LRANGE and its DEL.
NothingIsLost == \A p \in stored : p[1] \in Reachable => Kept(p)

\* A message is delivered once, as long as no send of its user reads the list before
\* another has deleted it and none ends without deleting it.
DeliveredOnce == \A p \in Pairs : delivered[p] > 1 => p[1] \in shaky

\* A list without a time to live has a store about to set it, or an EXPIRE went missing.
ListsExpire ==
  \A u \in Users : (list[u] # <<>> /\ u \notin expiring) =>
    u \in bare \/ \E s \in Slots : Owes(s, u)

\* A batch is in the order of creation, whatever the order of storing.
BatchesAreOrdered ==
  \A s \in Slots : At(s, "send_emit") =>
    LET q == call[s].got IN
    \A c \in Conversations : \A i, j \in Batch(q, c) : i < j => createdAt[q[i]] <= createdAt[q[j]]
==============================================================================
