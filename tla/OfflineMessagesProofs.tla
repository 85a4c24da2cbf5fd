------------------------ MODULE OfflineMessagesProofs ------------------------
(***************************************************************************)
(* Proofs about OfflineMessages, for any users, messages and slots.        *)
(***************************************************************************)
EXTENDS OfflineMessages, TLAPS

------------------------------------------------------------------------------
(* Types.                                                                  *)

\* What a handler in flight is: a record whose fields have their types.
LEMMA InFlight ==
  ASSUME TypeOK, NEW s \in Slots, call[s].at \in Steps
  PROVE  call[s] \in Handlers /\ call[s].me \in Users
BY DEF TypeOK, Steps, Idle, Handlers

LEMMA EndTypes ==
  ASSUME TypeOK, NEW s \in Slots, End(s)
  PROVE  call' \in [Slots -> {Idle} \cup Handlers]
BY DEF TypeOK, End

LEMMA AwaitTypes ==
  ASSUME TypeOK, NEW s \in Slots, call[s].at \in Steps, NEW st \in Steps \ {"store_push"}, Await(s, st)
  PROVE  call' \in [Slots -> {Idle} \cup Handlers]
<1>1. call[s] \in Handlers
  BY InFlight
<1>2. [call[s] EXCEPT !.at = st] \in Handlers
  BY <1>1 DEF Handlers
<1>3. call' = [call EXCEPT ![s] = [call[s] EXCEPT !.at = st]]
  BY DEF Await
<1> QED BY <1>2, <1>3 DEF TypeOK

LEMMA BeginTypes ==
  ASSUME TypeOK, NEW s \in Slots, NEW h \in Handlers, Begin(s, h)
  PROVE  TypeOK'
BY DEF TypeOK, Begin

LEMMA PushTypes ==
  ASSUME TypeOK, NEW u \in Users, NEW x \in Messages, Push(u, x)
  PROVE  list' \in [Users -> Seq(Messages)] /\ expiring' \subseteq Users
<1>1. <<x>> \o list[u] \in Seq(Messages)
  BY DEF TypeOK
<1> QED BY <1>1 DEF TypeOK, Push

LEMMA DelTypes ==
  ASSUME TypeOK, NEW u \in Users, Del(u)
  PROVE  list' \in [Users -> Seq(Messages)] /\ expiring' \subseteq Users /\ bare' \subseteq Users
<1>1. <<>> \in Seq(Messages)
  OBVIOUS
<1> QED BY <1>1 DEF TypeOK, Del

LEMMA ExpireTypes ==
  ASSUME TypeOK, NEW u \in Users, Expire(u)
  PROVE  list' \in [Users -> Seq(Messages)] /\ expiring' \subseteq Users /\ bare' \subseteq Users
BY DEF TypeOK, Expire

\* Sorting returns the same messages, in the order of their creation.
LEMMA SortFacts ==
  ASSUME NEW q \in Seq(Messages), NEW r \in Sorted(q)
  PROVE  /\ r \in Seq(Messages)
         /\ Elements(r) = Elements(q)
         /\ \A i, j \in DOMAIN r : i < j => createdAt[r[i]] <= createdAt[r[j]]
<1>1. PICK f \in [DOMAIN q -> DOMAIN q] :
        /\ \A i \in DOMAIN q : \E j \in DOMAIN q : f[j] = i
        /\ \A i, j \in DOMAIN q : i < j => Before(q, f[i], f[j])
        /\ r = [i \in DOMAIN q |-> q[f[i]]]
  BY DEF Sorted
<1>2. DOMAIN q = 1..Len(q) /\ Len(q) \in Nat /\ \A i \in DOMAIN q : q[i] \in Messages
  OBVIOUS
<1>3. DOMAIN r = DOMAIN q /\ \A i \in DOMAIN r : r[i] = q[f[i]] /\ f[i] \in DOMAIN q
  BY <1>1
<1>4. r \in Seq(Messages)
  <2>1. r \in [1..Len(q) -> Messages]
    BY <1>1, <1>2
  <2> QED BY <2>1, <1>2
<1>5. Elements(r) = Elements(q)
  <2>1. ASSUME NEW m \in Elements(r) PROVE m \in Elements(q)
    BY <1>3 DEF Elements
  <2>2. ASSUME NEW m \in Elements(q) PROVE m \in Elements(r)
    <3>1. PICK i \in DOMAIN q : m = q[i]
      BY DEF Elements
    <3>2. PICK j \in DOMAIN q : f[j] = i
      BY <1>1
    <3> QED BY <3>1, <3>2, <1>3 DEF Elements
  <2> QED BY <2>1, <2>2
<1>6. ASSUME NEW i \in DOMAIN r, NEW j \in DOMAIN r, i < j
      PROVE  createdAt[r[i]] <= createdAt[r[j]]
  <2>1. Before(q, f[i], f[j])
    BY <1>1, <1>3, <1>6
  <2>2. createdAt[q[f[i]]] \in Nat /\ createdAt[q[f[j]]] \in Nat
    BY <1>2, <1>3, OfflineAssumption
  <2> QED BY <2>1, <2>2, <1>3 DEF Before
<1> QED BY <1>4, <1>5, <1>6

LEMMA InitTypes == Init => TypeOK
<1>1. <<>> \in Seq(Messages)
  OBVIOUS
<1> QED BY <1>1 DEF Init, TypeOK

LEMMA RequestTypes ==
  ASSUME TypeOK, NEW s \in Slots, Request(s)
  PROVE  TypeOK'
<1>1. <<>> \in Seq(Messages)
  OBVIOUS
<1>2. ASSUME NEW u \in Users, NEW m \in Messages, storeOfflineMessage(s, u, m)
      PROVE  TypeOK'
  <2>1. [Idle EXCEPT !.at = "store_push", !.me = u, !.message = m] \in Handlers
    BY <1>1 DEF Idle, Handlers, Steps
  <2> QED BY <1>2, <2>1, BeginTypes DEF storeOfflineMessage
<1>3. ASSUME NEW u \in Users, NEW st \in Steps \ {"store_push"}, Begin(s, [Idle EXCEPT !.at = st, !.me = u])
      PROVE  TypeOK'
  <2>1. [Idle EXCEPT !.at = st, !.me = u] \in Handlers
    BY <1>1 DEF Idle, Handlers
  <2> QED BY <1>3, <2>1, BeginTypes
<1>4. {"send_range", "clear", "refresh"} \subseteq Steps \ {"store_push"}
  BY DEF Steps
<1> QED
  BY <1>2, <1>3, <1>4 DEF Request, sendOfflineMessages, clearOfflineMessages, refreshOfflineMessagesTTL

LEMMA CommandTypes ==
  ASSUME TypeOK, NEW s \in Slots, Command(s)
  PROVE  TypeOK'
<1> DEFINE u == call[s].me
<1>1. call[s].at \in Steps /\ call[s] \in Handlers /\ u \in Users
  <2>1. call[s].at \in Steps
    BY DEF Command, StorePush, StoreExpire, SendRange, SendEmit, SendClear, Clear, Refresh, At, Steps
  <2> QED BY <2>1, InFlight
<1>2. End(s) => call' \in [Slots -> {Idle} \cup Handlers]
  BY EndTypes
<1>3. Listed(u) \subseteq Pairs
  BY <1>1 DEF Listed, Elements, Pairs, TypeOK
<1>4. CASE StorePush(s)
  <2>1. call[s].message \in Messages
    BY <1>1, <1>4 DEF StorePush, At, Handlers
  <2>2. list' \in [Users -> Seq(Messages)] /\ expiring' \subseteq Users
    BY <1>1, <1>4, <2>1, PushTypes DEF StorePush
  <2>3. call' \in [Slots -> {Idle} \cup Handlers]
    <3>1. "store_expire" \in Steps \ {"store_push"}
      BY DEF Steps
    <3> QED BY <1>1, <1>2, <1>4, <3>1, AwaitTypes DEF StorePush
  <2>4. stored' \subseteq Pairs /\ late' \subseteq Pairs
    BY <1>1, <1>4, <2>1 DEF StorePush, TypeOK, Pairs
  <2>5. bare' \subseteq Users
    BY <1>1, <1>4 DEF StorePush, TypeOK
  <2> QED BY <1>4, <2>2, <2>3, <2>4, <2>5 DEF StorePush, TypeOK
<1>5. CASE StoreExpire(s)
  BY <1>1, <1>2, <1>5, ExpireTypes DEF StoreExpire, TypeOK
<1>6. CASE SendRange(s)
  <2>1. ASSUME NEW got \in Sorted(list[u]), Hold(s, got)
        PROVE  call' \in [Slots -> {Idle} \cup Handlers]
    <3>1. got \in Seq(Messages)
      BY <1>1, SortFacts DEF TypeOK
    <3>2. [call[s] EXCEPT !.at = "send_emit", !.got = got] \in Handlers
      BY <1>1, <3>1 DEF Handlers, Steps
    <3> QED BY <2>1, <3>2 DEF Hold, TypeOK
  <2> QED BY <1>1, <1>2, <1>6, <2>1 DEF SendRange, TypeOK
<1>7. CASE SendEmit(s)
  <2>1. delivered' \in [Pairs -> Nat]
    BY <1>7 DEF SendEmit, TypeOK
  <2>2. call' \in [Slots -> {Idle} \cup Handlers]
    BY <1>1, <1>7, AwaitTypes DEF SendEmit, Steps
  <2> QED BY <1>7, <2>1, <2>2 DEF SendEmit, TypeOK
<1>8. CASE SendClear(s)
  BY <1>1, <1>2, <1>8, DelTypes DEF SendClear, TypeOK
<1>9. CASE Clear(s)
  BY <1>1, <1>2, <1>3, <1>9, DelTypes DEF Clear, TypeOK
<1>10. CASE Refresh(s)
  BY <1>1, <1>2, <1>10, ExpireTypes DEF Refresh, TypeOK
<1> QED BY <1>4, <1>5, <1>6, <1>7, <1>8, <1>9, <1>10 DEF Command

LEMMA FailureTypes ==
  ASSUME TypeOK, (\E s \in Slots : Fail(s)) \/ Crash \/ (\E u \in Users : TimeToLiveEnds(u))
  PROVE  TypeOK'
<1>1. ASSUME NEW s \in Slots, Fail(s) PROVE TypeOK'
  BY <1>1, EndTypes DEF Fail, TypeOK
<1>2. CASE Crash
  BY <1>2 DEF Crash, TypeOK
<1>3. ASSUME NEW u \in Users, TimeToLiveEnds(u) PROVE TypeOK'
  <2>1. Listed(u) \subseteq Pairs
    BY DEF Listed, Elements, Pairs, TypeOK
  <2> QED BY <1>3, <2>1, DelTypes DEF TimeToLiveEnds, TypeOK
<1> QED BY <1>1, <1>2, <1>3

LEMMA StepTypes == TypeOK /\ [Next]_vars => TypeOK'
<1> SUFFICES ASSUME TypeOK, [Next]_vars PROVE TypeOK'
  OBVIOUS
<1>1. CASE Next
  BY <1>1, RequestTypes, CommandTypes, FailureTypes DEF Next
<1>2. CASE UNCHANGED vars
  BY <1>2 DEF vars, TypeOK
<1> QED BY <1>1, <1>2

\* The types of the Redis lists and of the handlers, for any users, messages and slots.
THEOREM TypeCorrect == Spec => []TypeOK
<1> QED BY InitTypes, StepTypes, PTL DEF Spec

------------------------------------------------------------------------------
(* Nothing is lost.  The strengthening says what a send that has read the  *)
(* list knows of it: whatever is in the list now it holds, or has emitted, *)
(* or was pushed after it had read.                                        *)

ListIsHeld ==
  \A s \in Slots, u \in Users : call[s].me = u =>
    \A m \in Elements(list[u]) :
      \/ <<u, m>> \in late
      \/ /\ At(s, "send_emit") => m \in Elements(call[s].got)
         /\ (At(s, "send_clear") /\ u \in Reachable) => delivered[<<u, m>>] > 0

LossInv == TypeOK /\ NothingIsLost /\ ListIsHeld

LEMMA PushElements ==
  ASSUME TypeOK, NEW u \in Users, NEW x \in Messages, Push(u, x)
  PROVE  /\ Elements(list'[u]) = Elements(list[u]) \cup {x}
         /\ \A v \in Users \ {u} : list'[v] = list[v]
<1>1. list[u] \in Seq(Messages)
  BY DEF TypeOK
<1>2. list'[u] = <<x>> \o list[u] /\ \A v \in Users \ {u} : list'[v] = list[v]
  BY DEF TypeOK, Push
<1>3. ASSUME NEW m \in Elements(list'[u]) PROVE m \in Elements(list[u]) \cup {x}
  <2>1. PICK i \in 1..(1 + Len(list[u])) : m = (<<x>> \o list[u])[i]
    BY <1>1, <1>2, <1>3 DEF Elements
  <2>2. CASE i = 1
    BY <1>1, <2>1, <2>2
  <2>3. CASE i # 1
    <3>1. i - 1 \in DOMAIN list[u] /\ m = list[u][i - 1]
      BY <1>1, <2>1, <2>3
    <3> QED BY <3>1 DEF Elements
  <2> QED BY <2>2, <2>3
<1>4. x \in Elements(list'[u])
  <2>1. 1 \in DOMAIN list'[u] /\ list'[u][1] = x
    BY <1>1, <1>2
  <2> QED BY <2>1 DEF Elements
<1>5. ASSUME NEW m \in Elements(list[u]) PROVE m \in Elements(list'[u])
  <2>1. PICK i \in 1..Len(list[u]) : m = list[u][i]
    BY <1>1 DEF Elements
  <2>2. (i + 1) \in DOMAIN list'[u] /\ list'[u][i + 1] = m
    BY <1>1, <1>2, <2>1
  <2> QED BY <2>2 DEF Elements
<1> QED BY <1>2, <1>3, <1>4, <1>5

LEMMA DelElements ==
  ASSUME TypeOK, NEW u \in Users, Del(u)
  PROVE  /\ Elements(list'[u]) = {}
         /\ \A v \in Users \ {u} : list'[v] = list[v]
<1>1. list'[u] = <<>> /\ \A v \in Users \ {u} : list'[v] = list[v]
  BY DEF TypeOK, Del
<1> QED BY <1>1 DEF Elements

\* Steps that add nothing to a list and begin no emission leave the strengthening alone.
LEMMA NothingIsAdded ==
  ASSUME TypeOK, ListIsHeld,
         \A u \in Users : Elements(list'[u]) \subseteq Elements(list[u]),
         late' = late, delivered' = delivered,
         \A s \in Slots : call'[s] = call[s] \/ call'[s].at \notin {"send_emit", "send_clear"}
  PROVE  ListIsHeld'
BY DEF ListIsHeld, At

\* Steps that add nothing to a list and give an account of what they take away.
LEMMA NothingIsTaken ==
  ASSUME TypeOK, NothingIsLost, stored' = stored, late' = late, delivered' = delivered,
         removed \subseteq removed',
         \A u \in Users : \A m \in Elements(list[u]) :
           \/ m \in Elements(list'[u])
           \/ <<u, m>> \in late \cup removed'
           \/ (u \in Reachable => delivered[<<u, m>>] > 0)
  PROVE  NothingIsLost'
<1> SUFFICES ASSUME NEW p \in stored, p[1] \in Reachable PROVE Kept(p)'
  BY DEF NothingIsLost
<1>1. Kept(p) /\ p = <<p[1], p[2]>> /\ p[1] \in Users
  BY DEF NothingIsLost, TypeOK, Pairs
<1> QED BY <1>1 DEF Kept

LEMMA RequestLoss ==
  ASSUME LossInv, NEW s \in Slots, Request(s)
  PROVE  NothingIsLost' /\ ListIsHeld'
<1>1. TypeOK /\ NothingIsLost /\ ListIsHeld
  BY DEF LossInv
<1>2. /\ UNCHANGED <<list, delivered, stored, late, removed>>
      /\ \A q \in Slots : call'[q] = call[q] \/ call'[q].at \notin {"send_emit", "send_clear"}
  <2>1. ASSUME NEW h, Begin(s, h), h.at \notin {"send_emit", "send_clear"}
        PROVE  \A q \in Slots : call'[q] = call[q] \/ call'[q].at \notin {"send_emit", "send_clear"}
    BY <1>1, <2>1 DEF Begin, TypeOK
  <2>2. UNCHANGED <<list, delivered, stored, late, removed>>
    BY DEF Request, storeOfflineMessage, sendOfflineMessages, clearOfflineMessages,
       refreshOfflineMessagesTTL, Begin
  <2>3. ASSUME NEW u, NEW m, Begin(s, [Idle EXCEPT !.at = "store_push", !.me = u, !.message = m])
        PROVE  \A q \in Slots : call'[q] = call[q] \/ call'[q].at \notin {"send_emit", "send_clear"}
    <3>1. [Idle EXCEPT !.at = "store_push", !.me = u, !.message = m].at = "store_push"
      BY DEF Idle
    <3> QED BY <2>1, <2>3, <3>1
  <2>4. ASSUME NEW u, NEW st \in {"send_range", "clear", "refresh"}, Begin(s, [Idle EXCEPT !.at = st, !.me = u])
        PROVE  \A q \in Slots : call'[q] = call[q] \/ call'[q].at \notin {"send_emit", "send_clear"}
    <3>1. [Idle EXCEPT !.at = st, !.me = u].at = st
      BY DEF Idle
    <3> QED BY <2>1, <2>4, <3>1
  <2> QED BY <2>2, <2>3, <2>4 DEF Request, storeOfflineMessage, sendOfflineMessages, clearOfflineMessages,
             refreshOfflineMessagesTTL
<1> QED BY <1>1, <1>2, NothingIsAdded, NothingIsTaken

\* A handler that ends is not emitting, and the others go on as they are.
LEMMA EndsQuietly ==
  ASSUME TypeOK, NEW s \in Slots, End(s)
  PROVE  \A q \in Slots : call'[q] = call[q] \/ call'[q].at \notin {"send_emit", "send_clear"}
BY DEF TypeOK, End, Idle

LEMMA StorePushLoss ==
  ASSUME LossInv, NEW s \in Slots, StorePush(s)
  PROVE  NothingIsLost' /\ ListIsHeld'
<1> DEFINE u == call[s].me
           x == call[s].message
<1>1. TypeOK /\ NothingIsLost /\ ListIsHeld
  BY DEF LossInv
<1>2. u \in Users /\ x \in Messages
  BY <1>1, InFlight DEF StorePush, At, Steps, Handlers
<1>3. /\ Elements(list'[u]) = Elements(list[u]) \cup {x}
      /\ \A v \in Users \ {u} : list'[v] = list[v]
  BY <1>1, <1>2, PushElements DEF StorePush
<1>4. /\ stored' = stored \cup {<<u, x>>} /\ late \subseteq late'
      /\ UNCHANGED <<delivered, removed>>
      /\ (\E q \in Slots : Sending(q, u)) => <<u, x>> \in late'
  BY DEF StorePush
<1>5. \A q \in Slots : call'[q] = call[q] \/ call'[q].at \notin {"send_emit", "send_clear"}
  <2>1. CASE End(s)
    BY <1>1, <2>1, EndsQuietly
  <2>2. CASE Await(s, "store_expire")
    <3>1. call[s] \in Handlers
      BY <1>1, InFlight DEF StorePush, At, Steps
    <3>2. call' = [call EXCEPT ![s] = [call[s] EXCEPT !.at = "store_expire"]]
      BY <2>2 DEF Await
    <3> QED BY <1>1, <3>1, <3>2 DEF TypeOK, Handlers
  <2> QED BY <2>1, <2>2 DEF StorePush
<1>6. NothingIsLost'
  <2> SUFFICES ASSUME NEW p \in stored', p[1] \in Reachable PROVE Kept(p)'
    BY DEF NothingIsLost
  <2>1. CASE p = <<u, x>>
    BY <1>2, <1>3, <2>1 DEF Kept
  <2>2. CASE p # <<u, x>>
    <3>1. p \in stored /\ Kept(p) /\ p[1] \in Users
      BY <1>1, <1>4, <2>2 DEF NothingIsLost, TypeOK, Pairs
    <3> QED BY <1>2, <1>3, <1>4, <3>1 DEF Kept
  <2> QED BY <2>1, <2>2
<1>7. ListIsHeld'
  <2> SUFFICES ASSUME NEW q \in Slots, NEW v \in Users, (call[q].me = v)', NEW m \in Elements(list'[v])
               PROVE  \/ <<v, m>> \in late'
                      \/ /\ At(q, "send_emit")' => m \in Elements(call'[q].got)
                         /\ (At(q, "send_clear")' /\ v \in Reachable) => delivered'[<<v, m>>] > 0
    BY DEF ListIsHeld
  <2>1. CASE call'[q].at \notin {"send_emit", "send_clear"}
    BY <2>1 DEF At
  <2>2. CASE call'[q] = call[q] /\ m \in Elements(list[v])
    BY <1>1, <1>4, <2>2 DEF ListIsHeld, At
  <2>3. CASE call'[q] = call[q] /\ m \notin Elements(list[v]) /\ call'[q].at \in {"send_emit", "send_clear"}
    <3>1. v = u /\ m = x
      BY <1>3, <2>3
    <3>2. Sending(q, u)
      BY <2>3, <3>1 DEF Sending
    <3> QED BY <1>4, <3>1, <3>2
  <2> QED BY <1>5, <2>1, <2>2, <2>3
<1> QED BY <1>6, <1>7

LEMMA SendRangeLoss ==
  ASSUME LossInv, NEW s \in Slots, SendRange(s)
  PROVE  NothingIsLost' /\ ListIsHeld'
<1> DEFINE u == call[s].me
<1>1. TypeOK /\ NothingIsLost /\ ListIsHeld
  BY DEF LossInv
<1>2. u \in Users /\ list[u] \in Seq(Messages)
  BY <1>1, InFlight DEF SendRange, At, Steps, TypeOK
<1>3. UNCHANGED <<list, delivered, stored, late, removed>>
  BY DEF SendRange
<1>4. NothingIsLost'
  BY <1>1, <1>3, NothingIsTaken
<1>5. CASE End(s)
  BY <1>1, <1>3, <1>4, <1>5, EndsQuietly, NothingIsAdded
<1>6. ASSUME NEW got \in Sorted(list[u]), Hold(s, got)
      PROVE  ListIsHeld'
  <2>1. Elements(got) = Elements(list[u])
    BY <1>2, SortFacts
  <2>2. /\ call'[s].me = u /\ call'[s].got = got /\ call'[s].at = "send_emit"
        /\ \A q \in Slots \ {s} : call'[q] = call[q]
    <3>1. call[s] \in Handlers
      BY <1>1, InFlight DEF SendRange, At, Steps
    <3>2. call' = [call EXCEPT ![s] = [call[s] EXCEPT !.at = "send_emit", !.got = got]]
      BY <1>6 DEF Hold
    <3> QED BY <1>1, <3>1, <3>2 DEF TypeOK, Handlers
  <2>3. ASSUME NEW q \in Slots, NEW v \in Users, call'[q].me = v, NEW m \in Elements(list[v])
        PROVE  \/ <<v, m>> \in late
               \/ /\ call'[q].at = "send_emit" => m \in Elements(call'[q].got)
                  /\ (call'[q].at = "send_clear" /\ v \in Reachable) => delivered[<<v, m>>] > 0
    <3>1. CASE q = s
      BY <2>1, <2>2, <2>3, <3>1
    <3>2. CASE q # s
      BY <1>1, <2>2, <2>3, <3>2 DEF ListIsHeld, At
    <3> QED BY <3>1, <3>2
  <2> QED BY <1>3, <2>3 DEF ListIsHeld, At
<1> QED BY <1>4, <1>5, <1>6 DEF SendRange

LEMMA SendEmitLoss ==
  ASSUME LossInv, NEW s \in Slots, SendEmit(s)
  PROVE  NothingIsLost' /\ ListIsHeld'
<1> DEFINE u == call[s].me
           q == call[s].got
<1>1. TypeOK /\ NothingIsLost /\ ListIsHeld
  BY DEF LossInv
<1>2. call[s] \in Handlers /\ u \in Users /\ q \in Seq(Messages)
  BY <1>1, InFlight DEF SendEmit, At, Steps, Handlers
<1>3. UNCHANGED <<list, stored, late, removed>>
  BY DEF SendEmit
<1>4. \A p \in Pairs : delivered[p] > 0 => delivered'[p] > 0
  BY <1>1 DEF SendEmit, TypeOK
<1>5. ASSUME u \in Reachable, NEW m \in Elements(q) PROVE delivered'[<<u, m>>] > 0
  <2>1. PICK i \in DOMAIN q : m = q[i]
    BY DEF Elements
  <2>2. m \in Messages /\ conversationOf[m] \in Conversations
    BY <1>2, <2>1, OfflineAssumption
  <2>3. i \in UNION {Batch(q, c) : c \in Conversations}
    BY <2>1, <2>2 DEF Batch
  <2>4. <<u, m>> \in Pairs /\ delivered[<<u, m>>] \in Nat
    BY <1>1, <1>2, <2>2 DEF Pairs, TypeOK
  <2>5. delivered'[<<u, m>>] = delivered[<<u, m>>] + 1
    BY <1>5, <2>1, <2>3, <2>4 DEF SendEmit
  <2> QED BY <2>4, <2>5
<1>6. NothingIsLost'
  <2> SUFFICES ASSUME NEW p \in stored, p[1] \in Reachable PROVE Kept(p)'
    BY <1>3 DEF NothingIsLost
  <2>1. Kept(p) /\ p \in Pairs
    BY <1>1 DEF NothingIsLost, TypeOK
  <2> QED BY <1>3, <1>4, <2>1 DEF Kept
<1>7. /\ call'[s].me = u /\ call'[s].at = "send_clear"
      /\ \A r \in Slots \ {s} : call'[r] = call[r]
  <2>1. call' = [call EXCEPT ![s] = [call[s] EXCEPT !.at = "send_clear"]]
    BY DEF SendEmit, Await
  <2> QED BY <1>1, <1>2, <2>1 DEF TypeOK, Handlers
<1>8. ASSUME NEW r \in Slots, NEW v \in Users, call'[r].me = v, NEW m \in Elements(list[v])
      PROVE  \/ <<v, m>> \in late
             \/ /\ call'[r].at = "send_emit" => m \in Elements(call'[r].got)
                /\ (call'[r].at = "send_clear" /\ v \in Reachable) => delivered'[<<v, m>>] > 0
  <2>1. <<v, m>> \in Pairs
    BY <1>1 DEF TypeOK, Elements, Pairs
  <2>2. CASE r = s
    <3>1. v = u /\ (<<u, m>> \in late \/ m \in Elements(q))
      BY <1>1, <1>7, <1>8, <2>2 DEF ListIsHeld, SendEmit, At
    <3> QED BY <1>5, <1>7, <2>2, <3>1
  <2>3. CASE r # s
    BY <1>1, <1>4, <1>7, <1>8, <2>1, <2>3 DEF ListIsHeld, At
  <2> QED BY <2>2, <2>3
<1> QED BY <1>3, <1>6, <1>8 DEF ListIsHeld, At

\* A DEL after whose step every message of the list is accounted for.
LEMMA DelLoss ==
  ASSUME LossInv, NEW u \in Users, Del(u),
         UNCHANGED <<delivered, stored, late>>, removed \subseteq removed',
         \A m \in Elements(list[u]) :
           <<u, m>> \in late \cup removed' \/ (u \in Reachable => delivered[<<u, m>>] > 0),
         \A q \in Slots : call'[q] = call[q] \/ call'[q].at \notin {"send_emit", "send_clear"}
  PROVE  NothingIsLost' /\ ListIsHeld'
<1>1. TypeOK /\ NothingIsLost /\ ListIsHeld
  BY DEF LossInv
<1>2. /\ Elements(list'[u]) = {}
      /\ \A v \in Users \ {u} : list'[v] = list[v]
  BY <1>1, DelElements
<1>3. NothingIsLost'
  BY <1>1, <1>2, NothingIsTaken
<1>4. ListIsHeld'
  BY <1>1, <1>2, NothingIsAdded
<1> QED BY <1>3, <1>4

LEMMA CommandLoss ==
  ASSUME LossInv, NEW s \in Slots, Command(s)
  PROVE  NothingIsLost' /\ ListIsHeld'
<1> DEFINE u == call[s].me
<1>1. TypeOK /\ NothingIsLost /\ ListIsHeld
  BY DEF LossInv
<1>2. u \in Users
  <2>1. call[s].at \in Steps
    BY DEF Command, StorePush, StoreExpire, SendRange, SendEmit, SendClear, Clear, Refresh, At, Steps
  <2> QED BY <1>1, <2>1, InFlight
<1>3. CASE StoreExpire(s) \/ Refresh(s)
  BY <1>1, <1>3, EndsQuietly, NothingIsAdded, NothingIsTaken DEF StoreExpire, Refresh, Expire
<1>4. CASE SendClear(s)
  <2>1. \A m \in Elements(list[u]) : <<u, m>> \in late \/ (u \in Reachable => delivered[<<u, m>>] > 0)
    BY <1>1, <1>2, <1>4 DEF SendClear, ListIsHeld
  <2> QED BY <1>1, <1>2, <1>4, <2>1, EndsQuietly, DelLoss DEF SendClear
<1>5. CASE Clear(s)
  <2>1. \A m \in Elements(list[u]) : <<u, m>> \in removed'
    BY <1>5 DEF Clear, Listed
  <2> QED BY <1>1, <1>2, <1>5, <2>1, EndsQuietly, DelLoss DEF Clear
<1> QED BY <1>3, <1>4, <1>5, StorePushLoss, SendRangeLoss, SendEmitLoss DEF Command

LEMMA FailureLoss ==
  ASSUME LossInv, (\E s \in Slots : Fail(s)) \/ Crash \/ (\E u \in Users : TimeToLiveEnds(u))
  PROVE  NothingIsLost' /\ ListIsHeld'
<1>1. TypeOK /\ NothingIsLost /\ ListIsHeld
  BY DEF LossInv
<1>2. ASSUME NEW s \in Slots, Fail(s) PROVE NothingIsLost' /\ ListIsHeld'
  BY <1>1, <1>2, EndsQuietly, NothingIsAdded, NothingIsTaken DEF Fail
<1>3. CASE Crash
  <2>1. \A q \in Slots : call'[q].at \notin {"send_emit", "send_clear"}
    BY <1>3 DEF Crash, Idle
  <2> QED BY <1>1, <1>3, <2>1, NothingIsAdded, NothingIsTaken DEF Crash
<1>4. ASSUME NEW u \in Users, TimeToLiveEnds(u) PROVE NothingIsLost' /\ ListIsHeld'
  <2>1. \A m \in Elements(list[u]) : <<u, m>> \in removed'
    BY <1>4 DEF TimeToLiveEnds, Listed
  <2> QED BY <1>1, <1>4, <2>1, DelLoss DEF TimeToLiveEnds
<1> QED BY <1>2, <1>3, <1>4

LEMMA LossStep == LossInv /\ [Next]_vars => LossInv'
<1> SUFFICES ASSUME LossInv, [Next]_vars PROVE LossInv'
  OBVIOUS
<1>1. TypeOK'
  BY StepTypes DEF LossInv
<1>2. CASE Next
  BY <1>1, <1>2, RequestLoss, CommandLoss, FailureLoss DEF Next, LossInv
<1>3. CASE UNCHANGED vars
  BY <1>1, <1>3 DEF vars, LossInv, NothingIsLost, Kept, ListIsHeld, At
<1> QED BY <1>2, <1>3

\* Every message stored for a user with a socket is in the list or has been delivered,
\* except those that were cleared, expired, or pushed while a send was under way: in
\* every interleaving of any number of handlers, with failures and crashes.
THEOREM StoredMessagesStay == Spec => []NothingIsLost
<1>1. Init => LossInv
  <2>1. Init => TypeOK
    BY InitTypes
  <2>2. Init => NothingIsLost /\ ListIsHeld
    BY DEF Init, NothingIsLost, ListIsHeld, Elements
  <2> QED BY <2>1, <2>2 DEF LossInv
<1>2. LossInv => NothingIsLost
  BY DEF LossInv
<1> QED BY <1>1, <1>2, LossStep, PTL DEF Spec

------------------------------------------------------------------------------
(* Delivered once.  The strengthening follows a message of a user none of  *)
(* whose sends has overlapped or left the list behind: it is pushed once,  *)
(* at most one send holds it, nobody has it before that send emits it, and *)
(* after that it is in the list only until that send deletes it.           *)

PushedOnce ==
  /\ \A s \in Slots : At(s, "store_push") => <<call[s].me, call[s].message>> \notin stored
  /\ \A s, q \in Slots : (/\ At(s, "store_push") /\ At(q, "store_push")
                          /\ call[s].me = call[q].me /\ call[s].message = call[q].message) => s = q
  /\ \A p \in Pairs : delivered[p] > 0 => p \in stored
  /\ \A u \in Users : \A m \in Elements(list[u]) : <<u, m>> \in stored
  /\ \A s \in Slots : At(s, "send_emit") => \A m \in Elements(call[s].got) : <<call[s].me, m>> \in stored

OneSendAtATime ==
  \A u \in Users \ shaky : \A s, q \in Slots : (Sending(s, u) /\ Sending(q, u)) => s = q

HeldIsNew ==
  \A s \in Slots : (At(s, "send_emit") /\ call[s].me \notin shaky) =>
    \A m \in Elements(call[s].got) : delivered[<<call[s].me, m>>] = 0

DeliveredLeaves ==
  \A u \in Users \ shaky : \A m \in Elements(list[u]) :
    delivered[<<u, m>>] > 0 => \E s \in Slots : Leaves(s, u)

Once == PushedOnce /\ OneSendAtATime /\ HeldIsNew /\ DeliveredLeaves /\ DeliveredOnce

Busy == {"store_push", "send_emit", "send_clear"}

\* Steps that neither push nor hold nor emit: handlers end, lists are deleted.
LEMMA QuietOnce ==
  ASSUME TypeOK, Once, stored' = stored, delivered' = delivered, shaky \subseteq shaky',
         \A u \in Users : Elements(list'[u]) \subseteq Elements(list[u]),
         \A s \in Slots : call'[s] = call[s] \/ call'[s].at \notin Busy,
         \A s \in Slots, u \in Users :
           (Leaves(s, u) /\ call'[s] # call[s]) => u \in shaky' \/ Elements(list'[u]) = {}
  PROVE  Once'
<1>1. PushedOnce'
  BY DEF Once, PushedOnce, At, Busy
<1>2. OneSendAtATime'
  BY DEF Once, OneSendAtATime, Sending, Busy
<1>3. HeldIsNew'
  BY DEF Once, HeldIsNew, At, Busy
<1>4. DeliveredLeaves'
  <2> SUFFICES ASSUME NEW u \in Users, u \notin shaky', NEW m \in Elements(list'[u]), delivered[<<u, m>>] > 0
               PROVE  \E s \in Slots : Leaves(s, u)'
    BY DEF DeliveredLeaves
  <2>1. PICK s \in Slots : Leaves(s, u)
    BY DEF Once, DeliveredLeaves
  <2>2. call'[s] = call[s]
    BY <2>1
  <2> QED BY <2>1, <2>2 DEF Leaves
<1>5. DeliveredOnce'
  BY DEF Once, DeliveredOnce
<1> QED BY <1>1, <1>2, <1>3, <1>4, <1>5 DEF Once

LEMMA EndsIdle ==
  ASSUME TypeOK, NEW s \in Slots, End(s)
  PROVE  /\ call'[s].at \notin Busy
         /\ \A q \in Slots \ {s} : call'[q] = call[q]
BY DEF TypeOK, End, Idle, Busy

LEMMA RequestOnce ==
  ASSUME TypeOK, Once, NEW s \in Slots, Request(s)
  PROVE  Once'
<1>1. /\ UNCHANGED <<list, delivered, stored, shaky>> /\ call[s] = Idle
  BY DEF Request, storeOfflineMessage, sendOfflineMessages, clearOfflineMessages,
     refreshOfflineMessagesTTL, Begin
<1>2. \A u \in Users : ~Leaves(s, u)
  BY <1>1 DEF Leaves, Idle
<1>3. ASSUME NEW u \in Users, NEW st \in {"send_range", "clear", "refresh"},
             Begin(s, [Idle EXCEPT !.at = st, !.me = u])
      PROVE  Once'
  <2>1. [Idle EXCEPT !.at = st, !.me = u].at = st
    BY DEF Idle
  <2>2. call'[s].at \notin Busy /\ \A q \in Slots \ {s} : call'[q] = call[q]
    BY <1>3, <2>1 DEF Begin, TypeOK, Busy
  <2> QED BY <1>1, <1>2, <2>2, QuietOnce
<1>4. ASSUME NEW u \in Users, NEW m \in Messages, storeOfflineMessage(s, u, m)
      PROVE  Once'
  <2>1. /\ call'[s].at = "store_push" /\ call'[s].me = u /\ call'[s].message = m
        /\ \A q \in Slots \ {s} : call'[q] = call[q]
    <3>1. /\ [Idle EXCEPT !.at = "store_push", !.me = u, !.message = m].at = "store_push"
          /\ [Idle EXCEPT !.at = "store_push", !.me = u, !.message = m].me = u
          /\ [Idle EXCEPT !.at = "store_push", !.me = u, !.message = m].message = m
      BY DEF Idle
    <3> QED BY <1>4, <3>1 DEF storeOfflineMessage, Begin, TypeOK
  <2>2. <<u, m>> \notin stored /\ \A q \in Slots : ~(call[q].me = u /\ call[q].message = m)
    BY <1>4 DEF storeOfflineMessage
  <2>3. PushedOnce'
    BY <1>1, <2>1, <2>2 DEF Once, PushedOnce, At
  <2>4. OneSendAtATime' /\ HeldIsNew' /\ DeliveredOnce'
    BY <1>1, <2>1 DEF Once, OneSendAtATime, HeldIsNew, DeliveredOnce, Sending, At
  <2>5. DeliveredLeaves'
    BY <1>1, <1>2, <2>1 DEF Once, DeliveredLeaves, Leaves
  <2> QED BY <2>3, <2>4, <2>5 DEF Once
<1> QED BY <1>3, <1>4 DEF Request, sendOfflineMessages, clearOfflineMessages, refreshOfflineMessagesTTL

LEMMA StorePushOnce ==
  ASSUME TypeOK, Once, NEW s \in Slots, StorePush(s)
  PROVE  Once'
<1> DEFINE u == call[s].me
           x == call[s].message
<1>1. call[s] \in Handlers /\ u \in Users /\ x \in Messages /\ <<u, x>> \in Pairs
  BY InFlight DEF StorePush, At, Steps, Handlers, Pairs
<1>2. /\ Elements(list'[u]) = Elements(list[u]) \cup {x}
      /\ \A v \in Users \ {u} : list'[v] = list[v]
  BY <1>1, PushElements DEF StorePush
<1>3. stored' = stored \cup {<<u, x>>} /\ UNCHANGED <<delivered, shaky>> /\ call[s].at = "store_push"
  BY DEF StorePush, At
<1>4. call'[s].at \notin Busy /\ \A q \in Slots \ {s} : call'[q] = call[q]
  <2>1. CASE End(s)
    BY <2>1, EndsIdle
  <2>2. CASE Await(s, "store_expire")
    <3>1. call' = [call EXCEPT ![s] = [call[s] EXCEPT !.at = "store_expire"]]
      BY <2>2 DEF Await
    <3> QED BY <1>1, <3>1 DEF TypeOK, Handlers, Busy
  <2> QED BY <2>1, <2>2 DEF StorePush
<1>5. delivered[<<u, x>>] = 0
  BY <1>1, <1>3 DEF Once, PushedOnce, TypeOK, At
<1>6. PushedOnce'
  <2>1. ASSUME NEW q \in Slots, call'[q].at = "store_push"
        PROVE  <<call'[q].me, call'[q].message>> \notin stored'
    <3>1. q # s /\ call'[q] = call[q]
      BY <1>4, <2>1 DEF Busy
    <3>2. <<call[q].me, call[q].message>> \notin stored
      BY <2>1, <3>1 DEF Once, PushedOnce, At
    <3>3. ~(call[q].me = u /\ call[q].message = x)
      BY <1>3, <2>1, <3>1 DEF Once, PushedOnce, At
    <3> QED BY <1>3, <3>1, <3>2, <3>3
  <2>2. ASSUME NEW q \in Slots, NEW r \in Slots, call'[q].at = "store_push", call'[r].at = "store_push",
               call'[q].me = call'[r].me, call'[q].message = call'[r].message
        PROVE  q = r
    BY <1>4, <2>2 DEF Once, PushedOnce, At, Busy
  <2>3. \A p \in Pairs : delivered'[p] > 0 => p \in stored'
    BY <1>3 DEF Once, PushedOnce
  <2>4. \A v \in Users : \A m \in Elements(list'[v]) : <<v, m>> \in stored'
    BY <1>2, <1>3 DEF Once, PushedOnce
  <2>5. \A q \in Slots : call'[q].at = "send_emit" =>
          \A m \in Elements(call'[q].got) : <<call'[q].me, m>> \in stored'
    BY <1>3, <1>4 DEF Once, PushedOnce, At, Busy
  <2> QED BY <2>1, <2>2, <2>3, <2>4, <2>5 DEF PushedOnce, At
<1>7. OneSendAtATime' /\ HeldIsNew' /\ DeliveredOnce'
  BY <1>3, <1>4 DEF Once, OneSendAtATime, HeldIsNew, DeliveredOnce, Sending, At, Busy
<1>8. DeliveredLeaves'
  <2> SUFFICES ASSUME NEW v \in Users, v \notin shaky, NEW m \in Elements(list'[v]), delivered[<<v, m>>] > 0
               PROVE  \E q \in Slots : Leaves(q, v)'
    BY <1>3 DEF DeliveredLeaves
  <2>1. m \in Elements(list[v])
    BY <1>2, <1>5
  <2>2. PICK q \in Slots : Leaves(q, v)
    BY <2>1 DEF Once, DeliveredLeaves
  <2>3. call'[q] = call[q]
    BY <1>3, <1>4, <2>2 DEF Leaves
  <2> QED BY <2>2, <2>3 DEF Leaves
<1> QED BY <1>6, <1>7, <1>8 DEF Once

LEMMA SendRangeOnce ==
  ASSUME TypeOK, Once, NEW s \in Slots, SendRange(s)
  PROVE  Once'
<1> DEFINE u == call[s].me
<1>1. call[s] \in Handlers /\ u \in Users /\ list[u] \in Seq(Messages)
  BY InFlight DEF SendRange, At, Steps, TypeOK
<1>2. UNCHANGED <<list, delivered, stored>> /\ call[s].at = "send_range"
  BY DEF SendRange, At
<1>3. CASE End(s) /\ UNCHANGED shaky
  <2>1. \A v \in Users : ~Leaves(s, v)
    BY <1>2 DEF Leaves
  <2> QED BY <1>2, <1>3, <2>1, EndsIdle, QuietOnce
<1>4. ASSUME NEW got \in Sorted(list[u]), Hold(s, got),
             shaky' = IF \E q \in Slots : Sending(q, u) THEN shaky \cup {u} ELSE shaky
      PROVE  Once'
  <2>1. Elements(got) = Elements(list[u])
    BY <1>1, SortFacts
  <2>2. /\ call'[s].me = u /\ call'[s].got = got /\ call'[s].at = "send_emit"
        /\ \A q \in Slots \ {s} : call'[q] = call[q]
    <3>1. call' = [call EXCEPT ![s] = [call[s] EXCEPT !.at = "send_emit", !.got = got]]
      BY <1>4 DEF Hold
    <3> QED BY <1>1, <3>1 DEF TypeOK, Handlers
  <2>3. shaky \subseteq shaky' /\ (u \notin shaky' => \A q \in Slots : ~Sending(q, u))
    BY <1>4
  <2>4. \A q \in Slots, v \in Users : Sending(q, v)' <=> (q = s /\ v = u) \/ (q # s /\ Sending(q, v))
    BY <2>2 DEF Sending
  <2>5. PushedOnce'
    <3>1. \A q \in Slots : call'[q].at = "store_push" => q # s /\ call'[q] = call[q]
      BY <2>2
    <3>2. \A q \in Slots : call'[q].at = "send_emit" =>
            \A m \in Elements(call'[q].got) : <<call'[q].me, m>> \in stored
      BY <1>1, <2>1, <2>2 DEF Once, PushedOnce, At
    <3> QED BY <1>2, <3>1, <3>2 DEF Once, PushedOnce, At
  <2>6. OneSendAtATime'
    BY <2>3, <2>4 DEF Once, OneSendAtATime
  <2>7. HeldIsNew'
    <3> SUFFICES ASSUME NEW q \in Slots, call'[q].at = "send_emit", call'[q].me \notin shaky',
                        NEW m \in Elements(call'[q].got)
                 PROVE  delivered[<<call'[q].me, m>>] = 0
      BY <1>2 DEF HeldIsNew, At
    <3>1. CASE q # s
      BY <2>2, <2>3, <3>1 DEF Once, HeldIsNew, At
    <3>2. CASE q = s
      <4>1. m \in Elements(list[u]) /\ u \notin shaky
        BY <2>1, <2>2, <2>3, <3>2
      <4>2. <<u, m>> \in Pairs
        BY <1>1, <4>1 DEF Elements, Pairs
      <4>3. ~ \E r \in Slots : Leaves(r, u)
        BY <2>2, <2>3, <3>2 DEF Leaves, Sending
      <4>4. ~(delivered[<<u, m>>] > 0)
        BY <1>1, <4>1, <4>3 DEF Once, DeliveredLeaves
      <4> QED BY <2>2, <3>2, <4>2, <4>4 DEF TypeOK
    <3> QED BY <3>1, <3>2
  <2>8. DeliveredLeaves'
    <3> SUFFICES ASSUME NEW v \in Users, v \notin shaky', NEW m \in Elements(list[v]), delivered[<<v, m>>] > 0
                 PROVE  \E q \in Slots : Leaves(q, v)'
      BY <1>2 DEF DeliveredLeaves
    <3>1. PICK q \in Slots : Leaves(q, v)
      BY <2>3 DEF Once, DeliveredLeaves
    <3>2. call'[q] = call[q]
      BY <1>2, <2>2, <3>1 DEF Leaves
    <3> QED BY <3>1, <3>2 DEF Leaves
  <2>9. DeliveredOnce'
    BY <1>2, <2>3 DEF Once, DeliveredOnce
  <2> QED BY <2>5, <2>6, <2>7, <2>8, <2>9 DEF Once
<1> QED BY <1>3, <1>4 DEF SendRange

LEMMA SendEmitOnce ==
  ASSUME TypeOK, Once, NEW s \in Slots, SendEmit(s)
  PROVE  Once'
<1> DEFINE u == call[s].me
           q == call[s].got
<1>1. call[s] \in Handlers /\ u \in Users /\ call[s].at = "send_emit"
  BY InFlight DEF SendEmit, At, Steps
<1>2. UNCHANGED <<list, stored, shaky>>
  BY DEF SendEmit
<1>3. \A p \in Pairs : /\ delivered[p] \in Nat
                      /\ \/ delivered'[p] = delivered[p]
                         \/ /\ delivered'[p] = delivered[p] + 1
                            /\ \E m \in Elements(q) : p = <<u, m>>
  BY DEF SendEmit, TypeOK, Batch, Elements
<1>4. /\ call'[s].me = u /\ call'[s].at = "send_clear"
      /\ \A r \in Slots \ {s} : call'[r] = call[r]
  <2>1. call' = [call EXCEPT ![s] = [call[s] EXCEPT !.at = "send_clear"]]
    BY DEF SendEmit, Await
  <2> QED BY <1>1, <2>1 DEF TypeOK, Handlers
<1>5. PushedOnce'
  <2>1. ASSUME NEW p \in Pairs, delivered'[p] > 0 PROVE p \in stored
    <3>1. CASE delivered[p] > 0
      BY <3>1 DEF Once, PushedOnce
    <3>2. CASE ~(delivered[p] > 0)
      <4>1. PICK m \in Elements(q) : p = <<u, m>>
        BY <1>3, <2>1, <3>2
      <4> QED BY <1>1, <4>1 DEF Once, PushedOnce, At
    <3> QED BY <3>1, <3>2
  <2>2. \A r \in Slots : call'[r].at \in {"store_push", "send_emit"} => r # s /\ call'[r] = call[r]
    BY <1>4
  <2> QED BY <1>2, <2>1, <2>2 DEF Once, PushedOnce, At
<1>6. OneSendAtATime'
  <2>1. \A r \in Slots, v \in Users : Sending(r, v)' <=> Sending(r, v)
    BY <1>1, <1>4 DEF Sending
  <2> QED BY <1>2, <2>1 DEF Once, OneSendAtATime
<1>7. HeldIsNew'
  <2> SUFFICES ASSUME NEW r \in Slots, call'[r].at = "send_emit", call'[r].me \notin shaky,
                      NEW m \in Elements(call'[r].got)
               PROVE  delivered'[<<call'[r].me, m>>] = 0
    BY <1>2 DEF HeldIsNew, At
  <2>1. r # s /\ call'[r] = call[r]
    BY <1>4
  <2>2. call[r] \in Handlers /\ <<call[r].me, m>> \in Pairs
    BY <2>1, InFlight DEF At, Steps, Handlers, Elements, Pairs
  <2>3. call[r].me # u
    BY <1>1, <2>1 DEF Once, OneSendAtATime, Sending
  <2>4. delivered[<<call[r].me, m>>] = 0
    BY <2>1 DEF Once, HeldIsNew, At
  <2> QED BY <1>3, <2>1, <2>2, <2>3, <2>4
<1>8. DeliveredLeaves'
  <2> SUFFICES ASSUME NEW v \in Users, v \notin shaky, NEW m \in Elements(list[v]), delivered'[<<v, m>>] > 0
               PROVE  \E r \in Slots : Leaves(r, v)'
    BY <1>2 DEF DeliveredLeaves
  <2>1. <<v, m>> \in Pairs
    BY DEF TypeOK, Elements, Pairs
  <2>2. CASE delivered[<<v, m>>] > 0
    <3>1. PICK r \in Slots : Leaves(r, v)
      BY <2>2 DEF Once, DeliveredLeaves
    <3>2. call'[r] = call[r]
      BY <1>1, <1>4, <3>1 DEF Leaves
    <3> QED BY <3>1, <3>2 DEF Leaves
  <2>3. CASE ~(delivered[<<v, m>>] > 0)
    <3>1. v = u
      BY <1>3, <2>1, <2>3
    <3> QED BY <1>4, <3>1 DEF Leaves
  <2> QED BY <2>2, <2>3
<1>9. DeliveredOnce'
  <2> SUFFICES ASSUME NEW p \in Pairs, delivered'[p] > 1, p[1] \notin shaky PROVE FALSE
    BY <1>2 DEF DeliveredOnce
  <2>1. ~(delivered[p] > 1)
    BY DEF Once, DeliveredOnce
  <2>2. PICK m \in Elements(q) : p = <<u, m>>
    BY <1>3, <2>1
  <2>3. delivered[p] = 0
    BY <1>1, <2>2 DEF Once, HeldIsNew, At
  <2> QED BY <1>3, <2>3
<1> QED BY <1>5, <1>6, <1>7, <1>8, <1>9 DEF Once

LEMMA CommandOnce ==
  ASSUME TypeOK, Once, NEW s \in Slots, Command(s)
  PROVE  Once'
<1> DEFINE u == call[s].me
<1>1. u \in Users
  <2>1. call[s].at \in Steps
    BY DEF Command, StorePush, StoreExpire, SendRange, SendEmit, SendClear, Clear, Refresh, At, Steps
  <2> QED BY <2>1, InFlight
<1>2. CASE StoreExpire(s) \/ Refresh(s)
  <2>1. UNCHANGED <<list, stored, delivered, shaky>> /\ End(s) /\ \A v \in Users : ~Leaves(s, v)
    BY <1>2 DEF StoreExpire, Refresh, Expire, Leaves, At
  <2> QED BY <2>1, EndsIdle, QuietOnce
<1>3. CASE SendClear(s) \/ Clear(s)
  <2>1. UNCHANGED <<stored, delivered, shaky>> /\ End(s) /\ Del(u)
    BY <1>3 DEF SendClear, Clear
  <2>2. /\ Elements(list'[u]) = {}
        /\ \A v \in Users \ {u} : list'[v] = list[v]
    BY <1>1, <2>1, DelElements
  <2>3. \A v \in Users : Leaves(s, v) => v = u
    BY DEF Leaves
  <2> QED BY <2>1, <2>2, <2>3, EndsIdle, QuietOnce
<1> QED BY <1>2, <1>3, StorePushOnce, SendRangeOnce, SendEmitOnce DEF Command

LEMMA FailureOnce ==
  ASSUME TypeOK, Once, (\E s \in Slots : Fail(s)) \/ Crash \/ (\E u \in Users : TimeToLiveEnds(u))
  PROVE  Once'
<1>1. ASSUME NEW s \in Slots, Fail(s) PROVE Once'
  <2>1. UNCHANGED <<list, stored, delivered>> /\ End(s) /\ shaky \subseteq shaky'
    BY <1>1 DEF Fail
  <2>2. \A v \in Users : Leaves(s, v) => v \in shaky'
    BY <1>1 DEF Fail
  <2> QED BY <2>1, <2>2, EndsIdle, QuietOnce
<1>2. CASE Crash
  <2>1. UNCHANGED <<list, stored, delivered>> /\ shaky \subseteq shaky'
    BY <1>2 DEF Crash
  <2>2. \A q \in Slots : call'[q].at \notin Busy
    BY <1>2 DEF Crash, Idle, Busy
  <2>3. \A q \in Slots, v \in Users : Leaves(q, v) => v \in shaky'
    BY <1>2 DEF Crash
  <2> QED BY <2>1, <2>2, <2>3, QuietOnce
<1>3. ASSUME NEW u \in Users, TimeToLiveEnds(u) PROVE Once'
  <2>1. UNCHANGED <<stored, delivered, shaky, call>> /\ Del(u)
    BY <1>3 DEF TimeToLiveEnds
  <2>2. /\ Elements(list'[u]) = {}
        /\ \A v \in Users \ {u} : list'[v] = list[v]
    BY <2>1, DelElements
  <2> QED BY <2>1, <2>2, QuietOnce
<1> QED BY <1>1, <1>2, <1>3

LEMMA OnceStep == TypeOK /\ Once /\ [Next]_vars => Once'
<1> SUFFICES ASSUME TypeOK, Once, [Next]_vars PROVE Once'
  OBVIOUS
<1>1. CASE Next
  BY <1>1, RequestOnce, CommandOnce, FailureOnce DEF Next
<1>2. CASE UNCHANGED vars
  BY <1>2, QuietOnce DEF vars
<1> QED BY <1>1, <1>2

\* A message is delivered to a user a second time only if two sends of that user have
\* overlapped or one of them failed to delete the list.
THEOREM DeliveryIsOnce == Spec => []DeliveredOnce
<1>1. Init => TypeOK /\ Once
  <2>1. Init => TypeOK
    BY InitTypes
  <2>2. Init => PushedOnce /\ OneSendAtATime /\ HeldIsNew /\ DeliveredLeaves /\ DeliveredOnce
    BY DEF Init, PushedOnce, OneSendAtATime, HeldIsNew, DeliveredLeaves, DeliveredOnce, Elements, At, Sending, Idle
  <2> QED BY <2>1, <2>2 DEF Once
<1>2. TypeOK /\ Once /\ [Next]_vars => (TypeOK /\ Once)'
  BY StepTypes, OnceStep
<1>3. Once => DeliveredOnce
  BY DEF Once
<1> QED BY <1>1, <1>2, <1>3, PTL DEF Spec

------------------------------------------------------------------------------
(* Every list expires.                                                     *)

LEMMA ExpiryStep == TypeOK /\ ListsExpire /\ [Next]_vars => ListsExpire'
<1> SUFFICES ASSUME TypeOK, ListsExpire, [Next]_vars,
                    NEW u \in Users, list'[u] # <<>>, u \notin expiring', u \notin bare'
             PROVE  \E s \in Slots : Owes(s, u)'
  BY DEF ListsExpire
<1>1. ASSUME list[u] # <<>>, u \notin expiring, u \notin bare,
             \A q \in Slots : Owes(q, u) => call'[q] = call[q]
      PROVE  \E s \in Slots : Owes(s, u)'
  BY <1>1 DEF ListsExpire, Owes
<1>2. ASSUME NEW s \in Slots, StorePush(s) PROVE \E q \in Slots : Owes(q, u)'
  <2>1. call[s] \in Handlers /\ call[s].me \in Users /\ call[s].at = "store_push"
    BY <1>2, InFlight DEF StorePush, At, Steps
  <2>2. CASE u = call[s].me /\ Await(s, "store_expire")
    <3>1. call' = [call EXCEPT ![s] = [call[s] EXCEPT !.at = "store_expire"]]
      BY <2>2 DEF Await
    <3> QED BY <2>1, <2>2, <3>1 DEF TypeOK, Handlers, Owes
  <2>3. CASE u # call[s].me
    <3>1. list[u] # <<>> /\ u \notin expiring /\ u \notin bare
      BY <1>2, <2>3 DEF StorePush, Push, TypeOK
    <3>2. \A q \in Slots : Owes(q, u) => call'[q] = call[q]
      BY <1>2, <2>3 DEF StorePush, Owes, End, Await, TypeOK
    <3> QED BY <1>1, <3>1, <3>2
  <2> QED BY <1>2, <2>2, <2>3 DEF StorePush
<1>3. ASSUME NEW s \in Slots, Request(s) PROVE \E q \in Slots : Owes(q, u)'
  <2>1. UNCHANGED <<list, expiring, bare>> /\ call[s] = Idle /\ \A q \in Slots \ {s} : call'[q] = call[q]
    BY <1>3 DEF Request, storeOfflineMessage, sendOfflineMessages, clearOfflineMessages,
       refreshOfflineMessagesTTL, Begin, TypeOK
  <2>2. ~Owes(s, u)
    BY <2>1 DEF Owes, Idle
  <2> QED BY <1>1, <2>1, <2>2
<1>4. ASSUME NEW s \in Slots, StoreExpire(s) \/ Refresh(s) PROVE \E q \in Slots : Owes(q, u)'
  <2>1. Expire(call[s].me) /\ End(s) /\ u # call[s].me
    BY <1>4 DEF StoreExpire, Refresh, Expire
  <2>2. list[u] # <<>> /\ u \notin expiring /\ u \notin bare
    BY <2>1 DEF Expire
  <2>3. \A q \in Slots : Owes(q, u) => call'[q] = call[q]
    BY <2>1 DEF Owes, End, TypeOK
  <2> QED BY <1>1, <2>2, <2>3
<1>5. ASSUME NEW s \in Slots, SendRange(s) \/ SendEmit(s) PROVE \E q \in Slots : Owes(q, u)'
  <2>1. UNCHANGED <<list, expiring, bare>> /\ ~Owes(s, u)
    BY <1>5 DEF SendRange, SendEmit, At, Owes
  <2>2. \A q \in Slots \ {s} : call'[q] = call[q]
    BY <1>5 DEF SendRange, SendEmit, Hold, End, Await, TypeOK
  <2> QED BY <1>1, <2>1, <2>2
<1>6. ASSUME NEW v \in Users, Del(v), \A q \in Slots : Owes(q, u) => call'[q] = call[q]
      PROVE \E q \in Slots : Owes(q, u)'
  BY <1>1, <1>6 DEF Del, TypeOK
<1>7. ASSUME NEW s \in Slots, SendClear(s) \/ Clear(s) PROVE \E q \in Slots : Owes(q, u)'
  <2>1. call[s].me \in Users
    BY <1>7, InFlight DEF SendClear, Clear, At, Steps
  <2>2. \A q \in Slots : Owes(q, u) => call'[q] = call[q]
    BY <1>7 DEF SendClear, Clear, At, Owes, End, TypeOK
  <2> QED BY <1>6, <1>7, <2>1, <2>2 DEF SendClear, Clear
<1>8. ASSUME NEW s \in Slots, Fail(s) PROVE \E q \in Slots : Owes(q, u)'
  BY <1>1, <1>8 DEF Fail, End, TypeOK
<1>9. CASE Crash
  BY <1>1, <1>9 DEF Crash
<1>10. ASSUME NEW v \in Users, TimeToLiveEnds(v) PROVE \E q \in Slots : Owes(q, u)'
  BY <1>6, <1>10 DEF TimeToLiveEnds
<1>11. CASE UNCHANGED vars
  BY <1>1, <1>11 DEF vars
<1> QED BY <1>2, <1>3, <1>4, <1>5, <1>7, <1>8, <1>9, <1>10, <1>11 DEF Next, Command

\* Whatever interleaves with whatever, a list has a time to live, or a store is about to
\* set it, or an EXPIRE of that list has failed.
THEOREM ListsHaveLimits == Spec => []ListsExpire
<1>1. Init => ListsExpire
  BY DEF Init, ListsExpire
<1> QED BY <1>1, InitTypes, StepTypes, ExpiryStep, PTL DEF Spec

------------------------------------------------------------------------------
(* The order of delivery.                                                  *)

HeldInOrder ==
  \A s \in Slots : At(s, "send_emit") =>
    \A i, j \in DOMAIN call[s].got : i < j => createdAt[call[s].got[i]] <= createdAt[call[s].got[j]]

LEMMA OrderStep == TypeOK /\ HeldInOrder /\ [Next]_vars => HeldInOrder'
<1> SUFFICES ASSUME TypeOK, HeldInOrder, [Next]_vars, NEW q \in Slots, call'[q].at = "send_emit"
             PROVE  \A i, j \in DOMAIN call'[q].got :
                      i < j => createdAt[call'[q].got[i]] <= createdAt[call'[q].got[j]]
  BY DEF HeldInOrder, At
<1>1. CASE call'[q] = call[q]
  BY <1>1 DEF HeldInOrder, At
<1>2. CASE call'[q] # call[q]
  <2>1. \E got \in Sorted(list[call[q].me]) : At(q, "send_range") /\ Hold(q, got)
    <3>1. ASSUME NEW s \in Slots, Request(s) PROVE FALSE
      <4>1. ASSUME NEW u, NEW m, Begin(s, [Idle EXCEPT !.at = "store_push", !.me = u, !.message = m]) PROVE FALSE
        <5>1. [Idle EXCEPT !.at = "store_push", !.me = u, !.message = m].at = "store_push"
          BY DEF Idle
        <5> QED BY <1>2, <4>1, <5>1 DEF Begin, TypeOK
      <4>2. ASSUME NEW u, NEW st \in {"send_range", "clear", "refresh"}, Begin(s, [Idle EXCEPT !.at = st, !.me = u])
            PROVE  FALSE
        <5>1. [Idle EXCEPT !.at = st, !.me = u].at = st
          BY DEF Idle
        <5> QED BY <1>2, <4>2, <5>1 DEF Begin, TypeOK
      <4> QED BY <3>1, <4>1, <4>2 DEF Request, storeOfflineMessage, sendOfflineMessages,
                 clearOfflineMessages, refreshOfflineMessagesTTL
    <3>2. ASSUME NEW s \in Slots, End(s) PROVE FALSE
      BY <1>2, <3>2 DEF End, TypeOK, Idle
    <3>3. ASSUME NEW s \in Slots, call[s].at \in Steps, NEW st \in Steps \ {"send_emit"}, Await(s, st) PROVE FALSE
      <4>1. call[s] \in Handlers
        BY <3>3, InFlight
      <4>2. call' = [call EXCEPT ![s] = [call[s] EXCEPT !.at = st]]
        BY <3>3 DEF Await
      <4> QED BY <1>2, <4>1, <4>2 DEF TypeOK, Handlers
    <3>4. ASSUME NEW s \in Slots, Fail(s) \/ Crash \/ \E u \in Users : TimeToLiveEnds(u) PROVE FALSE
      BY <1>2, <3>2, <3>4 DEF Fail, Crash, TimeToLiveEnds, Idle
    <3>5. ASSUME NEW s \in Slots, Command(s), ~SendRange(s) PROVE FALSE
      BY <3>2, <3>3, <3>5 DEF Command, StorePush, StoreExpire, SendEmit, SendClear, Clear, Refresh, At, Steps
    <3>6. ASSUME NEW s \in Slots, SendRange(s), s # q PROVE FALSE
      BY <1>2, <3>2, <3>6 DEF SendRange, Hold, TypeOK
    <3>7. SendRange(q)
      BY <1>2, <3>1, <3>4, <3>5, <3>6 DEF Next, vars
    <3> QED BY <3>2, <3>7 DEF SendRange
  <2>2. PICK got \in Sorted(list[call[q].me]) : At(q, "send_range") /\ Hold(q, got)
    BY <2>1
  <2>3. call[q] \in Handlers /\ list[call[q].me] \in Seq(Messages)
    BY <2>2, InFlight DEF At, Steps, TypeOK
  <2>4. call'[q].got = got
    <3>1. call' = [call EXCEPT ![q] = [call[q] EXCEPT !.at = "send_emit", !.got = got]]
      BY <2>2 DEF Hold
    <3> QED BY <2>3, <3>1 DEF TypeOK, Handlers
  <2> QED BY <2>2, <2>3, <2>4, SortFacts
<1> QED BY <1>1, <1>2

\* However the stores of a user's messages interleave, each batch is in the order in which
\* the messages were created.
THEOREM BatchesInOrder == Spec => []BatchesAreOrdered
<1>1. Init => HeldInOrder
  BY DEF Init, HeldInOrder, At, Idle
<1>2. HeldInOrder => BatchesAreOrdered
  BY DEF HeldInOrder, BatchesAreOrdered, Batch
<1> QED BY <1>1, <1>2, InitTypes, StepTypes, OrderStep, PTL DEF Spec
==============================================================================
