------------------------- MODULE NotificationsProofs -------------------------
(***************************************************************************)
(* Proofs about Notifications, for any users, notifications, kinds, slots  *)
(* and any bound on the clock.                                             *)
(***************************************************************************)
EXTENDS Notifications, TLAPS

States == {"none", "unread", "read"}

Table == [Notes -> {Unused} \cup Rows]

Calls == [Slots -> {Idle} \cup Handlers]

Used(n) == note[n].state # "unused"

\* A row as the statements leave it: read or deleted, but not unread again, and
\* never somebody else's.
Advances ==
  \A n \in Notes : Used(n) =>
    /\ note'[n].state # "unused"
    /\ note[n].state # "unread" => note'[n].state # "unread"
    /\ note'[n].user = note[n].user /\ note'[n].kind = note[n].kind /\ note'[n].born = note[n].born

------------------------------------------------------------------------------
(* The parts of the invariant.                                             *)

\* A handler of a creation that has read its row back holds a row of its user, and
\* what it has seen of it is not read unless the row is no longer unread.
Carries(table, h) ==
  /\ h.at \in CreateSteps => h.kind \in Kinds
  /\ h.at \in {"create_insert", "create_read"} => h.me \in Users
  /\ h.at = "create_cache" =>
       /\ h.me \in Users /\ h.note \in Notes /\ h.seen \in {"unread", "read"}
       /\ table[h.note].state # "unused" /\ table[h.note].user = h.me
       /\ h.seen = "read" => table[h.note].state # "unread"
  /\ h.at \in MarkSteps \cup DeleteSteps => h.note \in Notes

InFlight == \A s \in Slots : Carries(note, call[s])

\* Rows are not dated after the clock, and only used ones are pushed.
Dated == \A n \in Notes : /\ Used(n) => note[n].born <= now
                          /\ ~Used(n) => pushed[n] = 0

\* A copy is the owner's, and says read only of what is no longer unread.
CopiesAreOwners ==
  \A k \in Keys : cache[k] # "none" =>
    /\ Used(k[2]) /\ note[k[2]].user = k[1]
    /\ cache[k] = "read" => note[k[2]].state # "unread"

\* While requests do not overlap there is one handler at most.
OneHandler ==
  overlapped \/ \A s, q \in Slots : (call[s] # Idle /\ call[q] # Idle) => s = q

IInv ==
  /\ TypeOK
  /\ InFlight
  /\ Dated
  /\ CopiesAreOwners
  /\ OneHandler

------------------------------------------------------------------------------
(* Types.                                                                  *)

LEMMA StepNames ==
  /\ "idle" \notin Steps
  /\ CreateSteps \subseteq Steps /\ MarkSteps \subseteq Steps
  /\ AllSteps \subseteq Steps /\ DeleteSteps \subseteq Steps
  /\ Idle \notin Handlers
BY DEF Steps, CreateSteps, MarkSteps, AllSteps, DeleteSteps, Idle, Handlers

LEMMA InHandlers ==
  ASSUME TypeOK, NEW s \in Slots, call[s].at \in Steps
  PROVE  call[s] \in Handlers
BY StepNames DEF TypeOK, Idle

LEMMA EndTypes ==
  ASSUME TypeOK, NEW s \in Slots, End(s)
  PROVE  /\ call' \in Calls
         /\ \A q \in Slots : call'[q] = IF q = s THEN Idle ELSE call[q]
BY DEF TypeOK, End, Calls

LEMMA AwaitTypes ==
  ASSUME TypeOK, NEW s \in Slots, call[s].at \in Steps, NEW h \in Handlers,
         call' = [call EXCEPT ![s] = h]
  PROVE  /\ call' \in Calls
         /\ \A q \in Slots : call'[q] = IF q = s THEN h ELSE call[q]
BY DEF TypeOK, Calls

\* The handlers that go on with the next user of a bulk creation, or end it.
Nexts(h) ==
  IF h.todo = {} THEN {Idle}
  ELSE {Creating(u, h.todo \ {u}, h.kind) : u \in h.todo}

LEMMA NextsTypes ==
  ASSUME NEW h \in Handlers, NEW next \in Nexts(h)
  PROVE  /\ next \in {Idle} \cup Handlers
         /\ next.at \in {"idle", "create_insert"}
         /\ next.at = "create_insert" => next.kind = h.kind /\ next.me \in Users
<1>1. CASE next = Idle
  BY <1>1 DEF Idle
<1>2. CASE h.todo # {}
  <2>1. PICK u \in h.todo : next = Creating(u, h.todo \ {u}, h.kind)
    BY <1>2 DEF Nexts
  <2>2. u \in Users /\ h.todo \ {u} \in SUBSET Users /\ h.kind \in Kinds \cup {NoKind}
    BY <1>2 DEF Handlers
  <2> QED BY <2>1, <2>2 DEF Creating, Idle, Handlers, Steps, CreateSteps
<1> QED BY <1>1, <1>2 DEF Nexts

LEMMA NextUserTypes ==
  ASSUME TypeOK, NEW s \in Slots, call[s] \in Handlers, NextUser(s)
  PROVE  \E h \in Nexts(call[s]) :
           /\ call' = [call EXCEPT ![s] = h]
           /\ call' \in Calls
           /\ \A q \in Slots : call'[q] = IF q = s THEN h ELSE call[q]
<1>1. PICK h \in Nexts(call[s]) : call' = [call EXCEPT ![s] = h]
  BY DEF NextUser, End, Nexts
<1>2. h \in {Idle} \cup Handlers
  BY NextsTypes
<1> QED BY <1>1, <1>2 DEF TypeOK, Calls

------------------------------------------------------------------------------
(* Each step.                                                              *)

\* What a handler carries survives what others do to the rows.
LEMMA CarriesStays ==
  ASSUME Advances, NEW h, Carries(note, h)
  PROVE  Carries(note', h)
BY DEF Carries, Advances, Used

LEMMA Unchanging ==
  ASSUME UNCHANGED note
  PROVE  Advances
BY DEF Advances, Used

\* A step of the handler in s, which goes on as h.
LEMMA Flight ==
  ASSUME IInv, Advances, NEW s \in Slots, NEW h, Carries(note', h),
         \A q \in Slots : call'[q] = IF q = s THEN h ELSE call[q]
  PROVE  InFlight'
<1>1. \A q \in Slots : Carries(note', call'[q])
  BY CarriesStays DEF IInv, InFlight
<1> QED BY <1>1 DEF InFlight

LEMMA SameHandlers ==
  ASSUME OneHandler, UNCHANGED overlapped, NEW s \in Slots, call[s] # Idle, NEW h,
         \A q \in Slots : call'[q] = IF q = s THEN h ELSE call[q]
  PROVE  OneHandler'
BY DEF OneHandler

LEMMA IdleCarriesNothing == Carries(note', Idle)
BY DEF Carries, Idle, CreateSteps, MarkSteps, DeleteSteps

LEMMA InitInv == Init => IInv
<1> SUFFICES ASSUME Init PROVE IInv
  OBVIOUS
<1>1. TypeOK
  <2>1. 0 \in 0..MaxSecond /\ 0 \in Nat
    BY NotificationsAssumption
  <2>2. missed \in BOOLEAN /\ overlapped \in BOOLEAN
    BY DEF Init
  <2> QED BY <2>1, <2>2 DEF Init, TypeOK
<1>2. InFlight
  BY DEF Init, InFlight, Carries, Idle, CreateSteps, MarkSteps, DeleteSteps
<1>3. Dated /\ CopiesAreOwners /\ OneHandler
  BY DEF Init, Dated, CopiesAreOwners, OneHandler, Used, Unused, Keys
<1> QED BY <1>1, <1>2, <1>3 DEF IInv

LEMMA BeginInv ==
  ASSUME IInv, NEW s \in Slots, NEW h \in Handlers, Carries(note, h), Begin(s, h)
  PROVE  IInv'
<1>1. /\ call' = [call EXCEPT ![s] = h] /\ call[s] = Idle
      /\ overlapped' = (overlapped \/ \E q \in Slots \ {s} : call[q] # Idle)
      /\ UNCHANGED <<note, cache, now, pushed, swept, missed>>
  BY DEF Begin
<1>2. \A q \in Slots : call'[q] = IF q = s THEN h ELSE call[q]
  BY <1>1 DEF IInv, TypeOK
<1>3. overlapped' \in BOOLEAN
  BY <1>1 DEF IInv, TypeOK
<1>4. TypeOK'
  BY <1>1, <1>3 DEF IInv, TypeOK
<1>5. Carries(note', h) /\ Advances
  BY <1>1, Unchanging
<1>6. InFlight'
  BY <1>2, <1>5, Flight
<1>7. OneHandler'
  BY <1>1, <1>2 DEF OneHandler
<1> QED BY <1>1, <1>4, <1>6, <1>7 DEF IInv, Dated, CopiesAreOwners, Used

LEMMA RequestInv ==
  ASSUME IInv, NEW s \in Slots, Request(s)
  PROVE  IInv'
<1>1. ASSUME NEW us \in SUBSET Users, NEW k \in Kinds, createBulkNotifications(s, us, k)
      PROVE  IInv'
  <2>1. PICK u \in us : Begin(s, Creating(u, us \ {u}, k))
    BY <1>1 DEF createBulkNotifications
  <2> DEFINE h == Creating(u, us \ {u}, k)
  <2>2. h \in Handlers /\ Carries(note, h)
    BY DEF Creating, Idle, Handlers, Carries, Steps, CreateSteps, MarkSteps, DeleteSteps
  <2> QED BY <2>1, <2>2, BeginInv
<1>2. ASSUME NEW u \in Users, NEW n \in Notes, NEW at \in {"mark_update", "delete_row"},
             Begin(s, [Idle EXCEPT !.at = at, !.me = u, !.note = n])
      PROVE  IInv'
  <2> DEFINE h == [Idle EXCEPT !.at = at, !.me = u, !.note = n]
  <2>1. h \in Handlers /\ Carries(note, h)
    BY DEF Idle, Handlers, Carries, Steps, CreateSteps, MarkSteps, DeleteSteps
  <2> QED BY <1>2, <2>1, BeginInv
<1>3. ASSUME NEW u \in Users, markAllAsRead(s, u)
      PROVE  IInv'
  <2> DEFINE h == [Idle EXCEPT !.at = "all_update", !.me = u]
  <2>1. h \in Handlers /\ Carries(note, h)
    BY DEF Idle, Handlers, Carries, Steps, CreateSteps, MarkSteps, AllSteps, DeleteSteps
  <2> QED BY <1>3, <2>1, BeginInv DEF markAllAsRead
<1>4. Given \subseteq Notes
  BY DEF Given
<1>5. \A u \in Users : {u} \in SUBSET Users
  OBVIOUS
<1> QED
  BY <1>1, <1>2, <1>3, <1>4, <1>5
     DEF Request, notify, createNotification, markAsRead, deleteNotification

\* A step of a handler that leaves the tables and the cache as they are.
LEMMA QuietStep ==
  ASSUME IInv, NEW s \in Slots, call[s].at \in Steps,
         UNCHANGED <<note, cache, now, pushed, swept, overlapped>>, missed' \in BOOLEAN,
         NEW h \in {Idle} \cup Handlers, Carries(note, h), call' = [call EXCEPT ![s] = h]
  PROVE  IInv'
<1>1. call' \in Calls /\ \A q \in Slots : call'[q] = IF q = s THEN h ELSE call[q]
  BY DEF IInv, TypeOK, Calls
<1>2. Advances /\ Carries(note', h)
  BY Unchanging
<1>3. InFlight'
  BY <1>1, <1>2, Flight
<1>4. call[s] # Idle
  BY StepNames DEF Idle
<1>5. OneHandler'
  BY <1>1, <1>4, SameHandlers DEF IInv
<1> QED BY <1>1, <1>3, <1>5 DEF IInv, TypeOK, Calls, Dated, CopiesAreOwners, Used

LEMMA QuietEnd ==
  ASSUME IInv, NEW s \in Slots, call[s].at \in Steps, End(s),
         UNCHANGED <<note, cache, now, pushed, swept, overlapped>>, missed' \in BOOLEAN
  PROVE  IInv'
BY IdleCarriesNothing, QuietStep DEF End

\* The next user of a bulk is a user, and the kind is the same.
LEMMA NextUserCarries ==
  ASSUME NEW h \in Handlers, h.kind \in Kinds, NEW next \in Nexts(h), NEW table
  PROVE  Carries(table, next)
BY NextsTypes DEF Carries, Idle, CreateSteps, MarkSteps, DeleteSteps

LEMMA QuietNextUser ==
  ASSUME IInv, NEW s \in Slots, call[s].at \in CreateSteps, NextUser(s),
         UNCHANGED <<note, cache, now, pushed, swept, overlapped>>, missed' \in BOOLEAN
  PROVE  IInv'
<1>1. call[s] \in Handlers /\ call[s].at \in Steps /\ call[s].kind \in Kinds
  BY StepNames, InHandlers DEF IInv, InFlight, Carries
<1>2. PICK h \in Nexts(call[s]) : call' = [call EXCEPT ![s] = h]
  BY <1>1, NextUserTypes DEF IInv
<1>3. h \in {Idle} \cup Handlers /\ Carries(note, h)
  BY <1>1, NextsTypes, NextUserCarries
<1> QED BY <1>1, <1>2, <1>3, QuietStep

------------------------------------------------------------------------------
(* The statements.                                                         *)

LEMMA InsertInv ==
  ASSUME IInv, NEW s \in Slots, CreateInsert(s)
  PROVE  IInv'
<1>1. /\ call[s].at = "create_insert" /\ call[s].at \in Steps /\ call[s] \in Handlers
      /\ call[s].kind \in Kinds /\ call[s] # Idle
      /\ UNCHANGED <<cache, now, pushed, swept, missed, overlapped>>
  BY StepNames, InHandlers DEF CreateInsert, At, CreateSteps, IInv, InFlight, Carries, Idle
<1>2. PICK n \in Notes :
        /\ note[n].state = "unused"
        /\ note' = [note EXCEPT ![n] =
             [state |-> "unread", user |-> call[s].me, kind |-> call[s].kind, born |-> now]]
  BY DEF CreateInsert
<1> DEFINE u == call[s].me
           h == [call[s] EXCEPT !.at = "create_read"]
           row == [state |-> "unread", user |-> u, kind |-> call[s].kind, born |-> now]
<1>3. u \in Users /\ row \in Rows
  BY <1>1 DEF Rows, IInv, TypeOK, InFlight, Carries
<1>4. \A m \in Notes : note'[m] = IF m = n THEN row ELSE note[m]
  BY <1>2 DEF IInv, TypeOK
<1>5. note' \in Table /\ Advances
  BY <1>2, <1>3, <1>4 DEF IInv, TypeOK, Table, Advances, Used
<1>6. h \in Handlers /\ h.at = "create_read" /\ h.me = u /\ h.kind = call[s].kind
  BY <1>1, <1>3 DEF Handlers, Steps, CreateSteps
<1>7. call' = [call EXCEPT ![s] = h]
  BY DEF CreateInsert, Await
<1> HIDE DEF h
<1>8. call' \in Calls /\ \A q \in Slots : call'[q] = IF q = s THEN h ELSE call[q]
  BY <1>1, <1>6, <1>7, AwaitTypes DEF IInv
<1>9. Carries(note', h)
  BY <1>1, <1>3, <1>6 DEF Carries, MarkSteps, DeleteSteps
<1>10. InFlight'
  BY <1>5, <1>8, <1>9, Flight
<1>11. OneHandler'
  BY <1>1, <1>8, SameHandlers DEF IInv
<1>12. Dated'
  <2>1. now \in Nat
    BY NotificationsAssumption DEF IInv, TypeOK
  <2> QED BY <1>1, <1>2, <1>4, <2>1 DEF IInv, Dated, Used
<1>13. CopiesAreOwners'
  BY <1>1, <1>2, <1>4 DEF IInv, CopiesAreOwners, Used, Keys
<1> QED BY <1>1, <1>5, <1>8, <1>10, <1>11, <1>12, <1>13 DEF IInv, TypeOK, Calls, Table

LEMMA CreateReadInv ==
  ASSUME IInv, NEW s \in Slots, CreateRead(s)
  PROVE  IInv'
<1>1. /\ call[s].at = "create_read" /\ call[s].at \in CreateSteps /\ call[s].at \in Steps
      /\ call[s] \in Handlers
      /\ UNCHANGED <<note, cache, now, pushed, swept, missed, overlapped>>
  BY StepNames, InHandlers DEF CreateRead, At, CreateSteps, IInv
<1>2. call[s].kind \in Kinds /\ call[s].me \in Users /\ missed' \in BOOLEAN
  BY <1>1 DEF IInv, InFlight, Carries, TypeOK
<1>3. ASSUME NEW n \in Latest(call[s].me, call[s].kind),
             call' = [call EXCEPT ![s].at = "create_cache", ![s].note = n, ![s].seen = note[n].state]
      PROVE  IInv'
  <2> DEFINE h == [call[s] EXCEPT !.at = "create_cache", !.note = n, !.seen = note[n].state]
  <2>1. n \in Notes /\ note[n].state \in {"unread", "read"} /\ note[n].user = call[s].me
    BY DEF Latest, Present
  <2>2. /\ h \in Handlers /\ h.at = "create_cache" /\ h.me = call[s].me /\ h.kind = call[s].kind
        /\ h.note = n /\ h.seen = note[n].state
    BY <1>1, <2>1 DEF Handlers, Steps, CreateSteps
  <2>3. call' = [call EXCEPT ![s] = h]
    BY <1>3
  <2> HIDE DEF h
  <2>4. Carries(note, h)
    BY <1>2, <2>1, <2>2 DEF Carries, MarkSteps, DeleteSteps
  <2> QED BY <1>1, <1>2, <2>2, <2>3, <2>4, QuietStep
<1> QED BY <1>1, <1>2, <1>3, QuietNextUser DEF CreateRead

LEMMA CacheInv ==
  ASSUME IInv, NEW s \in Slots, CreateCache(s)
  PROVE  IInv'
<1> DEFINE u == call[s].me
           n == call[s].note
<1>1. /\ call[s].at = "create_cache" /\ call[s].at \in CreateSteps /\ call[s].at \in Steps
      /\ call[s] \in Handlers /\ NextUser(s) /\ call[s] # Idle
      /\ UNCHANGED <<note, now, swept, overlapped>>
  BY StepNames, InHandlers DEF CreateCache, At, CreateSteps, IInv, Idle
<1>2. /\ call[s].kind \in Kinds /\ u \in Users /\ n \in Notes /\ call[s].seen \in {"unread", "read"}
      /\ Used(n) /\ note[n].user = u
      /\ call[s].seen = "read" => note[n].state # "unread"
  BY <1>1 DEF IInv, InFlight, Carries, Used
<1>3. PICK h \in Nexts(call[s]) :
        /\ call' \in Calls
        /\ \A q \in Slots : call'[q] = IF q = s THEN h ELSE call[q]
  BY <1>1, NextUserTypes DEF IInv
<1>4. Carries(note', h)
  BY <1>1, <1>2, NextUserCarries
<1>5. InFlight'
  BY <1>1, <1>3, <1>4, Unchanging, Flight
<1>6. OneHandler'
  BY <1>1, <1>3, SameHandlers DEF IInv
<1>7. missed' \in BOOLEAN
  BY DEF CreateCache, IInv, TypeOK
<1>8. \/ UNCHANGED cache
      \/ cache' = [cache EXCEPT ![<<u, n>>] = call[s].seen]
  BY DEF CreateCache, cacheNotification
<1>9. cache' \in [Keys -> States] /\ CopiesAreOwners'
  <2>1. <<u, n>> \in Keys
    BY <1>2 DEF Keys
  <2>2. CASE UNCHANGED cache
    BY <1>1, <2>2 DEF IInv, TypeOK, States, CopiesAreOwners, Used
  <2>3. CASE cache' = [cache EXCEPT ![<<u, n>>] = call[s].seen]
    <3>1. \A k \in Keys : cache'[k] = IF k = <<u, n>> THEN call[s].seen ELSE cache[k]
      BY <2>3 DEF IInv, TypeOK
    <3>2. cache' \in [Keys -> States]
      BY <1>2, <2>3 DEF IInv, TypeOK, States
    <3>3. ASSUME NEW k \in Keys, cache'[k] # "none"
          PROVE  /\ note[k[2]].state # "unused" /\ note[k[2]].user = k[1]
                 /\ cache'[k] = "read" => note[k[2]].state # "unread"
      <4>1. CASE k = <<u, n>>
        <5> HIDE DEF u, n
        <5>1. k[1] = u /\ k[2] = n
          BY <4>1
        <5>2. cache'[k] = call[s].seen
          BY <3>1, <4>1
        <5> QED BY <1>2, <5>1, <5>2 DEF Used
      <4>2. CASE k # <<u, n>>
        <5>1. cache'[k] = cache[k]
          BY <3>1, <4>2
        <5> QED BY <3>3, <5>1 DEF IInv, CopiesAreOwners, Used
      <4> QED BY <4>1, <4>2
    <3>4. CopiesAreOwners'
      BY <1>1, <3>3 DEF CopiesAreOwners, Used
    <3> QED BY <3>2, <3>4
  <2> QED BY <1>8, <2>2, <2>3
<1>10. pushed' \in [Notes -> Nat] /\ \A m \in Notes \ {n} : pushed'[m] = pushed[m]
  BY <1>2 DEF CreateCache, pushNotificationToUser, IInv, TypeOK
<1>11. ASSUME NEW m \in Notes
       PROVE  /\ note[m].state # "unused" => note[m].born <= now
              /\ note[m].state = "unused" => pushed'[m] = 0
  <2>1. CASE m = n
    BY <1>2, <2>1 DEF IInv, Dated, Used
  <2>2. CASE m # n
    <3>1. pushed'[m] = pushed[m]
      BY <1>10, <2>2
    <3>2. /\ note[m].state # "unused" => note[m].born <= now
          /\ ~(note[m].state # "unused") => pushed[m] = 0
      BY DEF IInv, Dated, Used
    <3> QED BY <3>1, <3>2
  <2> QED BY <2>1, <2>2
<1>12. Dated'
  BY <1>1, <1>11 DEF Dated, Used
<1> QED BY <1>1, <1>3, <1>5, <1>6, <1>7, <1>9, <1>10, <1>12 DEF IInv, TypeOK, Calls, States

\* Rows in use become read, or deleted.
LEMMA Marking ==
  ASSUME IInv, NEW M \in SUBSET Notes, \A n \in M : Used(n), NEW st \in {"read", "deleted"},
         note' = [n \in Notes |-> IF n \in M THEN [note[n] EXCEPT !.state = st] ELSE note[n]],
         UNCHANGED <<cache, now, pushed>>
  PROVE  note' \in Table /\ Advances /\ Dated' /\ CopiesAreOwners'
<1>1. \A n \in M : note[n] \in Rows
  BY DEF IInv, TypeOK, Used, Unused
<1>2. \A n \in Notes : /\ note'[n].state = IF n \in M THEN st ELSE note[n].state
                       /\ note'[n].user = note[n].user /\ note'[n].kind = note[n].kind
                       /\ note'[n].born = note[n].born
  BY <1>1 DEF Rows
<1>3. note' \in Table
  BY <1>1 DEF IInv, TypeOK, Table, Rows
<1>4. Advances
  BY <1>2 DEF Advances, Used
<1>5. \A n \in Notes : /\ (note'[n].state # "unused") <=> Used(n)
                       /\ note[n].state # "unread" => note'[n].state # "unread"
  BY <1>2 DEF Used
<1>6. Dated'
  BY <1>2, <1>5 DEF IInv, Dated, Used
<1>7. CopiesAreOwners'
  <2> SUFFICES ASSUME NEW k \in Keys, cache[k] # "none"
               PROVE  /\ note'[k[2]].state # "unused" /\ note'[k[2]].user = k[1]
                      /\ cache[k] = "read" => note'[k[2]].state # "unread"
    BY DEF CopiesAreOwners, Used
  <2>1. k[2] \in Notes
    BY DEF Keys
  <2>2. /\ Used(k[2]) /\ note[k[2]].user = k[1]
        /\ cache[k] = "read" => note[k[2]].state # "unread"
    BY DEF IInv, CopiesAreOwners
  <2> QED BY <1>2, <1>5, <2>1, <2>2
<1> QED BY <1>3, <1>4, <1>6, <1>7

\* The handler that marks or deletes goes on, or ends.
LEMMA MarkingInv ==
  ASSUME IInv, NEW s \in Slots, call[s].at \in MarkSteps \cup AllSteps \cup DeleteSteps,
         NEW M \in SUBSET Notes, \A n \in M : Used(n), NEW st \in {"read", "deleted"},
         note' = [n \in Notes |-> IF n \in M THEN [note[n] EXCEPT !.state = st] ELSE note[n]],
         UNCHANGED <<cache, now, pushed, missed, overlapped>>, swept' \subseteq Notes,
         NEW step \in MarkSteps \cup AllSteps \cup DeleteSteps, Await(s, step),
         step \in MarkSteps \cup DeleteSteps => call[s].at \notin AllSteps
  PROVE  IInv'
<1> DEFINE h == [call[s] EXCEPT !.at = step]
<1>1. call[s].at \in Steps /\ step \in Steps /\ call[s] \in Handlers /\ call[s] # Idle
  BY StepNames, InHandlers DEF IInv, Steps, Idle
<1>2. h \in Handlers /\ h.at = step /\ h.note = call[s].note
  BY <1>1 DEF Handlers
<1>3. call' = [call EXCEPT ![s] = h]
  BY DEF Await
<1> HIDE DEF h
<1>4. call' \in Calls /\ \A q \in Slots : call'[q] = IF q = s THEN h ELSE call[q]
  BY <1>1, <1>2, <1>3, AwaitTypes DEF IInv
<1>5. Carries(note', h)
  BY <1>2 DEF IInv, InFlight, Carries, CreateSteps, MarkSteps, AllSteps, DeleteSteps
<1>6. note' \in Table /\ Advances /\ Dated' /\ CopiesAreOwners'
  BY Marking
<1>7. InFlight'
  BY <1>4, <1>5, <1>6, Flight
<1>8. OneHandler'
  BY <1>1, <1>4, SameHandlers DEF IInv
<1>9. missed' \in BOOLEAN /\ overlapped' \in BOOLEAN
  BY DEF IInv, TypeOK
<1> QED BY <1>4, <1>6, <1>7, <1>8, <1>9 DEF IInv, TypeOK, Calls, Table

LEMMA MarkUpdateInv ==
  ASSUME IInv, NEW s \in Slots, MarkUpdate(s)
  PROVE  IInv'
<1> DEFINE n == call[s].note
           M == {m \in {n} : Present(n) /\ note[n].user = call[s].me}
<1>1. /\ call[s].at = "mark_update" /\ Await(s, "mark_read")
      /\ UNCHANGED <<cache, now, pushed, swept, missed, overlapped>>
  BY DEF MarkUpdate, At
<1>2. n \in Notes
  BY <1>1 DEF IInv, InFlight, Carries, MarkSteps
<1>3. note' = [m \in Notes |-> IF m \in M THEN [note[m] EXCEPT !.state = "read"] ELSE note[m]]
  BY <1>2 DEF MarkUpdate, IInv, TypeOK
<1>4. M \in SUBSET Notes /\ \A m \in M : Used(m)
  BY <1>2 DEF Present, Used
<1>5. swept' \subseteq Notes
  BY <1>1 DEF IInv, TypeOK
<1> HIDE DEF M
<1> QED BY <1>1, <1>3, <1>4, <1>5, MarkingInv DEF MarkSteps, AllSteps, DeleteSteps

LEMMA AllUpdateInv ==
  ASSUME IInv, NEW s \in Slots, AllUpdate(s)
  PROVE  IInv'
<1> DEFINE M == {n \in Notes : note[n].state = "unread" /\ note[n].user = call[s].me}
<1>1. /\ call[s].at = "all_update" /\ Await(s, "all_uncache")
      /\ UNCHANGED <<cache, now, pushed, missed, overlapped>>
      /\ note' = [m \in Notes |-> IF m \in M THEN [note[m] EXCEPT !.state = "read"] ELSE note[m]]
      /\ swept' = swept \cup M
  BY DEF AllUpdate, At
<1>2. M \in SUBSET Notes /\ \A m \in M : Used(m)
  BY DEF Used
<1>3. swept' \subseteq Notes
  BY <1>1, <1>2 DEF IInv, TypeOK
<1> HIDE DEF M
<1> QED BY <1>1, <1>2, <1>3, MarkingInv DEF MarkSteps, AllSteps, DeleteSteps

LEMMA DeleteRowInv ==
  ASSUME IInv, NEW s \in Slots, DeleteRow(s)
  PROVE  IInv'
<1> DEFINE n == call[s].note
<1>1. /\ call[s].at = "delete_row" /\ call[s].at \in Steps
      /\ UNCHANGED <<cache, now, pushed, swept, missed, overlapped>>
  BY DEF DeleteRow, At, Steps, DeleteSteps
<1>2. n \in Notes /\ swept' \subseteq Notes /\ missed' \in BOOLEAN
  BY <1>1 DEF IInv, InFlight, Carries, DeleteSteps, TypeOK
<1>3. CASE Present(n) /\ note' = [note EXCEPT ![n].state = "deleted"] /\ Await(s, "delete_uncache")
  <2>1. note' = [m \in Notes |-> IF m \in {n} THEN [note[m] EXCEPT !.state = "deleted"] ELSE note[m]]
    BY <1>2, <1>3 DEF IInv, TypeOK
  <2>2. {n} \in SUBSET Notes /\ \A m \in {n} : Used(m)
    BY <1>2, <1>3 DEF Present, Used
  <2> QED BY <1>1, <1>2, <1>3, <2>1, <2>2, MarkingInv DEF MarkSteps, AllSteps, DeleteSteps
<1>4. CASE End(s) /\ UNCHANGED note
  BY <1>1, <1>2, <1>4, QuietEnd
<1> QED BY <1>3, <1>4 DEF DeleteRow

LEMMA MarkReadInv ==
  ASSUME IInv, NEW s \in Slots, MarkRead(s)
  PROVE  IInv'
<1>1. /\ call[s].at = "mark_read" /\ call[s].at \in Steps /\ call[s] \in Handlers
      /\ UNCHANGED <<note, cache, now, pushed, swept, missed, overlapped>>
  BY StepNames, InHandlers DEF MarkRead, At, Steps, MarkSteps, IInv
<1>2. missed' \in BOOLEAN /\ call[s].note \in Notes
  BY <1>1 DEF IInv, TypeOK, InFlight, Carries, MarkSteps
<1>3. CASE Await(s, "mark_uncache")
  <2> DEFINE h == [call[s] EXCEPT !.at = "mark_uncache"]
  <2>1. h \in Handlers /\ h.at = "mark_uncache" /\ h.note = call[s].note
    BY <1>1 DEF Handlers, Steps, MarkSteps
  <2>2. call' = [call EXCEPT ![s] = h]
    BY <1>3 DEF Await
  <2> HIDE DEF h
  <2>3. Carries(note, h)
    BY <1>2, <2>1 DEF Carries, CreateSteps
  <2> QED BY <1>1, <1>2, <2>1, <2>2, <2>3, QuietStep
<1>4. CASE End(s)
  BY <1>1, <1>2, <1>4, QuietEnd
<1> QED BY <1>3, <1>4 DEF MarkRead

\* A copy is deleted, or the command fails; nothing else changes.
LEMMA UncacheInv ==
  ASSUME IInv, NEW s \in Slots, call[s].at \in Steps, NEW key, Uncache(s, key)
  PROVE  IInv'
<1>1. /\ End(s) /\ UNCHANGED <<note, now, pushed, swept, overlapped>> /\ call[s] # Idle
  BY StepNames DEF Uncache, Idle
<1>2. missed' \in BOOLEAN
  BY DEF Uncache, IInv, TypeOK
<1>3. call' \in Calls /\ \A q \in Slots : call'[q] = IF q = s THEN Idle ELSE call[q]
  BY <1>1, EndTypes DEF IInv
<1>4. InFlight'
  BY <1>1, <1>3, IdleCarriesNothing, Unchanging, Flight
<1>5. OneHandler'
  BY <1>1, <1>3, SameHandlers DEF IInv
<1>6. \A k \in Keys : cache'[k] # "none" => cache'[k] = cache[k]
  BY DEF Uncache, Del
<1>7. cache' \in [Keys -> States]
  BY DEF Uncache, Del, IInv, TypeOK, States
<1>8. Dated' /\ CopiesAreOwners'
  BY <1>1, <1>6 DEF IInv, Dated, CopiesAreOwners, Used
<1> QED BY <1>1, <1>2, <1>3, <1>4, <1>5, <1>7, <1>8 DEF IInv, TypeOK, Calls, States

LEMMA FailInv ==
  ASSUME IInv, NEW s \in Slots, Fail(s)
  PROVE  IInv'
<1>1. /\ call[s].at \in Steps
      /\ UNCHANGED <<note, cache, now, pushed, swept, overlapped>>
  BY DEF Fail
<1>2. missed' \in BOOLEAN
  BY DEF Fail, IInv, TypeOK
<1> QED BY <1>1, <1>2, QuietEnd, QuietNextUser DEF Fail

LEMMA TickInv ==
  ASSUME IInv, Tick
  PROVE  IInv'
<1>1. now \in Nat /\ MaxSecond \in Nat /\ now \in 0..MaxSecond
  BY NotificationsAssumption DEF IInv, TypeOK
<1>2. now' \in 0..MaxSecond
  BY <1>1 DEF Tick
<1>3. Dated'
  <2> SUFFICES ASSUME NEW n \in Notes PROVE (Used(n)' => note'[n].born <= now') /\ (~Used(n)' => pushed'[n] = 0)
    BY DEF Dated
  <2>1. Used(n) => note[n].born \in Nat
    BY DEF IInv, TypeOK, Rows, Used, Unused
  <2> QED BY <1>1, <2>1 DEF Tick, IInv, Dated, Used
<1>4. InFlight' /\ CopiesAreOwners' /\ OneHandler'
  BY DEF Tick, IInv, InFlight, CopiesAreOwners, OneHandler, Used
<1>5. missed' \in BOOLEAN /\ overlapped' \in BOOLEAN
  BY DEF Tick, IInv, TypeOK
<1> QED BY <1>2, <1>3, <1>4, <1>5 DEF Tick, IInv, TypeOK

LEMMA ExpireInv ==
  ASSUME IInv, NEW k \in Keys, Expire(k)
  PROVE  IInv'
<1>1. \A j \in Keys : cache'[j] # "none" => cache'[j] = cache[j]
  BY DEF Expire, IInv, TypeOK
<1>2. cache' \in [Keys -> States]
  BY DEF Expire, IInv, TypeOK, States
<1>3. InFlight' /\ Dated' /\ CopiesAreOwners' /\ OneHandler'
  BY <1>1 DEF Expire, IInv, InFlight, Dated, CopiesAreOwners, OneHandler, Used
<1>4. missed' \in BOOLEAN /\ overlapped' \in BOOLEAN
  BY DEF Expire, IInv, TypeOK
<1> QED BY <1>2, <1>3, <1>4 DEF Expire, IInv, TypeOK, States

LEMMA StatementInv ==
  ASSUME IInv, NEW s \in Slots, Statement(s)
  PROVE  IInv'
<1>1. MarkUncache(s) \/ AllUncache(s) \/ DeleteUncache(s) => IInv'
  BY UncacheInv DEF MarkUncache, AllUncache, DeleteUncache, At, Steps, MarkSteps, AllSteps, DeleteSteps
<1> QED
  BY <1>1, InsertInv, CreateReadInv, CacheInv, MarkUpdateInv, MarkReadInv, AllUpdateInv, DeleteRowInv
     DEF Statement

LEMMA StepInv == IInv /\ [Next]_vars => IInv'
<1> SUFFICES ASSUME IInv, [Next]_vars PROVE IInv'
  OBVIOUS
<1>1. CASE UNCHANGED vars
  BY <1>1 DEF vars, IInv, TypeOK, InFlight, Dated, CopiesAreOwners, OneHandler, Used
<1> QED BY <1>1, TickInv, ExpireInv, RequestInv, StatementInv, FailInv DEF Next

\* The inductive invariant: types, what each handler carries, whose the copies are.
THEOREM Invariance == Spec => []IInv
BY InitInv, StepInv, PTL DEF Spec

\* Type correctness.
THEOREM TypeCorrect == Spec => []TypeOK
<1>1. IInv => TypeOK
  BY DEF IInv
<1> QED BY <1>1, Invariance, PTL

\* A copy never says read of what is unread, whatever interleaves or fails.
THEOREM CopiesHideNothing == Spec => []CopyNeverHidesUnread
<1>1. IInv => CopyNeverHidesUnread
  BY DEF IInv, CopiesAreOwners, CopyNeverHidesUnread
<1> QED BY <1>1, Invariance, PTL

------------------------------------------------------------------------------
(* While requests do not overlap.                                          *)

LEMMA Goes ==
  ASSUME IInv, NEW s \in Slots, call[s] \in Handlers, NextUser(s)
  PROVE  call'[s].at \in {"idle", "create_insert"}
<1>1. PICK h \in Nexts(call[s]) : \A q \in Slots : call'[q] = IF q = s THEN h ELSE call[q]
  BY NextUserTypes DEF IInv
<1> QED BY <1>1, NextsTypes

\* Of a handler that does something, the rest is idle.
LEMMA Only ==
  ASSUME IInv, NEW s \in Slots, Statement(s) \/ Fail(s), ~overlapped'
  PROVE  /\ ~overlapped /\ call[s].at \in Steps /\ call[s] \in Handlers
         /\ \A q \in Slots \ {s} : call[q] = Idle /\ call'[q] = Idle
<1>1. call[s].at \in Steps /\ UNCHANGED overlapped
  BY DEF Statement, Fail, CreateInsert, CreateRead, CreateCache, MarkUpdate, MarkRead, MarkUncache,
         AllUpdate, AllUncache, DeleteRow, DeleteUncache, Uncache, At,
         Steps, CreateSteps, MarkSteps, AllSteps, DeleteSteps
<1>2. call[s] \in Handlers /\ call[s] # Idle
  BY <1>1, InHandlers, StepNames DEF IInv
<1>3. \A q \in Slots \ {s} : call[q] = Idle
  BY <1>1, <1>2 DEF IInv, OneHandler
<1>4. \A q \in Slots \ {s} : call'[q] = call[q]
  BY DEF Statement, Fail, CreateInsert, CreateRead, CreateCache, MarkUpdate, MarkRead, MarkUncache,
         AllUpdate, AllUncache, DeleteRow, DeleteUncache, Uncache, Await, End, NextUser, IInv, TypeOK
<1> QED BY <1>1, <1>2, <1>3, <1>4

\* The rest is idle when a handler begins, or requests overlap.
LEMMA Begins ==
  ASSUME IInv, NEW s \in Slots, Request(s), ~overlapped'
  PROVE  /\ ~overlapped /\ \A q \in Slots : call[q] = Idle
         /\ \A q \in Slots \ {s} : call'[q] = Idle
         /\ call'[s].at \in {"create_insert", "mark_update", "all_update", "delete_row"}
         /\ UNCHANGED <<note, cache, now, pushed, swept, missed>>
<1>1. PICK h : /\ Begin(s, h)
               /\ h.at \in {"create_insert", "mark_update", "all_update", "delete_row"}
  <2>1. ASSUME NEW us, NEW k, createBulkNotifications(s, us, k)
        PROVE  \E h : Begin(s, h) /\ h.at = "create_insert"
    <3>1. PICK u \in us : Begin(s, Creating(u, us \ {u}, k))
      BY <2>1 DEF createBulkNotifications
    <3>2. (Creating(u, us \ {u}, k)).at = "create_insert"
      BY DEF Creating, Idle
    <3> QED BY <3>1, <3>2
  <2>2. ASSUME NEW u, NEW n, markAsRead(s, u, n)
        PROVE  \E h : Begin(s, h) /\ h.at = "mark_update"
    <3>1. ([Idle EXCEPT !.at = "mark_update", !.me = u, !.note = n]).at = "mark_update"
      BY DEF Idle
    <3>2. Begin(s, [Idle EXCEPT !.at = "mark_update", !.me = u, !.note = n])
      BY <2>2 DEF markAsRead
    <3> QED BY <3>1, <3>2
  <2>3. ASSUME NEW u, NEW n, deleteNotification(s, u, n)
        PROVE  \E h : Begin(s, h) /\ h.at = "delete_row"
    <3>1. ([Idle EXCEPT !.at = "delete_row", !.me = u, !.note = n]).at = "delete_row"
      BY DEF Idle
    <3>2. Begin(s, [Idle EXCEPT !.at = "delete_row", !.me = u, !.note = n])
      BY <2>3 DEF deleteNotification
    <3> QED BY <3>1, <3>2
  <2>4. ASSUME NEW u, markAllAsRead(s, u)
        PROVE  \E h : Begin(s, h) /\ h.at = "all_update"
    <3>1. ([Idle EXCEPT !.at = "all_update", !.me = u]).at = "all_update"
      BY DEF Idle
    <3>2. Begin(s, [Idle EXCEPT !.at = "all_update", !.me = u])
      BY <2>4 DEF markAllAsRead
    <3> QED BY <3>1, <3>2
  <2> QED BY <2>1, <2>2, <2>3, <2>4 DEF Request, notify, createNotification
<1>2. call' = [call EXCEPT ![s] = h] /\ call[s] = Idle
  BY <1>1 DEF Begin
<1>3. ~overlapped /\ \A q \in Slots \ {s} : call[q] = Idle
  BY <1>1 DEF Begin
<1>4. call'[s] = h /\ \A q \in Slots \ {s} : call'[q] = call[q]
  BY <1>2 DEF IInv, TypeOK
<1>5. UNCHANGED <<note, cache, now, pushed, swept, missed>>
  BY <1>1 DEF Begin
<1> QED BY <1>1, <1>2, <1>3, <1>4, <1>5

------------------------------------------------------------------------------
(* Copies stay current.                                                    *)

Marks(h, k) == h.at \in {"mark_read", "mark_uncache"} /\ h.note = k[2] /\ h.me = k[1]

\* The handler that caches holds what the row says, and a copy that is out of date was
\* swept, or its row deleted, or the markAsRead in flight is its owner's.
Current ==
  overlapped \/
    /\ \A s \in Slots : call[s].at = "create_cache" => call[s].seen = note[call[s].note].state
    /\ missed \/ \A k \in Keys : cache[k] \notin {"none", note[k[2]].state} =>
         \/ k[2] \in swept \/ note[k[2]].state = "deleted"
         \/ \E s \in Slots : Marks(call[s], k)

LEMMA CurrentOf ==
  ASSUME NEW s \in Slots, \A q \in Slots \ {s} : call'[q] = Idle,
         call'[s].at = "create_cache" => call'[s].seen = note'[call'[s].note].state,
         missed' \/ \A k \in Keys : cache'[k] \notin {"none", note'[k[2]].state} =>
           k[2] \in swept' \/ note'[k[2]].state = "deleted" \/ Marks(call'[s], k)
  PROVE  Current'
<1>1. \A q \in Slots : call'[q].at = "create_cache" => call'[q].seen = note'[call'[q].note].state
  BY DEF Idle
<1> QED BY <1>1 DEF Current

LEMMA WasCurrent ==
  ASSUME Current, ~overlapped, ~missed, NEW s \in Slots, \A q \in Slots \ {s} : call[q] = Idle,
         NEW k \in Keys, cache[k] \notin {"none", note[k[2]].state}
  PROVE  k[2] \in swept \/ note[k[2]].state = "deleted" \/ Marks(call[s], k)
BY DEF Current, Marks, Idle

LEMMA CurrentInsert ==
  ASSUME IInv, Current, NEW s \in Slots, CreateInsert(s), ~overlapped'
  PROVE  Current'
<1>1. /\ ~overlapped /\ call[s].at = "create_insert" /\ call[s] \in Handlers
      /\ \A q \in Slots \ {s} : call[q] = Idle /\ call'[q] = Idle
      /\ UNCHANGED <<cache, swept, missed>>
  BY Only DEF Statement, CreateInsert, At
<1>2. call'[s].at = "create_read"
  BY <1>1 DEF CreateInsert, Await, IInv, TypeOK, Handlers
<1>3. \A m \in Notes : note[m].state # "unused" => note'[m] = note[m]
  BY DEF CreateInsert, IInv, TypeOK
<1>4. ASSUME ~missed', NEW k \in Keys, cache'[k] \notin {"none", note'[k[2]].state}
      PROVE  k[2] \in swept' \/ note'[k[2]].state = "deleted" \/ Marks(call'[s], k)
  <2>1. cache[k] # "none" /\ k[2] \in Notes
    BY <1>1, <1>4 DEF Keys
  <2>2. note[k[2]].state # "unused"
    BY <2>1 DEF IInv, CopiesAreOwners, Used
  <2>3. note'[k[2]] = note[k[2]]
    BY <1>3, <2>1, <2>2
  <2>4. ~missed /\ cache[k] \notin {"none", note[k[2]].state}
    BY <1>1, <1>4, <2>3
  <2> QED BY <1>1, <2>3, <2>4, WasCurrent DEF Marks
<1> QED BY <1>1, <1>2, <1>4, CurrentOf

\* A step that changes neither rows nor copies, of a handler that marks nothing.
LEMMA CurrentQuiet ==
  ASSUME Current, NEW s \in Slots, ~overlapped,
         \A q \in Slots \ {s} : call[q] = Idle /\ call'[q] = Idle,
         UNCHANGED <<note, cache, swept>>, missed => missed',
         call'[s].at = "create_cache" => call'[s].seen = note[call'[s].note].state,
         missed' \/ \A k \in Keys :
           (Marks(call[s], k) /\ cache[k] # "none") => Marks(call'[s], k) \/ note[k[2]].state = "deleted"
  PROVE  Current'
<1>1. ASSUME ~missed', NEW k \in Keys, cache'[k] \notin {"none", note'[k[2]].state}
      PROVE  k[2] \in swept' \/ note'[k[2]].state = "deleted" \/ Marks(call'[s], k)
  <2>1. k[2] \in swept \/ note[k[2]].state = "deleted" \/ Marks(call[s], k)
    BY <1>1, WasCurrent
  <2> QED BY <1>1, <2>1
<1> QED BY <1>1, CurrentOf

LEMMA CurrentRead ==
  ASSUME IInv, Current, NEW s \in Slots, CreateRead(s), ~overlapped'
  PROVE  Current'
<1>1. /\ ~overlapped /\ call[s].at = "create_read" /\ call[s] \in Handlers
      /\ \A q \in Slots \ {s} : call[q] = Idle /\ call'[q] = Idle
      /\ UNCHANGED <<note, cache, swept, missed>>
  BY Only DEF Statement, CreateRead, At
<1>2. call'[s].at = "create_cache" => call'[s].seen = note[call'[s].note].state
  <2>1. CASE NextUser(s)
    BY <1>1, <2>1, Goes
  <2>2. ASSUME NEW n \in Latest(call[s].me, call[s].kind),
               call' = [call EXCEPT ![s].at = "create_cache", ![s].note = n, ![s].seen = note[n].state]
        PROVE  call'[s].seen = note[call'[s].note].state
    BY <1>1, <2>2 DEF IInv, TypeOK, Handlers
  <2> QED BY <2>1, <2>2 DEF CreateRead
<1>3. \A k \in Keys : ~Marks(call[s], k)
  BY <1>1 DEF Marks
<1> QED BY <1>1, <1>2, <1>3, CurrentQuiet

LEMMA CurrentCache ==
  ASSUME IInv, Current, NEW s \in Slots, CreateCache(s), ~overlapped'
  PROVE  Current'
<1> DEFINE u == call[s].me
           n == call[s].note
<1>1. /\ ~overlapped /\ call[s].at = "create_cache" /\ call[s] \in Handlers
      /\ \A q \in Slots \ {s} : call[q] = Idle /\ call'[q] = Idle
      /\ UNCHANGED <<note, swept>> /\ NextUser(s)
  BY Only DEF Statement, CreateCache, At
<1>2. call'[s].at # "create_cache"
  BY <1>1, Goes
<1>3. call[s].seen = note[n].state
  BY <1>1 DEF Current
<1>4. ASSUME ~missed', NEW k \in Keys, cache'[k] \notin {"none", note'[k[2]].state}
      PROVE  k[2] \in swept' \/ note'[k[2]].state = "deleted" \/ Marks(call'[s], k)
  <2>1. UNCHANGED missed /\ cache' = [cache EXCEPT ![<<u, n>>] = call[s].seen]
    BY <1>4 DEF CreateCache, cacheNotification
  <2>2. CASE k = <<u, n>>
    <3>1. cache'[k] = call[s].seen
      BY <2>1, <2>2 DEF IInv, TypeOK
    <3>2. k[2] = n
      BY <2>2
    <3> QED BY <1>1, <1>3, <1>4, <3>1, <3>2
  <2>3. CASE k # <<u, n>>
    <3>1. cache'[k] = cache[k]
      BY <2>1, <2>3 DEF IInv, TypeOK
    <3>2. ~Marks(call[s], k)
      BY <1>1 DEF Marks
    <3> QED BY <1>1, <1>4, <2>1, <3>1, <3>2, WasCurrent
  <2> QED BY <2>2, <2>3
<1> QED BY <1>1, <1>2, <1>4, CurrentOf

LEMMA CurrentMarkUpdate ==
  ASSUME IInv, Current, NEW s \in Slots, MarkUpdate(s), ~overlapped'
  PROVE  Current'
<1> DEFINE n == call[s].note
<1>1. /\ ~overlapped /\ call[s].at = "mark_update" /\ call[s] \in Handlers
      /\ \A q \in Slots \ {s} : call[q] = Idle /\ call'[q] = Idle
      /\ UNCHANGED <<cache, swept, missed>>
  BY Only DEF Statement, MarkUpdate, At
<1>2. call'[s].at = "mark_read" /\ call'[s].note = n /\ call'[s].me = call[s].me
  BY <1>1 DEF MarkUpdate, Await, IInv, TypeOK, Handlers
<1>3. \A m \in Notes : (m # n \/ ~Present(n) \/ note[n].user # call[s].me) => note'[m] = note[m]
  BY DEF MarkUpdate, IInv, TypeOK
<1>4. ASSUME ~missed', NEW k \in Keys, cache'[k] \notin {"none", note'[k[2]].state}
      PROVE  k[2] \in swept' \/ note'[k[2]].state = "deleted" \/ Marks(call'[s], k)
  <2>1. k[2] \in Notes /\ note[k[2]].user = k[1]
    BY <1>1, <1>4 DEF Keys, IInv, CopiesAreOwners
  <2>2. CASE k[2] = n /\ note[n].user = call[s].me
    BY <1>2, <2>1, <2>2 DEF Marks
  <2>3. CASE k[2] # n \/ note[n].user # call[s].me
    <3>1. note'[k[2]] = note[k[2]]
      BY <1>3, <2>1, <2>3
    <3>2. ~Marks(call[s], k)
      BY <1>1 DEF Marks
    <3> QED BY <1>1, <1>4, <3>1, <3>2, WasCurrent
  <2> QED BY <2>2, <2>3
<1> QED BY <1>1, <1>2, <1>4, CurrentOf

\* Nothing is left to mark when the row does not come back: it was deleted.
LEMMA CurrentMarkRead ==
  ASSUME IInv, Current, NEW s \in Slots, MarkRead(s), ~overlapped'
  PROVE  Current'
<1> DEFINE n == call[s].note
<1>1. /\ ~overlapped /\ call[s].at = "mark_read" /\ call[s] \in Handlers
      /\ \A q \in Slots \ {s} : call[q] = Idle /\ call'[q] = Idle
      /\ UNCHANGED <<note, cache, swept, missed>>
  BY Only DEF Statement, MarkRead, At
<1>2. CASE Await(s, "mark_uncache")
  <2>1. call'[s].at = "mark_uncache" /\ call'[s].note = n /\ call'[s].me = call[s].me
    BY <1>1, <1>2 DEF Await, IInv, TypeOK, Handlers
  <2>2. \A k \in Keys : Marks(call[s], k) => Marks(call'[s], k)
    BY <2>1 DEF Marks
  <2> QED BY <1>1, <2>1, <2>2, CurrentQuiet
<1>3. CASE ~(Present(n) /\ note[n].user = call[s].me) /\ End(s)
  <2>1. call'[s].at = "idle"
    BY <1>3 DEF End, Idle, IInv, TypeOK
  <2>2. ASSUME NEW k \in Keys, Marks(call[s], k), cache[k] # "none"
        PROVE  note[k[2]].state = "deleted"
    <3>1. k[2] = n /\ k[1] = call[s].me /\ n \in Notes
      BY <2>2 DEF Marks, Keys
    <3>2. note[n].state # "unused" /\ note[n].user = call[s].me
      BY <2>2, <3>1 DEF IInv, CopiesAreOwners, Used
    <3>3. note[n] \in Rows
      BY <3>1, <3>2 DEF IInv, TypeOK, Unused
    <3> QED BY <1>3, <3>1, <3>2, <3>3 DEF Present, Rows
  <2> QED BY <1>1, <2>1, <2>2, CurrentQuiet
<1> QED BY <1>2, <1>3 DEF MarkRead

LEMMA CurrentAllUpdate ==
  ASSUME IInv, Current, NEW s \in Slots, AllUpdate(s), ~overlapped'
  PROVE  Current'
<1> DEFINE M == {n \in Notes : note[n].state = "unread" /\ note[n].user = call[s].me}
<1>1. /\ ~overlapped /\ call[s].at = "all_update" /\ call[s] \in Handlers
      /\ \A q \in Slots \ {s} : call[q] = Idle /\ call'[q] = Idle
      /\ UNCHANGED <<cache, missed>> /\ swept' = swept \cup M
  BY Only DEF Statement, AllUpdate, At
<1>2. call'[s].at = "all_uncache"
  BY <1>1 DEF AllUpdate, Await, IInv, TypeOK, Handlers
<1>3. \A m \in Notes : m \notin M => note'[m] = note[m]
  BY DEF AllUpdate
<1>4. ASSUME ~missed', NEW k \in Keys, cache'[k] \notin {"none", note'[k[2]].state}
      PROVE  k[2] \in swept' \/ note'[k[2]].state = "deleted" \/ Marks(call'[s], k)
  <2>1. k[2] \in Notes
    BY DEF Keys
  <2>2. CASE k[2] \in M
    BY <1>1, <2>2
  <2>3. CASE k[2] \notin M
    <3>1. note'[k[2]] = note[k[2]]
      BY <1>3, <2>1, <2>3
    <3>2. ~Marks(call[s], k)
      BY <1>1 DEF Marks
    <3>3. k[2] \in swept \/ note[k[2]].state = "deleted"
      BY <1>1, <1>4, <3>1, <3>2, WasCurrent
    <3> QED BY <1>1, <3>1, <3>3
  <2> QED BY <2>2, <2>3
<1> QED BY <1>1, <1>2, <1>4, CurrentOf

LEMMA CurrentDeleteRow ==
  ASSUME IInv, Current, NEW s \in Slots, DeleteRow(s), ~overlapped'
  PROVE  Current'
<1> DEFINE n == call[s].note
<1>1. /\ ~overlapped /\ call[s].at = "delete_row" /\ call[s] \in Handlers
      /\ \A q \in Slots \ {s} : call[q] = Idle /\ call'[q] = Idle
      /\ UNCHANGED <<cache, swept, missed>>
  BY Only DEF Statement, DeleteRow, At
<1>2. call'[s].at # "create_cache"
  BY <1>1 DEF DeleteRow, Await, End, Idle, IInv, TypeOK, Handlers
<1>3. n \in Notes
  BY <1>1 DEF IInv, InFlight, Carries, DeleteSteps
<1>4. \A m \in Notes : note'[m] = note[m] \/ note'[m].state = "deleted"
  <2>1. \A m \in Notes : note[m] = Unused \/ note[m] \in Rows
    BY DEF IInv, TypeOK
  <2> QED BY <1>3, <2>1 DEF DeleteRow, IInv, TypeOK, Rows, Unused
<1>5. ASSUME ~missed', NEW k \in Keys, cache'[k] \notin {"none", note'[k[2]].state}
      PROVE  k[2] \in swept' \/ note'[k[2]].state = "deleted" \/ Marks(call'[s], k)
  <2>1. k[2] \in Notes /\ ~Marks(call[s], k)
    BY <1>1 DEF Keys, Marks
  <2>2. CASE note'[k[2]] = note[k[2]]
    BY <1>1, <1>5, <2>1, <2>2, WasCurrent
  <2> QED BY <1>4, <2>1, <2>2
<1> QED BY <1>1, <1>2, <1>5, CurrentOf

LEMMA CurrentUncache ==
  ASSUME IInv, Current, NEW s \in Slots, NEW key, Uncache(s, key), Statement(s), ~overlapped',
         \A k \in Keys : Marks(call[s], k) => k = key
  PROVE  Current'
<1>1. /\ ~overlapped /\ \A q \in Slots \ {s} : call[q] = Idle /\ call'[q] = Idle
      /\ UNCHANGED <<note, swept>>
  BY Only DEF Uncache
<1>2. call'[s].at = "idle"
  BY DEF Uncache, End, Idle, IInv, TypeOK
<1>3. ASSUME ~missed', NEW k \in Keys, cache'[k] \notin {"none", note'[k[2]].state}
      PROVE  k[2] \in swept' \/ note'[k[2]].state = "deleted" \/ Marks(call'[s], k)
  <2>1. k # key /\ cache'[k] = cache[k] /\ ~missed
    BY <1>3 DEF Uncache, Del
  <2> QED BY <1>1, <1>3, <2>1, WasCurrent
<1> QED BY <1>1, <1>2, <1>3, CurrentOf

LEMMA CurrentFail ==
  ASSUME IInv, Current, NEW s \in Slots, Fail(s), ~overlapped'
  PROVE  Current'
<1>1. /\ ~overlapped /\ call[s] \in Handlers
      /\ \A q \in Slots \ {s} : call[q] = Idle /\ call'[q] = Idle
      /\ UNCHANGED <<note, cache, swept>>
      /\ missed => missed'
      /\ call[s].at # "mark_uncache"
  BY Only DEF Fail
<1>2. missed' \/ \A k \in Keys : ~Marks(call[s], k)
  BY <1>1 DEF Fail, At, Marks
<1>3. call'[s].at # "create_cache"
  <2>1. NextUser(s) => call'[s].at # "create_cache"
    BY <1>1, Goes
  <2>2. End(s) => call'[s].at # "create_cache"
    BY DEF End, Idle, IInv, TypeOK
  <2> QED BY <2>1, <2>2 DEF Fail
<1> QED BY <1>1, <1>2, <1>3, CurrentQuiet

LEMMA CurrentInit == Init => Current
BY DEF Init, Current, Idle

LEMMA CurrentStep == IInv /\ Current /\ [Next]_vars => Current'
<1> SUFFICES ASSUME IInv, Current, [Next]_vars, ~overlapped' PROVE Current'
  BY DEF Current
<1>1. CASE UNCHANGED vars
  BY <1>1 DEF vars, Current
<1>2. CASE Tick
  BY <1>2 DEF Tick, Current
<1>3. ASSUME NEW j \in Keys, Expire(j) PROVE Current'
  <2>1. \A k \in Keys : cache'[k] # "none" => cache'[k] = cache[k]
    BY <1>3 DEF Expire, IInv, TypeOK
  <2> QED BY <1>3, <2>1 DEF Expire, Current
<1>4. ASSUME NEW s \in Slots, Request(s) PROVE Current'
  <2>1. \A k : ~Marks(call[s], k)
    BY <1>4, Begins DEF Marks, Idle
  <2> QED BY <1>4, <2>1, Begins, CurrentQuiet
<1>5. ASSUME NEW s \in Slots, Statement(s) PROVE Current'
  <2>1. CASE MarkUncache(s)
    <3>1. \A k \in Keys : Marks(call[s], k) => k = <<call[s].me, call[s].note>>
      BY DEF Marks, Keys
    <3> QED BY <1>5, <2>1, <3>1, CurrentUncache DEF MarkUncache
  <2>2. CASE AllUncache(s) \/ DeleteUncache(s)
    <3>1. \A k \in Keys : ~Marks(call[s], k)
      BY <2>2 DEF AllUncache, DeleteUncache, At, Marks
    <3> QED BY <1>5, <2>2, <3>1, CurrentUncache DEF AllUncache, DeleteUncache
  <2> QED
    BY <1>5, <2>1, <2>2, CurrentInsert, CurrentRead, CurrentCache, CurrentMarkUpdate, CurrentMarkRead,
       CurrentAllUpdate, CurrentDeleteRow DEF Statement
<1> QED BY <1>1, <1>2, <1>3, <1>4, <1>5, CurrentFail DEF Next

\* Creating and marking keep the copies current while requests do not overlap and
\* nothing fails between a row and its copy.
THEOREM CopiesAreCurrent == Spec => []CopyIsCurrent
<1>1. Current => CopyIsCurrent
  BY DEF Current, CopyIsCurrent, Stale, BeingMarked, Marks
<1>2. Spec => []Current
  BY Invariance, CurrentInit, CurrentStep, PTL DEF Spec
<1> QED BY <1>1, <1>2, PTL

------------------------------------------------------------------------------
(* A notification alone in its second is pushed once.                      *)

\* The insertion in flight left a row nobody was pushed, and none is dated after it.
Inserted(h) ==
  \E m \in Notes :
    /\ Present(m) /\ note[m].user = h.me /\ note[m].kind = h.kind /\ pushed[m] = 0
    /\ \A x \in Notes : note[x].state # "unused" => note[x].born <= note[m].born

Once ==
  overlapped \/
    /\ \A s \in Slots : call[s].at = "create_read" => Inserted(call[s])
    /\ \A s \in Slots : call[s].at = "create_cache" =>
         (Alone(call[s].note) => pushed[call[s].note] = 0)
    /\ \A n \in Notes : Alone(n) => pushed[n] <= 1

\* Rows that are only marked, or deleted, are as alone as they were.
LEMMA AsAlone ==
  ASSUME \A n \in Notes : note'[n].user = note[n].user /\ note'[n].kind = note[n].kind
                          /\ note'[n].born = note[n].born
  PROVE  \A n \in Notes : Alone(n)' <=> Alone(n)
BY DEF Alone

\* A step that inserts and pushes nothing, of a handler that creates nothing.
LEMMA OnceQuiet ==
  ASSUME Once, NEW s \in Slots, ~overlapped, \A q \in Slots \ {s} : call'[q] = Idle,
         \A n \in Notes : note'[n].user = note[n].user /\ note'[n].kind = note[n].kind
                          /\ note'[n].born = note[n].born,
         UNCHANGED pushed, call'[s].at \notin {"create_read", "create_cache"}
  PROVE  Once'
<1>1. \A n \in Notes : Alone(n)' => pushed'[n] <= 1
  BY AsAlone DEF Once
<1>2. \A q \in Slots : call'[q].at \notin {"create_read", "create_cache"}
  BY DEF Idle
<1> QED BY <1>1, <1>2 DEF Once

LEMMA OnceInsert ==
  ASSUME IInv, IInv', Once, NEW s \in Slots, CreateInsert(s), ~overlapped'
  PROVE  Once'
<1>1. /\ ~overlapped /\ call[s].at = "create_insert" /\ call[s] \in Handlers
      /\ \A q \in Slots \ {s} : call[q] = Idle /\ call'[q] = Idle
      /\ UNCHANGED <<now, pushed>>
  BY Only DEF Statement, CreateInsert, At
<1>2. PICK n \in Notes :
        /\ note[n].state = "unused"
        /\ note' = [note EXCEPT ![n] =
             [state |-> "unread", user |-> call[s].me, kind |-> call[s].kind, born |-> now]]
  BY DEF CreateInsert
<1> DEFINE u == call[s].me
<1>3. /\ call'[s].at = "create_read" /\ call'[s].me = u /\ call'[s].kind = call[s].kind
  BY <1>1 DEF CreateInsert, Await, IInv, TypeOK, Handlers
<1>4. /\ note'[n] = [state |-> "unread", user |-> u, kind |-> call[s].kind, born |-> now]
      /\ \A m \in Notes \ {n} : note'[m] = note[m]
  BY <1>2 DEF IInv, TypeOK
<1>5. pushed'[n] = 0
  BY <1>1, <1>2 DEF IInv, Dated, Used
<1>6. \A x \in Notes : note'[x].state # "unused" => note'[x].born <= now
  BY <1>1 DEF IInv, Dated, Used
<1>7. Inserted(call[s])'
  BY <1>3, <1>4, <1>5, <1>6 DEF Inserted, Present
<1>8. ASSUME NEW m \in Notes, Alone(m)'
      PROVE  pushed'[m] <= 1
  <2>1. CASE note'[m].state = "unused" \/ m = n
    BY <1>5, <2>1 DEF IInv, Dated, Used
  <2>2. CASE note'[m].state # "unused" /\ m # n
    <3>1. note'[m] = note[m] /\ note[m].user \in Users
      BY <1>4, <2>2 DEF IInv, TypeOK, Rows, Unused
    <3>2. note[n].user = NoUser
      BY <1>2 DEF IInv, TypeOK, Rows, Unused
    <3>3. Alone(m)
      <4> SUFFICES ASSUME NEW x \in Notes \ {m}, note[x].user = note[m].user, note[x].kind = note[m].kind
                   PROVE  note[x].born # note[m].born
        BY DEF Alone
      <4>1. x # n
        BY <3>1, <3>2, NotificationsAssumption
      <4>2. note'[x] = note[x]
        BY <1>4, <4>1
      <4> QED BY <1>8, <3>1, <4>2 DEF Alone
    <3> QED BY <1>1, <3>3 DEF Once
  <2> QED BY <2>1, <2>2
<1>9. \A q \in Slots \ {s} : call'[q].at \notin {"create_read", "create_cache"}
  BY <1>1 DEF Idle
<1> QED BY <1>3, <1>7, <1>8, <1>9 DEF Once

\* The row read back is the one inserted, or there are two of its second.
LEMMA OnceRead ==
  ASSUME IInv, Once, NEW s \in Slots, CreateRead(s), ~overlapped'
  PROVE  Once'
<1>1. /\ ~overlapped /\ call[s].at = "create_read" /\ call[s] \in Handlers
      /\ \A q \in Slots \ {s} : call[q] = Idle /\ call'[q] = Idle
      /\ UNCHANGED <<note, now, pushed>>
  BY Only DEF Statement, CreateRead, At
<1>2. CASE NextUser(s)
  <2>1. call'[s].at \notin {"create_read", "create_cache"}
    BY <1>1, <1>2, Goes
  <2> QED BY <1>1, <2>1, OnceQuiet
<1>3. ASSUME NEW n \in Latest(call[s].me, call[s].kind),
             call' = [call EXCEPT ![s].at = "create_cache", ![s].note = n, ![s].seen = note[n].state]
      PROVE  Once'
  <2>1. call'[s].at = "create_cache" /\ call'[s].note = n
    BY <1>1, <1>3 DEF IInv, TypeOK, Handlers
  <2>2. ASSUME Alone(n) PROVE pushed[n] = 0
    <3>1. PICK m \in Notes :
            /\ Present(m) /\ note[m].user = call[s].me /\ note[m].kind = call[s].kind
            /\ pushed[m] = 0
            /\ \A x \in Notes : note[x].state # "unused" => note[x].born <= note[m].born
      BY <1>1 DEF Once, Inserted
    <3>2. /\ n \in Notes /\ Present(n) /\ note[n].user = call[s].me /\ note[n].kind = call[s].kind
          /\ note[n].born >= note[m].born
      BY <3>1 DEF Latest
    <3>3. note[n].born <= note[m].born
      BY <3>1, <3>2 DEF Present
    <3>4. note[n].born \in Nat /\ note[m].born \in Nat
      BY <3>1, <3>2 DEF IInv, TypeOK, Rows, Unused
    <3>5. note[n].born = note[m].born
      BY <3>2, <3>3, <3>4
    <3> QED BY <2>2, <3>1, <3>2, <3>5 DEF Alone
  <2>3. \A m \in Notes : Alone(m)' <=> Alone(m)
    BY <1>1, AsAlone
  <2>4. n \in Notes
    BY DEF Latest
  <2>5. \A q \in Slots \ {s} : call'[q].at \notin {"create_read", "create_cache"}
    BY <1>1 DEF Idle
  <2>6. \A m \in Notes : Alone(m)' => pushed'[m] <= 1
    BY <1>1, <2>3 DEF Once
  <2>7. Alone(n)' => pushed'[n] = 0
    BY <1>1, <2>2, <2>3, <2>4
  <2> QED BY <2>1, <2>5, <2>6, <2>7 DEF Once
<1> QED BY <1>2, <1>3 DEF CreateRead

LEMMA OnceCache ==
  ASSUME IInv, Once, NEW s \in Slots, CreateCache(s), ~overlapped'
  PROVE  Once'
<1> DEFINE n == call[s].note
<1>1. /\ ~overlapped /\ call[s].at = "create_cache" /\ call[s] \in Handlers
      /\ \A q \in Slots \ {s} : call[q] = Idle /\ call'[q] = Idle
      /\ UNCHANGED <<note, now>> /\ NextUser(s)
  BY Only DEF Statement, CreateCache, At
<1>2. call'[s].at \notin {"create_read", "create_cache"}
  BY <1>1, Goes
<1>3. n \in Notes
  BY <1>1 DEF IInv, InFlight, Carries, CreateSteps
<1>4. pushed'[n] \in {pushed[n], pushed[n] + 1} /\ \A m \in Notes \ {n} : pushed'[m] = pushed[m]
  BY <1>3 DEF CreateCache, pushNotificationToUser, IInv, TypeOK
<1>5. Alone(n) => pushed[n] = 0
  BY <1>1 DEF Once
<1>6. \A m \in Notes : Alone(m)' <=> Alone(m)
  BY <1>1, AsAlone
<1>7. ASSUME NEW m \in Notes, Alone(m)' PROVE pushed'[m] <= 1
  <2>1. CASE m = n
    BY <1>3, <1>4, <1>5, <1>6, <1>7, <2>1
  <2>2. CASE m # n
    BY <1>1, <1>4, <1>6, <1>7, <2>2 DEF Once
  <2> QED BY <2>1, <2>2
<1>8. \A q \in Slots : call'[q].at \notin {"create_read", "create_cache"}
  BY <1>1, <1>2 DEF Idle
<1> QED BY <1>7, <1>8 DEF Once

\* What the other statements leave: who has which row, of which kind and second.
LEMMA OnceRest ==
  ASSUME IInv, Once, NEW s \in Slots, ~overlapped',
         Statement(s) \/ Fail(s), ~CreateInsert(s), ~CreateRead(s), ~CreateCache(s)
  PROVE  Once'
<1>1. /\ ~overlapped /\ call[s] \in Handlers
      /\ \A q \in Slots \ {s} : call[q] = Idle /\ call'[q] = Idle
  BY Only
<1>2. UNCHANGED pushed
  BY DEF Statement, Fail, MarkUpdate, MarkRead, MarkUncache, AllUpdate, AllUncache, DeleteRow,
         DeleteUncache, Uncache
<1>3. \A n \in Notes : note'[n].user = note[n].user /\ note'[n].kind = note[n].kind
                       /\ note'[n].born = note[n].born
  <2>1. \A n \in Notes : note[n] = Unused \/ note[n] \in Rows
    BY DEF IInv, TypeOK
  <2>2. CASE MarkUpdate(s)
    BY <2>1, <2>2 DEF MarkUpdate, Present, IInv, TypeOK, Rows, Unused
  <2>3. CASE AllUpdate(s)
    BY <2>1, <2>3 DEF AllUpdate, Rows, Unused
  <2>4. CASE DeleteRow(s)
    BY <2>1, <2>4 DEF DeleteRow, Present, IInv, TypeOK, Rows, Unused
  <2>5. CASE UNCHANGED note
    BY <2>5
  <2> QED
    BY <2>2, <2>3, <2>4, <2>5
       DEF Statement, Fail, MarkRead, MarkUncache, AllUncache, DeleteUncache, Uncache
<1>4. call'[s].at \notin {"create_read", "create_cache"}
  <2>1. NextUser(s) => call'[s].at \notin {"create_read", "create_cache"}
    BY <1>1, Goes
  <2>2. End(s) => call'[s].at \notin {"create_read", "create_cache"}
    BY DEF End, Idle, IInv, TypeOK
  <2>3. ASSUME NEW step \in {"mark_read", "mark_uncache", "all_uncache", "delete_uncache"}, Await(s, step)
        PROVE  call'[s].at \notin {"create_read", "create_cache"}
    BY <1>1, <2>3 DEF Await, IInv, TypeOK, Handlers
  <2> QED
    BY <2>1, <2>2, <2>3
       DEF Statement, Fail, MarkUpdate, MarkRead, MarkUncache, AllUpdate, AllUncache, DeleteRow,
           DeleteUncache, Uncache
<1> QED BY <1>1, <1>2, <1>3, <1>4, OnceQuiet

LEMMA OnceInit == Init => Once
BY DEF Init, Once, Idle

LEMMA OnceStep == IInv /\ IInv' /\ Once /\ [Next]_vars => Once'
<1> SUFFICES ASSUME IInv, IInv', Once, [Next]_vars, ~overlapped' PROVE Once'
  BY DEF Once
<1>1. CASE UNCHANGED vars
  BY <1>1 DEF vars, Once, Inserted, Present, Alone
<1>2. CASE Tick
  BY <1>2 DEF Tick, Once, Inserted, Present, Alone
<1>3. ASSUME NEW j \in Keys, Expire(j) PROVE Once'
  BY <1>3 DEF Expire, Once, Inserted, Present, Alone
<1>4. ASSUME NEW s \in Slots, Request(s) PROVE Once'
  BY <1>4, Begins, OnceQuiet
<1>5. ASSUME NEW s \in Slots, Statement(s) \/ Fail(s) PROVE Once'
  BY <1>5, OnceInsert, OnceRead, OnceCache, OnceRest
<1> QED BY <1>1, <1>2, <1>3, <1>4, <1>5 DEF Next

\* While requests do not overlap a notification alone in its second is pushed once at most.
THEOREM PushedOnce == Spec => []AloneIsPushedOnce
<1>1. Once => AloneIsPushedOnce
  BY DEF Once, AloneIsPushedOnce
<1>2. Spec => []Once
  BY Invariance, OnceInit, OnceStep, PTL DEF Spec
<1> QED BY <1>1, <1>2, PTL
==============================================================================
