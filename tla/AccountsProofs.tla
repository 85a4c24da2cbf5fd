--------------------------- MODULE AccountsProofs ---------------------------
(***************************************************************************)
(* Proofs about Accounts, for any accounts, names, passwords and slots.    *)
(***************************************************************************)
EXTENDS Accounts, TLAPS

Tables == [Accounts -> {Blank} \cup Rows]

Calls == [Slots -> {Idle} \cup Handlers]

\* Steps of a handler about an account that was registered when it began.
WhoSteps == {"login_stamp", "refresh_find", "change_find", "change_update", "get_find",
             "get_insert", "set_update", "set_read", "profile_update", "profile_read",
             "logout_touch"}

\* UNIQUE username, UNIQUE email.
Unique(us) ==
  \A a, b \in Accounts :
    /\ us[a].state # "unused" /\ us[b].state # "unused"
    /\ us[a].username = us[b].username \/ us[a].email = us[b].email
    => a = b

\* What the earlier statements of h have established, and nobody takes away.
Sound(us, h) ==
  /\ h.at \in RegisterSteps => h.form \in Rows
  /\ h.at = "register_read" =>
       /\ h.wrote \in Accounts /\ us[h.wrote].state # "unused"
       /\ us[h.wrote].username = h.form.username /\ us[h.wrote].email = h.form.email
  /\ h.at \in WhoSteps => h.who \in Accounts /\ us[h.who].state # "unused"
  /\ h.at \in {"change_find", "change_update"} => h.next \in Passwords
  /\ h.at \in {"login_stamp", "change_update"} => h.who \in h.ever

\* What the history says of the present.
Watched(us, h) ==
  /\ Deserving(us, h) \subseteq h.ever
  /\ h.at = "login_find" => h.always \subseteq Deserving(us, h)

InFlight == \A s \in Slots : call[s] # Idle => Sound(users, call[s]) /\ Watched(users, call[s])

\* Every reply is about a handler that deserved it.
Replied ==
  /\ RegisteredIsOwn
  /\ TokensAreDeserved
  /\ DeservedIsGranted

IInv == TypeOK /\ Unique(users) /\ InFlight /\ Replied

\* Accounts stay, with their names.
RowsStay ==
  \A a \in Accounts : users[a].state # "unused" =>
    /\ users'[a].state # "unused"
    /\ users'[a].username = users[a].username /\ users'[a].email = users[a].email

------------------------------------------------------------------------------
(* The control of a handler.                                               *)

LEMMA IdleIsNoHandler == Idle \notin Handlers
BY DEF Idle, Handlers, Steps, RegisterSteps

LEMMA DeservingTypes ==
  ASSUME NEW us, NEW h, h.at \in WhoSteps => h.who \in Accounts,
         NEW g, g.at = h.at, g.who = h.who, g.account = h.account, g.password = h.password
  PROVE  Deserving(us, h) \subseteq Accounts /\ Deserving(us, g) = Deserving(us, h)
<1>1. Deserving(us, h) \subseteq Accounts
  BY DEF Deserving, NamedIn, WhoSteps
<1>2. Deserving(us, g) = Deserving(us, h)
  BY DEF Deserving
<1> QED BY <1>1, <1>2

\* The history of one handler: its types, and what it does to Sound and Watched.
LEMMA ObservedHandler ==
  ASSUME NEW us, NEW h \in Handlers, Sound(us, h),
         NEW g, g = [h EXCEPT !.ever = @ \cup Deserving(us, h),
                              !.always = IF h.at = "login_find"
                                         THEN @ \cap Deserving(us, h) ELSE {}]
  PROVE  g \in Handlers /\ Sound(us, g) /\ Watched(us, g)
<1>1. h.at \in WhoSteps => h.who \in Accounts
  BY DEF Sound
<1>2. /\ g.at = h.at /\ g.who = h.who /\ g.form = h.form /\ g.next = h.next /\ g.wrote = h.wrote
      /\ g.ever = h.ever \cup Deserving(us, h)
      /\ g.always = IF h.at = "login_find" THEN h.always \cap Deserving(us, h) ELSE {}
      /\ g.account = h.account /\ g.password = h.password
  BY DEF Handlers
<1>3. Deserving(us, h) \subseteq Accounts /\ Deserving(us, g) = Deserving(us, h)
  BY <1>1, <1>2, DeservingTypes
<1>4. g \in Handlers
  BY <1>3 DEF Handlers
<1>5. Sound(us, g)
  BY <1>2 DEF Sound
<1>6. Watched(us, g)
  BY <1>2, <1>3 DEF Watched
<1> QED BY <1>4, <1>5, <1>6

LEMMA SoundStays ==
  ASSUME TypeOK, RowsStay, NEW h, Sound(users, h)
  PROVE  Sound(users', h)
BY DEF Sound, RowsStay

\* Every statement: the handler in s goes on as h, the others are observed.
LEMMA Observing ==
  ASSUME IInv, RowsStay, NEW calls \in Calls, call' = Observed(calls),
         \A q \in Slots : calls[q] # Idle => Sound(users', calls[q])
  PROVE  call' \in Calls /\ InFlight'
<1> SUFFICES ASSUME NEW q \in Slots
             PROVE  /\ call'[q] \in {Idle} \cup Handlers
                    /\ call'[q] # Idle => Sound(users', call'[q]) /\ Watched(users', call'[q])
  BY DEF Calls, InFlight, Observed
<1>1. CASE calls[q] = Idle
  BY <1>1 DEF Observed
<1>2. CASE calls[q] # Idle
  <2>1. calls[q] \in Handlers
    BY <1>2 DEF Calls
  <2>2. call'[q] = [calls[q] EXCEPT !.ever = @ \cup Deserving(users', calls[q]),
                                    !.always = IF calls[q].at = "login_find"
                                               THEN @ \cap Deserving(users', calls[q]) ELSE {}]
    BY <1>2 DEF Observed
  <2>3. QED
    BY <1>2, <2>1, <2>2, ObservedHandler
<1> QED BY <1>1, <1>2

LEMMA Proceeding ==
  ASSUME IInv, RowsStay, NEW s \in Slots, NEW h, h = Idle \/ (h \in Handlers /\ Sound(users', h)),
         call' = Observed([call EXCEPT ![s] = h])
  PROVE  call' \in Calls /\ InFlight'
<1> DEFINE calls == [call EXCEPT ![s] = h]
<1>1. calls \in Calls
  BY DEF IInv, TypeOK, Calls
<1>2. ASSUME NEW q \in Slots, calls[q] # Idle
      PROVE  Sound(users', calls[q])
  <2>1. CASE q = s
    BY <1>2, <2>1 DEF IInv, TypeOK
  <2>2. CASE q # s
    BY <1>2, <2>2, SoundStays DEF IInv, InFlight, TypeOK
  <2> QED BY <2>1, <2>2
<1> QED
  <2> HIDE DEF calls
  <2>1. call' = Observed(calls)
    BY DEF calls
  <2> QED BY <1>1, <1>2, <2>1, Observing

LEMMA NoReplyTypes ==
  /\ NoReply \in [of : {Idle} \cup Handlers, result : {"none", "tokens", "refused"}]
  /\ NoReply.of = Idle
BY DEF NoReply

LEMMA NothingReplied ==
  ASSUME reply'.of = Idle
  PROVE  Replied'
BY DEF Replied, RegisteredIsOwn, TokensAreDeserved, DeservedIsGranted, Idle

LEMMA Ends ==
  ASSUME IInv, RowsStay, users' \in Tables, Unique(users'),
         settings' \in [Accounts -> {"none", "default", "chosen"}], NEW s \in Slots, End(s)
  PROVE  IInv'
<1>1. call' \in Calls /\ InFlight'
  BY Proceeding DEF End, Conclude
<1>2. reply' = NoReply
  BY DEF End, Conclude, Idle, NoReply
<1>3. Replied' /\ reply' \in [of : {Idle} \cup Handlers, result : {"none", "tokens", "refused"}]
  BY <1>2, NoReplyTypes, NothingReplied
<1> QED BY <1>1, <1>3 DEF IInv, TypeOK, Calls, Tables

LEMMA Awaits ==
  ASSUME IInv, RowsStay, users' \in Tables, Unique(users'),
         settings' \in [Accounts -> {"none", "default", "chosen"}],
         NEW s \in Slots, NEW h \in Handlers, Sound(users', h), Await(s, h)
  PROVE  IInv'
<1>1. call' \in Calls /\ InFlight'
  BY Proceeding DEF Await
<1>2. Replied' /\ reply' \in [of : {Idle} \cup Handlers, result : {"none", "tokens", "refused"}]
  BY NoReplyTypes, NothingReplied DEF Await
<1> QED BY <1>1, <1>2 DEF IInv, TypeOK, Calls, Tables

\* A statement that reads.
LEMMA Reading ==
  ASSUME IInv, UNCHANGED <<users, settings>>
  PROVE  /\ RowsStay /\ users' \in Tables /\ Unique(users')
         /\ settings' \in [Accounts -> {"none", "default", "chosen"}]
BY DEF IInv, TypeOK, RowsStay, Tables

LEMMA AwaitSteps ==
  ASSUME IInv, UNCHANGED users, settings' \in [Accounts -> {"none", "default", "chosen"}],
         NEW s \in Slots, call[s] # Idle, NEW step \in Steps, AwaitStep(s, step),
         step \in RegisterSteps => step # "register_read" /\ call[s].at \in RegisterSteps,
         step \in WhoSteps => call[s].at \in WhoSteps,
         step \in {"change_find", "change_update"} => call[s].at \in {"change_find", "change_update"},
         step \in {"login_stamp", "change_update"} => call[s].who \in call[s].ever
  PROVE  IInv'
<1> DEFINE h == [call[s] EXCEPT !.at = step]
<1>1. call[s] \in Handlers /\ Sound(users, call[s])
  BY DEF IInv, TypeOK, InFlight
<1>2. h \in Handlers
  BY <1>1 DEF Handlers
<1>3. /\ h.at = step /\ h.who = call[s].who /\ h.form = call[s].form /\ h.next = call[s].next
      /\ h.ever = call[s].ever
  BY <1>1 DEF Handlers
<1>4. Await(s, h)
  BY DEF AwaitStep
<1> HIDE DEF h
<1>5. Sound(users', h)
  BY <1>1, <1>3 DEF Sound, RegisterSteps
<1>6. RowsStay /\ users' \in Tables /\ Unique(users')
  BY DEF IInv, TypeOK, RowsStay, Tables
<1> QED BY <1>2, <1>4, <1>5, <1>6, Awaits

LEMMA EndsReading ==
  ASSUME IInv, UNCHANGED <<users, settings>>, NEW s \in Slots, End(s)
  PROVE  IInv'
BY Reading, Ends

------------------------------------------------------------------------------
(* The beginning of a handler.                                             *)

LEMMA Begins ==
  ASSUME IInv, NEW s \in Slots, NEW h \in Handlers, Sound(users, h), Begin(s, h),
         h.at \notin {"login_stamp", "change_update"}
  PROVE  IInv'
<1> DEFINE g == [h EXCEPT !.ever = Deserving(users, h),
                          !.always = IF h.at = "login_find" THEN Deserving(users, h) ELSE {}]
<1>0. h.at \in WhoSteps => h.who \in Accounts
  BY DEF Sound
<1>1. call' = [call EXCEPT ![s] = g] /\ UNCHANGED <<users, settings>> /\ reply' = NoReply
  BY DEF Begin
<1>2. /\ g.at = h.at /\ g.who = h.who /\ g.form = h.form /\ g.next = h.next /\ g.wrote = h.wrote
      /\ g.account = h.account /\ g.password = h.password
      /\ g.ever = Deserving(users, h)
      /\ g.always = IF h.at = "login_find" THEN Deserving(users, h) ELSE {}
  BY DEF Handlers
<1>3. Deserving(users, h) \subseteq Accounts /\ Deserving(users, g) = Deserving(users, h)
  BY <1>0, <1>2, DeservingTypes
<1>4. g \in Handlers
  BY <1>3 DEF Handlers
<1> HIDE DEF g
<1>5. Watched(users, g)
  BY <1>2, <1>3 DEF Watched
<1>6. Sound(users, g)
  BY <1>2 DEF Sound
<1>7. call' \in Calls
  BY <1>1, <1>4 DEF IInv, TypeOK, Calls
<1>8. \A q \in Slots : call'[q] = IF q = s THEN g ELSE call[q]
  BY <1>1 DEF IInv, TypeOK
<1>9. InFlight'
  BY <1>1, <1>5, <1>6, <1>8 DEF IInv, InFlight
<1>10. Replied' /\ reply' \in [of : {Idle} \cup Handlers, result : {"none", "tokens", "refused"}]
  BY <1>1, NoReplyTypes, NothingReplied
<1> QED BY <1>1, <1>7, <1>9, <1>10 DEF IInv, TypeOK, Calls

LEMMA RequestInv ==
  ASSUME IInv, NEW s \in Slots, Request(s)
  PROVE  IInv'
<1>1. ASSUME NEW form \in Forms, Register(s, form)
      PROVE  IInv'
  <2> DEFINE h == [Idle EXCEPT !.at = "register_check", !.form = form]
  <2>1. h \in Handlers /\ Sound(users, h) /\ h.at = "register_check"
    BY DEF Forms, Idle, Handlers, Steps, RegisterSteps, Sound, WhoSteps
  <2> QED BY <1>1, <2>1, Begins DEF Register
<1>2. ASSUME NEW account \in Logins, NEW password \in Passwords, Login(s, account, password)
      PROVE  IInv'
  <2> DEFINE h == [Idle EXCEPT !.at = "login_find", !.account = account, !.password = password]
  <2>1. h \in Handlers /\ Sound(users, h) /\ h.at = "login_find"
    BY DEF Idle, Handlers, Steps, RegisterSteps, Sound, WhoSteps
  <2> QED BY <1>2, <2>1, Begins DEF Login
<1>3. ASSUME NEW a \in Accounts, NEW current \in Passwords, NEW new \in Passwords,
             ChangePassword(s, a, current, new)
      PROVE  IInv'
  <2> DEFINE h == [Idle EXCEPT !.at = "change_find", !.who = a, !.password = current, !.next = new]
  <2>1. users[a].state # "unused"
    BY <1>3 DEF ChangePassword, Registered
  <2>2. h \in Handlers /\ Sound(users, h) /\ h.at = "change_find"
    BY <2>1 DEF Idle, Handlers, Steps, RegisterSteps, Sound, WhoSteps
  <2> QED BY <1>3, <2>2, Begins DEF ChangePassword
<1>4. ASSUME NEW a \in Registered,
             NEW at \in {"refresh_find", "logout_touch", "get_find", "set_update", "profile_update"},
             Begin(s, [Idle EXCEPT !.at = at, !.who = a])
      PROVE  IInv'
  <2> DEFINE h == [Idle EXCEPT !.at = at, !.who = a]
  <2>1. h \in Handlers /\ Sound(users, h) /\ h.at = at
    BY DEF Registered, Idle, Handlers, Steps, RegisterSteps, Sound, WhoSteps
  <2> QED BY <1>4, <2>1, Begins
<1> QED
  BY <1>1, <1>2, <1>3, <1>4 DEF Request, Refresh, Logout, GetSettings, UpdateSettings, UpdateProfile

------------------------------------------------------------------------------
(* The statements.                                                         *)

LEMMA Flying ==
  ASSUME IInv, NEW s \in Slots, call[s].at \in Steps
  PROVE  call[s] # Idle /\ call[s] \in Handlers /\ Sound(users, call[s]) /\ Watched(users, call[s])
<1>1. call[s] # Idle
  BY DEF Idle, Steps, RegisterSteps
<1> QED BY <1>1 DEF IInv, TypeOK, InFlight

LEMMA RegisterCheckInv ==
  ASSUME IInv, NEW s \in Slots, RegisterCheck(s)
  PROVE  IInv'
<1>1. call[s].at = "register_check" /\ call[s].at \in Steps /\ call[s].at \in RegisterSteps
  BY DEF RegisterCheck, At, Steps, RegisterSteps
<1>2. "register_insert" \in Steps /\ "register_insert" \notin WhoSteps
  BY DEF Steps, RegisterSteps, WhoSteps
<1>3. settings' \in [Accounts -> {"none", "default", "chosen"}]
  BY Reading DEF RegisterCheck
<1> QED BY <1>1, <1>2, <1>3, Flying, AwaitSteps, EndsReading DEF RegisterCheck

\* The inserted row clashes with no other.
LEMMA RegisterInsertInv ==
  ASSUME IInv, NEW s \in Slots, RegisterInsert(s)
  PROVE  IInv'
<1>1. call[s] \in Handlers /\ Sound(users, call[s]) /\ call[s].form \in Rows
  BY Flying DEF RegisterInsert, At, Steps, RegisterSteps, Sound
<1>2. CASE End(s) /\ UNCHANGED users
  BY <1>2, EndsReading DEF RegisterInsert
<1>3. ASSUME NEW a \in Accounts, Taken(call[s].form) = {}, InsertUser(s, a)
      PROVE  IInv'
  <2> DEFINE h == [call[s] EXCEPT !.at = "register_read", !.wrote = a]
  <2>1. users[a] = Blank /\ users' = [users EXCEPT ![a] = call[s].form] /\ Await(s, h)
    BY <1>3 DEF InsertUser
  <2>2. users[a].state = "unused" /\ call[s].form.state # "unused"
    BY <1>1, <2>1 DEF Blank, Rows
  <2>3. users' \in Tables
    BY <1>1, <2>1 DEF IInv, TypeOK, Tables
  <2>4. \A b \in Accounts : users'[b] = IF b = a THEN call[s].form ELSE users[b]
    BY <2>1 DEF IInv, TypeOK
  <2>5. RowsStay
    BY <2>2, <2>4 DEF RowsStay
  <2>6. \A b \in Accounts : users[b].state # "unused" =>
          users[b].username # call[s].form.username /\ users[b].email # call[s].form.email
    BY <1>3 DEF Taken, Registered
  <2>7. Unique(users')
    <3> SUFFICES ASSUME NEW b \in Accounts, NEW c \in Accounts,
                        users'[b].state # "unused", users'[c].state # "unused",
                        users'[b].username = users'[c].username \/ users'[b].email = users'[c].email
                 PROVE  b = c
      BY DEF Unique
    <3> QED BY <2>4, <2>6 DEF IInv, Unique
  <2>8. h \in Handlers
    BY <1>1 DEF Handlers, Steps, RegisterSteps
  <2>9. h.at = "register_read" /\ h.wrote = a /\ h.form = call[s].form
    BY <1>1 DEF Handlers
  <2>10. Sound(users', h)
    <3> HIDE DEF h
    <3> QED BY <1>1, <2>2, <2>4, <2>9 DEF Sound, WhoSteps
  <2>11. settings' \in [Accounts -> {"none", "default", "chosen"}]
    BY DEF RegisterInsert, IInv, TypeOK
  <2> HIDE DEF h
  <2> QED BY <2>1, <2>3, <2>5, <2>7, <2>8, <2>10, <2>11, Awaits
<1>4. Taken(call[s].form) \subseteq Accounts
  BY DEF Taken, Registered
<1>5. CASE \E a \in Accounts : Taken(call[s].form) = {} /\ InsertUser(s, a)
  BY <1>3, <1>5
<1> QED BY <1>2, <1>5 DEF RegisterInsert

\* A reply with tokens or a refusal: the others are observed, the tables stay.
LEMMA Concludes ==
  ASSUME IInv, UNCHANGED <<users, settings>>, NEW s \in Slots,
         NEW of \in Handlers, NEW result \in {"tokens", "refused"}, Conclude(s, of, result), Replied'
  PROVE  IInv'
<1>1. RowsStay /\ users' \in Tables /\ Unique(users')
      /\ settings' \in [Accounts -> {"none", "default", "chosen"}]
  BY Reading
<1>2. call' \in Calls /\ InFlight'
  BY <1>1, Proceeding DEF Conclude
<1>3. [of EXCEPT !.form = Blank, !.password = None] \in Handlers
  BY DEF Handlers
<1>4. reply' \in [of : {Idle} \cup Handlers, result : {"none", "tokens", "refused"}]
  BY <1>3 DEF Conclude
<1> QED BY <1>1, <1>2, <1>4 DEF IInv, TypeOK, Calls, Tables

LEMMA TokensInv ==
  ASSUME IInv, UNCHANGED <<users, settings>>, NEW s \in Slots,
         call[s].at \in {"register_read", "login_stamp", "refresh_find"},
         NEW a \in Accounts, ReturnTokens(s, a),
         call[s].at = "register_read" => a = call[s].wrote,
         call[s].at # "register_read" => a \in call[s].ever
  PROVE  IInv'
<1> DEFINE of == [call[s] EXCEPT !.who = a]
<1>1. call[s] \in Handlers
  BY Flying DEF Steps, RegisterSteps
<1>2. of \in Handlers
  BY <1>1 DEF Handlers
<1>3. /\ of.at = call[s].at /\ of.who = a
      /\ of.wrote = call[s].wrote /\ of.ever = call[s].ever
  BY <1>1 DEF Handlers
<1>4. Conclude(s, of, "tokens")
  BY DEF ReturnTokens
<1> HIDE DEF of
<1>5. /\ reply'.of.at = of.at /\ reply'.of.who = of.who /\ reply'.of.wrote = of.wrote
      /\ reply'.of.ever = of.ever /\ reply'.result = "tokens"
  BY <1>2, <1>4 DEF Conclude, Handlers
<1>6. Replied'
  BY <1>3, <1>5 DEF Replied, RegisteredIsOwn, TokensAreDeserved, DeservedIsGranted
<1> QED BY <1>2, <1>4, <1>6, Concludes

\* Usernames and e-mails are unique, so the row found again is the one inserted.
LEMMA RegisterReadBackInv ==
  ASSUME IInv, NEW s \in Slots, RegisterReadBack(s)
  PROVE  IInv'
<1>1. call[s].at = "register_read" /\ Sound(users, call[s]) /\ UNCHANGED <<users, settings>>
  BY Flying DEF RegisterReadBack, At, Steps, RegisterSteps
<1>2. ASSUME NEW a \in Taken(call[s].form), ReturnTokens(s, a)
      PROVE  IInv'
  <2>1. a \in Accounts /\ a = call[s].wrote
    BY <1>1 DEF Sound, Taken, Registered, IInv, Unique
  <2> QED BY <1>1, <1>2, <2>1, TokensInv
<1> QED BY <1>1, <1>2, EndsReading DEF RegisterReadBack

LEMMA LoginFindInv ==
  ASSUME IInv, NEW s \in Slots, LoginFind(s)
  PROVE  IInv'
<1> DEFINE found == Normal(Named(call[s].account))
           proven(a) == users[a].state # "inactive" /\ users[a].password = call[s].password
<1>1. call[s].at = "login_find" /\ UNCHANGED <<users, settings>>
  BY DEF LoginFind, LoginChoose, At
<1>2. /\ call[s] \in Handlers /\ Sound(users, call[s]) /\ Watched(users, call[s])
      /\ call[s].at \in Steps
  BY <1>1, Flying DEF Steps
<1>3. found \subseteq Accounts
  BY DEF Normal, Named, NamedIn
<1>4. \A a \in found : proven(a) => a \in Deserving(users, call[s])
  BY <1>1, <1>3 DEF Normal, Named, NamedIn, Deserving, IInv, TypeOK, Rows, Blank
<1>5. ASSUME NEW a \in found, proven(a), Await(s, [call[s] EXCEPT !.at = "login_stamp", !.who = a])
      PROVE  IInv'
  <2> DEFINE h == [call[s] EXCEPT !.at = "login_stamp", !.who = a]
  <2>1. a \in Accounts /\ users[a].state # "unused" /\ a \in call[s].ever
    BY <1>2, <1>3, <1>4, <1>5 DEF Normal, Named, NamedIn, Watched
  <2>2. h \in Handlers
    BY <1>2, <2>1 DEF Handlers, Steps
  <2>3. h.at = "login_stamp" /\ h.who = a /\ h.ever = call[s].ever
    BY <1>2 DEF Handlers
  <2>4. Await(s, h)
    BY <1>5
  <2> HIDE DEF h
  <2>5. Sound(users', h)
    BY <1>1, <2>1, <2>3 DEF Sound, RegisterSteps
  <2> QED BY <1>1, <2>2, <2>4, <2>5, Reading, Awaits
<1>6. ASSUME Refuse(s), found = {} \/ \E a \in found : ~proven(a)
      PROVE  IInv'
  <2>1. \A a \in call[s].always : \E b \in found \ {a} : call[s].account \in {users[a].phone, users[b].phone}
    <3> SUFFICES ASSUME NEW a \in call[s].always
                 PROVE  \E b \in found \ {a} : call[s].account \in {users[a].phone, users[b].phone}
      OBVIOUS
    <3>1. a \in Deserving(users, call[s])
      BY <1>1, <1>2 DEF Watched
    <3>2. /\ a \in Named(call[s].account)
          /\ users[a].state = "normal" /\ users[a].password = call[s].password
      BY <1>1, <3>1 DEF Deserving, Named
    <3>3. a \in found /\ proven(a)
      BY <3>2 DEF Normal
    <3>4. PICK b \in found : b # a
      BY <1>6, <3>3
    <3>5. /\ a \in Accounts /\ users[a].state # "unused"
          /\ call[s].account \in {users[a].username, users[a].email, users[a].phone}
          /\ b \in Accounts /\ users[b].state # "unused"
          /\ call[s].account \in {users[b].username, users[b].email, users[b].phone}
      BY <3>2, <3>4 DEF Normal, Named, NamedIn
    <3>6. /\ users[a].username # users[b].username /\ users[a].email # users[b].email
          /\ users[a].username # users[b].email /\ users[a].email # users[b].username
      <4>1. users[a].username # users[b].username /\ users[a].email # users[b].email
        BY <3>4, <3>5 DEF IInv, Unique
      <4>2. users[a] \in Rows /\ users[b] \in Rows
        BY <3>5 DEF IInv, TypeOK, Blank
      <4> QED BY <4>1, <4>2, AccountsAssumption DEF Rows
    <3> QED BY <3>4, <3>5, <3>6
  <2>2. /\ reply'.of.at = "login_find" /\ reply'.of.account = call[s].account
        /\ reply'.of.always = call[s].always /\ reply'.result = "refused"
    BY <1>1, <1>2, <1>6 DEF Refuse, Conclude, Handlers
  <2>3. Normal(Named(reply.of.account))' = found
    BY <1>1, <2>2 DEF Normal, Named
  <2>4. DeservedIsGranted'
    BY <1>1, <2>1, <2>2, <2>3 DEF DeservedIsGranted
  <2>5. Replied'
    BY <2>2, <2>4 DEF Replied, RegisteredIsOwn, TokensAreDeserved
  <2> QED BY <1>1, <1>2, <1>6, <2>5, Concludes DEF Refuse
<1> QED BY <1>5, <1>6 DEF LoginFind, LoginChoose

LEMMA LoginStampInv ==
  ASSUME IInv, NEW s \in Slots, LoginStamp(s)
  PROVE  IInv'
<1>1. call[s].at = "login_stamp" /\ Sound(users, call[s]) /\ UNCHANGED <<users, settings>>
  BY Flying DEF LoginStamp, At, Steps
<1>2. call[s].who \in Accounts /\ call[s].who \in call[s].ever
  BY <1>1 DEF Sound, WhoSteps
<1> QED BY <1>1, <1>2, TokensInv DEF LoginStamp

LEMMA RefreshFindInv ==
  ASSUME IInv, NEW s \in Slots, RefreshFind(s)
  PROVE  IInv'
<1>1. /\ call[s].at = "refresh_find" /\ Sound(users, call[s]) /\ Watched(users, call[s])
      /\ UNCHANGED <<users, settings>>
  BY Flying DEF RefreshFind, At, Steps
<1>2. call[s].who \in Accounts
  BY <1>1 DEF Sound, WhoSteps
<1>3. users[call[s].who].state = "normal" => call[s].who \in call[s].ever
  BY <1>1 DEF Watched, Deserving
<1> QED BY <1>1, <1>2, <1>3, TokensInv, EndsReading DEF RefreshFind

LEMMA ChangeFindInv ==
  ASSUME IInv, NEW s \in Slots, ChangeFind(s)
  PROVE  IInv'
<1>1. /\ call[s].at = "change_find" /\ call[s] # Idle
      /\ Watched(users, call[s]) /\ UNCHANGED <<users, settings>>
  BY Flying DEF ChangeFind, At, Steps
<1>2. CASE End(s)
  BY <1>1, <1>2, EndsReading
<1>3. CASE users[call[s].who].password = call[s].password /\ AwaitStep(s, "change_update")
  <2>1. call[s].who \in call[s].ever
    BY <1>1, <1>3 DEF Watched, Deserving
  <2>2. "change_update" \in Steps /\ "change_update" \notin RegisterSteps /\ call[s].at \in WhoSteps
    BY <1>1 DEF Steps, RegisterSteps, WhoSteps
  <2>3. settings' \in [Accounts -> {"none", "default", "chosen"}]
    BY <1>1, Reading
  <2> QED BY <1>1, <1>3, <2>1, <2>2, <2>3, AwaitSteps
<1> QED BY <1>2, <1>3 DEF ChangeFind

\* An UPDATE of a column of a registered account other than its names.
LEMMA UpdateTypes ==
  ASSUME IInv, NEW a \in Accounts, users[a].state # "unused", NEW row \in Rows,
         row.username = users[a].username, row.email = users[a].email,
         users' = [users EXCEPT ![a] = row]
  PROVE  RowsStay /\ users' \in Tables /\ Unique(users')
<1>1. \A b \in Accounts : users'[b] = IF b = a THEN row ELSE users[b]
  BY DEF IInv, TypeOK
<1>2. row.state # "unused"
  BY DEF Rows
<1>3. RowsStay
  BY <1>1, <1>2 DEF RowsStay
<1>4. users' \in Tables
  BY DEF IInv, TypeOK, Tables
<1>5. \A b \in Accounts : /\ users'[b].username = users[b].username
                          /\ users'[b].email = users[b].email
                          /\ users'[b].state # "unused" => users[b].state # "unused"
  BY <1>1
<1>6. Unique(users')
  BY <1>5 DEF IInv, Unique
<1> QED BY <1>3, <1>4, <1>6

LEMMA ChangeUpdateInv ==
  ASSUME IInv, NEW s \in Slots, ChangeUpdate(s)
  PROVE  IInv'
<1> DEFINE a == call[s].who
           row == [users[a] EXCEPT !.password = call[s].next]
<1>1. /\ call[s].at = "change_update" /\ Sound(users, call[s])
      /\ UNCHANGED settings /\ End(s) /\ users' = [users EXCEPT ![a] = row]
  BY Flying DEF ChangeUpdate, At, Steps
<1>2. a \in Accounts /\ users[a].state # "unused" /\ call[s].next \in Passwords
  BY <1>1 DEF Sound, WhoSteps
<1>3. users[a] \in Rows
  BY <1>2 DEF IInv, TypeOK, Blank
<1>4. row \in Rows /\ row.username = users[a].username /\ row.email = users[a].email
  BY <1>2, <1>3 DEF Rows
<1>5. settings' \in [Accounts -> {"none", "default", "chosen"}]
  BY <1>1 DEF IInv, TypeOK
<1> HIDE DEF row, a
<1> QED BY <1>1, <1>2, <1>4, <1>5, UpdateTypes, Ends

LEMMA SetStateInv ==
  ASSUME IInv, NEW a \in Accounts, NEW state \in {"normal", "disabled", "inactive"}, SetState(a, state)
  PROVE  IInv'
<1> DEFINE row == [users[a] EXCEPT !.state = state]
<1>1. users[a].state # "unused" /\ users' = [users EXCEPT ![a] = row]
  BY DEF SetState, Registered
<1>2. users[a] \in Rows
  BY <1>1 DEF IInv, TypeOK, Blank
<1>3. row \in Rows /\ row.username = users[a].username /\ row.email = users[a].email
  BY <1>2 DEF Rows
<1> HIDE DEF row
<1>4. RowsStay /\ users' \in Tables /\ Unique(users')
  BY <1>1, <1>3, UpdateTypes
<1>5. call \in Calls /\ \A q \in Slots : call[q] # Idle => Sound(users', call[q])
  BY <1>4, SoundStays DEF IInv, TypeOK, InFlight, Calls
<1>6. call' \in Calls /\ InFlight'
  BY <1>4, <1>5, Observing DEF SetState
<1>7. Replied' /\ reply' \in [of : {Idle} \cup Handlers, result : {"none", "tokens", "refused"}]
  BY NoReplyTypes, NothingReplied DEF SetState
<1> QED BY <1>4, <1>6, <1>7 DEF IInv, TypeOK, Calls, Tables, SetState

\* The settings, the profile and logout.
LEMMA SettingsInv ==
  ASSUME IInv, NEW s \in Slots,
         GetFind(s) \/ GetInsert(s) \/ SetUpdate(s) \/ SetRead(s)
           \/ ProfileUpdate(s) \/ ProfileRead(s) \/ LogoutTouch(s)
  PROVE  IInv'
<1>1. call[s].at \in WhoSteps /\ call[s] # Idle /\ UNCHANGED users
  BY DEF GetFind, GetInsert, SetUpdate, SetRead, ProfileUpdate, ProfileRead, LogoutTouch, At,
         WhoSteps, Idle
<1>2. settings' \in [Accounts -> {"none", "default", "chosen"}]
  BY DEF GetFind, GetInsert, SetUpdate, SetRead, ProfileUpdate, ProfileRead, LogoutTouch, IInv, TypeOK
<1>3. RowsStay /\ users' \in Tables /\ Unique(users')
  BY <1>1 DEF IInv, TypeOK, RowsStay, Tables
<1>4. CASE End(s)
  BY <1>2, <1>3, <1>4, Ends
<1>5. ASSUME NEW step \in {"get_insert", "get_find", "set_read", "profile_read"}, AwaitStep(s, step)
      PROVE  IInv'
  <2>1. step \in Steps /\ step \notin RegisterSteps
        /\ step \notin {"change_find", "change_update", "login_stamp"}
    BY DEF Steps, RegisterSteps
  <2> QED BY <1>1, <1>2, <1>5, <2>1, AwaitSteps
<1> QED
  BY <1>4, <1>5 DEF GetFind, GetInsert, SetUpdate, SetRead, ProfileUpdate, ProfileRead, LogoutTouch

------------------------------------------------------------------------------
(* The invariant and what follows from it.                                 *)

LEMMA InitInv == Init => IInv
<1> SUFFICES ASSUME Init PROVE IInv
  OBVIOUS
<1>1. TypeOK
  BY NoReplyTypes DEF Init, TypeOK
<1>2. Unique(users) /\ InFlight
  BY DEF Init, Unique, InFlight, Blank
<1>3. Replied
  BY DEF Init, NoReply, Replied, RegisteredIsOwn, TokensAreDeserved, DeservedIsGranted, Idle
<1> QED BY <1>1, <1>2, <1>3 DEF IInv

LEMMA StepInv == IInv /\ [Next]_vars => IInv'
<1> SUFFICES ASSUME IInv, [Next]_vars PROVE IInv'
  OBVIOUS
<1>1. ASSUME NEW s \in Slots, Statement(s)
      PROVE  IInv'
  BY <1>1, RegisterCheckInv, RegisterInsertInv, RegisterReadBackInv, LoginFindInv, LoginStampInv,
     RefreshFindInv, ChangeFindInv, ChangeUpdateInv, SettingsInv DEF Statement
<1>2. ASSUME NEW s \in Slots, Fail(s)
      PROVE  IInv'
  BY <1>2, EndsReading DEF Fail
<1>3. ASSUME Administer
      PROVE  IInv'
  BY <1>3, SetStateInv DEF Administer
<1>4. CASE UNCHANGED vars
  BY <1>4 DEF vars, IInv, TypeOK, InFlight, Replied, RegisteredIsOwn, TokensAreDeserved,
              DeservedIsGranted, Normal, Named
<1> QED BY <1>1, <1>2, <1>3, <1>4, RequestInv DEF Next

\* Types, unique names, what each handler has established and what each reply
\* rests on: the inductive invariant of AuthService and UsersService.
THEOREM Invariance == Spec => []IInv
BY InitInv, StepInv, PTL DEF Spec

\* Type correctness.
THEOREM TypeCorrect == Spec => []TypeOK
<1>1. IInv => TypeOK
  BY DEF IInv
<1> QED BY <1>1, Invariance, PTL

\* register answers with, and signs tokens for, the account it has inserted.
THEOREM RegistrationIsOwn == Spec => []RegisteredIsOwn
<1>1. IInv => RegisteredIsOwn
  BY DEF IInv, Replied
<1> QED BY <1>1, Invariance, PTL

\* Tokens are given to accounts that deserved them during the request.
THEOREM TokensDeserved == Spec => []TokensAreDeserved
<1>1. IInv => TokensAreDeserved
  BY DEF IInv, Replied
<1> QED BY <1>1, Invariance, PTL

\* A login that deserved its tokens throughout is refused only when what it gave as its
\* name is the phone of one account and a name of another, neither of them disabled.
THEOREM LoginsGranted == Spec => []DeservedIsGranted
<1>1. IInv => DeservedIsGranted
  BY DEF IInv, Replied
<1> QED BY <1>1, Invariance, PTL

\* A registered account's password changes only at the last step of its owner's
\* changePassword, which has compared the current one, and to the one it was given.
THEOREM PasswordsAreGuarded == Spec => ChangesAreProven
<1> DEFINE Proven(a) ==
      \E s \in Slots :
        /\ call[s].at = "change_update" /\ call'[s] = Idle
        /\ a = call[s].who /\ a \in call[s].ever
        /\ users'[a] = [users[a] EXCEPT !.password = call[s].next]
<1>1. ASSUME IInv, [Next]_vars, NEW a \in Accounts, users[a].state # "unused",
             users'[a].password # users[a].password
      PROVE  Proven(a)
  <2>1. ASSUME NEW s \in Slots, ChangeUpdate(s)
        PROVE  Proven(a)
    <3>1. call[s].at = "change_update" /\ Sound(users, call[s])
      BY <1>1, <2>1, Flying DEF ChangeUpdate, At, Steps
    <3>2. a = call[s].who
      BY <1>1, <2>1 DEF ChangeUpdate, IInv, TypeOK
    <3>3. users'[a] = [users[a] EXCEPT !.password = call[s].next]
      BY <1>1, <2>1, <3>2 DEF ChangeUpdate, IInv, TypeOK
    <3>4. call'[s] = Idle
      BY <1>1, <2>1 DEF ChangeUpdate, End, Conclude, Observed, IInv, TypeOK
    <3> QED BY <3>1, <3>2, <3>3, <3>4 DEF Sound
  <2>2. ASSUME NEW s \in Slots, RegisterInsert(s)
        PROVE  FALSE
    <3>1. users' = users \/ \E b \in Accounts : users[b] = Blank /\ users' = [users EXCEPT ![b] = call[s].form]
      BY <2>2 DEF RegisterInsert, InsertUser
    <3> QED BY <1>1, <3>1 DEF Blank, IInv, TypeOK
  <2>3. ASSUME NEW b \in Accounts, NEW state, SetState(b, state)
        PROVE  FALSE
    <3>1. users[b] \in Rows
      BY <1>1, <2>3 DEF SetState, Registered, IInv, TypeOK, Blank
    <3>2. users'[a].password = users[a].password
      BY <1>1, <2>3, <3>1 DEF SetState, IInv, TypeOK, Rows
    <3> QED BY <1>1, <3>2
  <2>4. users' # users
    BY <1>1
  <2>5. ASSUME NEW s \in Slots, Request(s) \/ Fail(s)
        PROVE  FALSE
    <3>1. UNCHANGED users
      BY <2>5 DEF Request, Fail, Register, Login, Refresh, Logout, GetSettings, UpdateSettings,
                  UpdateProfile, ChangePassword, Begin
    <3> QED BY <2>4, <3>1
  <2>6. ASSUME NEW s \in Slots, Statement(s), ~ChangeUpdate(s), ~RegisterInsert(s)
        PROVE  FALSE
    <3>1. UNCHANGED users
      BY <2>6 DEF Statement, RegisterCheck, RegisterReadBack, LoginFind, LoginChoose, LoginStamp,
                  RefreshFind, LogoutTouch, ChangeFind, GetFind, GetInsert, SetUpdate, SetRead,
                  ProfileUpdate, ProfileRead
    <3> QED BY <2>4, <3>1
  <2>7. CASE Administer
    BY <2>3, <2>7 DEF Administer
  <2>8. Next
    BY <1>1, <2>4 DEF vars
  <2> HIDE DEF Proven
  <2> QED
    BY <2>1, <2>2, <2>5, <2>6, <2>7, <2>8 DEF Next
<1>2. IInv /\ [Next]_vars =>
        [\A a \in Accounts : (users[a].state # "unused" /\ users'[a].password # users[a].password) =>
           \E s \in Slots :
             /\ call[s].at = "change_update" /\ call'[s] = Idle
             /\ a = call[s].who /\ a \in call[s].ever
             /\ users'[a] = [users[a] EXCEPT !.password = call[s].next]]_vars
  BY <1>1
<1> QED BY <1>2, Invariance, PTL DEF Spec, ChangesAreProven

\* The defaults are inserted where there are no settings, and nothing resets them.
THEOREM SettingsStay == Spec => SettingsAreNeverReset
<1>1. IInv /\ [Next]_vars =>
        [\A a \in Accounts :
           /\ settings[a] # "none" => settings'[a] # "none"
           /\ settings[a] = "chosen" => settings'[a] = "chosen"]_vars
  <2> SUFFICES ASSUME IInv, Next, NEW a \in Accounts
               PROVE  /\ settings[a] # "none" => settings'[a] # "none"
                      /\ settings[a] = "chosen" => settings'[a] = "chosen"
    BY DEF vars
  <2>1. ASSUME NEW s \in Slots, GetInsert(s) \/ SetUpdate(s)
        PROVE  /\ settings[a] # "none" => settings'[a] # "none"
               /\ settings[a] = "chosen" => settings'[a] = "chosen"
    BY <2>1 DEF GetInsert, SetUpdate, IInv, TypeOK
  <2>2. CASE settings' = settings
    BY <2>2
  <2>3. ASSUME NEW s \in Slots, Request(s) \/ Fail(s)
        PROVE  settings' = settings
    BY <2>3 DEF Request, Fail, Register, Login, Refresh, Logout, GetSettings, UpdateSettings,
                UpdateProfile, ChangePassword, Begin
  <2>4. ASSUME NEW s \in Slots, Statement(s), ~GetInsert(s), ~SetUpdate(s)
        PROVE  settings' = settings
    BY <2>4 DEF Statement, RegisterCheck, RegisterInsert, RegisterReadBack, LoginFind, LoginChoose,
                LoginStamp, RefreshFind, LogoutTouch, ChangeFind, ChangeUpdate, GetFind, SetRead,
                ProfileUpdate, ProfileRead
  <2>5. Administer => settings' = settings
    BY DEF Administer, SetState
  <2> QED
    BY <2>1, <2>2, <2>3, <2>4, <2>5 DEF Next
<1> QED BY <1>1, Invariance, PTL DEF Spec, SettingsAreNeverReset
=============================================================================
