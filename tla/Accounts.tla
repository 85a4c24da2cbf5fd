------------------------------- MODULE Accounts -------------------------------
(***************************************************************************)
(* AuthService and UsersService (src/src/modules/auth/services/            *)
(* auth.service.ts, src/src/modules/users/services/users.service.ts):      *)
(* registration, login, tokens, passwords and settings.                    *)
(*                                                                         *)
(* A handler is a sequence of SQL statements, without a transaction, as in *)
(* Friends.  bcrypt and the signing of tokens look at nothing but what the *)
(* handler holds already: each belongs to the statement before it.  Columns*)
(* that no guard reads (the profile, the times, user_sessions, into which  *)
(* nothing is ever inserted) are left out.                                 *)
(*                                                                         *)
(* Nothing in src/ writes status or is_active after the INSERT: accounts   *)
(* are barred and restored by an administrator, who is external.           *)
(***************************************************************************)
EXTENDS Naturals, FiniteSets

CONSTANTS
  Accounts,       \* the ids uuidv4 draws
  Usernames, Emails,
  Phones,         \* any strings: nothing keeps them apart from usernames
  Passwords, Slots,
  MaxOpened,      \* bound on the rows of user_settings
  None

ASSUME AccountsAssumption ==
  /\ Usernames \cap Emails = {}
  /\ MaxOpened \in Nat
  /\ None \notin Accounts \cup Usernames \cup Emails \cup Phones \cup Passwords

VARIABLES
  users,          \* table users
  settings,       \* table user_settings
  call,           \* the handler in each slot
  reply           \* the handler whose login the last step refused, or to
                  \* which it gave tokens

vars == <<users, settings, call, reply>>

Logins == Usernames \cup Emails \cup Phones

RegisterSteps == {"register_check", "register_insert", "register_read"}
Steps == RegisterSteps \cup
  {"login_find", "login_stamp", "refresh_find", "change_find", "change_update",
   "get_find", "get_insert", "set_update", "set_read", "profile_update", "profile_read",
   "logout_touch"}

Blank == [state |-> "unused", username |-> None, email |-> None, phone |-> None,
          password |-> None]

Rows == [state : {"normal", "disabled", "inactive"}, username : Usernames,
         email : Emails, phone : Phones \cup {None}, password : Passwords]

\* form is what register was sent, account the login; who is the row the handler
\* is about: the caller's, or the one it has read.  History: wrote is the row it
\* inserted; ever are the accounts that deserved what it asks for at some moment
\* since it began, and always those that did at every moment, until a login has found one.
Idle == [at |-> "idle", who |-> None, form |-> Blank, account |-> None,
         password |-> None, next |-> None, wrote |-> None, ever |-> {}, always |-> {}]

Handlers ==
  [at : Steps, who : Accounts \cup {None}, form : {Blank} \cup Rows,
   account : Logins \cup {None}, password : Passwords \cup {None},
   next : Passwords \cup {None}, wrote : Accounts \cup {None},
   ever : SUBSET Accounts, always : SUBSET Accounts]

TypeOK ==
  /\ users \in [Accounts -> {Blank} \cup Rows]
  /\ settings \in [Accounts -> {"none", "default", "chosen"}]
  /\ call \in [Slots -> {Idle} \cup Handlers]
  /\ reply \in [of : {Idle} \cup Handlers, result : {"none", "tokens", "refused"}]

NoReply == [of |-> Idle, result |-> "none"]

Init ==
  /\ users = [a \in Accounts |-> Blank]
  /\ settings = [a \in Accounts |-> "none"]
  /\ call = [s \in Slots |-> Idle]
  /\ reply = NoReply

Registered == {a \in Accounts : users[a].state # "unused"}

\* username = ? OR email = ? OR phone = ?
NamedIn(us, x) == {a \in Accounts : us[a].state # "unused" /\
                                    x \in {us[a].username, us[a].email, us[a].phone}}

Named(x) == NamedIn(users, x)

------------------------------------------------------------------------------
(* The control of a handler.                                               *)

At(s, step) == call[s].at = step

\* Who has proved, as table us stands, what h has to prove.
Deserving(us, h) ==
  CASE h.at \in {"login_find", "login_stamp"} ->
         {a \in NamedIn(us, h.account) : us[a].state = "normal" /\ us[a].password = h.password}
    [] h.at = "refresh_find" -> {a \in {h.who} : us[a].state = "normal"}
    [] h.at \in {"change_find", "change_update"} ->
         {a \in {h.who} : us[a].password = h.password}
    [] OTHER -> {}

\* History: what the new table says of every handler in flight.
Observed(calls) ==
  [s \in Slots |->
     IF calls[s] = Idle THEN Idle
     ELSE [calls[s] EXCEPT !.ever = @ \cup Deserving(users', calls[s]),
                           !.always = IF calls[s].at = "login_find"
                                      THEN @ \cap Deserving(users', calls[s]) ELSE {}]]

Begin(s, h) ==
  /\ call[s] = Idle
  /\ call' = [call EXCEPT ![s] =
       [h EXCEPT !.ever = Deserving(users, h),
                 !.always = IF h.at = "login_find" THEN Deserving(users, h) ELSE {}]]
  /\ reply' = NoReply
  /\ UNCHANGED <<users, settings>>

Await(s, h) ==
  /\ call' = Observed([call EXCEPT ![s] = h])
  /\ reply' = NoReply

AwaitStep(s, step) == Await(s, [call[s] EXCEPT !.at = step])

Conclude(s, of, result) ==
  /\ call' = Observed([call EXCEPT ![s] = Idle])
  /\ reply' = [of |-> [of EXCEPT !.form = Blank, !.password = None], result |-> result]

\* The handler returns or throws, and no property asks what.
End(s) == Conclude(s, Idle, "none")

\* A login is refused.
Refuse(s) == Conclude(s, call[s], "refused")

ReturnTokens(s, a) == Conclude(s, [call[s] EXCEPT !.who = a], "tokens")

\* The statement is rejected, or the connection to the database is lost.
Fail(s) ==
  /\ call[s] # Idle
  /\ UNCHANGED <<users, settings>>
  /\ End(s)

------------------------------------------------------------------------------
(* register                                                                *)

\* Bound: a registration is begun only when an id is left for it.
Register(s, form) ==
  /\ Cardinality(Accounts \ Registered) >
       Cardinality({q \in Slots : call[q].at \in {"register_check", "register_insert"}})
  /\ Begin(s, [Idle EXCEPT !.at = "register_check", !.form = form])

\* username = ? OR email = ?: the phone is not looked at.
Taken(form) ==
  {a \in Registered : users[a].username = form.username \/ users[a].email = form.email}

RegisterCheck(s) ==
  /\ At(s, "register_check")
  /\ UNCHANGED <<users, settings>>
  /\ \/ Taken(call[s].form) = {} /\ AwaitStep(s, "register_insert")
     \/ Taken(call[s].form) # {} /\ End(s)

InsertUser(s, a) ==
  /\ users[a] = Blank
  /\ users' = [users EXCEPT ![a] = call[s].form]
  /\ Await(s, [call[s] EXCEPT !.at = "register_read", !.wrote = a])

\* Mutant: username and email are not unique.
RegisterInsertAnyway(s) ==
  /\ At(s, "register_insert")
  /\ UNCHANGED settings
  /\ \E a \in Accounts : InsertUser(s, a)

\* UNIQUE username, email and phone, which may be NULL.
RegisterInsert(s) ==
  LET clash == Taken(call[s].form) \cup
                 {a \in Registered : users[a].phone = call[s].form.phone /\ users[a].phone # None} IN
  /\ At(s, "register_insert")
  /\ UNCHANGED settings
  /\ \/ clash = {} /\ \E a \in Accounts : InsertUser(s, a)
     \/ clash # {} /\ UNCHANGED users /\ End(s)

\* LIMIT 1 of the rows that match; the tokens are for the row read back.
RegisterReadBack(s) ==
  /\ At(s, "register_read")
  /\ UNCHANGED <<users, settings>>
  /\ \/ \E a \in Taken(call[s].form) : ReturnTokens(s, a)
     \/ Taken(call[s].form) = {} /\ End(s)

------------------------------------------------------------------------------
(* login, refreshTokens and logout                                         *)

Login(s, account, password) ==
  Begin(s, [Idle EXCEPT !.at = "login_find", !.account = account, !.password = password])

\* rows[0]: with several matches, any of them.  is_active is looked at, and the
\* password compared, in the row as it was read.
LoginChoose(s, found, asksActive) ==
  LET proven(a) == /\ asksActive => users[a].state # "inactive"
                   /\ users[a].password = call[s].password IN
  /\ At(s, "login_find")
  /\ UNCHANGED <<users, settings>>
  /\ \/ \E a \in found : proven(a)  /\ Await(s, [call[s] EXCEPT !.at = "login_stamp", !.who = a])
     \/ \E a \in found : ~proven(a) /\ Refuse(s)
     \/ found = {} /\ Refuse(s)

Normal(S) == {a \in S : users[a].state # "disabled"}

\* Mutants: is_active is forgotten; the phone is forgotten.
LoginFindInactive(s)  == LoginChoose(s, Normal(Named(call[s].account)), FALSE)
LoginFindNoPhone(s) ==
  LoginChoose(s, Normal({a \in Registered : call[s].account \in {users[a].username, users[a].email}}),
              TRUE)

LoginFind(s) == LoginChoose(s, Normal(Named(call[s].account)), TRUE)

\* last_login_at; the tokens are for the id that was read.
LoginStamp(s) ==
  /\ At(s, "login_stamp")
  /\ UNCHANGED <<users, settings>>
  /\ ReturnTokens(s, call[s].who)

\* A refresh token names an account that was given it.
Refresh(s, a) ==
  /\ a \in Registered
  /\ Begin(s, [Idle EXCEPT !.at = "refresh_find", !.who = a])

\* validateUser, and the tokens
RefreshFind(s) ==
  /\ At(s, "refresh_find")
  /\ UNCHANGED <<users, settings>>
  /\ \/ users[call[s].who].state = "normal" /\ ReturnTokens(s, call[s].who)
     \/ users[call[s].who].state # "normal" /\ End(s)

\* Tokens are not recorded: nothing becomes of them.
Logout(s, a) ==
  /\ a \in Registered
  /\ Begin(s, [Idle EXCEPT !.at = "logout_touch", !.who = a])

LogoutTouch(s) ==
  /\ At(s, "logout_touch")
  /\ UNCHANGED <<users, settings>>
  /\ End(s)

------------------------------------------------------------------------------
(* changePassword.  The guard verifies the token of the caller and does not*)
(* ask how the account stands.                                             *)

ChangePassword(s, a, current, new) ==
  /\ a \in Registered
  /\ Begin(s, [Idle EXCEPT !.at = "change_find", !.who = a,
                           !.password = current, !.next = new])

\* Mutant: the current password is not compared.
ChangeFindTrusting(s) ==
  /\ At(s, "change_find")
  /\ UNCHANGED <<users, settings>>
  /\ AwaitStep(s, "change_update")

ChangeFind(s) ==
  LET proven == users[call[s].who].password = call[s].password IN
  /\ At(s, "change_find")
  /\ UNCHANGED <<users, settings>>
  /\ \/ proven  /\ AwaitStep(s, "change_update")
     \/ ~proven /\ End(s)

ChangeUpdate(s) ==
  /\ At(s, "change_update")
  /\ users' = [users EXCEPT ![call[s].who].password = call[s].next]
  /\ UNCHANGED settings
  /\ End(s)

------------------------------------------------------------------------------
(* getUserSettings and updateUserSettings                                  *)

\* Bound: the settings of MaxOpened accounts at most are opened.
Opened == {a \in Accounts : settings[a] # "none" \/
                            \E q \in Slots : call[q].at \in {"get_find", "get_insert"} /\ call[q].who = a}

GetSettings(s, a) ==
  /\ a \in Registered
  /\ Cardinality(Opened \cup {a}) <= MaxOpened
  /\ Begin(s, [Idle EXCEPT !.at = "get_find", !.who = a])

GetFind(s) ==
  LET none == settings[call[s].who] = "none" IN
  /\ At(s, "get_find")
  /\ UNCHANGED <<users, settings>>
  /\ \/ none  /\ AwaitStep(s, "get_insert")
     \/ ~none /\ End(s)

\* Mutant: the row is replaced if there is one.
GetInsertReplaces(s) ==
  /\ At(s, "get_insert")
  /\ settings' = [settings EXCEPT ![call[s].who] = "default"]
  /\ UNCHANGED users
  /\ AwaitStep(s, "get_find")

\* PRIMARY KEY (user_id).  The handler calls itself and looks again.
GetInsert(s) ==
  LET none == settings[call[s].who] = "none" IN
  /\ At(s, "get_insert")
  /\ UNCHANGED users
  /\ \/ /\ none
        /\ settings' = [settings EXCEPT ![call[s].who] = "default"]
        /\ AwaitStep(s, "get_find")
     \/ ~none /\ UNCHANGED settings /\ End(s)

UpdateSettings(s, a) ==
  /\ a \in Registered
  /\ Begin(s, [Idle EXCEPT !.at = "set_update", !.who = a])

\* With no row, the UPDATE changes nothing.
SetUpdate(s) ==
  /\ At(s, "set_update")
  /\ settings' = [settings EXCEPT ![call[s].who] = IF @ = "none" THEN "none" ELSE "chosen"]
  /\ UNCHANGED users
  /\ AwaitStep(s, "set_read")

SetRead(s) ==
  /\ At(s, "set_read")
  /\ UNCHANGED <<users, settings>>
  /\ End(s)

\* updateUserProfile and uploadAvatar: an UPDATE of columns that are left out,
\* and the row read back.
UpdateProfile(s, a) ==
  /\ a \in Registered
  /\ Begin(s, [Idle EXCEPT !.at = "profile_update", !.who = a])

ProfileUpdate(s) ==
  /\ At(s, "profile_update")
  /\ UNCHANGED <<users, settings>>
  /\ AwaitStep(s, "profile_read")

ProfileRead(s) ==
  /\ At(s, "profile_read")
  /\ UNCHANGED <<users, settings>>
  /\ End(s)

------------------------------------------------------------------------------
(* The administrator, external.                                            *)

SetState(a, state) ==
  /\ a \in Registered
  /\ users[a].state # state
  /\ users' = [users EXCEPT ![a].state = state]
  /\ call' = Observed(call)
  /\ reply' = NoReply
  /\ UNCHANGED settings

Administer == \E a \in Accounts, state \in {"normal", "disabled", "inactive"} : SetState(a, state)

Forms == {r \in Rows : r.state = "normal"}

Request(s) ==
  \/ \E form \in Forms : Register(s, form)
  \/ \E account \in Logins, password \in Passwords : Login(s, account, password)
  \/ \E a \in Accounts :
       \/ Refresh(s, a) \/ Logout(s, a) \/ GetSettings(s, a) \/ UpdateSettings(s, a)
       \/ UpdateProfile(s, a)
       \/ \E current, new \in Passwords : ChangePassword(s, a, current, new)

Statement(s) ==
  \/ RegisterCheck(s) \/ RegisterInsert(s) \/ RegisterReadBack(s)
  \/ LoginFind(s) \/ LoginStamp(s) \/ RefreshFind(s) \/ LogoutTouch(s)
  \/ ChangeFind(s) \/ ChangeUpdate(s)
  \/ GetFind(s) \/ GetInsert(s) \/ SetUpdate(s) \/ SetRead(s)
  \/ ProfileUpdate(s) \/ ProfileRead(s)

Next == Administer \/ \E s \in Slots : Request(s) \/ Statement(s) \/ Fail(s)

Spec == Init /\ [][Next]_vars

------------------------------------------------------------------------------

\* register reads its row back by username OR email, after others may have
\* registered: the account it answers with and signs tokens for is still the one
\* it inserted (auth.service.ts:52).
RegisteredIsOwn ==
  (reply.of.at = "register_read" /\ reply.result = "tokens") => reply.of.who = reply.of.wrote

\* login signs for the row it read before two awaits, refreshTokens for the one
\* it validated: at some moment of the request the account was in order and, for
\* a login, bore that name and that password (auth.service.ts:73, 165).
TokensAreDeserved ==
  (reply.of.at \in {"login_stamp", "refresh_find"} /\ reply.result = "tokens") =>
    reply.of.who \in reply.of.ever

\* A login that is refused was at some moment of the request not to be granted,
\* whatever is changed meanwhile, unless what it gave as its name is the phone of one
\* account and the username or e-mail of another, neither of them disabled: rows[0]
\* may then be the other one (auth.service.ts:77, 81).
DeservedIsGranted ==
  (reply.of.at = "login_find" /\ reply.result = "refused") =>
    \A a \in reply.of.always : \E b \in Normal(Named(reply.of.account)) \ {a} :
      reply.of.account \in {users[a].phone, users[b].phone}

\* A password is replaced only by a handler that ends with it, whose caller has given
\* one that was the account's at some moment of the request, and by the one that
\* caller asked for; nothing else of the row changes, even if the password or the
\* state of the account has been changed since it was compared
\* (users.service.ts:92, 101).
ChangesAreProven ==
  [][\A a \in Accounts :
       (users[a].state # "unused" /\ users'[a].password # users[a].password) =>
         \E s \in Slots :
           /\ call[s].at = "change_update" /\ call'[s] = Idle
           /\ a = call[s].who /\ a \in call[s].ever
           /\ users'[a] = [users[a] EXCEPT !.password = call[s].next]]_vars

\* getUserSettings inserts the defaults after it has found no row: it never
\* resets what is there by then (users.service.ts:129).
SettingsAreNeverReset ==
  [][\A a \in Accounts :
       /\ settings[a] # "none" => settings'[a] # "none"
       /\ settings[a] = "chosen" => settings'[a] = "chosen"]_vars
==============================================================================
