-------------------------------- MODULE Calls --------------------------------
(***************************************************************************)
(* WebRTCService (src/src/modules/websocket/services/webrtc.service.ts):   *)
(* the two in-memory maps activeCalls and userCallStatus, and what each    *)
(* method emits.                                                           *)
(*                                                                         *)
(* No method awaits anything before its last write: endCall, which         *)
(* initiateCall awaits, awaits nothing when its status is not 'accepted',  *)
(* and its callers pass 'failed' or nothing.  So a method is one step, and *)
(* what interleaves is the calls of different users.                       *)
(*                                                                         *)
(* Two facts about the surroundings are constants.  Server says whether    *)
(* the gateway has its socket server; Reachable are the users for whom     *)
(* getSocketIdByUserId finds a socket: nobody in the shipped stub, and     *)
(* whoever is connected once it is written, as the unit tests mock it.     *)
(***************************************************************************)
CONSTANTS
  Parties,       \* the users who may call and be called
  CallIds,       \* the ids of the calls in progress (bound)
  Server,        \* chatGateway.server is set
  Reachable,     \* users with a socket id
  StatusRouted,  \* getUserCallStatus can be called
  Room,          \* the room of a call's conversation, as an addressee
  NoCall

ASSUME CallsAssumption ==
  /\ Server \in BOOLEAN /\ StatusRouted \in BOOLEAN
  /\ Reachable \subseteq Parties
  /\ Room \notin Parties
  /\ NoCall \notin CallIds

VARIABLES
  activeCalls,     \* the calls in progress
  userCallStatus,  \* the call a user is counted in, or NoCall
  sent,            \* what the last step emitted
  reply            \* what the last step returned or threw

callVars == <<activeCalls, userCallStatus, sent, reply>>

Absent == [caller |-> NoCall, callee |-> NoCall, status |-> "absent"]

\* Between two methods a call in the map is ringing or accepted.
ActiveCall == [caller : Parties, callee : Parties, status : {"calling", "accepted"}]

CallEvents == {"call_offer", "call_answer", "call_declined", "call_ended", "call_status",
           "ice_candidate"}

Emits == [event : CallEvents, to : Parties \cup {Room}, call : CallIds]

Replies == [method : {"none", "initiate", "answer", "decline", "end", "ice", "status"},
            result : {"ok", "callee_busy", "caller_busy", "offline"}]

NoReply == [method |-> "none", result |-> "ok"]

CallsTypeOK ==
  /\ activeCalls \in [CallIds -> ActiveCall \cup {Absent}]
  /\ userCallStatus \in [Parties -> CallIds \cup {NoCall}]
  /\ sent \subseteq Emits
  /\ reply \in Replies

CallsInit ==
  /\ activeCalls = [c \in CallIds |-> Absent]
  /\ userCallStatus = [u \in Parties |-> NoCall]
  /\ sent = {}
  /\ reply = NoReply

Active == {c \in CallIds : activeCalls[c] # Absent}

InCall(u) == userCallStatus[u] # NoCall

Participants(c) == {activeCalls[c].caller, activeCalls[c].callee}

\* generateCallId: an id nothing in the two maps refers to.
FreshCall == {c \in CallIds \ Active : \A u \in Parties : userCallStatus[u] # c}

ToUser(event, u, c) ==
  {[event |-> event, to |-> v, call |-> c] : v \in {u} \cap IF Server THEN Reachable ELSE {}}

ToRoom(event, c) ==
  IF Server THEN {[event |-> event, to |-> Room, call |-> c]} ELSE {}

Answered(method, result) == reply' = [method |-> method, result |-> result]

Unmark(us) ==
  userCallStatus' = [u \in Parties |-> IF u \in us THEN NoCall ELSE userCallStatus[u]]

Remove(c) == activeCalls' = [activeCalls EXCEPT ![c] = Absent]

------------------------------------------------------------------------------
(* initiateCall                                                            *)

RefuseInitiate(u, v) ==
  /\ \/ InCall(v) /\ Answered("initiate", "callee_busy")
     \/ ~InCall(v) /\ InCall(u) /\ Answered("initiate", "caller_busy")
  /\ sent' = {}
  /\ UNCHANGED <<activeCalls, userCallStatus>>

\* The call is recorded, found undeliverable and ended before anyone can see it.
InitiateOffline(u, v, c) ==
  /\ ~InCall(v) /\ ~InCall(u) /\ c \in FreshCall
  /\ Server /\ v \notin Reachable
  /\ sent' = ToUser("call_ended", u, c)
  /\ Answered("initiate", "offline")
  /\ UNCHANGED <<activeCalls, userCallStatus>>

\* Mutant of InitiateCall: the callee is counted while the phone rings.
InitiateCountsCallee(u, v, c) ==
  /\ ~InCall(v) /\ ~InCall(u) /\ c \in FreshCall
  /\ Server => v \in Reachable
  /\ activeCalls' = [activeCalls EXCEPT ![c] =
                       [caller |-> u, callee |-> v, status |-> "calling"]]
  /\ userCallStatus' = [userCallStatus EXCEPT ![u] = c, ![v] = c]
  /\ sent' = ToUser("call_offer", v, c)
  /\ Answered("initiate", "ok")

InitiateCall(u, v, c) ==
  /\ ~InCall(v) /\ ~InCall(u) /\ c \in FreshCall
  /\ Server => v \in Reachable
  /\ activeCalls' = [activeCalls EXCEPT ![c] =
                       [caller |-> u, callee |-> v, status |-> "calling"]]
  /\ userCallStatus' = [userCallStatus EXCEPT ![u] = c]
  /\ sent' = ToUser("call_offer", v, c)
  /\ Answered("initiate", "ok")

------------------------------------------------------------------------------
(* answerCall, declineCall, endCall                                        *)

\* Mutant of AnswerCall: anyone who knows the id may answer.
AnswerAnyones(u, c) ==
  /\ c \in Active
  /\ activeCalls[c].status = "calling"
  /\ activeCalls' = [activeCalls EXCEPT ![c].status = "accepted"]
  /\ userCallStatus' = [userCallStatus EXCEPT ![u] = c]
  /\ sent' = ToUser("call_answer", activeCalls[c].caller, c) \cup ToRoom("call_status", c)
  /\ Answered("answer", "ok")

\* userCallStatus of the callee is overwritten whatever it was.
AnswerCall(u, c) ==
  /\ c \in Active
  /\ activeCalls[c].callee = u
  /\ activeCalls[c].status = "calling"
  /\ activeCalls' = [activeCalls EXCEPT ![c].status = "accepted"]
  /\ userCallStatus' = [userCallStatus EXCEPT ![u] = c]
  /\ sent' = ToUser("call_answer", activeCalls[c].caller, c) \cup ToRoom("call_status", c)
  /\ Answered("answer", "ok")

\* Mutant of DeclineCall: the call stays in the map with its last status.
DeclineKeepsCall(u, c) ==
  /\ c \in Active
  /\ activeCalls[c].callee = u
  /\ activeCalls' = [activeCalls EXCEPT ![c].status = "declined"]
  /\ Unmark({activeCalls[c].caller})
  /\ sent' = ToUser("call_declined", activeCalls[c].caller, c)
  /\ Answered("decline", "ok")

\* Whatever the call's status, only the caller's entry is deleted.
DeclineCall(u, c) ==
  /\ c \in Active
  /\ activeCalls[c].callee = u
  /\ Remove(c)
  /\ Unmark({activeCalls[c].caller})
  /\ sent' = ToUser("call_declined", activeCalls[c].caller, c)
  /\ Answered("decline", "ok")

\* Mutant of EndCall: only the caller's entry is deleted.
EndForgetsCallee(c) ==
  /\ c \in Active
  /\ Remove(c)
  /\ Unmark({activeCalls[c].caller})
  /\ sent' = UNION {ToUser("call_ended", v, c) : v \in Participants(c)}
  /\ Answered("end", "ok")

\* Anybody who knows the id may end the call.  The room is told only if the
\* status, which was just overwritten with 'ended', is 'accepted': never.
EndCall(c) ==
  /\ c \in Active
  /\ Remove(c)
  /\ Unmark(Participants(c))
  /\ sent' = UNION {ToUser("call_ended", v, c) : v \in Participants(c)}
  /\ Answered("end", "ok")

------------------------------------------------------------------------------
(* sendIceCandidate, getUserCallStatus                                     *)

SendIceCandidate(u, c) ==
  LET target == IF u = activeCalls[c].caller THEN activeCalls[c].callee
                                             ELSE activeCalls[c].caller IN
  /\ c \in Active
  /\ u \in Participants(c)
  /\ sent' = ToUser("ice_candidate", target, c)
  /\ Answered("ice", "ok")
  /\ UNCHANGED <<activeCalls, userCallStatus>>

\* Reading the status of a user counted in a call that is gone repairs it.  The
\* controller declares GET calls/:callId before GET calls/status, so the route
\* of this method is never taken: StatusRouted is FALSE in the shipped program.
GetUserCallStatus(u) ==
  /\ StatusRouted
  /\ InCall(u) /\ userCallStatus[u] \notin Active
  /\ Unmark({u})
  /\ sent' = {}
  /\ Answered("status", "ok")
  /\ UNCHANGED activeCalls

------------------------------------------------------------------------------

CallsNext ==
  \/ \E u, v \in Parties :
       RefuseInitiate(u, v) \/ \E c \in CallIds : InitiateOffline(u, v, c) \/ InitiateCall(u, v, c)
  \/ \E u \in Parties, c \in CallIds :
       AnswerCall(u, c) \/ DeclineCall(u, c) \/ SendIceCandidate(u, c)
  \/ \E c \in CallIds : EndCall(c)
  \/ \E u \in Parties : GetUserCallStatus(u)

CallsSpec == CallsInit /\ [][CallsNext]_callVars

------------------------------------------------------------------------------
(* Properties that hold.                                                   *)

\* Whoever is counted in a call that exists takes part in it, although entries
\* are overwritten by answerCall and deleted by methods about other calls.
CountedInOwnCall ==
  \A u \in Parties : userCallStatus[u] \in Active => u \in Participants(userCallStatus[u])

\* The callee is not counted before answering: until then others can ring, too.
CalleeCountedOnceAccepted ==
  \A c \in Active, u \in Parties :
    (userCallStatus[u] = c /\ u # activeCalls[c].caller)
      => activeCalls[c].status = "accepted"

\* A user is left counted in a call that is gone only by declining it after
\* having accepted it: no other order of methods strands anybody.
OnlyLateDeclineStrands ==
  [][\A c \in Active, u \in Parties :
       (c \notin Active' /\ userCallStatus'[u] = c) =>
          /\ reply'.method = "decline"
          /\ u = activeCalls[c].callee /\ activeCalls[c].status = "accepted"]_callVars

==============================================================================
