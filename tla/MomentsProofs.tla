---------------------------- MODULE MomentsProofs ----------------------------
(***************************************************************************)
(* Proofs about the counters of Moments, for any users, posts, comments    *)
(* and number of concurrent requests.                                      *)
(*                                                                         *)
(* A counter is compared with the number of rows less what the handlers in *)
(* flight have still to add, plus what they have still to take away.  The  *)
(* difference is the gap.  No step narrows a gap unless a handler fails    *)
(* while it owes a counter, and a step widens one only when somebody       *)
(* repeats what is done or under way.                                      *)
(*                                                                         *)
(* The sets may be infinite: only finitely many rows and handlers are      *)
(* there at a time (Finite), and these are what is counted.                *)
(***************************************************************************)
EXTENDS Moments, FiniteSetTheorems, TLAPS

OnPost == {"unpost_find", "unpost_update", "comment_insert", "comment_read", "comment_add"}

OnComment == {"uncomment_find", "uncomment_update", "uncomment_sub"}

\* The target of a handler; deleteComment has found its caller to be the author.
InFlight(s) ==
  LET h == call[s] IN
  /\ h.at \in LikeSteps => h.on \in Targets
  /\ h.at \in OnPost => h.on \in Posts
  /\ h.at \in OnComment => h.on \in Comments
  /\ h.at \in {"uncomment_update", "uncomment_sub"} => comment[h.on].author = h.me

\* A comment that is there, and only such a one, has an author and a post.
Placed ==
  \A c \in Comments :
    /\ comment[c].author \in Users => comment[c].state # "unused"
    /\ comment[c].state # "unused" => comment[c].post \in Posts

Busy == {s \in Slots : call[s] # Idle}

Written == {c \in Comments : comment[c].state # "unused"}

Likers(t) == {u \in Users : <<t, u>> \in likes}

Finite == IsFiniteSet(Busy) /\ IsFiniteSet(Written) /\ \A t \in Targets : IsFiniteSet(Likers(t))

\* Nobody acts twice on one thing at a time.
Alone ==
  \A s, q \in Busy : (call[s].me = call[q].me /\ call[s].on = call[q].on) => s = q

\* What is about to be taken away is still there.
Unspent ==
  \A s \in Slots :
    /\ At(s, "like_delete") => <<call[s].on, call[s].me>> \in likes
    /\ At(s, "uncomment_update") => comment[call[s].on].state = "live"

LikeGap(t) == LikesOf(t) - AboutTo("like_add", t) + AboutTo("like_sub", t) - likeCount[t]

CommentGap(p) ==
  CommentsOn(p) - AboutTo("comment_read", p) - AboutTo("comment_add", p)
    + AboutToUncomment(p) - commentCount[p]

\* The part that is about single rows and handlers.
Rows ==
  /\ TypeOK
  /\ \A s \in Slots : InFlight(s)
  /\ Placed
  /\ Finite
  /\ ~repeated => Alone /\ Unspent

Gaps ==
  ~failed =>
    /\ \A t \in Targets : LikeGap(t) >= 0 /\ (~repeated => LikeGap(t) = 0)
    /\ \A p \in Posts : CommentGap(p) >= 0 /\ (~repeated => CommentGap(p) = 0)

IInv == Rows /\ Gaps

------------------------------------------------------------------------------
(* Counting.                                                               *)

\* Of two sets that differ in one element at most.
LEMMA CountMove ==
  ASSUME NEW S, NEW T, NEW x, IsFiniteSet(S), S \ {x} = T \ {x}
  PROVE  /\ IsFiniteSet(T)
         /\ Cardinality(S) \in Nat /\ Cardinality(T) \in Nat
         /\ Cardinality(T) = Cardinality(S) + (IF x \in T THEN 1 ELSE 0)
                                            - (IF x \in S THEN 1 ELSE 0)
<1> DEFINE R == S \ {x}
<1>1. /\ IsFiniteSet(R)
      /\ Cardinality(R) = IF x \in S THEN Cardinality(S) - 1 ELSE Cardinality(S)
  BY FS_RemoveElement
<1>2. Cardinality(S) \in Nat /\ Cardinality(R) \in Nat
  BY <1>1, FS_CardinalityType
<1>3. T = IF x \in T THEN R \cup {x} ELSE R
  OBVIOUS
<1>4. /\ IsFiniteSet(R \cup {x})
      /\ Cardinality(R \cup {x}) = Cardinality(R) + 1
  BY <1>1, FS_AddElement
<1> HIDE DEF R
<1>5. IsFiniteSet(T) /\ Cardinality(T) = Cardinality(R) + (IF x \in T THEN 1 ELSE 0)
  <2>1. CASE x \in T
    BY <1>3, <1>4, <2>1
  <2>2. CASE x \notin T
    BY <1>1, <1>2, <1>3, <2>2
  <2> QED BY <2>1, <2>2
<1>6. Cardinality(T) \in Nat
  BY <1>5, FS_CardinalityType
<1> QED BY <1>1, <1>2, <1>5, <1>6

------------------------------------------------------------------------------
(* Control.                                                                *)

LEMMA StepNames ==
  /\ "idle" \notin Steps
  /\ LikeSteps \subseteq Steps /\ OnPost \subseteq Steps /\ OnComment \subseteq Steps
  /\ {"post_insert", "post_read"} \subseteq Steps
  /\ LikeSteps \cap (OnPost \cup OnComment) = {} /\ OnPost \cap OnComment = {}
BY DEF Steps, LikeSteps, PostSteps, CommentSteps, OnPost, OnComment

LEMMA Awaits ==
  ASSUME TypeOK, NEW s \in Slots, call[s] \in Handlers, NEW step \in Steps, Await(s, step)
  PROVE  /\ call' \in [Slots -> {Idle} \cup Handlers]
         /\ call'[s] \in Handlers /\ call'[s].at = step
         /\ call'[s].me = call[s].me /\ call'[s].on = call[s].on
         /\ \A q \in Slots \ {s} : call'[q] = call[q]
<1>1. call' = [call EXCEPT ![s] = [call[s] EXCEPT !.at = step]]
  BY DEF Await
<1>2. [call[s] EXCEPT !.at = step] \in Handlers
  BY DEF Handlers
<1> QED BY <1>1, <1>2 DEF TypeOK, Handlers

LEMMA Ends ==
  ASSUME TypeOK, NEW s \in Slots, End(s) \/ Throw(s)
  PROVE  /\ call' \in [Slots -> {Idle} \cup Handlers]
         /\ call'[s] = Idle
         /\ \A q \in Slots \ {s} : call'[q] = call[q]
BY DEF End, Throw, TypeOK

\* A request sets out with a target of the right kind.
LEMMA RequestFrame ==
  ASSUME NEW s \in Slots, Request(s)
  PROVE  \E step \in {"post_insert", "unpost_find", "like_find", "comment_insert",
                      "uncomment_find"}, u \in Users, x \in Ids :
           /\ Begin(s, step, u, x)
           /\ step \in LikeSteps => x \in Targets
           /\ step \in OnPost => x \in Posts
           /\ step \in OnComment => x \in Comments
<1> USE DEF LikeSteps, OnPost, OnComment, Ids, Targets
<1>1. PICK u \in Users :
        \/ CreatePost(s, u)
        \/ \E t \in Targets : Like(s, u, t)
        \/ \E p \in Posts : DeletePost(s, u, p) \/ AddComment(s, u, p)
        \/ \E c \in Comments : DeleteComment(s, u, c)
  BY DEF Request
<1>2. CASE CreatePost(s, u)
  BY <1>2 DEF CreatePost
<1>3. CASE \E t \in Targets : Like(s, u, t)
  BY <1>3 DEF Like
<1>4. CASE \E p \in Posts : DeletePost(s, u, p) \/ AddComment(s, u, p)
  BY <1>4 DEF DeletePost, AddComment
<1>5. CASE \E c \in Comments : DeleteComment(s, u, c)
  BY <1>5 DEF DeleteComment
<1> QED BY <1>1, <1>2, <1>3, <1>4, <1>5

LEMMA StatementControl ==
  ASSUME NEW s \in Slots, Statement(s)
  PROVE  /\ call[s].at \in Steps
         /\ (\E step \in Steps : Await(s, step)) \/ End(s) \/ Throw(s)
<1> USE DEF Steps, LikeSteps, PostSteps, CommentSteps, At
<1>1. CASE PostInsert(s) \/ PostReadBack(s) \/ UnpostFind(s) \/ UnpostUpdate(s)
  BY <1>1 DEF PostInsert, PostReadBack, UnpostFind, UnpostUpdate
<1>2. CASE LikeFind(s) \/ LikeInsert(s) \/ LikeDelete(s) \/ LikeAdd(s) \/ LikeSub(s)
  BY <1>2 DEF LikeFind, LikeInsert, LikeDelete, LikeAdd, LikeSub
<1>3. CASE CommentInsert(s) \/ CommentReadBack(s) \/ CommentAdd(s)
  BY <1>3 DEF CommentInsert, CommentReadBack, CommentAdd
<1>4. CASE UncommentFind(s) \/ UncommentUpdate(s) \/ UncommentSub(s)
  BY <1>4 DEF UncommentFind, UncommentUpdate, UncommentSub
<1> QED BY <1>1, <1>2, <1>3, <1>4 DEF Statement

LEMMA InFlightIsHandler ==
  ASSUME TypeOK, NEW s \in Slots, call[s].at # "idle"
  PROVE  call[s] \in Handlers /\ call[s].me \in Users /\ call[s].on \in Ids /\ s \in Busy
BY DEF TypeOK, Handlers, Idle, Busy

------------------------------------------------------------------------------
(* The rows and the handlers.                                              *)

\* A comment that is there keeps its author and its post.
LEMMA CommentStep ==
  ASSUME Rows, [Next]_vars
  PROVE  /\ comment' \in [Comments -> [state : States, author : Users \cup {NoUser},
                                       post : Posts \cup {NoPost}]]
         /\ Placed' /\ IsFiniteSet(Written')
         /\ \A c \in Written :
              /\ c \in Written'
              /\ comment'[c].author = comment[c].author /\ comment'[c].post = comment[c].post
<1> USE DEF Rows
<1> USE DEF Written
<1>1. CASE UNCHANGED comment
  BY <1>1 DEF TypeOK, Placed, Finite
<1>2. ASSUME NEW s \in Slots, CommentInsert(s), ~UNCHANGED comment
      PROVE  \E c \in Comments :
               /\ comment[c].state = "unused" /\ call[s].me \in Users /\ call[s].on \in Posts
               /\ comment' = [comment EXCEPT ![c] =
                    [state |-> "live", author |-> call[s].me, post |-> call[s].on]]
  <2>1. call[s].me \in Users
    BY <1>2, InFlightIsHandler DEF CommentInsert, At
  <2>2. call[s].on \in Posts
    BY <1>2 DEF CommentInsert, At, InFlight, OnPost
  <2> QED BY <1>2, <2>1, <2>2 DEF CommentInsert
<1>3. ASSUME NEW s \in Slots, UncommentUpdate(s)
      PROVE  \E c \in Written : comment' = [comment EXCEPT ![c].state = "deleted"]
  <2>1. call[s].me \in Users
    BY <1>3, InFlightIsHandler DEF UncommentUpdate, At
  <2>2. call[s].on \in Comments /\ comment[call[s].on].author = call[s].me
    BY <1>3 DEF UncommentUpdate, At, InFlight, OnComment
  <2>3. call[s].on \in Written
    BY <2>1, <2>2 DEF Placed
  <2> QED BY <1>3, <2>3 DEF UncommentUpdate
<1>4. ASSUME NEW c \in Comments, comment[c].state = "unused", NEW u \in Users, NEW p \in Posts,
             comment' = [comment EXCEPT ![c] = [state |-> "live", author |-> u, post |-> p]]
      PROVE  /\ comment' \in [Comments -> [state : States, author : Users \cup {NoUser},
                                           post : Posts \cup {NoPost}]]
             /\ Placed' /\ IsFiniteSet(Written')
             /\ \A d \in Written : comment'[d] = comment[d]
  <2>1. /\ comment' \in [Comments -> [state : States, author : Users \cup {NoUser},
                                      post : Posts \cup {NoPost}]]
        /\ comment'[c] = [state |-> "live", author |-> u, post |-> p]
        /\ \A d \in Comments \ {c} : comment'[d] = comment[d]
    BY <1>4 DEF TypeOK, States
  <2>2. Placed'
    BY <2>1 DEF Placed
  <2>3. Written' = Written \cup {c}
    BY <2>1
  <2>4. IsFiniteSet(Written')
    BY <2>3, FS_AddElement DEF Finite
  <2> QED BY <1>4, <2>1, <2>2, <2>4
<1>5. ASSUME NEW c \in Written, comment' = [comment EXCEPT ![c].state = "deleted"]
      PROVE  /\ comment' \in [Comments -> [state : States, author : Users \cup {NoUser},
                                           post : Posts \cup {NoPost}]]
             /\ Placed' /\ Written' = Written
             /\ \A d \in Comments :
                  comment'[d].author = comment[d].author /\ comment'[d].post = comment[d].post
  <2>1. comment' = [comment EXCEPT ![c] = [comment[c] EXCEPT !.state = "deleted"]]
    BY <1>5
  <2>2. comment[c] \in [state : States, author : Users \cup {NoUser}, post : Posts \cup {NoPost}]
    BY DEF TypeOK
  <2>3. /\ comment'[c] = [comment[c] EXCEPT !.state = "deleted"]
        /\ \A d \in Comments \ {c} : comment'[d] = comment[d]
    BY <2>1 DEF TypeOK
  <2>4. /\ comment'[c].state = "deleted" /\ comment'[c].author = comment[c].author
        /\ comment'[c].post = comment[c].post
        /\ comment'[c] \in [state : States, author : Users \cup {NoUser}, post : Posts \cup {NoPost}]
    BY <2>2, <2>3 DEF States
  <2>5. comment' \in [Comments -> [state : States, author : Users \cup {NoUser},
                                   post : Posts \cup {NoPost}]]
    BY <2>1, <2>3, <2>4 DEF TypeOK
  <2>6. Placed'
    BY <2>3, <2>4 DEF Placed
  <2>7. Written' = Written
    BY <2>3, <2>4
  <2> QED BY <2>3, <2>4, <2>5, <2>6, <2>7
<1>6. CASE \E s \in Slots : CommentInsert(s) /\ ~UNCHANGED comment
  <2>1. PICK s \in Slots : CommentInsert(s) /\ ~UNCHANGED comment
    BY <1>6
  <2>2. PICK c \in Comments :
          /\ comment[c].state = "unused" /\ call[s].me \in Users /\ call[s].on \in Posts
          /\ comment' = [comment EXCEPT ![c] =
               [state |-> "live", author |-> call[s].me, post |-> call[s].on]]
    BY <1>2, <2>1
  <2>3. /\ comment' \in [Comments -> [state : States, author : Users \cup {NoUser},
                                      post : Posts \cup {NoPost}]]
        /\ Placed' /\ IsFiniteSet(Written')
        /\ \A d \in Written : comment'[d] = comment[d]
    BY <1>4, <2>2
  <2> QED BY <2>3
<1>7. CASE \E s \in Slots : UncommentUpdate(s)
  BY <1>3, <1>5, <1>7 DEF Finite
<1>8. \/ UNCHANGED comment
      \/ \E s \in Slots : CommentInsert(s) /\ ~UNCHANGED comment
      \/ \E s \in Slots : UncommentUpdate(s)
  <2>1. ASSUME NEW s \in Slots, Request(s)
        PROVE  UNCHANGED comment
    BY <2>1, RequestFrame DEF Begin, tables
  <2>2. ASSUME NEW s \in Slots, Statement(s)
        PROVE  UNCHANGED comment \/ CommentInsert(s) \/ UncommentUpdate(s)
    BY <2>2 DEF Statement, PostInsert, PostReadBack, UnpostFind, UnpostUpdate, LikeFind,
                LikeInsert, LikeDelete, LikeAdd, LikeSub, CommentReadBack, CommentAdd,
                UncommentFind, UncommentSub, tables
  <2> QED BY <2>1, <2>2 DEF Next, vars, tables, Fail
<1> QED BY <1>1, <1>6, <1>7, <1>8

LEMMA StepOfOne ==
  ASSUME [Next]_vars
  PROVE  UNCHANGED vars \/ \E s \in Slots : Request(s) \/ Statement(s) \/ Fail(s)
BY DEF Next

\* The likes of a target are moved by likePost and likeComment alone.
LEMMA LikesStep ==
  ASSUME Rows, NEW s \in Slots, Request(s) \/ Statement(s) \/ Fail(s)
  PROVE  \/ UNCHANGED likes
         \/ /\ LikeInsert(s) /\ Await(s, "like_add")
            /\ <<call[s].on, call[s].me>> \notin likes
            /\ likes' = likes \cup {<<call[s].on, call[s].me>>}
         \/ /\ LikeDelete(s)
            /\ likes' = likes \ {<<call[s].on, call[s].me>>}
<1>1. CASE Request(s)
  BY <1>1, RequestFrame DEF Begin, tables
<1>2. CASE Statement(s)
  BY <1>2
     DEF Statement, PostInsert, PostReadBack, UnpostFind, UnpostUpdate, LikeFind, LikeInsert,
         LikeDelete, LikeAdd, LikeSub, CommentInsert, CommentReadBack, CommentAdd,
         UncommentFind, UncommentUpdate, UncommentSub, tables
<1>3. CASE Fail(s)
  BY <1>3 DEF Fail, tables
<1> QED BY <1>1, <1>2, <1>3

LEMMA LikersStep ==
  ASSUME Rows, [Next]_vars, NEW t \in Targets
  PROVE  IsFiniteSet(Likers(t)')
<1> USE DEF Likers
<1>1. CASE UNCHANGED likes
  BY <1>1 DEF Rows, Finite
<1>2. ASSUME NEW x, NEW u, likes' = likes \cup {<<x, u>>} \/ likes' = likes \ {<<x, u>>}
      PROVE  IsFiniteSet(Likers(t)')
  <2>1. Likers(t) \ {u} = Likers(t)' \ {u}
    BY <1>2
  <2>2. IsFiniteSet(Likers(t))
    BY DEF Rows, Finite
  <2> HIDE DEF Likers
  <2> QED BY <2>1, <2>2, CountMove
<1> QED BY <1>1, <1>2, LikesStep, StepOfOne DEF vars, tables

\* The other columns.
LEMMA TableStep ==
  ASSUME Rows, [Next]_vars
  PROVE  /\ post' \in [Posts -> [state : States, author : Users \cup {NoUser}]]
         /\ likes' \subseteq Targets \X Users
         /\ likeCount' \in [Targets -> Int] /\ commentCount' \in [Posts -> Int]
         /\ repeated' \in BOOLEAN /\ failed' \in BOOLEAN
<1> USE DEF Rows
<1> DEFINE Typed == /\ post' \in [Posts -> [state : States, author : Users \cup {NoUser}]]
                    /\ likes' \subseteq Targets \X Users
                    /\ likeCount' \in [Targets -> Int] /\ commentCount' \in [Posts -> Int]
<1>1. ASSUME UNCHANGED <<post, likes, likeCount, commentCount>>
      PROVE  Typed
  BY <1>1 DEF TypeOK
<1>2. ASSUME NEW s \in Slots, Statement(s)
      PROVE  Typed
  <2>1. CASE PostInsert(s)
    <3>1. call[s].me \in Users
      BY <2>1, InFlightIsHandler DEF PostInsert, At
    <3> QED BY <2>1, <3>1 DEF PostInsert, TypeOK, States
  <2>2. CASE UnpostUpdate(s)
    <3>1. post' = [post EXCEPT ![call[s].on] = [post[call[s].on] EXCEPT !.state = "deleted"]]
      BY <2>2 DEF UnpostUpdate
    <3> QED BY <2>2, <3>1 DEF UnpostUpdate, TypeOK, States
  <2>3. CASE LikeInsert(s)
    <3>1. call[s].me \in Users /\ call[s].on \in Targets
      BY <2>3, InFlightIsHandler DEF LikeInsert, At, InFlight, LikeSteps
    <3>2. likes' = likes \/ likes' = likes \cup {<<call[s].on, call[s].me>>}
      BY <2>3 DEF LikeInsert
    <3> QED BY <2>3, <3>1, <3>2 DEF LikeInsert, TypeOK
  <2>4. CASE LikeDelete(s)
    BY <2>4 DEF LikeDelete, TypeOK
  <2>5. CASE LikeAdd(s) \/ LikeSub(s)
    BY <2>5 DEF LikeAdd, LikeSub, TypeOK
  <2>6. CASE CommentAdd(s) \/ UncommentSub(s)
    BY <2>6 DEF CommentAdd, UncommentSub, TypeOK
  <2>7. CASE UNCHANGED <<post, likes, likeCount, commentCount>>
    BY <1>1, <2>7
  <2> HIDE DEF Typed
  <2> QED
    BY <1>2, <2>1, <2>2, <2>3, <2>4, <2>5, <2>6, <2>7
       DEF Statement, PostReadBack, UnpostFind, LikeFind, CommentInsert, CommentReadBack,
           UncommentFind, UncommentUpdate, tables
<1> HIDE DEF Typed
<1>3. Typed
  BY <1>1, <1>2, RequestFrame DEF Next, vars, tables, Begin, Fail
<1>4. repeated' \in BOOLEAN
  BY Zenon, RequestFrame
     DEF TypeOK, Next, vars, Begin, Fail, Statement, PostInsert, PostReadBack, UnpostFind,
         UnpostUpdate, LikeFind, LikeInsert, LikeDelete, LikeAdd, LikeSub, CommentInsert,
         CommentReadBack, CommentAdd, UncommentFind, UncommentUpdate, UncommentSub
<1>5. failed' \in BOOLEAN
  <2>1. ASSUME NEW s \in Slots, Statement(s)
        PROVE  failed' \in BOOLEAN
    BY <2>1, StatementControl, Zenon DEF TypeOK, Await, End, Throw
  <2> QED BY <2>1, RequestFrame, Zenon DEF TypeOK, Next, vars, Begin, Fail, Throw
<1> QED BY <1>3, <1>4, <1>5 DEF Typed

\* The two histories only grow.
LEMMA HistoryStep ==
  ASSUME [Next]_vars
  PROVE  (repeated => repeated') /\ (failed => failed')
<1>1. ASSUME NEW s \in Slots, Request(s)
      PROVE  (repeated => repeated') /\ (failed => failed')
  BY <1>1, RequestFrame, Zenon DEF Begin
<1>2. ASSUME NEW s \in Slots, Statement(s)
      PROVE  failed => failed'
  BY <1>2, StatementControl, Zenon DEF Await, End, Throw
<1>3. ASSUME NEW s \in Slots, Statement(s)
      PROVE  repeated => repeated'
  BY <1>3, Zenon
     DEF Statement, PostInsert, PostReadBack, UnpostFind, UnpostUpdate, LikeFind, LikeInsert,
         LikeDelete, LikeAdd, LikeSub, CommentInsert, CommentReadBack, CommentAdd,
         UncommentFind, UncommentUpdate, UncommentSub
<1>4. ASSUME NEW s \in Slots, Fail(s)
      PROVE  (repeated => repeated') /\ (failed => failed')
  BY <1>4, Zenon DEF Fail, Throw
<1>5. CASE UNCHANGED vars
  BY <1>5, Zenon DEF vars
<1> QED BY <1>1, <1>2, <1>3, <1>4, <1>5, StepOfOne

\* What one handler does to the slots.
LEMMA Frame ==
  ASSUME TypeOK, NEW s \in Slots, Request(s) \/ Statement(s) \/ Fail(s)
  PROVE  /\ call' \in [Slots -> {Idle} \cup Handlers]
         /\ \A q \in Slots \ {s} : call'[q] = call[q]
         /\ call'[s] # Idle => Request(s) \/ (/\ call[s] \in Handlers
                                              /\ call'[s].me = call[s].me
                                              /\ call'[s].on = call[s].on)
<1>1. CASE Request(s)
  <2>1. PICK step \in {"post_insert", "unpost_find", "like_find", "comment_insert",
                       "uncomment_find"}, u \in Users, x \in Ids : Begin(s, step, u, x)
    BY <1>1, RequestFrame
  <2>2. [at |-> step, me |-> u, on |-> x] \in Handlers
    BY DEF Handlers, Steps, LikeSteps, PostSteps, CommentSteps
  <2> QED BY <1>1, <2>1, <2>2 DEF Begin, TypeOK
<1>2. CASE Statement(s)
  <2>1. call[s].at \in Steps /\ ((\E step \in Steps : Await(s, step)) \/ End(s) \/ Throw(s))
    BY <1>2, StatementControl
  <2>2. call[s] \in Handlers
    BY <2>1, StepNames, InFlightIsHandler
  <2>3. CASE \E step \in Steps : Await(s, step)
    BY <2>2, <2>3, Awaits
  <2>4. CASE End(s) \/ Throw(s)
    BY <2>4, Ends
  <2> QED BY <2>1, <2>3, <2>4
<1>3. CASE Fail(s)
  BY <1>3, Ends DEF Fail
<1> QED BY <1>1, <1>2, <1>3

LEMMA BusyStep ==
  ASSUME Rows, [Next]_vars
  PROVE  call' \in [Slots -> {Idle} \cup Handlers] /\ IsFiniteSet(Busy')
<1>1. CASE UNCHANGED call
  BY <1>1 DEF Rows, TypeOK, Finite, Busy
<1>2. ASSUME NEW s \in Slots, Request(s) \/ Statement(s) \/ Fail(s)
      PROVE  call' \in [Slots -> {Idle} \cup Handlers] /\ IsFiniteSet(Busy')
  <2>1. /\ call' \in [Slots -> {Idle} \cup Handlers]
        /\ \A q \in Slots \ {s} : call'[q] = call[q]
    BY <1>2, Frame DEF Rows
  <2>2. Busy \ {s} = Busy' \ {s}
    BY <2>1 DEF Busy
  <2> QED BY <2>1, <2>2, CountMove DEF Rows, Finite
<1> QED BY <1>1, <1>2 DEF Next, vars

\* The targets.
LEMMA InFlightStep ==
  ASSUME Rows, [Next]_vars
  PROVE  \A s \in Slots : InFlight(s)'
<1> USE DEF Rows
<1>1. ASSUME NEW q \in Slots, call'[q] = call[q]
      PROVE  InFlight(q)'
  <2>1. call[q].at \in {"uncomment_update", "uncomment_sub"} =>
          call[q].on \in Written /\ comment[call[q].on].author = call[q].me
    <3> SUFFICES ASSUME call[q].at \in {"uncomment_update", "uncomment_sub"}
                 PROVE  call[q].on \in Written /\ comment[call[q].on].author = call[q].me
      OBVIOUS
    <3>1. call[q].me \in Users
      BY InFlightIsHandler
    <3> QED BY <3>1 DEF InFlight, OnComment, Placed, Written
  <2> QED BY <1>1, <2>1, CommentStep DEF InFlight
<1>2. ASSUME NEW s \in Slots, Request(s)
      PROVE  InFlight(s)'
  <2>1. PICK step \in {"post_insert", "unpost_find", "like_find", "comment_insert",
                       "uncomment_find"}, u \in Users, x \in Ids :
           /\ Begin(s, step, u, x)
           /\ step \in LikeSteps => x \in Targets
           /\ step \in OnPost => x \in Posts
           /\ step \in OnComment => x \in Comments
    BY <1>2, RequestFrame
  <2>2. call'[s] = [at |-> step, me |-> u, on |-> x]
    BY <2>1 DEF Begin, TypeOK
  <2> QED BY <2>1, <2>2 DEF InFlight
<1>3. ASSUME NEW s \in Slots, End(s) \/ Throw(s)
      PROVE  InFlight(s)'
  BY <1>3, Ends, StepNames DEF InFlight, Idle, OnPost, OnComment
<1>4. ASSUME NEW s \in Slots, Statement(s)
      PROVE  InFlight(s)'
  <2>1. call[s] \in Handlers
    BY <1>4, StatementControl, StepNames, InFlightIsHandler
  <2>2. ASSUME NEW step \in Steps, Await(s, step)
        PROVE  call'[s].at = step /\ call'[s].me = call[s].me /\ call'[s].on = call[s].on
    BY <2>1, <2>2, Awaits
  <2>3. CASE PostInsert(s)
    <3>1. call'[s].at = "post_read"
      BY <2>2, <2>3, StepNames DEF PostInsert
    <3> QED BY <3>1 DEF InFlight, LikeSteps, OnPost, OnComment
  <2>4. CASE UnpostFind(s) /\ Await(s, "unpost_update")
    <3>1. call'[s].at = "unpost_update" /\ call'[s].on = call[s].on
      BY <2>2, <2>4, StepNames DEF OnPost
    <3> QED BY <2>4, <3>1 DEF UnpostFind, At, InFlight, LikeSteps, OnPost, OnComment
  <2>5. CASE (LikeFind(s) \/ LikeInsert(s) \/ LikeDelete(s)) /\ \E step \in LikeSteps : Await(s, step)
    <3>1. call'[s].at \in LikeSteps /\ call'[s].on = call[s].on /\ call[s].at \in LikeSteps
      BY <2>2, <2>5, StepNames DEF LikeFind, LikeInsert, LikeDelete, At, LikeSteps
    <3> QED BY <3>1, StepNames DEF InFlight, OnComment
  <2>6. CASE (CommentInsert(s) \/ CommentReadBack(s)) /\ \E step \in {"comment_read", "comment_add"} : Await(s, step)
    <3>1. call'[s].at \in {"comment_read", "comment_add"} /\ call'[s].on = call[s].on /\ call[s].at \in OnPost
      BY <2>2, <2>6, StepNames DEF CommentInsert, CommentReadBack, At, OnPost
    <3> QED BY <3>1 DEF InFlight, LikeSteps, OnPost, OnComment
  <2>7. CASE (UncommentFind(s) \/ UncommentUpdate(s)) /\ \E step \in {"uncomment_update", "uncomment_sub"} : Await(s, step)
    <3>1. /\ call'[s].at \in {"uncomment_update", "uncomment_sub"}
          /\ call'[s].on = call[s].on /\ call'[s].me = call[s].me /\ call[s].at \in OnComment
      BY <2>2, <2>7, StepNames DEF UncommentFind, UncommentUpdate, At, OnComment
    <3>2. comment[call[s].on].author = call[s].me \/ End(s)
      BY <2>7 DEF UncommentFind, UncommentUpdate, At, InFlight
    <3>3. ~End(s)
      BY <3>1, Ends DEF Idle
    <3>4. call[s].on \in Written
      BY <2>1, <3>1, <3>2, <3>3 DEF InFlight, Placed, Written, Handlers
    <3> QED BY <3>1, <3>2, <3>3, <3>4, CommentStep DEF InFlight, LikeSteps, OnPost, OnComment, Written
  <2>8. CASE End(s) \/ Throw(s)
    BY <1>3, <2>8
  <2> QED
    BY <1>4, <2>3, <2>4, <2>5, <2>6, <2>7, <2>8
       DEF Statement, PostReadBack, UnpostFind, UnpostUpdate, LikeFind, LikeInsert, LikeDelete,
           LikeAdd, LikeSub, CommentInsert, CommentReadBack, CommentAdd, UncommentFind,
           UncommentUpdate, UncommentSub, LikeSteps
<1>5. ASSUME NEW s \in Slots, Request(s) \/ Statement(s) \/ Fail(s), NEW q \in Slots
      PROVE  InFlight(q)'
  BY <1>1, <1>2, <1>3, <1>4, <1>5, Frame DEF Fail
<1>6. CASE UNCHANGED vars
  BY <1>1, <1>6 DEF vars
<1> QED BY <1>5, <1>6 DEF Next

\* A handler that sets out beside another one for the same thing is a repetition.
LEMMA AloneStep ==
  ASSUME Rows, [Next]_vars, ~repeated'
  PROVE  Alone'
<1>1. Alone
  BY HistoryStep DEF Rows
<1>2. CASE UNCHANGED vars
  BY <1>1, <1>2 DEF vars, Alone, Busy
<1>3. ASSUME NEW r \in Slots, Request(r) \/ Statement(r) \/ Fail(r),
             NEW q \in Slots, q # r, call'[q] # Idle, call'[r] # Idle,
             call'[q].me = call'[r].me, call'[q].on = call'[r].on
      PROVE  FALSE
  <2>1. call'[q] = call[q] /\ q \in Busy
    BY <1>3, Frame DEF Rows, Busy
  <2>2. CASE Request(r)
    <3>1. PICK step \in Steps, u \in Users, x \in Ids : Begin(r, step, u, x)
      BY <2>2, RequestFrame, StepNames DEF LikeSteps, OnPost, OnComment, Steps, PostSteps, CommentSteps
    <3>2. call'[r] = [at |-> step, me |-> u, on |-> x]
      BY <3>1 DEF Begin, Rows, TypeOK
    <3>3. call[q].me = u /\ call[q].on = x
      BY <1>3, <2>1, <3>2
    <3> QED BY <3>1, <3>3, Zenon DEF Begin
  <2>3. CASE /\ call[r] \in Handlers
             /\ call'[r].me = call[r].me /\ call'[r].on = call[r].on
    <3>1. r \in Busy
      BY <2>3, StepNames DEF Busy, Handlers, Idle
    <3> QED BY <1>1, <1>3, <2>1, <2>3, <3>1 DEF Alone
  <2> QED BY <1>3, <2>2, <2>3, Frame DEF Rows
<1>4. ASSUME NEW r \in Slots, Request(r) \/ Statement(r) \/ Fail(r),
             NEW s \in Busy', NEW q \in Busy',
             call'[s].me = call'[q].me, call'[s].on = call'[q].on
      PROVE  s = q
  <2>1. s \in Slots /\ q \in Slots /\ call'[s] # Idle /\ call'[q] # Idle
    BY DEF Busy
  <2>2. CASE s = r \/ q = r
    BY <1>3, <1>4, <2>1, <2>2
  <2>3. CASE s # r /\ q # r
    <3>1. call'[s] = call[s] /\ call'[q] = call[q]
      BY <1>4, <2>1, <2>3, Frame DEF Rows
    <3> QED BY <1>1, <1>4, <2>1, <3>1 DEF Alone, Busy
  <2> QED BY <2>2, <2>3
<1>5. CASE \E r \in Slots : Request(r) \/ Statement(r) \/ Fail(r)
  BY <1>4, <1>5 DEF Alone
<1> QED BY <1>2, <1>5, StepOfOne

\* Where a statement leaves its handler.
LEMMA Destination ==
  ASSUME TypeOK, NEW s \in Slots, Statement(s)
  PROVE  \/ call'[s].at \notin Owing \cup {"like_delete", "uncomment_update"}
         \/ LikeFind(s) /\ call'[s].at = "like_delete" /\ Await(s, "like_delete")
         \/ LikeInsert(s) /\ call'[s].at = "like_add" /\ Await(s, "like_add")
         \/ LikeDelete(s) /\ call'[s].at = "like_sub"
         \/ CommentInsert(s) /\ call'[s].at = "comment_read" /\ Await(s, "comment_read")
         \/ CommentReadBack(s) /\ call'[s].at = "comment_add"
         \/ UncommentFind(s) /\ call'[s].at = "uncomment_update" /\ Await(s, "uncomment_update")
         \/ UncommentUpdate(s) /\ call'[s].at = "uncomment_sub"
<1>1. call[s] \in Handlers
  BY StatementControl, StepNames, InFlightIsHandler
<1>2. ASSUME NEW step \in Steps, Await(s, step)
      PROVE  call'[s].at = step
  BY <1>1, <1>2, Awaits
<1>3. ASSUME End(s) \/ Throw(s)
      PROVE  call'[s].at = "idle"
  BY <1>3, Ends DEF Idle
<1> USE DEF Owing
<1>4. CASE PostInsert(s) \/ PostReadBack(s) \/ UnpostFind(s) \/ UnpostUpdate(s)
  <2>1. Await(s, "post_read") \/ Await(s, "unpost_update") \/ End(s)
    BY <1>4 DEF PostInsert, PostReadBack, UnpostFind, UnpostUpdate
  <2> QED BY <1>2, <1>3, <2>1, StepNames DEF OnPost
<1>5. CASE LikeFind(s)
  BY <1>2, <1>5 DEF LikeFind, Steps, LikeSteps
<1>6. CASE LikeInsert(s)
  BY <1>2, <1>3, <1>6 DEF LikeInsert, Steps, LikeSteps
<1>7. CASE LikeDelete(s)
  BY <1>2, <1>7 DEF LikeDelete, Steps, LikeSteps
<1>8. CASE LikeAdd(s) \/ LikeSub(s) \/ CommentAdd(s) \/ UncommentSub(s)
  BY <1>3, <1>8 DEF LikeAdd, LikeSub, CommentAdd, UncommentSub
<1>9. CASE CommentInsert(s)
  BY <1>2, <1>3, <1>9 DEF CommentInsert, Steps, CommentSteps
<1>10. CASE CommentReadBack(s)
  BY <1>2, <1>10 DEF CommentReadBack, Steps, CommentSteps
<1>11. CASE UncommentFind(s)
  BY <1>2, <1>3, <1>11 DEF UncommentFind, Steps, CommentSteps
<1>12. CASE UncommentUpdate(s)
  BY <1>2, <1>12 DEF UncommentUpdate, Steps, CommentSteps
<1> QED BY <1>4, <1>5, <1>6, <1>7, <1>8, <1>9, <1>10, <1>11, <1>12 DEF Statement

\* The table of comments is moved by addComment and deleteComment alone.
LEMMA CommentsStep ==
  ASSUME NEW s \in Slots, Request(s) \/ Statement(s) \/ Fail(s)
  PROVE  \/ UNCHANGED comment
         \/ CommentInsert(s)
         \/ UncommentUpdate(s)
<1>1. CASE Request(s)
  BY <1>1, RequestFrame DEF Begin, tables
<1>2. CASE Statement(s)
  BY <1>2
     DEF Statement, PostInsert, PostReadBack, UnpostFind, UnpostUpdate, LikeFind, LikeInsert,
         LikeDelete, LikeAdd, LikeSub, CommentReadBack, CommentAdd, UncommentFind,
         UncommentSub, tables
<1>3. CASE Fail(s)
  BY <1>3 DEF Fail, tables
<1> QED BY <1>1, <1>2, <1>3

\* No two handlers take away the same thing, and none takes it away twice.
LEMMA UnspentStep ==
  ASSUME Rows, [Next]_vars, ~repeated'
  PROVE  Unspent'
<1>1. Alone /\ Unspent
  BY HistoryStep DEF Rows
<1>2. CASE UNCHANGED vars
  BY <1>1, <1>2 DEF vars, tables, Unspent, At
<1>3. ASSUME NEW r \in Slots, Request(r) \/ Statement(r) \/ Fail(r), NEW q \in Slots, q # r
      PROVE  /\ At(q, "like_delete")' => (<<call[q].on, call[q].me>> \in likes)'
             /\ At(q, "uncomment_update")' => (comment[call[q].on].state = "live")'
  <2>1. call'[q] = call[q]
    BY <1>3, Frame DEF Rows
  <2>2. SUFFICES ASSUME call[q].at \in {"like_delete", "uncomment_update"}
                 PROVE  /\ call[q].at = "like_delete" => <<call[q].on, call[q].me>> \in likes'
                        /\ call[q].at = "uncomment_update" => comment'[call[q].on].state = "live"
    BY <2>1 DEF At
  <2>3. call[q].me \in Users /\ q \in Busy
    BY <2>2, InFlightIsHandler DEF Rows
  <2>4. CASE call[q].at = "like_delete"
    <3>1. <<call[q].on, call[q].me>> \in likes
      BY <1>1, <2>4 DEF Unspent, At
    <3>2. ASSUME LikeDelete(r)
          PROVE  call[r].on # call[q].on \/ call[r].me # call[q].me
      BY <1>1, <1>3, <2>3, <3>2, InFlightIsHandler DEF Alone, LikeDelete, At, Rows
    <3> QED BY <1>3, <2>4, <3>1, <3>2, LikesStep
  <2>5. CASE call[q].at = "uncomment_update"
    <3>1. comment[call[q].on].state = "live" /\ call[q].on \in Comments
      BY <1>1, <2>5 DEF Unspent, At, Rows, InFlight, OnComment
    <3>2. ASSUME CommentInsert(r)
          PROVE  comment'[call[q].on] = comment[call[q].on]
      <4>1. \/ UNCHANGED comment
            \/ \E c \in Comments :
                 /\ comment[c].state = "unused"
                 /\ comment' = [comment EXCEPT ![c] =
                      [state |-> "live", author |-> call[r].me, post |-> call[r].on]]
        BY <3>2 DEF CommentInsert
      <4> QED BY <3>1, <4>1 DEF Rows, TypeOK
    <3>3. ASSUME UncommentUpdate(r)
          PROVE  comment'[call[q].on] = comment[call[q].on]
      <4>1. r \in Busy /\ comment[call[r].on].author = call[r].me
        BY <3>3, InFlightIsHandler DEF UncommentUpdate, At, Rows, InFlight
      <4>2. comment[call[q].on].author = call[q].me
        BY <2>5 DEF Rows, InFlight
      <4>3. call[r].on # call[q].on
        BY <1>1, <1>3, <2>3, <4>1, <4>2 DEF Alone
      <4> QED BY <3>1, <3>3, <4>3 DEF UncommentUpdate, Rows, TypeOK
    <3> QED BY <1>3, <2>5, <3>1, <3>2, <3>3, CommentsStep
  <2> QED BY <2>2, <2>4, <2>5
<1>4. ASSUME NEW r \in Slots, Request(r) \/ Statement(r) \/ Fail(r)
      PROVE  /\ At(r, "like_delete")' => (<<call[r].on, call[r].me>> \in likes)'
             /\ At(r, "uncomment_update")' => (comment[call[r].on].state = "live")'
  <2>1. CASE Request(r)
    <3>1. call'[r].at \notin {"like_delete", "uncomment_update"}
      BY <2>1, RequestFrame DEF Begin, Rows, TypeOK
    <3> QED BY <3>1 DEF At
  <2>2. CASE End(r) \/ Throw(r)
    BY <2>2, Ends DEF Rows, At, Idle
  <2>3. CASE Statement(r) /\ call'[r].at = "like_delete"
    <3>1. LikeFind(r) /\ call[r] \in Handlers
      BY <2>3, Destination, StatementControl, StepNames, InFlightIsHandler DEF Rows, Owing
    <3>2. call'[r].on = call[r].on /\ call'[r].me = call[r].me
      BY <2>3, <3>1, Awaits, Destination, StepNames DEF Rows, Owing, LikeSteps
    <3>3. <<call[r].on, call[r].me>> \in likes
      BY <2>3, <3>1, Awaits DEF LikeFind, Rows, Steps, LikeSteps
    <3> QED BY <2>3, <3>1, <3>2, <3>3 DEF At, LikeFind, tables
  <2>4. CASE Statement(r) /\ call'[r].at = "uncomment_update"
    <3>1. UncommentFind(r) /\ call[r] \in Handlers
      BY <2>4, Destination, StatementControl, StepNames, InFlightIsHandler DEF Rows, Owing
    <3>2. call'[r].on = call[r].on
      BY <2>4, <3>1, Awaits, Destination, StepNames DEF Rows, Owing, OnComment
    <3>3. comment[call[r].on].author = call[r].me
      BY <2>4, <3>1, Ends DEF UncommentFind, Rows, Idle
    <3>4. call[r].on \in Comments /\ call[r].me \in Users
      BY <3>1 DEF UncommentFind, At, Rows, InFlight, OnComment, Handlers
    <3>5. comment[call[r].on].state # "unused"
      BY <3>3, <3>4 DEF Rows, Placed
    <3>6. comment[call[r].on].state # "deleted"
      BY <3>1, Zenon DEF UncommentFind
    <3>7. comment[call[r].on].state \in {"unused", "live", "deleted"}
      BY <3>4 DEF Rows, TypeOK, States
    <3> QED BY <2>4, <3>1, <3>2, <3>5, <3>6, <3>7 DEF At, UncommentFind, tables
  <2>5. CASE ~At(r, "like_delete")' /\ ~At(r, "uncomment_update")'
    BY <2>5
  <2> QED BY <1>4, <2>1, <2>2, <2>3, <2>4, <2>5 DEF Fail, At
<1>5. ASSUME NEW r \in Slots, Request(r) \/ Statement(r) \/ Fail(r)
      PROVE  Unspent'
  BY <1>3, <1>4, <1>5 DEF Unspent
<1> QED BY <1>2, <1>5, StepOfOne

LEMMA RowsStep ==
  ASSUME Rows, [Next]_vars
  PROVE  Rows'
<1>1. TypeOK'
  BY CommentStep, TableStep, BusyStep DEF TypeOK
<1>2. Finite'
  BY CommentStep, BusyStep, LikersStep DEF Finite
<1> QED BY <1>1, <1>2, CommentStep, InFlightStep, AloneStep, UnspentStep DEF Rows

------------------------------------------------------------------------------
(* The gaps.                                                               *)

\* A comment about to be marked, or just marked, is one that is there.
LEMMA OwnComment ==
  ASSUME Rows, NEW s \in Slots, call[s].at \in {"uncomment_update", "uncomment_sub"}
  PROVE  /\ call[s].on \in Written /\ comment[call[s].on].post \in Posts
         /\ comment[call[s].on].author = call[s].me
<1>1. call[s].me \in Users
  BY InFlightIsHandler DEF Rows
<1>2. call[s].on \in Comments /\ comment[call[s].on].author = call[s].me
  BY DEF Rows, InFlight, OnComment
<1> QED BY <1>1, <1>2 DEF Rows, Placed, Written

\* A counter of handlers moves with the one handler that does.
LEMMA DoingMove ==
  ASSUME TypeOK, IsFiniteSet(Busy), NEW s \in Slots, \A q \in Slots \ {s} : call'[q] = call[q],
         NEW step \in Steps, NEW x
  PROVE  /\ AboutTo(step, x) \in Nat /\ AboutTo(step, x)' \in Nat
         /\ AboutTo(step, x)' = AboutTo(step, x)
              + (IF call'[s].at = step /\ call'[s].on = x THEN 1 ELSE 0)
              - (IF call[s].at = step /\ call[s].on = x THEN 1 ELSE 0)
<1> DEFINE S == {q \in Slots : At(q, step) /\ call[q].on = x}
           T == {q \in Slots : call'[q].at = step /\ call'[q].on = x}
<1>1. S \subseteq Busy
  BY StepNames DEF At, Busy, Idle
<1>2. IsFiniteSet(S)
  BY <1>1, FS_Subset
<1>3. S \ {s} = T \ {s}
  BY DEF At
<1>4. /\ s \in S <=> (call[s].at = step /\ call[s].on = x)
      /\ s \in T <=> (call'[s].at = step /\ call'[s].on = x)
  BY DEF At
<1>5. AboutTo(step, x) = Cardinality(S) /\ AboutTo(step, x)' = Cardinality(T)
  BY DEF AboutTo, At
<1> HIDE DEF S, T
<1> QED BY <1>2, <1>3, <1>4, <1>5, CountMove

LEMMA UndoingMove ==
  ASSUME Rows, [Next]_vars, NEW s \in Slots, \A q \in Slots \ {s} : call'[q] = call[q], NEW p
  PROVE  /\ AboutToUncomment(p) \in Nat /\ AboutToUncomment(p)' \in Nat
         /\ AboutToUncomment(p)' = AboutToUncomment(p)
              + (IF call'[s].at = "uncomment_sub" /\ comment'[call'[s].on].post = p THEN 1 ELSE 0)
              - (IF call[s].at = "uncomment_sub" /\ comment[call[s].on].post = p THEN 1 ELSE 0)
<1> DEFINE S == {q \in Slots : At(q, "uncomment_sub") /\ comment[call[q].on].post = p}
           T == {q \in Slots : call'[q].at = "uncomment_sub" /\ comment'[call'[q].on].post = p}
<1>1. S \subseteq Busy
  BY DEF At, Busy, Idle
<1>2. IsFiniteSet(S)
  BY <1>1, FS_Subset DEF Rows, Finite
<1>3. ASSUME NEW q \in Slots, q # s
      PROVE  q \in S <=> q \in T
  <2>1. call'[q] = call[q]
    BY <1>3
  <2>2. CASE call[q].at = "uncomment_sub"
    <3>1. call[q].on \in Written
      BY <2>2, OwnComment
    <3>2. comment'[call[q].on].post = comment[call[q].on].post
      BY <3>1, CommentStep
    <3> QED BY <2>1, <3>2 DEF At
  <2> QED BY <2>1, <2>2 DEF At
<1>4. S \ {s} = T \ {s}
  BY <1>3 DEF At
<1>5. /\ s \in S <=> (call[s].at = "uncomment_sub" /\ comment[call[s].on].post = p)
      /\ s \in T <=> (call'[s].at = "uncomment_sub" /\ comment'[call'[s].on].post = p)
  BY DEF At
<1>6. AboutToUncomment(p) = Cardinality(S) /\ AboutToUncomment(p)' = Cardinality(T)
  BY DEF AboutToUncomment, At
<1> HIDE DEF S, T
<1> QED BY <1>2, <1>4, <1>5, <1>6, CountMove

\* What a step does, as far as the counters go, unless it fails while it owes one.
LEMMA Kinds ==
  ASSUME Rows, NEW s \in Slots, Request(s) \/ Statement(s) \/ Fail(s), ~failed'
  PROVE  \/ /\ UNCHANGED <<comment, likes, likeCount, commentCount>>
            /\ call[s].at \notin Owing /\ call'[s].at \notin Owing
         \/ /\ LikeInsert(s) /\ Await(s, "like_add") /\ <<call[s].on, call[s].me>> \notin likes
            /\ likes' = likes \cup {<<call[s].on, call[s].me>>}
         \/ LikeDelete(s)
         \/ LikeAdd(s) \/ LikeSub(s)
         \/ CommentInsert(s) /\ Await(s, "comment_read")
         \/ CommentReadBack(s) \/ CommentAdd(s)
         \/ UncommentUpdate(s) \/ UncommentSub(s)
<1>1. CASE Request(s)
  <2>1. call[s].at \notin Owing /\ call'[s].at \notin Owing
    BY <1>1, RequestFrame DEF Begin, Idle, Owing, Rows, TypeOK
  <2> QED BY <1>1, <2>1, RequestFrame DEF Begin, tables
<1>2. CASE Fail(s)
  <2>1. call[s].at \notin Owing
    BY <1>2, Zenon DEF Fail, Throw
  <2>2. call'[s].at = "idle"
    BY <1>2, Ends DEF Fail, Rows, Idle
  <2> QED BY <1>2, <2>1, <2>2 DEF Fail, tables, Owing
<1>3. CASE Statement(s)
  <2>1. CASE PostInsert(s) \/ PostReadBack(s) \/ UnpostFind(s) \/ UnpostUpdate(s) \/ LikeFind(s)
               \/ UncommentFind(s)
    <3>1. call[s].at \notin Owing /\ UNCHANGED <<comment, likes, likeCount, commentCount>>
      BY <2>1
         DEF PostInsert, PostReadBack, UnpostFind, UnpostUpdate, LikeFind, UncommentFind,
             At, Owing, tables
    <3>2. call'[s].at \notin Owing
      BY <1>3, <2>1, Destination
         DEF PostInsert, PostReadBack, UnpostFind, UnpostUpdate, LikeFind, UncommentFind,
             At, Owing, LikeInsert, LikeDelete, CommentInsert, CommentReadBack,
             UncommentUpdate, Rows
    <3> QED BY <3>1, <3>2
  <2>2. CASE LikeInsert(s) /\ Throw(s)
    BY <2>2, Ends DEF LikeInsert, At, Owing, Idle, Rows
  <2>3. CASE CommentInsert(s) /\ Throw(s)
    BY <2>3, Ends DEF CommentInsert, At, Owing, Idle, Rows
  <2> QED BY <1>3, <2>1, <2>2, <2>3 DEF Statement, LikeInsert, CommentInsert
<1> QED BY <1>1, <1>2, <1>3

LEMMA LikesMove ==
  ASSUME Rows, NEW t \in Targets, NEW x, NEW u \in Users,
         likes' = likes \cup {<<x, u>>} \/ likes' = likes \ {<<x, u>>}
  PROVE  /\ LikesOf(t) \in Nat /\ LikesOf(t)' \in Nat
         /\ LikesOf(t)' = LikesOf(t) + (IF x = t /\ <<x, u>> \in likes' THEN 1 ELSE 0)
                                     - (IF x = t /\ <<x, u>> \in likes THEN 1 ELSE 0)
<1> DEFINE S == {v \in Users : <<t, v>> \in likes}
           T == {v \in Users : <<t, v>> \in likes'}
<1>1. IsFiniteSet(S)
  BY DEF Rows, Finite, Likers
<1>2. LikesOf(t) = Cardinality(S) /\ LikesOf(t)' = Cardinality(T)
  BY DEF LikesOf
<1>3. CASE x = t
  <2>1. S \ {u} = T \ {u}
    BY <1>3
  <2>2. (u \in S <=> <<x, u>> \in likes) /\ (u \in T <=> <<x, u>> \in likes')
    BY <1>3
  <2> HIDE DEF S, T
  <2> QED BY <1>1, <1>2, <1>3, <2>1, <2>2, CountMove
<1>4. CASE x # t
  <2>1. S = T
    BY <1>4
  <2>2. Cardinality(S) \in Nat
    BY <1>1, FS_CardinalityType
  <2> HIDE DEF S, T
  <2> QED BY <1>2, <1>4, <2>1, <2>2
<1> QED BY <1>3, <1>4

\* The gap of a counter of likes, for the handlers that make it move.
LEMMA LikeGapMove ==
  ASSUME Rows, NEW s \in Slots, \A q \in Slots \ {s} : call'[q] = call[q], NEW t \in Targets
  PROVE  /\ AboutTo("like_add", t) \in Nat /\ AboutTo("like_sub", t) \in Nat
         /\ AboutTo("like_add", t)' \in Nat /\ AboutTo("like_sub", t)' \in Nat
         /\ AboutTo("like_add", t)' = AboutTo("like_add", t)
              + (IF call'[s].at = "like_add" /\ call'[s].on = t THEN 1 ELSE 0)
              - (IF call[s].at = "like_add" /\ call[s].on = t THEN 1 ELSE 0)
         /\ AboutTo("like_sub", t)' = AboutTo("like_sub", t)
              + (IF call'[s].at = "like_sub" /\ call'[s].on = t THEN 1 ELSE 0)
              - (IF call[s].at = "like_sub" /\ call[s].on = t THEN 1 ELSE 0)
<1>1. "like_add" \in Steps /\ "like_sub" \in Steps
  BY DEF Steps, LikeSteps
<1> QED BY <1>1, DoingMove DEF Rows, Finite

LEMMA LikesType ==
  ASSUME Rows, NEW t \in Targets
  PROVE  LikesOf(t) \in Nat /\ likeCount[t] \in Int
<1>1. LikesOf(t) = Cardinality(Likers(t))
  BY DEF LikesOf, Likers
<1>2. IsFiniteSet(Likers(t))
  BY DEF Rows, Finite
<1> QED BY <1>1, <1>2, FS_CardinalityType DEF Rows, TypeOK

LEMMA LikeGapStep ==
  ASSUME Rows, NEW s \in Slots, Request(s) \/ Statement(s) \/ Fail(s), ~failed', NEW t \in Targets
  PROVE  /\ LikeGap(t) \in Int /\ LikeGap(t)' \in Int
         /\ LikeGap(t)' >= LikeGap(t)
         /\ ~repeated => LikeGap(t)' = LikeGap(t)
<1>1. \A q \in Slots \ {s} : call'[q] = call[q]
  BY Frame DEF Rows
<1>2. LikesOf(t) \in Nat /\ likeCount[t] \in Int
  BY LikesType
<1> DEFINE A == AboutTo("like_add", t)
           B == AboutTo("like_sub", t)
           L == LikesOf(t)
           C == likeCount[t]
<1>3. LikeGap(t) = L - A + B - C /\ LikeGap(t)' = L' - A' + B' - C'
  BY DEF LikeGap
<1>4. ASSUME UNCHANGED <<likes, likeCount>>,
             call[s].at \notin {"like_add", "like_sub"}, call'[s].at \notin {"like_add", "like_sub"}
      PROVE  L' = L /\ A' = A /\ B' = B /\ C' = C
  BY <1>1, <1>2, <1>4, LikeGapMove DEF LikesOf
<1>5. A \in Nat /\ B \in Nat
  BY <1>1, LikeGapMove
<1>6. CASE UNCHANGED <<comment, likes, likeCount, commentCount>>
           /\ call[s].at \notin Owing /\ call'[s].at \notin Owing
  <2>1. L' = L /\ A' = A /\ B' = B /\ C' = C
    BY <1>4, <1>6 DEF Owing
  <2> QED BY <1>2, <1>3, <1>5, <2>1
<1>7. ASSUME call[s].at \in Steps
      PROVE  call[s] \in Handlers /\ call[s].me \in Users
  BY <1>7, InFlightIsHandler, StepNames DEF Rows
<1>8. CASE LikeInsert(s) /\ Await(s, "like_add") /\ <<call[s].on, call[s].me>> \notin likes
           /\ likes' = likes \cup {<<call[s].on, call[s].me>>}
  <2>1. call[s].at = "like_insert" /\ call[s].at \in Steps /\ C' = C
    BY <1>8 DEF LikeInsert, At, Steps, LikeSteps
  <2>2. call'[s].at = "like_add" /\ call'[s].on = call[s].on
    BY <1>7, <1>8, <2>1, Awaits DEF Rows, Steps, LikeSteps
  <2>3. A' = A + (IF call[s].on = t THEN 1 ELSE 0) /\ B' = B
    BY <1>1, <1>5, <2>1, <2>2, LikeGapMove
  <2>4. PICK u \in Users, x \in {call[s].on} : u = call[s].me /\ x = call[s].on
    BY <1>7, <2>1
  <2>5. /\ L' = L + (IF x = t /\ <<x, u>> \in likes' THEN 1 ELSE 0)
                  - (IF x = t /\ <<x, u>> \in likes THEN 1 ELSE 0)
    BY <1>8, <2>4, LikesMove
  <2>6. L' = L + (IF call[s].on = t THEN 1 ELSE 0)
    BY <1>2, <1>8, <2>4, <2>5
  <2> QED BY <1>2, <1>3, <1>5, <2>1, <2>3, <2>6
<1>9. CASE LikeDelete(s)
  <2>1. call[s].at = "like_delete" /\ call[s].at \in Steps /\ C' = C
    BY <1>9 DEF LikeDelete, At, Steps, LikeSteps
  <2>2. call'[s].at = "like_sub" /\ call'[s].on = call[s].on
    BY <1>7, <1>9, <2>1, Awaits DEF LikeDelete, Rows, Steps, LikeSteps
  <2>3. A' = A /\ B' = B + (IF call[s].on = t THEN 1 ELSE 0)
    BY <1>1, <1>5, <2>1, <2>2, LikeGapMove
  <2>4. PICK u \in Users, x \in {call[s].on} : u = call[s].me /\ x = call[s].on
    BY <1>7, <2>1
  <2>5. L' = L + (IF x = t /\ <<x, u>> \in likes' THEN 1 ELSE 0)
               - (IF x = t /\ <<x, u>> \in likes THEN 1 ELSE 0)
    BY <1>9, <2>4, LikesMove DEF LikeDelete
  <2>6. L' = L - (IF call[s].on = t /\ <<call[s].on, call[s].me>> \in likes THEN 1 ELSE 0)
    BY <1>2, <1>9, <2>4, <2>5 DEF LikeDelete
  <2>7. ~repeated => <<call[s].on, call[s].me>> \in likes
    BY <1>9 DEF Rows, Unspent, LikeDelete
  <2> QED BY <1>2, <1>3, <1>5, <2>1, <2>3, <2>6, <2>7
<1>10. CASE LikeAdd(s) \/ LikeSub(s)
  <2>1. call'[s].at = "idle" /\ L' = L
    <3>1. call'[s].at = "idle"
      BY <1>10, Ends DEF LikeAdd, LikeSub, Rows, Idle
    <3>2. UNCHANGED likes
      BY <1>10 DEF LikeAdd, LikeSub
    <3> QED BY <3>1, <3>2 DEF LikesOf
  <2>2. call[s].on \in Targets
    BY <1>10 DEF LikeAdd, LikeSub, At, Rows, InFlight, LikeSteps
  <2>3. CASE LikeAdd(s)
    <3>1. call[s].at = "like_add"
      BY <2>3 DEF LikeAdd, At
    <3>2. A' = A - (IF call[s].on = t THEN 1 ELSE 0) /\ B' = B
      BY <1>1, <1>5, <2>1, <3>1, LikeGapMove
    <3>3. C' = C + (IF call[s].on = t THEN 1 ELSE 0)
      BY <1>2, <2>2, <2>3 DEF LikeAdd, Rows, TypeOK
    <3> QED BY <1>2, <1>3, <1>5, <2>1, <3>2, <3>3
  <2>4. CASE LikeSub(s)
    <3>1. call[s].at = "like_sub"
      BY <2>4 DEF LikeSub, At
    <3>2. B' = B - (IF call[s].on = t THEN 1 ELSE 0) /\ A' = A
      BY <1>1, <1>5, <2>1, <3>1, LikeGapMove
    <3>3. C' = C - (IF call[s].on = t THEN 1 ELSE 0)
      BY <1>2, <2>2, <2>4 DEF LikeSub, Rows, TypeOK
    <3> QED BY <1>2, <1>3, <1>5, <2>1, <3>2, <3>3
  <2> QED BY <1>10, <2>3, <2>4
<1>11. CASE \/ CommentInsert(s) /\ Await(s, "comment_read")
            \/ CommentReadBack(s) \/ CommentAdd(s)
            \/ UncommentUpdate(s) \/ UncommentSub(s)
  <2>1. UNCHANGED <<likes, likeCount>> /\ call[s].at \in CommentSteps
    BY <1>11
       DEF CommentInsert, CommentReadBack, CommentAdd, UncommentUpdate, UncommentSub, At,
           tables, CommentSteps
  <2>2. call'[s].at \in CommentSteps \cup {"idle"}
    <3>1. call[s].at \in Steps /\ CommentSteps \subseteq Steps
      BY <2>1 DEF Steps
    <3>2. (\E step \in CommentSteps : Await(s, step)) \/ End(s)
      BY <1>11
         DEF CommentInsert, CommentReadBack, CommentAdd, UncommentUpdate, UncommentSub, CommentSteps
    <3>3. CASE \E step \in CommentSteps : Await(s, step)
      BY <1>7, <3>1, <3>3, Awaits DEF Rows
    <3>4. CASE End(s)
      BY <3>4, Ends DEF Rows, Idle
    <3> QED BY <3>2, <3>3, <3>4
  <2>3. L' = L /\ A' = A /\ B' = B /\ C' = C
    BY <1>4, <2>1, <2>2 DEF CommentSteps
  <2> QED BY <1>2, <1>3, <1>5, <2>3
<1> HIDE DEF A, B, L, C
<1> QED BY <1>6, <1>8, <1>9, <1>10, <1>11, Kinds

\* The gap of a counter of comments, likewise.
LEMMA CommentGapMove ==
  ASSUME Rows, [Next]_vars, NEW s \in Slots, \A q \in Slots \ {s} : call'[q] = call[q],
         NEW p \in Posts
  PROVE  /\ AboutTo("comment_read", p) \in Nat /\ AboutTo("comment_add", p) \in Nat
         /\ AboutToUncomment(p) \in Nat
         /\ AboutTo("comment_read", p)' = AboutTo("comment_read", p)
              + (IF call'[s].at = "comment_read" /\ call'[s].on = p THEN 1 ELSE 0)
              - (IF call[s].at = "comment_read" /\ call[s].on = p THEN 1 ELSE 0)
         /\ AboutTo("comment_add", p)' = AboutTo("comment_add", p)
              + (IF call'[s].at = "comment_add" /\ call'[s].on = p THEN 1 ELSE 0)
              - (IF call[s].at = "comment_add" /\ call[s].on = p THEN 1 ELSE 0)
         /\ AboutToUncomment(p)' = AboutToUncomment(p)
              + (IF call'[s].at = "uncomment_sub" /\ comment'[call'[s].on].post = p THEN 1 ELSE 0)
              - (IF call[s].at = "uncomment_sub" /\ comment[call[s].on].post = p THEN 1 ELSE 0)
<1>1. "comment_read" \in Steps /\ "comment_add" \in Steps
  BY DEF Steps, CommentSteps
<1> QED BY <1>1, DoingMove, UndoingMove DEF Rows, Finite

LEMMA CommentsType ==
  ASSUME Rows, NEW p \in Posts
  PROVE  CommentsOn(p) \in Nat /\ commentCount[p] \in Int
<1>1. {c \in Comments : comment[c].state = "live" /\ comment[c].post = p} \subseteq Written
  BY DEF Written
<1>2. IsFiniteSet({c \in Comments : comment[c].state = "live" /\ comment[c].post = p})
  BY <1>1, FS_Subset DEF Rows, Finite
<1> QED BY <1>2, FS_CardinalityType DEF CommentsOn, Rows, TypeOK

\* One comment is put there, or is marked.
LEMMA CommentsMove ==
  ASSUME Rows, NEW p \in Posts, NEW c \in Comments,
         \A d \in Comments \ {c} : comment'[d] = comment[d]
  PROVE  CommentsOn(p)' = CommentsOn(p)
           + (IF comment'[c].state = "live" /\ comment'[c].post = p THEN 1 ELSE 0)
           - (IF comment[c].state = "live" /\ comment[c].post = p THEN 1 ELSE 0)
<1> DEFINE S == {d \in Comments : comment[d].state = "live" /\ comment[d].post = p}
           T == {d \in Comments : comment'[d].state = "live" /\ comment'[d].post = p}
<1>1. S \subseteq Written
  BY DEF Written
<1>2. IsFiniteSet(S)
  BY <1>1, FS_Subset DEF Rows, Finite
<1>3. S \ {c} = T \ {c}
  OBVIOUS
<1>4. /\ c \in S <=> (comment[c].state = "live" /\ comment[c].post = p)
      /\ c \in T <=> (comment'[c].state = "live" /\ comment'[c].post = p)
  OBVIOUS
<1>5. CommentsOn(p) = Cardinality(S) /\ CommentsOn(p)' = Cardinality(T)
  BY DEF CommentsOn
<1> HIDE DEF S, T
<1> QED BY <1>2, <1>3, <1>4, <1>5, CountMove

LEMMA CommentGapStep ==
  ASSUME Rows, NEW s \in Slots, Request(s) \/ Statement(s) \/ Fail(s), ~failed', NEW p \in Posts
  PROVE  /\ CommentGap(p) \in Int /\ CommentGap(p)' \in Int
         /\ CommentGap(p)' >= CommentGap(p)
         /\ ~repeated => CommentGap(p)' = CommentGap(p)
<1>1. /\ \A q \in Slots \ {s} : call'[q] = call[q]
      /\ [Next]_vars
  BY Frame DEF Rows, Next
<1>2. CommentsOn(p) \in Nat /\ commentCount[p] \in Int
  BY CommentsType
<1> DEFINE A == AboutTo("comment_read", p)
           B == AboutTo("comment_add", p)
           D == AboutToUncomment(p)
           L == CommentsOn(p)
           C == commentCount[p]
           Debt == {"comment_read", "comment_add", "uncomment_sub"}
<1>3. /\ CommentGap(p) = L - A - B + D - C
      /\ CommentGap(p)' = L' - A' - B' + D' - C'
  BY DEF CommentGap
<1>4. A \in Nat /\ B \in Nat /\ D \in Nat
  BY <1>1, CommentGapMove
<1>5. ASSUME UNCHANGED <<comment, commentCount>>, call[s].at \notin Debt, call'[s].at \notin Debt
      PROVE  L' = L /\ A' = A /\ B' = B /\ D' = D /\ C' = C
  <2>1. A' = A /\ B' = B /\ D' = D
    BY <1>1, <1>4, <1>5, CommentGapMove
  <2> QED BY <1>5, <2>1 DEF CommentsOn
<1>6. CASE UNCHANGED <<comment, likes, likeCount, commentCount>>
           /\ call[s].at \notin Owing /\ call'[s].at \notin Owing
  <2>1. L' = L /\ A' = A /\ B' = B /\ D' = D /\ C' = C
    BY <1>5, <1>6 DEF Owing
  <2> QED BY <1>2, <1>3, <1>4, <2>1
<1>7. ASSUME call[s].at \in Steps
      PROVE  call[s] \in Handlers /\ call[s].me \in Users
  BY <1>7, InFlightIsHandler, StepNames DEF Rows
<1>8. CASE CommentInsert(s) /\ Await(s, "comment_read")
  <2>1. call[s].at = "comment_insert" /\ call[s].at \in Steps /\ C' = C
    BY <1>8 DEF CommentInsert, At, Steps, CommentSteps
  <2>2. call'[s].at = "comment_read" /\ call'[s].on = call[s].on
    BY <1>7, <1>8, <2>1, Awaits DEF Rows, Steps, CommentSteps
  <2>3. A' = A + (IF call[s].on = p THEN 1 ELSE 0) /\ B' = B /\ D' = D
    BY <1>1, <1>4, <2>1, <2>2, CommentGapMove
  <2>4. L' = L + (IF call[s].on = p THEN 1 ELSE 0)
    <3>1. PICK c \in Comments :
            /\ comment[c].state = "unused"
            /\ comment' = [comment EXCEPT ![c] =
                 [state |-> "live", author |-> call[s].me, post |-> call[s].on]]
      <4>1. ~Throw(s)
        BY <2>2, Ends DEF Rows, Idle
      <4> QED BY <1>8, <4>1 DEF CommentInsert
    <3>2. /\ comment'[c].state = "live" /\ comment'[c].post = call[s].on
          /\ \A d \in Comments \ {c} : comment'[d] = comment[d]
      BY <3>1 DEF Rows, TypeOK
    <3>3. L' = L + (IF comment'[c].state = "live" /\ comment'[c].post = p THEN 1 ELSE 0)
                 - (IF comment[c].state = "live" /\ comment[c].post = p THEN 1 ELSE 0)
      BY <3>2, CommentsMove
    <3> QED BY <1>2, <3>1, <3>2, <3>3
  <2> QED BY <1>2, <1>3, <1>4, <2>1, <2>3, <2>4
<1>9. CASE CommentReadBack(s)
  <2>1. /\ call[s].at = "comment_read" /\ call[s].at \in Steps
        /\ UNCHANGED <<comment, commentCount>>
    BY <1>9 DEF CommentReadBack, At, Steps, CommentSteps, tables
  <2>2. call'[s].at = "comment_add" /\ call'[s].on = call[s].on
    BY <1>7, <1>9, <2>1, Awaits DEF CommentReadBack, Rows, Steps, CommentSteps
  <2>3. /\ A' = A - (IF call[s].on = p THEN 1 ELSE 0)
        /\ B' = B + (IF call[s].on = p THEN 1 ELSE 0)
        /\ D' = D
    BY <1>1, <1>4, <2>1, <2>2, CommentGapMove
  <2>4. L' = L /\ C' = C
    BY <2>1 DEF CommentsOn
  <2> QED BY <1>2, <1>3, <1>4, <2>3, <2>4
<1>10. CASE CommentAdd(s)
  <2>1. call[s].at = "comment_add" /\ UNCHANGED comment /\ call[s].on \in Posts
    BY <1>10 DEF CommentAdd, At, Rows, InFlight, OnPost
  <2>2. call'[s].at = "idle"
    BY <1>10, Ends DEF CommentAdd, Rows, Idle
  <2>3. A' = A /\ B' = B - (IF call[s].on = p THEN 1 ELSE 0) /\ D' = D
    BY <1>1, <1>4, <2>1, <2>2, CommentGapMove
  <2>4. C' = C + (IF call[s].on = p THEN 1 ELSE 0)
    BY <1>2, <1>10, <2>1 DEF CommentAdd, Rows, TypeOK
  <2>5. L' = L
    BY <2>1 DEF CommentsOn
  <2> QED BY <1>2, <1>3, <1>4, <2>3, <2>4, <2>5
<1>11. CASE UncommentUpdate(s)
  <2>1. call[s].at = "uncomment_update" /\ call[s].at \in Steps /\ C' = C
    BY <1>11 DEF UncommentUpdate, At, Steps, CommentSteps
  <2>2. call'[s].at = "uncomment_sub" /\ call'[s].on = call[s].on
    BY <1>7, <1>11, <2>1, Awaits DEF UncommentUpdate, Rows, Steps, CommentSteps
  <2>3. call[s].on \in Written
    BY <2>1, OwnComment
  <2>4. comment'[call[s].on].post = comment[call[s].on].post
    BY <1>1, <2>3, CommentStep
  <2>5. A' = A /\ B' = B /\ D' = D + (IF comment[call[s].on].post = p THEN 1 ELSE 0)
    BY <1>1, <1>4, <2>1, <2>2, <2>4, CommentGapMove
  <2>6. L' = L - (IF comment[call[s].on].state = "live" /\ comment[call[s].on].post = p THEN 1 ELSE 0)
    <3>1. PICK c \in Comments : c = call[s].on
      BY <2>3 DEF Written
    <3>2. /\ comment'[c].state = "deleted"
          /\ \A d \in Comments \ {c} : comment'[d] = comment[d]
      <4>1. comment' = [comment EXCEPT ![c] = [comment[c] EXCEPT !.state = "deleted"]]
        BY <1>11, <3>1 DEF UncommentUpdate
      <4>2. comment[c] \in [state : States, author : Users \cup {NoUser}, post : Posts \cup {NoPost}]
        BY DEF Rows, TypeOK
      <4> QED BY <4>1, <4>2 DEF Rows, TypeOK
    <3>3. L' = L + (IF comment'[c].state = "live" /\ comment'[c].post = p THEN 1 ELSE 0)
                 - (IF comment[c].state = "live" /\ comment[c].post = p THEN 1 ELSE 0)
      BY <3>2, CommentsMove
    <3> QED BY <1>2, <3>1, <3>2, <3>3
  <2>7. ~repeated => comment[call[s].on].state = "live"
    BY <2>1 DEF Rows, Unspent, At
  <2> QED BY <1>2, <1>3, <1>4, <2>1, <2>5, <2>6, <2>7
<1>12. CASE UncommentSub(s)
  <2>1. call[s].at = "uncomment_sub" /\ UNCHANGED comment
    BY <1>12 DEF UncommentSub, At
  <2>2. call'[s].at = "idle"
    BY <1>12, Ends DEF UncommentSub, Rows, Idle
  <2>3. comment[call[s].on].post \in Posts
    BY <2>1, OwnComment
  <2>4. A' = A /\ B' = B /\ D' = D - (IF comment[call[s].on].post = p THEN 1 ELSE 0)
    BY <1>1, <1>4, <2>1, <2>2, CommentGapMove
  <2>5. C' = C - (IF comment[call[s].on].post = p THEN 1 ELSE 0)
    BY <1>2, <1>12, <2>3 DEF UncommentSub, Rows, TypeOK
  <2>6. L' = L
    BY <2>1 DEF CommentsOn
  <2> QED BY <1>2, <1>3, <1>4, <2>4, <2>5, <2>6
<1>13. CASE LikeInsert(s) \/ LikeDelete(s) \/ LikeAdd(s) \/ LikeSub(s)
  <2>1. UNCHANGED <<comment, commentCount>> /\ call[s].at \in LikeSteps
    BY <1>13 DEF LikeInsert, LikeDelete, LikeAdd, LikeSub, At, LikeSteps
  <2>2. call'[s].at \in LikeSteps \cup {"idle"}
    <3>1. call[s].at \in Steps /\ LikeSteps \subseteq Steps
      BY <2>1 DEF Steps
    <3>2. (\E step \in LikeSteps : Await(s, step)) \/ End(s) \/ Throw(s)
      BY <1>13 DEF LikeInsert, LikeDelete, LikeAdd, LikeSub, LikeSteps
    <3>3. CASE \E step \in LikeSteps : Await(s, step)
      BY <1>7, <3>1, <3>3, Awaits DEF Rows
    <3>4. CASE End(s) \/ Throw(s)
      BY <3>4, Ends DEF Rows, Idle
    <3> QED BY <3>2, <3>3, <3>4
  <2>3. L' = L /\ A' = A /\ B' = B /\ D' = D /\ C' = C
    BY <1>5, <2>1, <2>2 DEF LikeSteps
  <2> QED BY <1>2, <1>3, <1>4, <2>3
<1> HIDE DEF A, B, D, L, C
<1> QED BY <1>6, <1>8, <1>9, <1>10, <1>11, <1>12, <1>13, Kinds

------------------------------------------------------------------------------
(* The invariant.                                                          *)

LEMMA InitInv ==
  ASSUME Init
  PROVE  IInv
<1>1. Busy = {} /\ Written = {} /\ likes = {} /\ \A t \in Targets : Likers(t) = {}
  BY DEF Init, Busy, Written, Likers
<1>2. TypeOK
  <2>1. post \in [Posts -> [state : States, author : Users \cup {NoUser}]]
    BY DEF Init, States
  <2>2. comment \in [Comments -> [state : States, author : Users \cup {NoUser},
                                 post : Posts \cup {NoPost}]]
    BY DEF Init, States
  <2>3. likeCount \in [Targets -> Int] /\ commentCount \in [Posts -> Int] /\ likes \subseteq Targets \X Users
    BY DEF Init
  <2>4. call \in [Slots -> {Idle} \cup Handlers]
    BY DEF Init
  <2>5. repeated \in BOOLEAN /\ failed \in BOOLEAN
    BY DEF Init
  <2> QED BY <2>1, <2>2, <2>3, <2>4, <2>5 DEF TypeOK
<1>3. \A s \in Slots : InFlight(s)
  BY StepNames DEF Init, Idle, InFlight, OnPost, OnComment
<1>4. Placed /\ Unspent
  BY MomentsAssumption DEF Init, Placed, Unspent, At, Idle
<1>5. Finite /\ Alone
  BY <1>1, FS_EmptySet DEF Finite, Alone
<1>6. ASSUME NEW step \in Steps, NEW x
      PROVE  AboutTo(step, x) = 0
  <2>1. {s \in Slots : At(s, step) /\ call[s].on = x} = {}
    BY StepNames DEF Init, Idle, At
  <2> QED BY <2>1, FS_EmptySet DEF AboutTo
<1>7. ASSUME NEW t \in Targets
      PROVE  LikeGap(t) = 0
  <2>1. LikesOf(t) = 0
    BY <1>1, FS_EmptySet DEF LikesOf, Likers
  <2>2. AboutTo("like_add", t) = 0 /\ AboutTo("like_sub", t) = 0
    BY <1>6 DEF Steps, LikeSteps
  <2> QED BY <2>1, <2>2 DEF LikeGap, Init
<1>8. ASSUME NEW p \in Posts
      PROVE  CommentGap(p) = 0
  <2>1. CommentsOn(p) = 0
    <3>1. {c \in Comments : comment[c].state = "live" /\ comment[c].post = p} = {}
      BY DEF Init
    <3> QED BY <3>1, FS_EmptySet DEF CommentsOn
  <2>2. AboutTo("comment_read", p) = 0 /\ AboutTo("comment_add", p) = 0
    BY <1>6 DEF Steps, CommentSteps
  <2>3. AboutToUncomment(p) = 0
    <3>1. {s \in Slots : At(s, "uncomment_sub") /\ comment[call[s].on].post = p} = {}
      BY DEF Init, Idle, At
    <3> QED BY <3>1, FS_EmptySet DEF AboutToUncomment
  <2> QED BY <2>1, <2>2, <2>3 DEF CommentGap, Init
<1>9. Gaps
  BY <1>7, <1>8 DEF Gaps
<1> QED BY <1>2, <1>3, <1>4, <1>5, <1>9 DEF IInv, Rows

LEMMA GapsStep ==
  ASSUME IInv, [Next]_vars
  PROVE  Gaps'
<1> SUFFICES ASSUME ~failed'
             PROVE  /\ \A t \in Targets : LikeGap(t)' >= 0 /\ (~repeated' => LikeGap(t)' = 0)
                    /\ \A p \in Posts : CommentGap(p)' >= 0 /\ (~repeated' => CommentGap(p)' = 0)
  BY DEF Gaps
<1>1. ~failed /\ (~repeated' => ~repeated)
  BY HistoryStep
<1>2. CASE UNCHANGED vars
  <2>1. /\ \A t \in Targets : LikeGap(t)' = LikeGap(t)
        /\ \A p \in Posts : CommentGap(p)' = CommentGap(p)
    BY <1>2
       DEF vars, tables, LikeGap, CommentGap, LikesOf, CommentsOn, AboutTo, AboutToUncomment, At
  <2> QED BY <1>1, <2>1 DEF IInv, Gaps
<1>3. CASE \E s \in Slots : Request(s) \/ Statement(s) \/ Fail(s)
  <2>1. PICK s \in Slots : Request(s) \/ Statement(s) \/ Fail(s)
    BY <1>3
  <2>2. ASSUME NEW t \in Targets
        PROVE  LikeGap(t)' >= 0 /\ (~repeated' => LikeGap(t)' = 0)
    <3>1. /\ LikeGap(t) \in Int /\ LikeGap(t)' \in Int /\ LikeGap(t)' >= LikeGap(t)
          /\ ~repeated => LikeGap(t)' = LikeGap(t)
      BY <2>1, LikeGapStep DEF IInv
    <3>2. LikeGap(t) >= 0 /\ (~repeated => LikeGap(t) = 0)
      BY <1>1 DEF IInv, Gaps
    <3> QED BY <1>1, <3>1, <3>2
  <2>3. ASSUME NEW p \in Posts
        PROVE  CommentGap(p)' >= 0 /\ (~repeated' => CommentGap(p)' = 0)
    <3>1. /\ CommentGap(p) \in Int /\ CommentGap(p)' \in Int /\ CommentGap(p)' >= CommentGap(p)
          /\ ~repeated => CommentGap(p)' = CommentGap(p)
      BY <2>1, CommentGapStep DEF IInv
    <3>2. CommentGap(p) >= 0 /\ (~repeated => CommentGap(p) = 0)
      BY <1>1 DEF IInv, Gaps
    <3> QED BY <1>1, <3>1, <3>2
  <2> QED BY <2>2, <2>3
<1> QED BY <1>2, <1>3, StepOfOne

\* The gaps of Moments are an invariant of every interleaving of its statements.
THEOREM Invariance == Spec => []IInv
<1>1. Init => IInv
  BY InitInv
<1>2. IInv /\ [Next]_vars => IInv'
  BY RowsStep, GapsStep DEF IInv
<1> QED BY <1>1, <1>2, PTL DEF Spec

\* The tables and the handlers keep their types (moments.service.ts).
THEOREM TypeCorrect == Spec => []TypeOK
<1>1. IInv => TypeOK
  BY DEF IInv, Rows
<1> QED BY <1>1, Invariance, PTL

\* In any state the invariant allows, the terms of both properties are numbers.
LEMMA CountsAreNumbers ==
  ASSUME Rows
  PROVE  /\ \A step \in Steps : \A x : AboutTo(step, x) \in Nat
         /\ \A p : AboutToUncomment(p) \in Nat
<1>1. ASSUME NEW step \in Steps, NEW x
      PROVE  AboutTo(step, x) \in Nat
  <2>1. {s \in Slots : At(s, step) /\ call[s].on = x} \subseteq Busy
    BY StepNames DEF At, Busy, Idle
  <2>2. IsFiniteSet({s \in Slots : At(s, step) /\ call[s].on = x})
    BY <2>1, FS_Subset DEF Rows, Finite
  <2> QED BY <2>2, FS_CardinalityType DEF AboutTo
<1>2. ASSUME NEW p
      PROVE  AboutToUncomment(p) \in Nat
  <2>1. {s \in Slots : At(s, "uncomment_sub") /\ comment[call[s].on].post = p} \subseteq Busy
    BY DEF At, Busy, Idle
  <2>2. IsFiniteSet({s \in Slots : At(s, "uncomment_sub") /\ comment[call[s].on].post = p})
    BY <2>1, FS_Subset DEF Rows, Finite
  <2> QED BY <2>2, FS_CardinalityType DEF AboutToUncomment
<1> QED BY <1>1, <1>2

LEMMA StepsThatOwe ==
  {"like_add", "like_sub", "comment_read", "comment_add", "uncomment_sub"} \subseteq Steps
BY DEF Steps, LikeSteps, CommentSteps

\* While nobody repeats himself and no statement fails, every counter is the number of
\* its rows up to the updates still to come: requests of different users, however their
\* statements interleave, never disturb one another (moments.service.ts:185, 229).
THEOREM CountersAreExact == Spec => []CountersExact
<1>1. IInv => CountersExact
  <2> SUFFICES ASSUME IInv, ~repeated, ~failed
               PROVE  /\ \A t \in Targets :
                           likeCount[t] = LikesOf(t) - AboutTo("like_add", t) + AboutTo("like_sub", t)
                      /\ \A p \in Posts :
                           commentCount[p] = CommentsOn(p) - AboutTo("comment_read", p)
                                               - AboutTo("comment_add", p) + AboutToUncomment(p)
    BY DEF CountersExact
  <2>1. ASSUME NEW t \in Targets
        PROVE  likeCount[t] = LikesOf(t) - AboutTo("like_add", t) + AboutTo("like_sub", t)
    <3>1. LikeGap(t) = 0
      BY DEF IInv, Gaps
    <3>2. AboutTo("like_add", t) \in Nat /\ AboutTo("like_sub", t) \in Nat
      BY CountsAreNumbers, StepsThatOwe DEF IInv
    <3> QED BY <3>1, <3>2, LikesType DEF LikeGap, IInv
  <2>2. ASSUME NEW p \in Posts
        PROVE  commentCount[p] = CommentsOn(p) - AboutTo("comment_read", p)
                                   - AboutTo("comment_add", p) + AboutToUncomment(p)
    <3>1. CommentGap(p) = 0
      BY DEF IInv, Gaps
    <3>2. /\ AboutTo("comment_read", p) \in Nat /\ AboutTo("comment_add", p) \in Nat
          /\ AboutToUncomment(p) \in Nat
      BY CountsAreNumbers, StepsThatOwe DEF IInv
    <3> QED BY <3>1, <3>2, CommentsType DEF CommentGap, IInv
  <2> QED BY <2>1, <2>2
<1> QED BY <1>1, Invariance, PTL

\* Toggles of one user that race, and comments deleted twice, lose likes and comments
\* but never invent any: as long as no handler fails owing a counter, a counter is at
\* most the number of rows and of decrements to come (moments.service.ts:171-233).
THEOREM CountersStayLow == Spec => []CountersNeverHigh
<1>1. IInv => CountersNeverHigh
  <2> SUFFICES ASSUME IInv, ~failed
               PROVE  /\ \A t \in Targets : likeCount[t] <= LikesOf(t) + AboutTo("like_sub", t)
                      /\ \A p \in Posts : commentCount[p] <= CommentsOn(p) + AboutToUncomment(p)
    BY DEF CountersNeverHigh
  <2>1. ASSUME NEW t \in Targets
        PROVE  likeCount[t] <= LikesOf(t) + AboutTo("like_sub", t)
    <3>1. LikeGap(t) >= 0
      BY DEF IInv, Gaps
    <3>2. AboutTo("like_add", t) \in Nat /\ AboutTo("like_sub", t) \in Nat
      BY CountsAreNumbers, StepsThatOwe DEF IInv
    <3> QED BY <3>1, <3>2, LikesType DEF LikeGap, IInv
  <2>2. ASSUME NEW p \in Posts
        PROVE  commentCount[p] <= CommentsOn(p) + AboutToUncomment(p)
    <3>1. CommentGap(p) >= 0
      BY DEF IInv, Gaps
    <3>2. /\ AboutTo("comment_read", p) \in Nat /\ AboutTo("comment_add", p) \in Nat
          /\ AboutToUncomment(p) \in Nat
      BY CountsAreNumbers, StepsThatOwe DEF IInv
    <3> QED BY <3>1, <3>2, CommentsType DEF CommentGap, IInv
  <2> QED BY <2>1, <2>2
<1> QED BY <1>1, Invariance, PTL
==============================================================================
