------------------------------- MODULE Moments -------------------------------
(***************************************************************************)
(* MomentsService (src/src/modules/moments/services/moments.service.ts):   *)
(* posts, comments, likes of both, and the counters kept beside them.      *)
(*                                                                         *)
(* As in Friends, a handler is a sequence of SQL statements that interleave*)
(* with those of other requests, without a transaction.  A row and its     *)
(* counter are written by different statements, so the counters agree with *)
(* the rows only as far as every handler gets to its end and finds the row *)
(* it believes to be there.  likePost and likeComment are one algorithm on *)
(* two pairs of tables; a target is a post or a comment.                   *)
(***************************************************************************)
EXTENDS Integers, FiniteSets

CONSTANTS
  Users, Posts, Comments, Slots,
  MaxDrift,      \* bound: how far a counter may be off when a request that moves it starts
  NoUser, NoPost

ASSUME MomentsAssumption ==
  /\ NoUser \notin Users
  /\ NoPost \notin Posts
  /\ Posts \cap Comments = {}
  /\ MaxDrift \in Nat

VARIABLES
  post,          \* table posts: state and author
  comment,       \* table comments: state, author and post
  likes,         \* tables post_likes and comment_likes, as pairs
  likeCount,     \* column like_count of posts and comments
  commentCount,  \* column comment_count of posts
  call,          \* the handler in each slot
  repeated,      \* history: somebody did again what was done or under way
  failed         \* history: a handler ended owing a counter

tables == <<post, comment, likes, likeCount, commentCount>>

vars == <<tables, call, repeated, failed>>

Targets == Posts \cup Comments

LikeSteps    == {"like_find", "like_insert", "like_add", "like_delete", "like_sub"}
PostSteps    == {"post_insert", "post_read", "unpost_find", "unpost_update"}
CommentSteps == {"comment_insert", "comment_read", "comment_add",
                 "uncomment_find", "uncomment_update", "uncomment_sub"}
Steps == LikeSteps \cup PostSteps \cup CommentSteps

\* The steps of a handler that has written a row and still owes its counter.
Owing == {"like_add", "like_sub", "comment_read", "comment_add", "uncomment_sub"}

Ids == Targets \cup {NoPost}

Idle == [at |-> "idle", me |-> NoUser, on |-> NoPost]

Handlers == [at : Steps, me : Users, on : Ids]

States == {"unused", "live", "deleted"}

TypeOK ==
  /\ post \in [Posts -> [state : States, author : Users \cup {NoUser}]]
  /\ comment \in [Comments -> [state : States, author : Users \cup {NoUser},
                               post : Posts \cup {NoPost}]]
  /\ likes \subseteq Targets \X Users
  /\ likeCount \in [Targets -> Int]
  /\ commentCount \in [Posts -> Int]
  /\ call \in [Slots -> {Idle} \cup Handlers]
  /\ repeated \in BOOLEAN /\ failed \in BOOLEAN

Init ==
  /\ post = [p \in Posts |-> [state |-> "unused", author |-> NoUser]]
  /\ comment = [c \in Comments |-> [state |-> "unused", author |-> NoUser, post |-> NoPost]]
  /\ likes = {}
  /\ likeCount = [t \in Targets |-> 0]
  /\ commentCount = [p \in Posts |-> 0]
  /\ call = [s \in Slots |-> Idle]
  /\ repeated = FALSE
  /\ failed = FALSE

\* A row is there until it is deleted from the table, which no method does: posts
\* and comments are only marked.
Exists(t) == IF t \in Posts THEN post[t].state # "unused"
             ELSE t \in Comments /\ comment[t].state # "unused"

------------------------------------------------------------------------------
(* The control of a handler.                                               *)

At(s, step) == call[s].at = step

Begin(s, step, u, t) ==
  /\ call[s] = Idle
  /\ call' = [call EXCEPT ![s] = [at |-> step, me |-> u, on |-> t]]
  /\ repeated' = (repeated \/ \E q \in Slots : call[q].me = u /\ call[q].on = t)
  /\ UNCHANGED <<tables, failed>>

Await(s, step) ==
  /\ call' = [call EXCEPT ![s].at = step]
  /\ UNCHANGED failed

End(s) ==
  /\ call' = [call EXCEPT ![s] = Idle]
  /\ UNCHANGED failed

\* A statement is rejected and the handler throws.
Throw(s) ==
  /\ call' = [call EXCEPT ![s] = Idle]
  /\ failed' = (failed \/ call[s].at \in Owing)

\* Bound: no more failures once a counter is owed for ever.
Fail(s) ==
  /\ call[s] # Idle /\ ~failed
  /\ Throw(s)
  /\ UNCHANGED <<tables, repeated>>

------------------------------------------------------------------------------
(* createPost and deletePost                                               *)

\* Bound: a post is begun only when an id is left for it.
PostLeft ==
  Cardinality({p \in Posts : post[p].state = "unused"}) >
    Cardinality({s \in Slots : At(s, "post_insert")})

CreatePost(s, u) == PostLeft /\ Begin(s, "post_insert", u, NoPost)

PostInsert(s) ==
  /\ At(s, "post_insert")
  /\ \E p \in Posts :
       /\ post[p].state = "unused"
       /\ post' = [post EXCEPT ![p] = [state |-> "live", author |-> call[s].me]]
  /\ Await(s, "post_read")
  /\ UNCHANGED <<comment, likes, likeCount, commentCount, repeated>>

PostReadBack(s) ==
  /\ At(s, "post_read")
  /\ End(s)
  /\ UNCHANGED <<tables, repeated>>

DeletePost(s, u, p) == Begin(s, "unpost_find", u, p)

\* A post that is already marked is found again.
UnpostFind(s) ==
  /\ At(s, "unpost_find")
  /\ \/ post[call[s].on].author = call[s].me /\ Await(s, "unpost_update")
     \/ post[call[s].on].author # call[s].me /\ End(s)
  /\ UNCHANGED <<tables, repeated>>

UnpostUpdate(s) ==
  /\ At(s, "unpost_update")
  /\ post' = [post EXCEPT ![call[s].on].state = "deleted"]
  /\ End(s)
  /\ UNCHANGED <<comment, likes, likeCount, commentCount, repeated>>

------------------------------------------------------------------------------
(* likePost and likeComment: like what is not liked, unlike what is.       *)

Like(s, u, t) ==
  /\ likeCount[t] \in -MaxDrift .. Cardinality(Users) + MaxDrift  \* bound
  /\ Begin(s, "like_find", u, t)

\* Mutant: go on to the counter of the branch that likes, without its INSERT, liked or not.
LikeFindAlwaysLikes(s) ==
  /\ At(s, "like_find")
  /\ Await(s, "like_add")
  /\ UNCHANGED <<tables, repeated>>

LikeFind(s) ==
  LET row == <<call[s].on, call[s].me>> IN
  /\ At(s, "like_find")
  /\ \/ row \in likes    /\ Await(s, "like_delete")
     \/ row \notin likes /\ Await(s, "like_insert")
  /\ UNCHANGED <<tables, repeated>>

\* uk_post_like and the foreign keys refuse a second row and one for nothing.
LikeInsert(s) ==
  LET row == <<call[s].on, call[s].me>> IN
  /\ At(s, "like_insert")
  /\ \/ /\ Exists(call[s].on) /\ row \notin likes
        /\ likes' = likes \cup {row}
        /\ Await(s, "like_add")
     \/ /\ ~Exists(call[s].on) \/ row \in likes
        /\ Throw(s)
        /\ UNCHANGED likes
  /\ UNCHANGED <<post, comment, likeCount, commentCount, repeated>>

\* A DELETE that finds no row is as good as one that does.
LikeDelete(s) ==
  /\ At(s, "like_delete")
  /\ likes' = likes \ {<<call[s].on, call[s].me>>}
  /\ Await(s, "like_sub")
  /\ UNCHANGED <<post, comment, likeCount, commentCount, repeated>>

LikeAdd(s) ==
  /\ At(s, "like_add")
  /\ likeCount' = [likeCount EXCEPT ![call[s].on] = @ + 1]
  /\ End(s)
  /\ UNCHANGED <<post, comment, likes, commentCount, repeated>>

\* Mutant: the counter is left alone when the last like goes.
LikeSubToZero(s) ==
  /\ At(s, "like_sub")
  /\ likeCount' = [likeCount EXCEPT ![call[s].on] = IF @ = 1 THEN 1 ELSE @ - 1]
  /\ End(s)
  /\ UNCHANGED <<post, comment, likes, commentCount, repeated>>

LikeSub(s) ==
  /\ At(s, "like_sub")
  /\ likeCount' = [likeCount EXCEPT ![call[s].on] = @ - 1]
  /\ End(s)
  /\ UNCHANGED <<post, comment, likes, commentCount, repeated>>

------------------------------------------------------------------------------
(* addComment and deleteComment                                            *)

\* Bound: a comment is begun only when an id is left for it.
CommentLeft ==
  Cardinality({c \in Comments : comment[c].state = "unused"}) >
    Cardinality({s \in Slots : At(s, "comment_insert")})

AddComment(s, u, p) == CommentLeft /\ Begin(s, "comment_insert", u, p)

CommentInsert(s) ==
  /\ At(s, "comment_insert")
  /\ \/ /\ Exists(call[s].on)
        /\ \E c \in Comments :
             /\ comment[c].state = "unused"
             /\ comment' = [comment EXCEPT ![c] =
                  [state |-> "live", author |-> call[s].me, post |-> call[s].on]]
        /\ Await(s, "comment_read")
     \/ ~Exists(call[s].on) /\ Throw(s) /\ UNCHANGED comment
  /\ UNCHANGED <<post, likes, likeCount, commentCount, repeated>>

CommentReadBack(s) ==
  /\ At(s, "comment_read")
  /\ Await(s, "comment_add")
  /\ UNCHANGED <<tables, repeated>>

CommentAdd(s) ==
  /\ At(s, "comment_add")
  /\ commentCount' = [commentCount EXCEPT ![call[s].on] = @ + 1]
  /\ End(s)
  /\ UNCHANGED <<post, comment, likes, likeCount, repeated>>

DeleteComment(s, u, c) ==
  /\ \A p \in Posts : commentCount[p] >= -MaxDrift  \* bound
  /\ Begin(s, "uncomment_find", u, c)

\* A comment that is already marked is found again.
UncommentFind(s) ==
  LET c == comment[call[s].on] IN
  /\ At(s, "uncomment_find")
  /\ \/ c.author = call[s].me /\ Await(s, "uncomment_update")
     \/ c.author # call[s].me /\ End(s)
  /\ repeated' = (repeated \/ c.state = "deleted")
  /\ UNCHANGED tables

\* Mutant: the UPDATE of the row is forgotten.
UncommentSkipsUpdate(s) ==
  /\ At(s, "uncomment_update")
  /\ Await(s, "uncomment_sub")
  /\ UNCHANGED <<tables, repeated>>

UncommentUpdate(s) ==
  /\ At(s, "uncomment_update")
  /\ comment' = [comment EXCEPT ![call[s].on].state = "deleted"]
  /\ Await(s, "uncomment_sub")
  /\ UNCHANGED <<post, likes, likeCount, commentCount, repeated>>

UncommentSub(s) ==
  /\ At(s, "uncomment_sub")
  /\ commentCount' = [commentCount EXCEPT ![comment[call[s].on].post] = @ - 1]
  /\ End(s)
  /\ UNCHANGED <<post, comment, likes, likeCount, repeated>>

------------------------------------------------------------------------------

Request(s) ==
  \E u \in Users :
    \/ CreatePost(s, u)
    \/ \E t \in Targets : Like(s, u, t)
    \/ \E p \in Posts : DeletePost(s, u, p) \/ AddComment(s, u, p)
    \/ \E c \in Comments : DeleteComment(s, u, c)

Statement(s) ==
  \/ PostInsert(s) \/ PostReadBack(s) \/ UnpostFind(s) \/ UnpostUpdate(s)
  \/ LikeFind(s) \/ LikeInsert(s) \/ LikeDelete(s) \/ LikeAdd(s) \/ LikeSub(s)
  \/ CommentInsert(s) \/ CommentReadBack(s) \/ CommentAdd(s)
  \/ UncommentFind(s) \/ UncommentUpdate(s) \/ UncommentSub(s)

Next == \E s \in Slots : Request(s) \/ Statement(s) \/ Fail(s)

Spec == Init /\ [][Next]_vars

------------------------------------------------------------------------------
(* Properties that hold.                                                   *)

LikesOf(t) == Cardinality({u \in Users : <<t, u>> \in likes})

CommentsOn(p) == Cardinality({c \in Comments : comment[c].state = "live" /\ comment[c].post = p})

\* The handlers about to execute a step on x.
AboutTo(step, x) == Cardinality({s \in Slots : At(s, step) /\ call[s].on = x})

AboutToUncomment(p) ==
  Cardinality({s \in Slots : At(s, "uncomment_sub") /\ comment[call[s].on].post = p})

\* Unless somebody toggles the same like twice at once, a comment is deleted twice,
\* or a statement fails, the counters are the number of likes and the number of
\* comments not marked deleted, up to the updates still to come: different users
\* never disturb one another (moments.service.ts:185, 229).
CountersExact ==
  (~repeated /\ ~failed) =>
    /\ \A t \in Targets :
         likeCount[t] = LikesOf(t) - AboutTo("like_add", t) + AboutTo("like_sub", t)
    /\ \A p \in Posts :
         commentCount[p] = CommentsOn(p) - AboutTo("comment_read", p)
                             - AboutTo("comment_add", p) + AboutToUncomment(p)

\* Concurrent toggles of one user, and comments deleted twice, can only lose likes
\* and comments, never invent them.
CountersNeverHigh ==
  ~failed =>
    /\ \A t \in Targets : likeCount[t] <= LikesOf(t) + AboutTo("like_sub", t)
    /\ \A p \in Posts : commentCount[p] <= CommentsOn(p) + AboutToUncomment(p)
==============================================================================
