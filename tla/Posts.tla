--------------------------------- MODULE Posts ---------------------------------
(***************************************************************************)
(* Submissions, journals and characters from posting to removal            *)
(* (weasyl/submission.py, journal.py, character.py and the bulk edits of   *)
(* weasyl/moderation.py): what followers are told of them, and how many a  *)
(* profile says there are, which is cached without an expiry               *)
(* (define.cached_posts_count).                                            *)
(*                                                                         *)
(* Every statement commits by itself.  One user follows the owner, with    *)
(* settings that let every notification through.  A count is kept as the   *)
(* set of what it counts.  What favorites and collections notify of is in  *)
(* Gallery, and of comments in Comments.                                   *)
(***************************************************************************)
EXTENDS Naturals, Requests

CONSTANTS
    Posts,
    Owner,          \* who posts
    Collector,      \* who collects submissions
    Ratings,        \* the ratings to tell apart
    Missing,        \* nothing is cached
    None            \* of a row that is not there

VARIABLES
    kind,           \* of each post: submission, journal or character
    befriended,     \* the follower is a friend of the owner
    post,           \* the row of each, or None
    collection,     \* accepted collections of the collector: a set of posts
    welcome,        \* posts the follower has a notification of
    cached,         \* cached_posts_count of each user, or Missing
    uncounted,      \* history: users whose count missed a change or an invalidation
    untold          \* history: posts whose notification was sent beside a removal
                    \* or an edit, or that a bulk edit hid

rows == <<kind, befriended, post, collection>>
vars == <<rows, welcome, cached, call, uncounted, untold>>

Users == {Owner, Collector}
PostKinds == {"submission", "journal", "character"}
Rows == [rating : Ratings, friends_only : BOOLEAN, hidden : BOOLEAN]
\* None is not a row.
ConstantsOK == None \notin Rows

Counted == [type : PostKinds \cup {"collection"}, post : Posts, rating : Ratings, friends_only : BOOLEAN]
CallRecords ==
    [at : {"remove clear", "edit check"}, post : Posts]
    \cup [at : {"notify"}, post : Posts, friends_only : BOOLEAN]
    \cup [at : {"edit clear", "edit update"}, post : Posts, rating : Ratings, friends_only : BOOLEAN]
    \cup [at : {"find owners"}, post : Posts, users : SUBSET Users]
    \cup [at : {"invalidate"}, users : SUBSET Users, then : {"done", "find owners"}, post : Posts]
    \cup [at : {"fill"}, user : Users, value : SUBSET Counted, late : BOOLEAN]

TypeOK ==
    /\ kind \in [Posts -> PostKinds] /\ befriended \in BOOLEAN
    /\ post \in [Posts -> Rows \cup {None}]
    /\ collection \subseteq Posts /\ welcome \subseteq Posts
    /\ cached \in [Users -> (SUBSET Counted) \cup {Missing}]
    /\ call \in [Calls -> {Idle} \cup CallRecords]
    /\ uncounted \subseteq Users /\ untold \subseteq Posts

Init ==
    /\ kind \in [Posts -> PostKinds] /\ befriended \in BOOLEAN
    /\ post = [p \in Posts |-> None]
    /\ collection = {} /\ welcome = {}
    /\ cached = [u \in Users |-> Missing]
    /\ call = AllIdle
    /\ uncounted = {} /\ untold = {}

-----------------------------------------------------------------------------
Visible(p) == post[p] # None /\ ~post[p].hidden

\* _POSTS_COUNT_QUERY: posts, and accepted collections.
Count(u) ==
    LET entries(type, some) ==
            {[type |-> type[p], post |-> p, rating |-> post[p].rating, friends_only |-> post[p].friends_only] : p \in some}
    IN  IF u = Owner THEN entries(kind, {p \in Posts : Visible(p)})
        ELSE entries([p \in Posts |-> "collection"], {p \in collection : Visible(p)})

About(p) == {c \in Calls : "post" \in DOMAIN call[c] /\ call[c].post = p}
Told(p) == IF \E c \in About(p) : At(c, "notify") THEN {p} ELSE {}

InvalidateNext(users, then, p) == [at |-> "invalidate", users |-> users, then |-> then, post |-> p]
\* Fault: the counts of collectors are left.
CollectorsLeft(p) == "done"

CollectorsToo(p) == IF kind[p] = "submission" THEN "find owners" ELSE "done"

-----------------------------------------------------------------------------
\* create: the row (after the checks), notifications, and the count.
Create(c, p, rating, friends_only) ==
    /\ post[p] = None
    /\ post' = [post EXCEPT ![p] = [rating |-> rating, friends_only |-> friends_only, hidden |-> FALSE]]
    /\ Start(c, [at |-> "notify", post |-> p, friends_only |-> friends_only])
    /\ UNCHANGED <<kind, befriended, collection, welcome, cached, uncounted, untold>>

CreateNotify(c) ==
    /\ At(c, "notify")
    /\ welcome' = IF call[c].friends_only => befriended THEN welcome \cup {call[c].post} ELSE welcome
    /\ call' = [call EXCEPT ![c] = InvalidateNext({Owner}, "done", @.post)]
    /\ UNCHANGED <<rows, cached, uncounted, untold>>

\* remove, by the owner or a moderator: hidden, unless it is already.
Remove(c, p) ==
    /\ Visible(p)
    /\ post' = [post EXCEPT ![p].hidden = TRUE]
    /\ untold' = untold \cup Told(p)
    /\ Start(c, [at |-> "remove clear", post |-> p])
    /\ UNCHANGED <<kind, befriended, collection, welcome, cached, uncounted>>

RemoveClear(c) ==
    /\ At(c, "remove clear")
    /\ LET p == call[c].post
       IN  /\ welcome' = welcome \ {p}
           /\ call' = [call EXCEPT ![c] = InvalidateNext({Owner}, CollectorsToo(p), p)]
    /\ UNCHANGED <<rows, cached, uncounted, untold>>

\* edit: the post is not hidden, ...
EditCheck(c, p) ==
    /\ Visible(p)
    /\ Start(c, [at |-> "edit check", post |-> p])
    /\ UNCHANGED <<rows, welcome, cached, uncounted, untold>>

EditChoose(c, rating, friends_only) ==
    /\ At(c, "edit check")
    /\ call' = [call EXCEPT ![c] = [at |-> IF friends_only THEN "edit clear" ELSE "edit update", post |-> @.post,
                                    rating |-> rating, friends_only |-> friends_only]]
    /\ UNCHANGED <<rows, welcome, cached, uncounted, untold>>

\* ... notifications go if it becomes friends-only: of a submission, those of
\* others than friends; of a journal or a character, everybody's ...
EditClear(c) ==
    /\ At(c, "edit clear")
    /\ LET p == call[c].post
       IN  /\ welcome' = IF kind[p] = "submission" /\ befriended THEN welcome ELSE welcome \ {p}
           /\ untold' = untold \cup Told(p)
    /\ Goto(c, "edit update")
    /\ UNCHANGED <<rows, cached, uncounted>>

\* ... and the row is written.
EditUpdate(c) ==
    /\ At(c, "edit update")
    /\ LET p == call[c].post
       IN  /\ post' = [post EXCEPT ![p].rating = call[c].rating, ![p].friends_only = call[c].friends_only]
           /\ call' = [call EXCEPT ![c] = InvalidateNext({Owner}, CollectorsToo(p), p)]
           /\ untold' = untold \cup Told(p)
    /\ UNCHANGED <<kind, befriended, collection, welcome, cached, uncounted>>

\* find_owners, for _invalidate_collectors_posts_count and bulk_edit.
FindOwners(c) ==
    /\ At(c, "find owners")
    /\ LET users == call[c].users \cup IF call[c].post \in collection THEN {Collector} ELSE {}
       IN  call' = [call EXCEPT ![c] = InvalidateNext(users, "done", @.post)]
    /\ UNCHANGED <<rows, welcome, cached, uncounted, untold>>

\* bulk_edit hides or shows, deletes no notifications, and invalidates the
\* counts of the owner (of what it has changed) and of the collectors.
BulkHide(c, p, hidden) ==
    /\ post[p] # None /\ post[p].hidden # hidden
    /\ post' = [post EXCEPT ![p].hidden = hidden]
    /\ untold' = untold \cup {p}
    /\ Start(c, IF kind[p] = "submission" THEN [at |-> "find owners", post |-> p, users |-> {Owner}]
                ELSE InvalidateNext({Owner}, "done", p))
    /\ UNCHANGED <<kind, befriended, collection, welcome, cached, uncounted>>

\* A count that is cached, or about to be, is not invalidated by a change.
Miss(users, calls) ==
    /\ uncounted' = uncounted \cup users
    /\ call' = [d \in Calls |-> IF calls[d].at = "fill" /\ calls[d].user \in users
                                THEN [calls[d] EXCEPT !.late = TRUE] ELSE calls[d]]

\* bulk_edit_rating leaves the counts as they are.
BulkRate(p, rating) ==
    /\ post[p] # None /\ post[p].rating # rating
    /\ post' = [post EXCEPT ![p].rating = rating]
    /\ Miss({Owner} \cup IF p \in collection THEN {Collector} ELSE {}, call)
    /\ UNCHANGED <<kind, befriended, collection, welcome, cached, untold>>

-----------------------------------------------------------------------------
\* pending_accept invalidates the count of whoever accepts: of the collector,
\* if they were offered it, of the owner if they were asked for it.
Collect(c, p, by) ==
    /\ call[c] = Idle
    /\ kind[p] = "submission" /\ post[p] # None /\ p \notin collection
    /\ collection' = collection \cup {p}
    /\ Miss({Collector} \ {by}, [call EXCEPT ![c] = InvalidateNext({by}, "done", p)])
    /\ UNCHANGED <<kind, befriended, post, welcome, cached, untold>>

Uncollect(c, p) ==
    /\ p \in collection
    /\ collection' = collection \ {p}
    /\ Start(c, InvalidateNext({Collector}, "done", p))
    /\ UNCHANGED <<kind, befriended, post, welcome, cached, uncounted, untold>>

-----------------------------------------------------------------------------
\* A profile is looked at and its count is not cached.
Read(c, u) ==
    /\ cached[u] = Missing
    /\ Start(c, [at |-> "fill", user |-> u, value |-> Count(u), late |-> FALSE])
    /\ UNCHANGED <<rows, welcome, cached, uncounted, untold>>

Fill(c) ==
    /\ At(c, "fill")
    /\ cached' = [cached EXCEPT ![call[c].user] = call[c].value]
    /\ uncounted' = IF call[c].late THEN uncounted \cup {call[c].user} ELSE uncounted \ {call[c].user}
    /\ End(c)
    /\ UNCHANGED <<rows, welcome, untold>>

\* Whoever has read a count before an invalidation stores it too late.
Invalidate(c) ==
    /\ At(c, "invalidate")
    /\ LET users == call[c].users
       IN  /\ cached' = [u \in Users |-> IF u \in users THEN Missing ELSE cached[u]]
           /\ uncounted' = uncounted \ users
           /\ call' = [d \in Calls |->
                 IF d = c THEN (IF call[c].then = "done" THEN Idle ELSE [at |-> "find owners", post |-> call[c].post, users |-> {}])
                 ELSE IF At(d, "fill") /\ call[d].user \in users THEN [call[d] EXCEPT !.late = TRUE]
                 ELSE call[d]]
    /\ UNCHANGED <<rows, welcome, untold>>

Next ==
    \/ \E p \in Posts, rating \in Ratings : BulkRate(p, rating)
    \/ \E c \in Calls :
        \/ \E p \in Posts, rating \in Ratings, friends_only \in BOOLEAN : Create(c, p, rating, friends_only)
        \/ \E p \in Posts : Remove(c, p) \/ EditCheck(c, p) \/ Uncollect(c, p)
        \/ CreateNotify(c) \/ RemoveClear(c) \/ EditClear(c) \/ EditUpdate(c) \/ FindOwners(c) \/ Fill(c) \/ Invalidate(c)
        \/ \E rating \in Ratings, friends_only \in BOOLEAN : EditChoose(c, rating, friends_only)
        \/ \E p \in Posts, hidden \in BOOLEAN : BulkHide(c, p, hidden)
        \/ \E p \in Posts, by \in Users : Collect(c, p, by)
        \/ \E u \in Users : Read(c, u)

Spec == Init /\ [][Next]_vars

-----------------------------------------------------------------------------
\* A call that has changed what is counted for a user has yet to invalidate it.
Pending(u) ==
    \E c \in Calls :
        \/ At(c, "invalidate") /\ (u \in call[c].users \/ (u = Collector /\ call[c].then = "find owners"))
        \/ At(c, "find owners") /\ (u = Collector \/ u \in call[c].users)
        \/ At(c, "remove clear")
        \/ At(c, "notify") /\ u = Owner

\* Once every call is over, a cached count is what the tables say, though
\* several calls change both: but after a bulk change of ratings, a request
\* for a collection that the owner accepts, or a read an invalidation overtook.
CountsAreCurrent ==
    \A u \in Users \ uncounted : cached[u] = Missing \/ Pending(u) \/ cached[u] = Count(u)

\* What a follower is told of, they can see: it is not hidden, and if it is for
\* friends only they are one, unless the notification was sent while the post
\* was being removed or restricted, or a bulk edit hid it.
ToldOfWhatIsShown ==
    \A p \in welcome \ untold :
        \/ Visible(p) /\ (post[p].friends_only => befriended)
        \/ \E c \in About(p) : At(c, "remove clear")
================================================================================
