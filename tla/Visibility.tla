------------------------------ MODULE Visibility ------------------------------
(***************************************************************************)
(* Who may see a post, as its own page decides it and as each list of      *)
(* posts does.  Every list has a condition of its own, written again for   *)
(* each in SQL or Python; front pages filter a list that is cached for two *)
(* to ten minutes by what the viewer ignores and blocks, which is cached   *)
(* too and does not expire.                                                *)
(*                                                                         *)
(* One post and one viewer.  A rating is general or adult; the post has a  *)
(* tag, or not, that the viewer can block.  Order, paging and the filters  *)
(* of folders, categories and queries, which only shorten a list, are left *)
(* out.  Filling a cache is one step; that a read can be overtaken by an   *)
(* invalidation is in SearchTags.  A cache is a set of at most one value.  *)
(***************************************************************************)
EXTENDS Naturals

VARIABLES
    post,           \* the row of the post
    viewer,         \* who looks, with their settings
    friends,        \* the viewer is a friend of the owner
    ignores,        \* the viewer ignores the owner
    blocks,         \* the least rating at which the viewer blocks the tag
    front,          \* cache: the post in a list of the front page
    ignoring,       \* cache: ignoreuser.cached_list_ignoring
    selected,       \* cache: blocktag.select_ids
    pending         \* caches that a call which has written is to invalidate

caches == <<front, ignoring, selected>>
vars == <<post, viewer, friends, ignores, blocks, caches, pending>>

General == 10
Adult == 30
Never == 99         \* there is no row of blocktag
RatingCodes == {General, Adult}
Posts == [kind : {"submission", "journal", "character"}, rating : RatingCodes, hidden : BOOLEAN,
          friends_only : BOOLEAN, browse_excluded : BOOLEAN, tagged : BOOLEAN]
Viewers == [is : {"guest", "user", "owner", "mod"}, rating : RatingCodes, sfw : BOOLEAN, collects : BOOLEAN]

TypeOK ==
    /\ post \in Posts /\ viewer \in Viewers
    /\ friends \in BOOLEAN /\ ignores \in BOOLEAN /\ blocks \in RatingCodes \cup {Never}
    /\ front \subseteq [rating : RatingCodes, tagged : BOOLEAN]
    /\ ignoring \subseteq BOOLEAN /\ selected \subseteq RatingCodes \cup {Never}
    /\ pending \subseteq {"ignoring", "selected"}

Init ==
    /\ post \in [kind : {"submission", "journal", "character"}, rating : RatingCodes, hidden : {FALSE},
                 friends_only : BOOLEAN, browse_excluded : BOOLEAN, tagged : BOOLEAN]
    /\ viewer \in Viewers
    /\ friends = FALSE /\ ignores = FALSE /\ blocks = Never
    /\ front = {} /\ ignoring = {} /\ selected = {} /\ pending = {}

-----------------------------------------------------------------------------
Signed == viewer.is # "guest"
Own == viewer.is = "owner"
Sfw == viewer.sfw

\* get_rating_obj: guests and SFW mode have the general rating.
Rating == IF Signed /\ ~Sfw THEN viewer.rating ELSE General

\* frienduser.check: the owner is a friend of theirs.
IsFriend == Own \/ friends
ForFriends == post.friends_only => IsFriend
TagBlocked == Signed /\ ~Own /\ post.tagged /\ blocks <= post.rating

Exceeds == post.rating > Rating /\ (viewer.is \notin {"owner", "mod"} \/ Sfw)
OwnOrRated == post.rating <= Rating \/ (Own /\ ~Sfw)

\* The pages; ignore is FALSE after "View Submission" on an error page.
SubmissionPage(ignore) ==
    /\ ~post.hidden /\ ForFriends
    /\ ignore => ~ignores /\ ~TagBlocked
    /\ ~Exceeds

JournalPage(ignore) ==
    /\ ~post.hidden /\ ~Exceeds /\ ForFriends
    /\ ignore => ~ignores /\ ~TagBlocked

CharacterPage(ignore) ==
    /\ ~post.hidden /\ ~Exceeds /\ ForFriends
    /\ ignore => ~ignores /\ ~TagBlocked

Page(ignore) == CASE post.kind = "submission" -> SubmissionPage(ignore)
                  [] post.kind = "journal" -> JournalPage(ignore)
                  [] post.kind = "character" -> CharacterPage(ignore)

\* submission.select_view_api; the others' use the check of their pages.
SubmissionApi(anyway) ==
    /\ ~post.hidden /\ ForFriends
    /\ post.rating <= Rating \/ Own
    /\ anyway \/ (~ignores /\ ~TagBlocked)

-----------------------------------------------------------------------------
\* submission._select_query, of one user or of the site.
SubmissionList(ofUser) ==
    /\ ~post.hidden /\ OwnOrRated /\ ForFriends /\ ~TagBlocked
    /\ ofUser \/ (~post.browse_excluded /\ ~ignores)

\* Fault: the posts before and after are everybody's.
NearForEveryone == ~post.hidden /\ OwnOrRated /\ ~ignores /\ ~TagBlocked

Near == ~post.hidden /\ OwnOrRated /\ ~ignores /\ ForFriends /\ ~TagBlocked

FolderPreview ==
    /\ ~post.hidden /\ OwnOrRated /\ ForFriends
    /\ Own \/ ~post.tagged \/ blocks = Never

CharacterList(ofUser) ==
    /\ ~post.hidden /\ OwnOrRated /\ ~TagBlocked /\ ForFriends
    /\ ofUser \/ ~ignores

JournalBrowse == ~post.hidden /\ OwnOrRated /\ ForFriends /\ ~ignores /\ ~TagBlocked
JournalList == OwnOrRated /\ ~TagBlocked /\ ~post.hidden /\ ForFriends
JournalLatest == OwnOrRated /\ ~TagBlocked /\ ~post.hidden /\ ForFriends

FavoriteSubmissions == ~post.hidden /\ OwnOrRated /\ ~ignores /\ ~TagBlocked /\ ForFriends
FavoriteCharacters == ~post.hidden /\ OwnOrRated /\ ForFriends /\ ~ignores /\ ~TagBlocked
FavoriteJournals == ~post.hidden /\ OwnOrRated /\ ForFriends /\ ~ignores /\ ~TagBlocked

\* collection.select_query: collectors see what they have collected, whatever
\* its rating.
Collections ==
    /\ ~post.hidden /\ ForFriends /\ ~TagBlocked
    /\ post.rating <= Rating \/ (~Sfw /\ Signed /\ (viewer.collects \/ Own))

\* search._prepare_search: own posts are blocked like any, and a search within
\* notifications, favorites, friends or follows is not of the whole site.
Search(global) ==
    /\ post.rating <= Rating /\ ~post.friends_only /\ ~post.hidden
    /\ ~ignores
    /\ Signed /\ post.tagged => blocks > post.rating
    /\ global /\ post.kind = "submission" => ~post.browse_excluded

\* The post is in some list of its owner's posts, or of the site's.
InUserList ==
    CASE post.kind = "submission" -> SubmissionList(TRUE) \/ FolderPreview
      [] post.kind = "journal" -> JournalList \/ JournalLatest
      [] post.kind = "character" -> CharacterList(TRUE)

InSiteList ==
    \/ Search(TRUE) \/ Search(FALSE)
    \/ CASE post.kind = "submission" -> SubmissionList(FALSE) \/ Near \/ FavoriteSubmissions
         [] post.kind = "journal" -> JournalBrowse \/ FavoriteJournals
         [] post.kind = "character" -> CharacterList(FALSE) \/ FavoriteCharacters

\* index.recent_submissions, select_recently_popular and select_critique, as
\* a guest with every rating would see them.
Recent == post.kind # "journal" /\ ~post.hidden /\ ~post.friends_only
          /\ (post.kind = "submission" => ~post.browse_excluded)
Popular == post.kind = "submission" /\ ~post.hidden /\ ~post.friends_only /\ ~post.browse_excluded
Critique == post.kind = "submission" /\ ~post.hidden /\ ~post.friends_only

\* filter_submissions, by the cached lists.
FrontPage ==
    \E entry \in front :
        /\ entry.rating <= Rating
        /\ Signed => /\ ignoring = {FALSE}
                     /\ \E least \in selected : ~(entry.tagged /\ least <= entry.rating)

-----------------------------------------------------------------------------
\* A front page is asked for: what is not cached is read.
FillFront ==
    /\ front = {} /\ (Recent \/ Popular \/ Critique)
    /\ front' = {[rating |-> post.rating, tagged |-> post.tagged]}
    /\ UNCHANGED <<post, viewer, friends, ignores, blocks, ignoring, selected, pending>>

FillIgnoring ==
    /\ Signed /\ ignoring = {}
    /\ ignoring' = {ignores}
    /\ UNCHANGED <<post, viewer, friends, ignores, blocks, front, selected, pending>>

FillSelected ==
    /\ Signed /\ selected = {}
    /\ selected' = {blocks}
    /\ UNCHANGED <<post, viewer, friends, ignores, blocks, front, ignoring, pending>>

\* The list expires, or a moderator has removed a thumbnail.
ExpireFront ==
    /\ front # {}
    /\ front' = {}
    /\ UNCHANGED <<post, viewer, friends, ignores, blocks, ignoring, selected, pending>>

Invalidate(cache) ==
    /\ cache \in pending
    /\ pending' = pending \ {cache}
    /\ ignoring' = IF cache = "ignoring" THEN {} ELSE ignoring
    /\ selected' = IF cache = "selected" THEN {} ELSE selected
    /\ UNCHANGED <<post, viewer, friends, ignores, blocks, front>>

\* The owner or a moderator edits, tags or hides the post, or shows it again.
Change(row) ==
    /\ row.kind = post.kind /\ row.browse_excluded = post.browse_excluded
    /\ post' = row
    /\ UNCHANGED <<viewer, friends, ignores, blocks, caches, pending>>

\* The viewer switches SFW mode or their preferred rating.
Prefer(sfw, rating) ==
    /\ viewer' = [viewer EXCEPT !.sfw = sfw, !.rating = rating]
    /\ UNCHANGED <<post, friends, ignores, blocks, caches, pending>>

Befriend(yes) ==
    /\ viewer.is \in {"user", "mod"} /\ ~ignores
    /\ friends' = yes
    /\ UNCHANGED <<post, viewer, ignores, blocks, caches, pending>>

\* ignoreuser.insert ends a friendship; each then invalidates the cache.
Ignore(yes) ==
    /\ viewer.is \in {"user", "mod"} /\ ignores # yes
    /\ ignores' = yes
    /\ friends' = (friends /\ ~yes)
    /\ pending' = pending \cup {"ignoring"}
    /\ UNCHANGED <<post, viewer, blocks, caches>>

\* blocktag.insert and remove_list.
Block(least) ==
    /\ Signed /\ (least # Never => least <= viewer.rating)
    /\ blocks' = least
    /\ pending' = pending \cup {"selected"}
    /\ UNCHANGED <<post, viewer, friends, ignores, caches>>

Next ==
    \/ FillFront \/ FillIgnoring \/ FillSelected \/ ExpireFront
    \/ \E cache \in {"ignoring", "selected"} : Invalidate(cache)
    \/ \E row \in Posts : Change(row)
    \/ \E sfw \in BOOLEAN, rating \in RatingCodes : Prefer(sfw, rating)
    \/ \E yes \in BOOLEAN : Befriend(yes) \/ Ignore(yes)
    \/ \E least \in RatingCodes \cup {Never} : Block(least)

Spec == Init /\ [][Next]_vars

-----------------------------------------------------------------------------
\* Whatever a list of the site shows a viewer, its page shows them too; of a
\* list of one user's posts they may have to choose to see it in spite of what
\* they ignore and block.  So does what the API shows, but to an owner in SFW
\* mode, and collections, but for the rating of what one has collected oneself.
ListedCanBeOpened ==
    /\ InSiteList => Page(TRUE)
    /\ InUserList => Page(FALSE)
    /\ post.kind = "submission" =>
        /\ \A anyway \in BOOLEAN : SubmissionApi(anyway) => SubmissionPage(~anyway) \/ (Own /\ Sfw)
        /\ Collections => SubmissionPage(FALSE) \/ viewer.collects

\* What a front page shows can be opened, as long as the post is as it was when
\* the list was cached, and no change of what the viewer ignores or blocks is
\* still to reach the caches.
FrontPageCanBeOpened ==
    FrontPage /\ front = {[rating |-> post.rating, tagged |-> post.tagged]} /\ ~post.hidden /\ ~post.friends_only
        => Page(TRUE) \/ pending # {}
===============================================================================
