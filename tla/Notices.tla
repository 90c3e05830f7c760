------------------------------- MODULE Notices --------------------------------
(***************************************************************************)
(* The notifications of one user: the columns that welcome.py writes for   *)
(* each type of them, the queries by which message.py shows them and       *)
(* removes all that a page shows, the numbers of them in the header        *)
(* (define._page_header_info), and their removal with the post they lead   *)
(* to (welcome.*_remove).                                                  *)
(*                                                                         *)
(* Ids of different tables are the same numbers.  A row's otherid is left  *)
(* out: it is the other user, whatever the type.  (Type 3140, which keeps  *)
(* a submission there, is shown and removed, and no longer inserted.)      *)
(* Which users are notified is the matter of other modules; a notification *)
(* is inserted only while its post can be seen.                            *)
(***************************************************************************)
EXTENDS Naturals, FiniteSets

CONSTANTS
    Ids,            \* bound: the ids in use
    PageLimit,      \* the rows on a page of submissions, 66 in the code
    MaxTime         \* bound: seconds that pass

VARIABLES
    post,           \* the posts of each kind: whether hidden, and rated above general
    subject,        \* the post each comment is on, alike in each table of comments
    mature,         \* the user's rating is above general
    welcome,        \* the notifications
    time,           \* get_time
    page,           \* the notification page that is open
    unseen,         \* history: notifications removed that no page had to show
    bulk            \* history: posts hidden by moderation.bulk_edit

vars == <<post, subject, mature, welcome, time, page, unseen, bulk>>

\* Time passes in whole seconds.
ConstantsOK == MaxTime \in Nat /\ PageLimit \in Nat \ {0}

-----------------------------------------------------------------------------
\* The types, by what welcome.py inserts.
Posting == {1010, 2010, 2030, 2050, 3030, 3035}     \* a post; referid is 0
Favoriting == {3020, 3050, 3100, 3110}              \* a favorite; targetid is 0
Personal == {3010, 3070, 3075, 3080, 3085}          \* both are 0
Commenting == {4020, 4050, 4040, 4030, 4060}        \* a comment; referid is the post
Replying == {4025, 4045, 4035, 4065}                \* a comment; referid is its parent
Shouting == {4010, 4015, 4016}                      \* a comment; referid is its parent or 0
Types == Posting \cup Favoriting \cup Personal \cup Commenting \cup Replying \cup Shouting

\* The kind of post each is about; a shout is about a user.
About(type) ==
    CASE type \in {1010, 3110, 4030, 4035} -> "journal"
      [] type \in {2050, 3100, 4040, 4045} -> "character"
      [] type \in {4060, 4065} -> "siteupdate"
      [] type \in Personal \cup Shouting -> "user"
      [] OTHER -> "submission"

PostKinds == {"submission", "character", "journal"}
Row == [type : Types, referid : Ids \cup {0}, targetid : Ids \cup {0}, unixtime : 0..MaxTime]
NoPage == [at |-> "none"]

\* The times a page takes rows of: from after backtime or from before nexttime,
\* which the links Back and Next carry, or all.
Whole == [by |-> "all", than |-> 0]
Windows == {Whole} \cup [by : {"backtime", "nexttime"}, than : 0..MaxTime]

TypeOK ==
    /\ post \in [PostKinds -> [Ids -> [hidden : BOOLEAN, mature : BOOLEAN]]]
    /\ subject \in [Ids -> Ids] /\ mature \in BOOLEAN
    /\ welcome \subseteq Row /\ time \in 0..MaxTime
    /\ \/ page = NoPage
       \/ /\ page.at \in {"selected", "rendered"} /\ page.of \in {"notifications", "submissions"}
          /\ page.window \in Windows /\ page.stood \subseteq Row
          /\ page.shown \subseteq Row /\ page.above \subseteq Row /\ page.later \subseteq Row
          /\ page.before \in 0..MaxTime
    /\ unseen \subseteq Row /\ bulk \subseteq PostKinds \X Ids

Init ==
    /\ post \in [PostKinds -> [Ids -> [hidden : {FALSE}, mature : BOOLEAN]]]
    /\ subject \in [Ids -> Ids] /\ mature \in BOOLEAN
    /\ welcome = {} /\ time = 0 /\ page = NoPage
    /\ unseen = {} /\ bulk = {}

-----------------------------------------------------------------------------
\* The row that is inserted about post i, or comment c in answer to parent.
Written(type, i, c, parent) ==
    [type |-> type, unixtime |-> time,
     referid |-> CASE type \in Favoriting \cup Commenting -> i
                   [] type \in (Replying \cup Shouting) \ {4010} -> parent
                   [] OTHER -> 0,
     targetid |-> CASE type \in Posting -> i
                    [] type \in Commenting \cup Replying \cup Shouting -> c
                    [] OTHER -> 0]

\* Something happens to post i that the user is notified of.
Notify(type, i, c, parent) ==
    /\ About(type) \in PostKinds => ~post[About(type)][i].hidden
    /\ LET n == Written(type, i, c, parent)
       IN  /\ welcome' = welcome \cup {n}
           /\ page' = IF page.at = "selected" THEN [page EXCEPT !.later = @ \cup ({n} \ welcome)] ELSE page
    /\ UNCHANGED <<post, subject, mature, time, unseen, bulk>>

\* The post that the query of select_comments, select_notifications,
\* select_journals or select_submissions for this type joins a row with.
Joined(n) ==
    CASE n.type \in Posting -> n.targetid
      [] n.type \in Favoriting \cup Commenting -> n.referid
      [] n.type \in Replying -> subject[n.referid]
      [] OTHER -> 0

Rated(n) == About(n.type) \in PostKinds /\ Joined(n) \in Ids /\ post[About(n.type)][Joined(n)].mature

\* Journals and submissions are compared with the user's rating.
Shown(n) ==
    /\ About(n.type) \in PostKinds => Joined(n) \in Ids
    /\ n.type \in {1010, 2010, 2030, 2050} => (Rated(n) => mature)

\* The types of each page (_NOTIFICATION_CLUSTERS, remove_all_submissions).
On(where) == IF where = "submissions" THEN {2010, 2030, 2050} ELSE Types \ {2010, 2030, 2050}

InWindow(n, window) ==
    CASE window.by = "backtime" -> n.unixtime > window.than
      [] window.by = "nexttime" -> n.unixtime < window.than
      [] OTHER -> TRUE

\* What a page can have of the rows: all of them, or as many of the newest of
\* the submissions as it holds, those of one second in the order of their ids.
Pages(where, rows) ==
    IF where = "notifications" THEN {rows}
    ELSE {some \in SUBSET rows :
             IF some = rows THEN Cardinality(rows) <= PageLimit
             ELSE /\ Cardinality(some) = PageLimit
                  /\ \A n \in some, m \in rows \ some : m.unixtime <= n.unixtime}

\* A request for a page: the queries, and then the template, with NOW() in the
\* button that removes all.  Only submissions have a window.
Select(where, window) ==
    /\ where = "notifications" => window = Whole
    /\ LET rows == {n \in welcome : n.type \in On(where)}
       IN  \E some \in Pages(where, {n \in rows : Shown(n) /\ InWindow(n, window)}) :
               page' = [at |-> "selected", of |-> where, window |-> window, stood |-> rows, shown |-> some,
                        above |-> {n \in rows : Rated(n) /\ ~mature}, later |-> {}, before |-> 0]
    /\ UNCHANGED <<post, subject, mature, welcome, time, unseen, bulk>>

Render ==
    /\ page.at = "selected"
    /\ page' = [page EXCEPT !.at = "rendered", !.before = time]
    /\ UNCHANGED <<post, subject, mature, welcome, time, unseen, bulk>>

\* Submissions that other pages had: a page's link leads past those outside its
\* window, and a full page is followed by those that are no newer.
Elsewhere(n) ==
    /\ page.of = "submissions" /\ n \in page.stood
    /\ \/ ~InWindow(n, page.window)
       \/ Cardinality(page.shown) = PageLimit /\ \A m \in page.shown : n.unixtime <= m.unixtime

\* Fault: what is removed is older than the request to remove it.
RemoveAllByNow ==
    /\ page.at = "rendered" /\ page.shown # {}
    /\ LET gone == {n \in welcome : n.type \in On(page.of) /\ n.unixtime < time}
       IN  /\ welcome' = welcome \ gone
           /\ unseen' = unseen \cup {n \in gone \ (page.shown \cup page.above \cup page.later) : ~Elsewhere(n)}
    /\ page' = NoPage
    /\ UNCHANGED <<post, subject, mature, time, bulk>>

\* remove_all_before, remove_all_submissions: from a page with something on it,
\* whatever its types have from before it was rendered, on any page.
RemoveAll ==
    /\ page.at = "rendered" /\ page.shown # {}
    /\ LET gone == {n \in welcome : n.type \in On(page.of) /\ n.unixtime < page.before}
       IN  /\ welcome' = welcome \ gone
           /\ unseen' = unseen \cup {n \in gone \ (page.shown \cup page.above \cup page.later) : ~Elsewhere(n)}
    /\ page' = NoPage
    /\ UNCHANGED <<post, subject, mature, time, bulk>>

\* remove
Remove(ns) ==
    /\ page.at = "rendered" /\ ns \subseteq page.shown
    /\ welcome' = welcome \ ns
    /\ UNCHANGED <<post, subject, mature, time, page, unseen, bulk>>

\* Fault: only the notifications of the post itself are found.
RemovedByTarget(kind, i) ==
    {n \in welcome : n.type \in Posting /\ About(n.type) = kind /\ n.targetid = i}

\* submission_remove, character_remove and journal_remove, by the columns they name.
Removed(kind, i) ==
    {n \in welcome :
        CASE kind = "submission" ->
                \/ n.type \in {2010, 2030, 3030} /\ n.targetid = i
                \/ n.type \in {3020, 3050, 4050} /\ n.referid = i
                \/ n.type \in {4020, 4025} /\ n.targetid \in {c \in Ids : subject[c] = i}
          [] kind = "character" ->
                \/ n.type = 2050 /\ n.targetid = i
                \/ n.type = 3100 /\ n.referid = i
                \/ n.type \in {4040, 4045} /\ n.targetid \in {c \in Ids : subject[c] = i}
          [] kind = "journal" ->
                \/ n.type = 1010 /\ n.targetid = i
                \/ n.type = 3110 /\ n.referid = i
                \/ n.type \in {4030, 4035} /\ n.targetid \in {c \in Ids : subject[c] = i}}

\* The owner removes the post.
Hide(kind, i) ==
    /\ ~post[kind][i].hidden
    /\ post' = [post EXCEPT ![kind][i].hidden = TRUE]
    /\ welcome' = welcome \ Removed(kind, i)
    /\ UNCHANGED <<subject, mature, time, page, unseen, bulk>>

\* moderation.bulk_edit hides posts and leaves the notifications, and can
\* bring any post back.
BulkHide(kind, i) ==
    /\ ~post[kind][i].hidden
    /\ post' = [post EXCEPT ![kind][i].hidden = TRUE]
    /\ bulk' = bulk \cup {<<kind, i>>}
    /\ UNCHANGED <<subject, mature, welcome, time, page, unseen>>

BulkShow(kind, i) ==
    /\ post[kind][i].hidden
    /\ post' = [post EXCEPT ![kind][i].hidden = FALSE]
    /\ bulk' = bulk \ {<<kind, i>>}
    /\ UNCHANGED <<subject, mature, welcome, time, page, unseen>>

\* edit, bulk_edit_rating: a post is rated anew.
Rate(kind, i) ==
    /\ post' = [post EXCEPT ![kind][i].mature = ~@]
    /\ UNCHANGED <<subject, mature, welcome, time, page, unseen, bulk>>

Prefer ==
    /\ mature' = ~mature
    /\ UNCHANGED <<post, subject, welcome, time, page, unseen, bulk>>

Tick ==
    /\ time < MaxTime
    /\ time' = time + 1
    /\ UNCHANGED <<post, subject, mature, welcome, page, unseen, bulk>>

Next ==
    \/ \E type \in Posting \cup Favoriting \cup Personal, i \in Ids : Notify(type, i, i, i)
    \/ \E c, parent \in Ids :
        /\ subject[c] = subject[parent]
        /\ \E type \in Commenting \cup Replying \cup Shouting : Notify(type, subject[c], c, parent)
    \/ \E where \in {"notifications", "submissions"}, window \in Windows : Select(where, window)
    \/ Render \/ RemoveAll
    \/ \E ns \in SUBSET welcome : Remove(ns)
    \/ \E kind \in PostKinds, i \in Ids : Hide(kind, i) \/ BulkHide(kind, i) \/ BulkShow(kind, i) \/ Rate(kind, i)
    \/ Prefer \/ Tick

Spec == Init /\ [][Next]_vars

-----------------------------------------------------------------------------
\* _page_header_info: what it counts of a group, the thousands of the type.
\* It joins the rows of group 2 with submissions, whatever they are about.
Counted(group) ==
    {n \in welcome : /\ n.type \div 1000 = group
                     /\ group = 2 => (post["submission"][n.targetid].mature => mature)}

\* The header counts what the pages show: all of the comments and other
\* notifications, of the journals also those above the user's rating, and the
\* submissions, of all their pages, but for the characters, which take the rating of the submission
\* that happens to have their number.
HeaderCountsTheShown ==
    /\ \A group \in {3, 4} : Counted(group) = {n \in welcome : n.type \div 1000 = group /\ Shown(n)}
    /\ \A n \in welcome : n.type \div 1000 = 1 => (n \in Counted(1) /\ (Shown(n) \/ (Rated(n) /\ ~mature)))
    /\ \A n \in welcome : n.type \in {2010, 2030} => (n \in Counted(2) <=> Shown(n))

\* Removing a post takes every notification that leads to it, in whichever
\* column, but for a request to collect it (3035).
RemovedWithThePost ==
    \A n \in welcome : About(n.type) \in PostKinds /\ n.type # 3035 =>
        (post[About(n.type)][Joined(n)].hidden => <<About(n.type), Joined(n)>> \in bulk)

\* Removing all from the page of notifications removes what was on it.  From a
\* page of submissions it removes all of them, as the button says: also what is
\* outside the page's window, and what is no newer than a page full of them.
\* Either way, posts above the user's rating go too, and what came while the
\* page was put together; nothing that came after it, even in the same second.
RemovedWasShown == unseen = {}
================================================================================
