-------------------------------- MODULE Comments --------------------------------
(***************************************************************************)
(* Comments on one page and the notifications of them (weasyl/comment.py,  *)
(* weasyl/shout.py, weasyl/welcome.py).  The page is a submission, which   *)
(* has collectors too, a journal (or a character, which is the same), a    *)
(* profile, a profile's staff notes, or a site update.                     *)
(*                                                                         *)
(* Every statement commits by itself.  That the page is hidden, for        *)
(* friends only, closed by settings or its owner's ban refuses a comment   *)
(* before anything is written; that such a call ends is left out.          *)
(***************************************************************************)
EXTENDS Naturals, Sequences, FiniteSets, Requests

CONSTANTS
    Users,
    Mods,           \* staff.MODS
    Owner,          \* whose page it is
    Collectors,     \* who have it in a collection
    Comments,       \* bound: comments that are ever made
    Kinds,          \* the kinds of page to look at
    None

VARIABLES
    page,           \* the kind of this page
    comment,        \* the rows
    welcome,        \* notifications of comments
    ignoreuser,     \* the rows
    late,           \* history: comments made, or told of, beside a removal above them
    shunned         \* history: who ignored a comment's author all the while it was made

vars == <<page, comment, welcome, ignoreuser, call, late, shunned>>

Codes == {"own", "reply", "collected"}     \* 40x0, 40x5 and 4016, 4050
Rows == [parent : Comments \cup {None}, userid : Users, hidden_by : Users \cup {None}]
ConstantsOK == Owner \in Users /\ Collectors \subseteq Users /\ None \notin Rows \cup Comments
CallRecords ==
    [at : {"insert checks", "insert"}, user : Users, parent : Comments \cup {None},
     checks : Seq(Users \X Users), shun : SUBSET Users]
    \cup [at : {"tell whom", "tell"}, comment : Comments, ask : SUBSET Users, tell : SUBSET (Users \X Codes)]
    \cup [at : {"remove replies", "remove read", "remove hide"}, user : Users, comment : Comments]
    \cup [at : {"remove notices"}, user : Users, comment : Comments, ids : SUBSET Comments]

TypeOK ==
    /\ page \in Kinds
    /\ comment \in [Comments -> Rows \cup {None}]
    /\ welcome \subseteq Users \X Codes \X Comments
    /\ ignoreuser \subseteq Users \X Users
    /\ call \in [Calls -> {Idle} \cup CallRecords]
    /\ late \subseteq Comments
    /\ shunned \in [Comments -> SUBSET Users]

Init ==
    /\ page \in Kinds
    /\ comment = [m \in Comments |-> None]
    /\ welcome = {} /\ ignoreuser = {}
    /\ call = AllIdle
    /\ late = {}
    /\ shunned = [m \in Comments |-> {}]

-----------------------------------------------------------------------------
Made(m) == comment[m] # None
Hidden(m) == comment[m].hidden_by # None
Replies(m) == {r \in Comments : Made(r) /\ comment[r].parent = m}

\* A comment with what it replies to, and that replies to, and so on: the least
\* set with all of it.
Climbs(S) == \A k \in S : Made(k) /\ comment[k].parent # None => comment[k].parent \in S
Thread(m) == {k \in Comments : \A S \in SUBSET Comments : m \in S /\ Climbs(S) => k \in S}

\* comment_remove's recursive query: a comment and everything below it.
Below(m) == {k \in Comments : Made(k) /\ m \in Thread(k)}

Removing(m) == \E c \in Calls : call[c].at \in {"remove replies", "remove read", "remove notices", "remove hide"}
                                /\ call[c].comment = m

Shouts == {"profile", "notes"}
ParentAuthor(p) == IF p = None THEN None ELSE comment[p].userid

\* The pairs that insert asks ignoreuser.check about, in its order: the page's
\* owner both ways, but for site updates, and the author replied to.
IgnoreChecks(u, p) ==
    LET both(v) == <<<<v, u>>, <<u, v>>>>
    IN  IF page \in Shouts /\ u \in Mods THEN <<>>
        ELSE (IF page = "update" THEN <<>> ELSE both(Owner))
             \o (IF p = None THEN <<>> ELSE both(comment[p].userid))

-----------------------------------------------------------------------------
\* insert: what is replied to is on the page, hidden or not.
InsertStart(c, u, p) ==
    /\ page = "notes" => u \in Mods
    /\ p # None => Made(p)
    /\ Start(c, [at |-> "insert checks", user |-> u, parent |-> p, checks |-> IgnoreChecks(u, p),
                 shun |-> {v \in Users : <<v, u>> \in ignoreuser}])
    /\ UNCHANGED <<page, comment, welcome, ignoreuser, late, shunned>>

InsertCheck(c) ==
    /\ At(c, "insert checks")
    /\ IF call[c].checks = <<>> THEN Goto(c, "insert")
       ELSE IF Head(call[c].checks) \in ignoreuser THEN End(c)
       ELSE call' = [call EXCEPT ![c].checks = Tail(@)]
    /\ UNCHANGED <<page, comment, welcome, ignoreuser, late, shunned>>

\* Fault: an author replied to is told of what replies to nobody.
RecipientsOfReplies(u, p) == {<<ParentAuthor(p), "reply">>} \ {<<u, "reply">>}

\* Who is told: the author replied to, or the owner of the page and collectors,
\* never the author.  A shout that answers the author's own is told as a shout.
Recipients(u, p) ==
    LET author == ParentAuthor(p)
    IN  CASE page \in Shouts /\ p # None /\ u # author ->
                 IF page = "notes" /\ author \notin Mods THEN {} ELSE {<<author, "reply">>}
          [] page = "profile" /\ ~(p # None /\ u # author) -> {<<Owner, "own">>} \ {<<u, "own">>}
          [] page \notin Shouts /\ p # None -> {<<author, "reply">>} \ {<<u, "reply">>}
          [] page \notin Shouts /\ p = None -> {<<Owner, "own">>} \ {<<u, "own">>}
          [] OTHER -> {}

InsertRow(c, m) ==
    /\ At(c, "insert") /\ ~Made(m)
    /\ LET u == call[c].user
           p == call[c].parent
       IN  /\ comment' = [comment EXCEPT ![m] = [parent |-> p, userid |-> u, hidden_by |-> None]]
           /\ shunned' = [shunned EXCEPT ![m] = call[c].shun]
           /\ late' = late \cup IF p # None /\ (\E k \in Thread(p) : Hidden(k) \/ Removing(k)) THEN {m} ELSE {}
           /\ call' = [call EXCEPT ![c] =
                        [at |-> "tell whom", comment |-> m, tell |-> Recipients(u, p),
                         ask |-> IF page = "submission" /\ p = None THEN Collectors \ {Owner} ELSE {}]]
    /\ UNCHANGED <<page, welcome, ignoreuser>>

\* can_notify, for each collector: their settings allow it, and they do not
\* ignore the author.
AskCollector(c, v, allows) ==
    /\ At(c, "tell whom") /\ v \in call[c].ask
    /\ LET u == comment[call[c].comment].userid
           told == allows /\ v # u /\ <<v, u>> \notin ignoreuser
       IN  call' = [call EXCEPT ![c].ask = @ \ {v}, ![c].tell = IF told THEN @ \cup {<<v, "collected">>} ELSE @]
    /\ UNCHANGED <<page, comment, welcome, ignoreuser, late, shunned>>

AllAsked(c) ==
    /\ At(c, "tell whom") /\ call[c].ask = {}
    /\ Check(c, call[c].tell # {}, "tell")
    /\ UNCHANGED <<page, comment, welcome, ignoreuser, late, shunned>>

\* comment_insert, commentreply_insert, shout_insert and shoutreply_insert.
Tell(c, t) ==
    /\ At(c, "tell") /\ t \in call[c].tell
    /\ welcome' = welcome \cup {<<t[1], t[2], call[c].comment>>}
    /\ IF call[c].tell = {t} THEN End(c) ELSE call' = [call EXCEPT ![c].tell = @ \ {t}]
    /\ UNCHANGED <<page, comment, ignoreuser, late, shunned>>

-----------------------------------------------------------------------------
\* remove: the owner of the page and moderators remove anything, a commenter
\* only what has no replies; of staff notes only moderators.
RemoveStart(c, u, m) ==
    /\ Made(m) /\ ~Hidden(m)
    /\ page = "notes" => u \in Mods
    /\ LET above == u \in Mods \/ (u = Owner /\ page # "update")
       IN  /\ above \/ u = comment[m].userid
           /\ Start(c, [at |-> IF ~above THEN "remove replies"
                               ELSE IF page = "notes" THEN "remove hide" ELSE "remove read",
                        user |-> u, comment |-> m])
    /\ UNCHANGED <<page, comment, welcome, ignoreuser, late, shunned>>

\* A hidden reply counts among shouts only.
RemoveCheckReplies(c) ==
    /\ At(c, "remove replies")
    /\ Check(c, \A r \in Replies(call[c].comment) : page \notin Shouts /\ Hidden(r), "remove read")
    /\ UNCHANGED <<page, comment, welcome, ignoreuser, late, shunned>>

\* Fault: the recursion begins with the replies.
RemoveReadReplies(c) ==
    /\ At(c, "remove read")
    /\ call' = [call EXCEPT ![c] = [at |-> "remove notices", user |-> @.user, comment |-> @.comment,
                                    ids |-> Below(@.comment) \ {@.comment}]]
    /\ UNCHANGED <<page, comment, welcome, ignoreuser, late, shunned>>

\* comment_remove reads what is below the comment, and deletes notifications.
RemoveRead(c) ==
    /\ At(c, "remove read")
    /\ call' = [call EXCEPT ![c] = [at |-> "remove notices", user |-> @.user, comment |-> @.comment,
                                    ids |-> Below(@.comment)]]
    /\ UNCHANGED <<page, comment, welcome, ignoreuser, late, shunned>>

RemoveNotices(c) ==
    /\ At(c, "remove notices")
    /\ welcome' = {n \in welcome : ~(n[2] \in {"own", "reply"} /\ n[3] \in call[c].ids)}
    /\ late' = late \cup {m \in call[c].ids : \E b \in Calls : call[b].at \in {"tell whom", "tell"} /\ call[b].comment = m}
    /\ call' = [call EXCEPT ![c] = [at |-> "remove hide", user |-> @.user, comment |-> @.comment]]
    /\ UNCHANGED <<page, comment, ignoreuser, shunned>>

RemoveHide(c) ==
    /\ At(c, "remove hide")
    /\ comment' = [comment EXCEPT ![call[c].comment].hidden_by = IF @ = None THEN call[c].user ELSE @]
    /\ End(c)
    /\ UNCHANGED <<page, welcome, ignoreuser, late, shunned>>

-----------------------------------------------------------------------------
\* Rows that ignoreuser.insert and remove write; of moderators there are none.
Ignore(u, v) ==
    /\ u # v /\ v \notin Mods
    /\ ignoreuser' = ignoreuser \cup {<<u, v>>}
    /\ UNCHANGED <<page, comment, welcome, call, late, shunned>>

Unignore(u, v) ==
    /\ <<u, v>> \in ignoreuser
    /\ ignoreuser' = ignoreuser \ {<<u, v>>}
    /\ call' = [c \in Calls |-> IF "shun" \in DOMAIN call[c] /\ call[c].user = v
                                THEN [call[c] EXCEPT !.shun = @ \ {u}] ELSE call[c]]
    /\ shunned' = [m \in Comments |->
                    IF \E c \in Calls : call[c].at \in {"tell whom", "tell"} /\ call[c].comment = m /\ comment[m].userid = v
                    THEN shunned[m] \ {u} ELSE shunned[m]]
    /\ UNCHANGED <<page, comment, welcome, late>>

Next ==
    \/ \E c \in Calls :
        \/ \E u \in Users, p \in Comments \cup {None} : InsertStart(c, u, p)
        \/ InsertCheck(c)
        \/ \E m \in Comments : InsertRow(c, m)
        \/ \E v \in Collectors, allows \in BOOLEAN : AskCollector(c, v, allows)
        \/ AllAsked(c)
        \/ \E t \in Users \X Codes : Tell(c, t)
        \/ \E u \in Users, m \in Comments : RemoveStart(c, u, m)
        \/ RemoveCheckReplies(c) \/ RemoveRead(c) \/ RemoveNotices(c) \/ RemoveHide(c)
    \/ \E u, v \in Users : Ignore(u, v) \/ Unignore(u, v)

Spec == Init /\ [][Next]_vars

-----------------------------------------------------------------------------
\* thread: a comment is shown when nothing it replies to is hidden.
Shown(m) == \A k \in Thread(m) : ~Hidden(k)

\* A notification of a comment or a reply leads to one that the page shows,
\* but for collectors', for staff notes', and where a removal overlapped or the
\* reply was to a hidden comment.
NoticesLeadSomewhere ==
    \A n \in welcome :
        n[2] \in {"own", "reply"} /\ page # "notes" /\ n[3] \notin late => Shown(n[3])

\* A commenter who may not moderate the page hides only a comment without
\* visible replies, but for replies made beside the removal or after it.
RepliesAreNotOrphaned ==
    \A m \in Comments : Made(m) /\ Hidden(m) =>
        LET u == comment[m].hidden_by
        IN  u \in Mods \/ (u = Owner /\ page # "update")
            \/ \A r \in Replies(m) : Hidden(r) \/ r \in late

\* Nobody is told of a comment by someone they ignored all the while it was
\* made: but by moderators on profiles, and site updates' owners.
IgnoredAreNotHeard ==
    \A n \in welcome :
        n[1] \in shunned[n[3]] => \/ page \in Shouts /\ comment[n[3]].userid \in Mods
                                  \/ page = "update" /\ n[2] = "own"

================================================================================
