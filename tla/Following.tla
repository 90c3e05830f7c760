------------------------------- MODULE Following -------------------------------
(***************************************************************************)
(* Following (weasyl/followuser.py), its notification (3010), what a block *)
(* does to it (weasyl/ignoreuser.py), and the notifications that followers *)
(* get of a stream (3070, 3075; profile.edit_streaming_settings and        *)
(* welcome.stream_insert).                                                 *)
(*                                                                         *)
(* Every statement commits by itself, but for a block's, which are one     *)
(* READ COMMITTED transaction: the rows its DELETE finds are locked until  *)
(* it commits.  Of the settings of a watch only the flag for streams is    *)
(* kept; a moderator's staff note about an edit is left out.               *)
(***************************************************************************)
EXTENDS Naturals, FiniteSets, Requests

CONSTANTS
    Users,
    Mods,           \* staff.MODS, whom nobody can block
    MaxCopies       \* bound: copies of a notification

VARIABLES
    watchuser,      \* (userid, otherid) -> none, without or with the flag t
    ignoreuser,     \* the committed rows
    follows,        \* (userid, otherid) -> notifications of it that otherid has
    streams,        \* (userid, otherid, type) -> notifications otherid has of userid's stream
    user_streams,   \* users with a row
    streaming_later,\* users whose profile says so
    severed,        \* history: watches that a block has ended
    overtaken,      \* history: blocks that came between a call's checks and its row
    mixed           \* history: pairs, and streamers, two calls of whom overlapped

tables == <<watchuser, ignoreuser, follows, streams, user_streams, streaming_later>>
history == <<severed, overtaken, mixed>>
vars == <<tables, call, history>>

Pairs == {p \in Users \X Users : p[1] # p[2]}
Types == {"now", "later"}
FollowCalls == [at : {"check ignored", "insert watch", "insert clear", "insert notify", "remove clear"}, pair : Pairs]
BlockCalls == [at : {"block commit"}, user : Users, blocks : SUBSET Users, deletes : SUBSET Pairs]
StreamCalls == [at : {"stream insert", "stream clear", "stream notify", "stream profile"},
                user : Users, set : {"", "start", "later", "still"}]

TypeOK ==
    /\ watchuser \in [Pairs -> {"none", "", "t"}]
    /\ ignoreuser \subseteq Pairs
    /\ follows \in [Pairs -> Nat]
    /\ streams \in [Pairs \X Types -> Nat]
    /\ user_streams \subseteq Users /\ streaming_later \subseteq Users
    /\ call \in [Calls -> {Idle} \cup FollowCalls \cup BlockCalls \cup StreamCalls]
    /\ severed \subseteq Pairs /\ overtaken \subseteq Pairs /\ mixed \subseteq Pairs \cup Users

Init ==
    /\ watchuser = [p \in Pairs |-> "none"]
    /\ ignoreuser = {}
    /\ follows = [p \in Pairs |-> 0]
    /\ streams = [n \in Pairs \X Types |-> 0]
    /\ user_streams = {} /\ streaming_later = {}
    /\ call = AllIdle
    /\ severed = {} /\ overtaken = {} /\ mixed = {}

-----------------------------------------------------------------------------
Subject(c) == IF "pair" \in DOMAIN call[c] THEN {call[c].pair}
              ELSE IF "set" \in DOMAIN call[c] THEN {call[c].user} ELSE {}
\* x is the pair or the streamer of a call that begins.
Mixing(x) == IF \E c \in Calls : x \in Subject(c) THEN mixed \cup {x} ELSE mixed

Deleting(p) == \E c \in Calls : At(c, "block commit") /\ p \in call[c].deletes

\* insert: ignoreuser.check of the other, and of the user.
CheckIgnoredYou(c, p) ==
    /\ <<p[2], p[1]>> \notin ignoreuser
    /\ Start(c, [at |-> "check ignored", pair |-> p])
    /\ mixed' = Mixing(p)
    /\ UNCHANGED <<tables, severed, overtaken>>

CheckYouIgnored(c) ==
    /\ At(c, "check ignored")
    /\ Check(c, call[c].pair \notin ignoreuser, "insert watch")
    /\ UNCHANGED <<tables, history>>

\* The row, with the settings of the user's profile, unless there is one.
InsertWatch(c, settings) ==
    /\ At(c, "insert watch")
    /\ ~Deleting(call[c].pair)
    /\ watchuser' = [watchuser EXCEPT ![call[c].pair] = IF @ = "none" THEN settings ELSE @]
    /\ overtaken' = IF \/ call[c].pair \in ignoreuser
                       \/ \E b \in Calls : /\ At(b, "block commit")
                                           /\ call[c].pair[1] = call[b].user
                                           /\ call[c].pair[2] \in call[b].blocks
                      THEN overtaken \cup {call[c].pair} ELSE overtaken
    /\ Goto(c, "insert clear")
    /\ UNCHANGED <<ignoreuser, follows, streams, user_streams, streaming_later, severed, mixed>>

\* followuser_remove, before the notification is inserted again ...
ClearNotice(c) ==
    /\ At(c, "insert clear") \/ At(c, "remove clear")
    /\ follows' = [follows EXCEPT ![call[c].pair] = 0]
    /\ IF At(c, "insert clear") THEN Goto(c, "insert notify") ELSE End(c)
    /\ UNCHANGED <<watchuser, ignoreuser, streams, user_streams, streaming_later, history>>

\* ... by followuser_insert.
InsertNotice(c) ==
    /\ At(c, "insert notify")
    /\ follows[call[c].pair] < MaxCopies
    /\ follows' = [follows EXCEPT ![call[c].pair] = @ + 1]
    /\ End(c)
    /\ UNCHANGED <<watchuser, ignoreuser, streams, user_streams, streaming_later, history>>

Update(p, settings) ==
    /\ watchuser[p] # "none" /\ ~Deleting(p)
    /\ watchuser' = [watchuser EXCEPT ![p] = settings]
    /\ UNCHANGED <<ignoreuser, follows, streams, user_streams, streaming_later, call, history>>

\* remove deletes the row, and then the notification.
Remove(c, p) ==
    /\ ~Deleting(p)
    /\ watchuser' = [watchuser EXCEPT ![p] = "none"]
    /\ Start(c, [at |-> "remove clear", pair |-> p])
    /\ mixed' = Mixing(p)
    /\ UNCHANGED <<ignoreuser, follows, streams, user_streams, streaming_later, severed, overtaken>>

-----------------------------------------------------------------------------
\* ignoreuser.insert up to its commit: the watches of the one who blocks go,
\* those of the others stay.
WatchRows(u, others) == {p \in Pairs : watchuser[p] # "none" /\ p[1] = u /\ p[2] \in others}

Ignore(c, u, others) ==
    /\ others # {} /\ u \notin others /\ others \cap Mods = {}
    /\ \A p \in WatchRows(u, others) : ~Deleting(p)
    /\ Start(c, [at |-> "block commit", user |-> u, blocks |-> others, deletes |-> WatchRows(u, others)])
    /\ UNCHANGED <<tables, history>>

\* Fault: those who are blocked go on being followed.
IgnoreKeepingWatch(c) ==
    /\ At(c, "block commit")
    /\ ignoreuser' = ignoreuser \cup {<<call[c].user, v>> : v \in call[c].blocks}
    /\ End(c)
    /\ UNCHANGED <<watchuser, follows, streams, user_streams, streaming_later, history>>

IgnoreCommit(c) ==
    /\ At(c, "block commit")
    /\ ignoreuser' = ignoreuser \cup {<<call[c].user, v>> : v \in call[c].blocks}
    /\ watchuser' = [p \in Pairs |-> IF p \in call[c].deletes THEN "none" ELSE watchuser[p]]
    /\ severed' = severed \cup call[c].deletes
    /\ End(c)
    /\ UNCHANGED <<follows, streams, user_streams, streaming_later, overtaken, mixed>>

Unignore(p) ==
    /\ p \in ignoreuser
    /\ ignoreuser' = ignoreuser \ {p}
    /\ UNCHANGED <<watchuser, follows, streams, user_streams, streaming_later, call, history>>

\* message.remove: users clear their notifications away.
RemoveNotice(p) ==
    /\ \/ /\ follows[p] > 0
          /\ follows' = [follows EXCEPT ![p] = @ - 1]
          /\ UNCHANGED streams
       \/ \E type \in Types :
          /\ streams[<<p, type>>] > 0
          /\ streams' = [streams EXCEPT ![<<p, type>>] = @ - 1]
          /\ UNCHANGED follows
    /\ UNCHANGED <<watchuser, ignoreuser, user_streams, streaming_later, call, history>>

-----------------------------------------------------------------------------
\* edit_streaming_settings, unless still streaming, first deletes the row of
\* user_streams.  That a stream goes on is not checked: the form may be old.
EditStreaming(c, u, set) ==
    /\ user_streams' = IF set = "still" THEN user_streams ELSE user_streams \ {u}
    /\ Start(c, [at |-> IF set = "start" THEN "stream insert"
                        ELSE IF set = "still" THEN "stream profile" ELSE "stream clear",
                 user |-> u, set |-> set])
    /\ mixed' = Mixing(u) \cup IF set = "still" /\ u \notin user_streams THEN {u} ELSE {}
    /\ UNCHANGED <<watchuser, ignoreuser, follows, streams, streaming_later, severed, overtaken>>

\* ... inserts one, which fails if another request has ...
StreamInsert(c) ==
    /\ At(c, "stream insert")
    /\ user_streams' = user_streams \cup {call[c].user}
    /\ IF call[c].user \in user_streams THEN End(c) ELSE Goto(c, "stream clear")
    /\ UNCHANGED <<watchuser, ignoreuser, follows, streams, streaming_later, history>>

\* ... replaces the notifications of followers (stream_insert) ...
StreamClear(c) ==
    /\ At(c, "stream clear")
    /\ streams' = [n \in Pairs \X Types |-> IF n[1][1] = call[c].user THEN 0 ELSE streams[n]]
    /\ Goto(c, IF call[c].set = "" THEN "stream profile" ELSE "stream notify")
    /\ UNCHANGED <<watchuser, ignoreuser, follows, user_streams, streaming_later, history>>

StreamNotify(c) ==
    /\ At(c, "stream notify")
    /\ LET u == call[c].user
           type == IF call[c].set = "start" THEN "now" ELSE "later"
           told == {<<<<u, v>>, type>> : v \in {w \in Users \ {u} : watchuser[<<w, u>>] = "t"}}
       IN  /\ \A n \in told : streams[n] < MaxCopies
           /\ streams' = [n \in Pairs \X Types |-> IF n \in told THEN streams[n] + 1 ELSE streams[n]]
    /\ Goto(c, "stream profile")
    /\ UNCHANGED <<watchuser, ignoreuser, follows, user_streams, streaming_later, history>>

\* ... and updates the profile.
StreamProfile(c) ==
    /\ At(c, "stream profile")
    /\ streaming_later' = IF call[c].set = "later"
                            THEN streaming_later \cup {call[c].user} ELSE streaming_later \ {call[c].user}
    /\ End(c)
    /\ UNCHANGED <<watchuser, ignoreuser, follows, streams, user_streams, history>>

Next ==
    \/ \E p \in Pairs :
        \/ \E settings \in {"", "t"} : Update(p, settings)
        \/ Unignore(p) \/ RemoveNotice(p)
    \/ \E c \in Calls :
        \/ \E p \in Pairs : CheckIgnoredYou(c, p) \/ Remove(c, p)
        \/ CheckYouIgnored(c)
        \/ \E settings \in {"", "t"} : InsertWatch(c, settings)
        \/ ClearNotice(c) \/ InsertNotice(c)
        \/ \E u \in Users, others \in SUBSET Users : Ignore(c, u, others)
        \/ IgnoreCommit(c)
        \/ \E u \in Users, set \in {"", "start", "later", "still"} : EditStreaming(c, u, set)
        \/ StreamInsert(c) \/ StreamClear(c) \/ StreamNotify(c) \/ StreamProfile(c)

Spec == Init /\ [][Next]_vars

-----------------------------------------------------------------------------
\* Nobody follows someone they have blocked, unless a call that had passed its
\* checks inserted the row while the block was on its way.
BlockEndsFollowing ==
    \A p \in ignoreuser \ overtaken : watchuser[p] = "none"

\* Whoever is told of a follower is told once, and has that follower: but for
\* followers that blocked them, which is silent, and calls that overlapped.
FollowersTold ==
    \A p \in Pairs \ (severed \cup mixed) :
        /\ follows[p] <= 1
        /\ follows[p] = 1 => watchuser[p] # "none" \/ \E c \in Calls : At(c, "remove clear") /\ call[c].pair = p

\* A follower has one notification of a stream at most, and it says what the
\* profile says, unless edits overlapped, one is under way, or one came from an old form.
StreamsTold ==
    \A p \in Pairs :
        p[1] \in mixed \/ (\E c \in Calls : p[1] \in Subject(c)) \/
            /\ streams[<<p, "now">>] + streams[<<p, "later">>] <= 1
            /\ streams[<<p, "now">>] = 1 => p[1] \in user_streams
            /\ streams[<<p, "later">>] = 1 => p[1] \in streaming_later
==============================================================================
