------------------------------- MODULE Gallery -------------------------------
(***************************************************************************)
(* A submission and what other users do with it: they are told of it, mark *)
(* it as a favorite and collect it, and its owner or a moderator edits,    *)
(* removes and restores it (weasyl/submission.py, favorite.py,             *)
(* collection.py and the notifications of welcome.py).                     *)
(*                                                                         *)
(* Every statement commits on its own and is a step here, except in        *)
(* favorite.insert and favorite.remove, which are serializable             *)
(* transactions.  Checks that only refuse (blocks, ratings, settings) are  *)
(* left out where no property depends on them: a refused call changes      *)
(* nothing.  Who watches and befriends whom is fixed.  A call names one    *)
(* pair of a submission and a collector; the code loops over several.      *)
(* Users and submissions are numbers, and may be the same ones, because    *)
(* nothing but the order of the arguments tells a userid from a submitid.  *)
(***************************************************************************)
EXTENDS Naturals, FiniteSets, Bags, Functions

CONSTANTS
    Users,          \* userids
    Submissions,    \* submitids
    OwnerOf,        \* submission.userid
    Watching,       \* pairs of a user and one whose submissions they follow
    Friends,        \* pairs of users, in either direction
    ThrottleLimit,  \* 10 in _check_throttle
    Requests        \* bound: calls in progress at a time

ASSUME IdsAssumption == Users \subseteq Nat /\ Submissions \subseteq Nat
ASSUME FiniteAssumption == IsFiniteSet(Users) /\ IsFiniteSet(Submissions) /\ IsFiniteSet(Requests)
ASSUME OwnerAssumption == OwnerOf \in [Submissions -> Users]
ASSUME RelationsAssumption == Watching \subseteq Users \X Users /\ Friends \subseteq Users \X Users
ASSUME LimitAssumption == ThrottleLimit \in Nat

VARIABLES
    posted,         \* submissions that exist
    hidden,         \* submission.hidden
    friends_only,   \* submission.friends_only
    favorites,      \* submission.favorites, the counter
    favorite,       \* rows: pairs of a user and a submission
    collection,     \* the row of each pair: none, offered (p), requested (r)
                    \* or accepted
    welcome,        \* the bag of notifications
    call,           \* the calls in progress
    agreed,         \* history: who has agreed to the row of each pair
    collected,      \* history: pairs that have been accepted
    late            \* history: submissions whose followers were told while
                    \* they were becoming friends-only

rows == <<posted, hidden, friends_only, favorites, favorite, collection>>
history == <<agreed, collected, late>>
vars == <<rows, welcome, call, history>>

Ids == Users \cup Submissions
Pairs == Users \X Submissions
Types == {"2010", "2030", "3020", "3030", "3035", "3050"}
\* A row of welcome: type, userid, otherid, and the targetid or referid.
Notifications == [type : Types, to : Users, other : Ids, about : Ids]
Notify(type, to, other, about) ==
    {[type |-> type, to |-> u, other |-> other, about |-> about] : u \in to}

Steps ==
    {"post notify", "hide clear", "edit clear", "edit restrict", "edit open",
     "favorite owners", "favorite commit", "offer insert", "offer notify",
     "request throttle", "request insert", "request notify",
     "accept announce", "accept clear", "reject clear", "remove clear"}
Idle == [at |-> "idle"]
\* user is the one who calls; other is the second user of a call, if any.
Calls == [at : Steps, user : Users, other : Users, submit : Submissions, notify : SUBSET Users]

TypeOK ==
    /\ posted \subseteq Submissions
    /\ hidden \subseteq posted
    /\ friends_only \subseteq posted
    /\ favorites \in [Submissions -> Nat]
    /\ favorite \subseteq Users \X posted
    /\ collection \in [Pairs -> {"none", "p", "r", "accepted"}]
    /\ IsABag(welcome) /\ BagToSet(welcome) \subseteq Notifications
    /\ call \in [Requests -> {Idle} \cup Calls]
    /\ \A r \in Requests : call[r] # Idle => call[r].submit \in posted
    /\ agreed \in [Pairs -> SUBSET {"collector", "owner"}]
    /\ collected \subseteq Pairs
    /\ late \subseteq Submissions

Init ==
    /\ posted = {} /\ hidden = {} /\ friends_only = {}
    /\ favorites = [s \in Submissions |-> 0]
    /\ favorite = {}
    /\ collection = [p \in Pairs |-> "none"]
    /\ welcome = EmptyBag
    /\ call = [r \in Requests |-> Idle]
    /\ agreed = [p \in Pairs |-> {}]
    /\ collected = {} /\ late = {}

-----------------------------------------------------------------------------
At(r, step) == call[r].at = step
Begin(r, step, user, other, s) ==
    /\ call[r] = Idle
    /\ call' = [call EXCEPT ![r] =
          [at |-> step, user |-> user, other |-> other, submit |-> s, notify |-> {}]]
Goto(r, step) == call' = [call EXCEPT ![r].at = step]
End(r) == call' = [call EXCEPT ![r] = Idle]

Sent(notifications) == welcome (+) SetToBag(notifications)
Deleted(notifications) == Restrict(welcome, DOMAIN welcome \ notifications)
Among(P(_)) == {n \in DOMAIN welcome : P(n)}

Watchers(u) == {w \in Users : <<w, u>> \in Watching}
Befriended(u, v) == u = v \/ <<u, v>> \in Friends \/ <<v, u>> \in Friends
FriendsOf(u) == {v \in Users \ {u} : Befriended(u, v)}

-----------------------------------------------------------------------------
\* create_visual, create_literary, create_multimedia: the row, and then
\* welcome.submission_insert to the followers (or friends among them).
PostInsert(r, s, restricted) ==
    /\ s \notin posted
    /\ call[r] = Idle
    /\ LET u == OwnerOf[s]
       IN  call' = [call EXCEPT ![r] =
               [at |-> "post notify", user |-> u, other |-> u, submit |-> s,
                notify |-> IF restricted THEN Watchers(u) \cap FriendsOf(u) ELSE Watchers(u)]]
    /\ posted' = posted \cup {s}
    /\ friends_only' = IF restricted THEN friends_only \cup {s} ELSE friends_only
    /\ UNCHANGED <<hidden, favorites, favorite, collection, welcome, history>>

Restricting(s) ==
    s \in friends_only \/ \E r \in Requests : At(r, "edit restrict") /\ call[r].submit = s

PostNotify(r) ==
    /\ At(r, "post notify")
    /\ LET s == call[r].submit
       IN  /\ welcome' = Sent(Notify("2010", call[r].notify, call[r].user, s))
           /\ late' = IF Restricting(s) /\ ~call[r].notify \subseteq FriendsOf(OwnerOf[s])
                      THEN late \cup {s} ELSE late
    /\ End(r)
    /\ UNCHANGED <<rows, agreed, collected>>

\* Fault: those who were told of the submission itself are forgotten.
NoticesOfForgettingFollowers(s) ==
    Among(LAMBDA n : n.type \in {"2030", "3020", "3030", "3050"} /\ n.about = s)

\* _queries_for_submission_notifications
NoticesOf(s) ==
    Among(LAMBDA n : n.type \in {"2010", "2030", "3020", "3030", "3050"} /\ n.about = s)

\* submission.remove, by the owner or a moderator.
HideUpdate(r, s) ==
    /\ s \in posted \ hidden
    /\ \E u \in Users : Begin(r, "hide clear", u, u, s)
    /\ hidden' = hidden \cup {s}
    /\ UNCHANGED <<posted, friends_only, favorites, favorite, collection, welcome, history>>

HideClear(r) ==
    /\ At(r, "hide clear")
    /\ welcome' = Deleted(NoticesOf(call[r].submit))
    /\ End(r)
    /\ UNCHANGED <<rows, history>>

\* moderation.bulk_edit with "hide" and "show": the row and nothing else.
BulkEdit(s) ==
    /\ s \in posted
    /\ hidden' = IF s \in hidden THEN hidden \ {s} ELSE hidden \cup {s}
    /\ UNCHANGED <<posted, friends_only, favorites, favorite, collection, welcome, call, history>>

\* submission.edit: with friends_only the notifications of everyone else are
\* deleted first.
EditCheck(r, s) ==
    /\ s \in posted \ hidden
    /\ \E step \in {"edit clear", "edit open"} : Begin(r, step, OwnerOf[s], OwnerOf[s], s)
    /\ UNCHANGED <<rows, welcome, history>>

\* submission_became_friends_only
EditClear(r) ==
    /\ At(r, "edit clear")
    /\ LET s == call[r].submit
       IN  welcome' = Deleted({n \in NoticesOf(s) : n.to \notin FriendsOf(OwnerOf[s])})
    /\ Goto(r, "edit restrict")
    /\ UNCHANGED <<rows, history>>

EditUpdate(r) ==
    /\ LET s == call[r].submit
       IN  \/ /\ At(r, "edit restrict")
              /\ friends_only' = friends_only \cup {s}
           \/ /\ At(r, "edit open")
              /\ friends_only' = friends_only \ {s}
    /\ End(r)
    /\ UNCHANGED <<posted, hidden, favorites, favorite, collection, welcome, history>>

-----------------------------------------------------------------------------
\* favorite.insert: the submission may be hidden, but must not be one's own,
\* nor friends-only without being a friend.
FavoriteCheck(r, u, s) ==
    /\ s \in posted
    /\ u # OwnerOf[s]
    /\ s \in friends_only => Befriended(u, OwnerOf[s])
    /\ Begin(r, "favorite owners", u, OwnerOf[s], s)
    /\ UNCHANGED <<rows, welcome, history>>

Owners(s) == {c \in Users : collection[<<c, s>>] = "accepted"}

\* The transaction begins.  Whom to notify is read over another connection, in
\* the first attempt only; a row that is there already ends the call.
FavoriteOwners(r) ==
    /\ At(r, "favorite owners")
    /\ LET s == call[r].submit
       IN  IF <<call[r].user, s>> \in favorite
           THEN End(r)
           ELSE call' = [call EXCEPT ![r].at = "favorite commit",
                                     ![r].notify = {OwnerOf[s]} \cup Owners(s)]
    /\ UNCHANGED <<rows, welcome, history>>

FavoriteWrites(u, s, notify) ==
    /\ favorite' = favorite \cup {<<u, s>>}
    /\ favorites' = [favorites EXCEPT ![s] = @ + 1]
    /\ welcome' = Sent(Notify("3020", notify \cap {OwnerOf[s]}, u, s)
                          \cup Notify("3050", notify \ {OwnerOf[s]}, u, s))

\* Fault: the rowcount of the insert is not looked at.
FavoriteCommitAgain(r) ==
    /\ At(r, "favorite commit")
    /\ FavoriteWrites(call[r].user, call[r].submit, call[r].notify)
    /\ End(r)
    /\ UNCHANGED <<posted, hidden, friends_only, collection, history>>

\* It commits, in the attempt in which no other transaction has changed what it
\* uses since it began; then the row may be there after all.
FavoriteCommit(r) ==
    /\ At(r, "favorite commit")
    /\ IF <<call[r].user, call[r].submit>> \in favorite
       THEN UNCHANGED <<favorite, favorites, welcome>>
       ELSE FavoriteWrites(call[r].user, call[r].submit, call[r].notify)
    /\ End(r)
    /\ UNCHANGED <<posted, hidden, friends_only, collection, history>>

\* Fault: the notification is kept.
UnfavoriteKeepingNotice(u, s) ==
    /\ <<u, s>> \in favorite
    /\ favorite' = favorite \ {<<u, s>>}
    /\ favorites' = [favorites EXCEPT ![s] = @ - 1]
    /\ UNCHANGED <<posted, hidden, friends_only, collection, welcome, call, history>>

\* Fault: the rowcount of the delete is not looked at.
UnfavoriteUnchecked(u, s) ==
    /\ s \in posted
    /\ favorite' = favorite \ {<<u, s>>}
    /\ favorites' = [favorites EXCEPT ![s] = @ - 1]
    /\ welcome' = Deleted(Among(LAMBDA n : n.type = "3020" /\ n.other = u /\ n.about = s))
    /\ UNCHANGED <<posted, hidden, friends_only, collection, call, history>>

\* favorite.remove; without a row it changes nothing.
Unfavorite(u, s) ==
    /\ <<u, s>> \in favorite
    /\ favorite' = favorite \ {<<u, s>>}
    /\ favorites' = [favorites EXCEPT ![s] = @ - 1]
    /\ welcome' = Deleted(Among(LAMBDA n : n.type = "3020" /\ n.other = u /\ n.about = s))
    /\ UNCHANGED <<posted, hidden, friends_only, collection, call, history>>

-----------------------------------------------------------------------------
Offerable(s) == s \in posted \ (hidden \cup friends_only)

SetRow(c, s, row) == collection' = [collection EXCEPT ![<<c, s>>] = row]
SetAgreed(c, s, who) == agreed' = [agreed EXCEPT ![<<c, s>>] = who]

\* offer(userid, submitid, otherid): the owner offers s to c.
OfferCheck(r, s, c) ==
    /\ Offerable(s) /\ c # OwnerOf[s]
    /\ Begin(r, "offer insert", OwnerOf[s], c, s)
    /\ UNCHANGED <<rows, welcome, history>>

OfferInsert(r) ==
    /\ At(r, "offer insert")
    /\ LET c == call[r].other  s == call[r].submit
       IN  IF collection[<<c, s>>] # "none"
           THEN End(r) /\ UNCHANGED <<collection, agreed>>    \* collectionExists
           ELSE Goto(r, "offer notify") /\ SetRow(c, s, "p") /\ SetAgreed(c, s, {"owner"})
    /\ UNCHANGED <<posted, hidden, friends_only, favorites, favorite, welcome, collected, late>>

\* collectoffer_insert
OfferNotify(r) ==
    /\ At(r, "offer notify")
    /\ welcome' = Sent(Notify("3030", {call[r].other}, call[r].user, call[r].submit))
    /\ End(r)
    /\ UNCHANGED <<rows, history>>

\* request(userid, submitid, otherid): c asks the owner for s.
RequestCheck(r, c, s) ==
    /\ Offerable(s) /\ c # OwnerOf[s]
    /\ Begin(r, "request throttle", c, OwnerOf[s], s)
    /\ UNCHANGED <<rows, welcome, history>>

RequestedOf(c, owner) == {s \in Submissions : OwnerOf[s] = owner /\ collection[<<c, s>>] = "r"}

\* Fault: the offers are counted.
ThrottledByOffers(c, owner) ==
    Cardinality({s \in Submissions : OwnerOf[s] = owner /\ collection[<<c, s>>] = "p"})
        > ThrottleLimit

\* _check_throttle
Throttled(c, owner) == Cardinality(RequestedOf(c, owner)) > ThrottleLimit

RequestThrottle(r) ==
    /\ At(r, "request throttle")
    /\ IF Throttled(call[r].user, call[r].other) THEN End(r) ELSE Goto(r, "request insert")
    /\ UNCHANGED <<rows, welcome, history>>

RequestInsert(r) ==
    /\ At(r, "request insert")
    /\ LET c == call[r].user  s == call[r].submit
       IN  IF collection[<<c, s>>] # "none"
           THEN End(r) /\ UNCHANGED <<collection, agreed>>
           ELSE Goto(r, "request notify") /\ SetRow(c, s, "r") /\ SetAgreed(c, s, {"collector"})
    /\ UNCHANGED <<posted, hidden, friends_only, favorites, favorite, welcome, collected, late>>

\* collectrequest_insert
RequestNotify(r) ==
    /\ At(r, "request notify")
    /\ welcome' = Sent(Notify("3035", {call[r].other}, call[r].user, call[r].submit))
    /\ End(r)
    /\ UNCHANGED <<rows, history>>

\* Fault: whoever of the two may decide.
DecidableByEither(u, c, s) == u \in {c, OwnerOf[s]} /\ collection[<<c, s>>] \in {"p", "r"}

\* The condition of both statements on a pending row: an offer is the
\* collector's to decide, a request the owner's.
Decidable(u, c, s) ==
    /\ u \in {c, OwnerOf[s]}
    /\ collection[<<c, s>>] = IF u = c THEN "p" ELSE "r"

\* pending_accept(userid, submissions): the update and what it returned.
AcceptUpdate(r, u, c, s) ==
    /\ s \in posted
    /\ Decidable(u, c, s)
    /\ SetRow(c, s, "accepted")
    /\ SetAgreed(c, s, agreed[<<c, s>>] \cup {IF u = c THEN "collector" ELSE "owner"})
    /\ collected' = collected \cup {<<c, s>>}
    /\ Begin(r, "accept announce", u, c, s)
    /\ UNCHANGED <<posted, hidden, friends_only, favorites, favorite, welcome, late>>

\* welcome.collection_insert(userid, submitid)
collection_insert(userid, submitid) ==
    welcome' = Sent(Notify("2030", Watchers(userid), userid, submitid))

\* welcome.collectrequest_remove(userid, otherid, submitid)
collectrequest_remove(userid, otherid, submitid) ==
    welcome' = Deleted(Among(LAMBDA n :
        /\ n.to = userid /\ n.about = submitid
        /\ n.type = IF otherid = userid THEN "3030" ELSE "3035"
        /\ otherid # userid => n.other = otherid))

\* The calls for each row of the result are collection_insert(s[1], s[0]) and
\* collectrequest_remove(userid, s[1], s[0]), and the result's rows are
\* (collection.userid, collection.submitid).
AcceptAnnounce(r) ==
    /\ At(r, "accept announce")
    /\ collection_insert(call[r].submit, call[r].other)
    /\ Goto(r, "accept clear")
    /\ UNCHANGED <<rows, history>>

AcceptClear(r) ==
    /\ At(r, "accept clear")
    /\ collectrequest_remove(call[r].user, call[r].submit, call[r].other)
    /\ End(r)
    /\ UNCHANGED <<rows, history>>

\* pending_reject(userid, submissions) goes on whether a row was deleted or not.
RejectDelete(r, u, c, s) ==
    /\ s \in posted
    /\ IF Decidable(u, c, s)
       THEN SetRow(c, s, "none") /\ SetAgreed(c, s, {})
       ELSE UNCHANGED <<collection, agreed>>
    /\ Begin(r, "reject clear", u, c, s)
    /\ UNCHANGED <<posted, hidden, friends_only, favorites, favorite, welcome, collected, late>>

RejectClear(r) ==
    /\ At(r, "reject clear")
    /\ collectrequest_remove(call[r].user, call[r].other, call[r].submit)
    /\ End(r)
    /\ UNCHANGED <<rows, history>>

\* remove(userid, submissions), by the collector.
RemoveDelete(r, c, s) ==
    /\ s \in posted
    /\ IF collection[<<c, s>>] = "accepted"
       THEN SetRow(c, s, "none") /\ SetAgreed(c, s, {})
       ELSE UNCHANGED <<collection, agreed>>
    /\ Begin(r, "remove clear", c, c, s)
    /\ UNCHANGED <<posted, hidden, friends_only, favorites, favorite, welcome, collected, late>>

\* welcome.collection_remove
RemoveClear(r) ==
    /\ At(r, "remove clear")
    /\ welcome' = Deleted(Among(LAMBDA n :
           n.type = "2030" /\ n.other = call[r].user /\ n.about = call[r].submit))
    /\ End(r)
    /\ UNCHANGED <<rows, history>>

\* message.remove: a user clears what they have read.
RemoveNotification(n) ==
    /\ n \in DOMAIN welcome
    /\ welcome' = welcome (-) SetToBag({n})
    /\ UNCHANGED <<rows, call, history>>

-----------------------------------------------------------------------------
\* The calls, statement by statement.
Submitting(r) ==
    \/ \E s \in Submissions :
          \/ \E restricted \in BOOLEAN : PostInsert(r, s, restricted)
          \/ HideUpdate(r, s) \/ EditCheck(r, s)
    \/ PostNotify(r) \/ HideClear(r) \/ EditClear(r) \/ EditUpdate(r)

Favoriting(r) ==
    \/ \E u \in Users, s \in Submissions : FavoriteCheck(r, u, s)
    \/ FavoriteOwners(r) \/ FavoriteCommit(r)

Offering(r) ==
    \/ \E c \in Users, s \in Submissions : OfferCheck(r, s, c)
    \/ OfferInsert(r) \/ OfferNotify(r)

Requesting(r) ==
    \/ \E c \in Users, s \in Submissions : RequestCheck(r, c, s)
    \/ RequestThrottle(r) \/ RequestInsert(r) \/ RequestNotify(r)

Deciding(r) ==
    \/ \E u, c \in Users, s \in Submissions : AcceptUpdate(r, u, c, s) \/ RejectDelete(r, u, c, s)
    \/ \E c \in Users, s \in Submissions : RemoveDelete(r, c, s)
    \/ AcceptAnnounce(r) \/ AcceptClear(r) \/ RejectClear(r) \/ RemoveClear(r)

Next ==
    \/ \E r \in Requests :
          Submitting(r) \/ Favoriting(r) \/ Offering(r) \/ Requesting(r) \/ Deciding(r)
    \/ \E s \in Submissions : BulkEdit(s) \/ \E u \in Users : Unfavorite(u, s)
    \/ \E n \in DOMAIN welcome : RemoveNotification(n)

Spec == Init /\ [][Next]_vars

-----------------------------------------------------------------------------
\* The counter on a submission is the number of its favorites, whichever calls
\* overlap and are retried (favorite.insert and remove).
FavoritesCounted ==
    \A s \in Submissions : favorites[s] = Cardinality({u \in Users : <<u, s>> \in favorite})

\* The owner is told of each favorite once, and only of those that there are,
\* however often it is taken back and set again (favorite.insert and remove).
FavoriteToldOnce ==
    \A n \in DOMAIN welcome : n.type = "3020" =>
        welcome[n] = 1 /\ n.to = OwnerOf[n.about] /\ <<n.other, n.about>> \in favorite

\* A submission is in a user's collection only if that user and its owner have
\* both agreed to that row, and is pending only if one of them has: whoever is
\* asked decides, and a rejected row has to be agreed to again
\* (test_offer_and_impersonate_accept in weasyl/test/test_collection.py).
Consent ==
    \A p \in Pairs :
        agreed[p] = CASE collection[p] = "none" -> {}
                      [] collection[p] = "p" -> {"owner"}
                      [] collection[p] = "r" -> {"collector"}
                      [] collection[p] = "accepted" -> {"collector", "owner"}

\* A user's requests to one owner never number more than one over the limit,
\* and one more for each further call that counted them at the same time
\* (_check_throttle).
RequestsThrottled ==
    \A c, owner \in Users :
        Cardinality(RequestedOf(c, owner)) <= ThrottleLimit + Cardinality(Requests)

\* Once a submission is friends-only nobody but the owner's friends still has
\* the notification of its posting, unless that was sent in the meantime
\* (submission_became_friends_only).
KeptFromStrangers ==
    \A n \in DOMAIN welcome :
        n.type = "2010" /\ n.about \in friends_only \ late => n.to \in FriendsOf(n.other)

\* "2030 user collected submission" (weasyl/welcome.py:145): a follower is told
\* of a user and a submission which that user has collected.
CollectorNamed ==
    \A n \in DOMAIN welcome : n.type = "2030" => <<n.other, n.about>> \in collected

\* "conditions suitable to use to delete all notifications related to a
\* submission" (weasyl/welcome.py:79): when submission.remove has deleted them,
\* none is left that asks somebody to decide about the submission.
RemovedIsSilent ==
    [][\A r \in Requests :
          At(r, "hide clear") /\ call'[r] = Idle =>
              \A n \in DOMAIN welcome' :
                  n.type \in {"3030", "3035"} => n.about # call[r].submit]_vars
=============================================================================
