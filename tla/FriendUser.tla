----------------------------- MODULE FriendUser ------------------------------
(***************************************************************************)
(* Friend requests (weasyl/frienduser.py), blocking (weasyl/ignoreuser.py) *)
(* and the notifications both leave behind (weasyl/welcome.py), over the   *)
(* tables frienduser, ignoreuser and welcome.                              *)
(*                                                                         *)
(* The transactions of frienduser.py are serializable and retried, so each *)
(* is one step.  What request() reads before its transaction is not part   *)
(* of it: the two ignore checks are statements, and steps, of their own.   *)
(* ignoreuser.insert() is READ COMMITTED: its DELETE sees and locks the    *)
(* rows that are there when it runs, and nobody sees its effects before    *)
(* its commit.                                                             *)
(***************************************************************************)
EXTENDS Integers

CONSTANTS
    Users,
    Mods,               \* staff.MODS, whom nobody can block
    MaxConfirmations    \* bound: no blocking beyond so many copies of a 3085

ASSUME ModsAssumption == Mods \subseteq Users
ASSUME BoundAssumption == MaxConfirmations \in Nat

VARIABLES
    frienduser,     \* (userid, otherid) -> settings, or that there is no row
    ignoreuser,     \* the committed (userid, otherid) rows
    requests,       \* (userid, otherid) -> rows of type 3080 in welcome
    accepts,        \* (userid, otherid) -> rows of type 3085 in welcome
    requesting,     \* how far each request(userid, otherid) in progress is
    ignoring,       \* whom each user's open ignoreuser.insert() is blocking
    deleting,       \* the frienduser rows that transaction deletes and locks
    asked,          \* history: the requests each row is made of
    severed,        \* history: couples a block has parted
    overtaken       \* history: couples for which a block came between a
                    \* request's checks and its transaction

tables == <<frienduser, ignoreuser, requests, accepts>>
history == <<asked, severed, overtaken>>
vars == <<tables, requesting, ignoring, deleting, history>>

Pairs == {p \in Users \X Users : p[1] # p[2]}
Reverse(p) == <<p[2], p[1]>>
Couple(u, v) == {<<u, v>>, <<v, u>>}

TypeOK ==
    /\ frienduser \in [Pairs -> {"none", "p", ""}]
    /\ ignoreuser \subseteq Pairs
    /\ requests \in [Pairs -> Nat]
    /\ accepts \in [Pairs -> Nat]
    /\ requesting \in [Pairs -> {"idle", "checked", "allowed"}]
    /\ ignoring \in [Users -> SUBSET Users]
    /\ deleting \in [Users -> SUBSET Pairs]
    /\ asked \subseteq Pairs
    /\ severed \subseteq Pairs
    /\ overtaken \subseteq Pairs

Init ==
    /\ frienduser = [p \in Pairs |-> "none"]
    /\ ignoreuser = {}
    /\ requests = [p \in Pairs |-> 0]
    /\ accepts = [p \in Pairs |-> 0]
    /\ requesting = [p \in Pairs |-> "idle"]
    /\ ignoring = [u \in Users |-> {}]
    /\ deleting = [u \in Users |-> {}]
    /\ asked = {}
    /\ severed = {}
    /\ overtaken = {}

\* A transaction that touches a row another one has deleted waits for it.
Unlocked(u, v) == \A w \in Users : deleting[w] \cap Couple(u, v) = {}

BeingBlocked(u, v) == v \in ignoring[u] \/ u \in ignoring[v]

-----------------------------------------------------------------------------
\* request(userid, otherid)

\* ignoreuser.check(otherid, userid); otherwise it ends with IgnoredYou.
CheckIgnoredYou(u, v) ==
    /\ requesting[<<u, v>>] = "idle"
    /\ <<v, u>> \notin ignoreuser
    /\ requesting' = [requesting EXCEPT ![<<u, v>>] = "checked"]
    /\ UNCHANGED <<tables, ignoring, deleting, history>>

\* ignoreuser.check(userid, otherid), which ends it with YouIgnored.
CheckYouIgnored(u, v) ==
    /\ requesting[<<u, v>>] = "checked"
    /\ requesting' = [requesting EXCEPT ![<<u, v>>] =
                         IF <<u, v>> \in ignoreuser THEN "idle" ELSE "allowed"]
    /\ UNCHANGED <<tables, ignoring, deleting, history>>

\* Fault: the announcement is not preceded by frienduserrequest_remove.
CreatedAgain(u, v) ==
    /\ frienduser[<<u, v>>] = "none" /\ frienduser[<<v, u>>] = "none"
    /\ frienduser' = [frienduser EXCEPT ![<<u, v>>] = "p"]
    /\ requests' = [requests EXCEPT ![<<v, u>>] = @ + 1]
    /\ accepts' = accepts
    /\ asked' = asked \cup {<<u, v>>}

\* Fault: the insert's conflict is looked for in its own direction only.
CreatedBeside(u, v) ==
    /\ frienduser[<<u, v>>] = "none" /\ frienduser[<<v, u>>] # "p"
    /\ frienduser' = [frienduser EXCEPT ![<<u, v>>] = "p"]
    /\ requests' = [requests EXCEPT ![<<v, u>>] = 1]
    /\ accepts' = accepts
    /\ asked' = asked \cup {<<u, v>>}

\* The insert conflicts with no row: the request is recorded and announced.
Created(u, v) ==
    /\ frienduser[<<u, v>>] = "none" /\ frienduser[<<v, u>>] = "none"
    /\ frienduser' = [frienduser EXCEPT ![<<u, v>>] = "p"]
    /\ requests' = [requests EXCEPT ![<<v, u>>] = 1]
    /\ accepts' = accepts
    /\ asked' = asked \cup {<<u, v>>}

\* Fault: the ON CONFLICT does not look at the row's direction.
AcceptedByEither(u, v) ==
    \E p \in Couple(u, v) :
        /\ frienduser[p] = "p"
        /\ frienduser' = [frienduser EXCEPT ![p] = ""]
        /\ requests' = [requests EXCEPT ![Reverse(p)] = 0]
        /\ accepts' = [accepts EXCEPT ![p] = @ + 1]
        /\ asked' = asked \cup {<<u, v>>}

\* It conflicts with a pending request the other way: that one is accepted.
Accepted(u, v) ==
    /\ frienduser[<<v, u>>] = "p"
    /\ frienduser' = [frienduser EXCEPT ![<<v, u>>] = ""]
    /\ requests' = [requests EXCEPT ![<<u, v>>] = 0]
    /\ accepts' = [accepts EXCEPT ![<<v, u>>] = @ + 1]
    /\ asked' = asked \cup {<<u, v>>}

\* It conflicts with what is already there.
AlreadyThere(u, v) ==
    /\ frienduser[<<u, v>>] # "none" \/ frienduser[<<v, u>>] = ""
    /\ UNCHANGED <<frienduser, requests, accepts, asked>>

Request(u, v) ==
    /\ requesting[<<u, v>>] = "allowed"
    /\ Unlocked(u, v)
    /\ Created(u, v) \/ Accepted(u, v) \/ AlreadyThere(u, v)
    /\ requesting' = [requesting EXCEPT ![<<u, v>>] = "idle"]
    /\ overtaken' = overtaken \cup IF BeingBlocked(u, v) THEN Couple(u, v) ELSE {}
    /\ UNCHANGED <<ignoreuser, ignoring, deleting, severed>>

-----------------------------------------------------------------------------
\* remove(userid, otherid) deletes the row of either direction, and with it
\* the notification that announced it; without a row it returns early.
Remove(u, v) ==
    /\ Unlocked(u, v)
    /\ \E p \in Couple(u, v) :
          /\ frienduser[p] # "none"
          /\ frienduser' = [q \in Pairs |->
                               IF q \in Couple(u, v) THEN "none" ELSE frienduser[q]]
          /\ IF frienduser[p] = "p"
             THEN /\ requests' = [requests EXCEPT ![Reverse(p)] = 0]
                  /\ accepts' = accepts
             ELSE /\ accepts' = [accepts EXCEPT ![p] = 0]
                  /\ requests' = requests
    /\ asked' = asked \ Couple(u, v)
    /\ UNCHANGED <<ignoreuser, requesting, ignoring, deleting, severed, overtaken>>

\* Fault: a request can be withdrawn after it was accepted.
RemoveRequestAccepted(u, v) ==
    /\ Unlocked(u, v)
    /\ IF frienduser[<<u, v>>] # "none"
       THEN /\ frienduser' = [frienduser EXCEPT ![<<u, v>>] = "none"]
            /\ asked' = asked \ Couple(u, v)
       ELSE UNCHANGED <<frienduser, asked>>
    /\ requests' = [requests EXCEPT ![<<v, u>>] = 0]
    /\ UNCHANGED <<ignoreuser, accepts, requesting, ignoring, deleting,
                   severed, overtaken>>

\* remove_request(sender, recipient): the notification goes in any case.
RemoveRequest(u, v) ==
    /\ Unlocked(u, v)
    /\ IF frienduser[<<u, v>>] = "p"
       THEN /\ frienduser' = [frienduser EXCEPT ![<<u, v>>] = "none"]
            /\ asked' = asked \ Couple(u, v)
       ELSE UNCHANGED <<frienduser, asked>>
    /\ requests' = [requests EXCEPT ![<<v, u>>] = 0]
    /\ UNCHANGED <<ignoreuser, accepts, requesting, ignoring, deleting,
                   severed, overtaken>>

-----------------------------------------------------------------------------
\* ignoreuser.insert(userid, ignore)

\* Fault: the DELETE looks at the rows of one direction only.
FriendRowsAsked(u, others) ==
    {p \in Pairs : /\ frienduser[p] # "none"
                   /\ \E v \in others : p = <<u, v>>}

\* The rows the DELETE's condition selects, in either direction.
FriendRows(u, others) ==
    {p \in Pairs : /\ frienduser[p] # "none"
                   /\ \E v \in others : p \in Couple(u, v)}

\* The statements up to the commit, run once no other transaction holds one
\* of the rows.  (watchuser is FollowUser's concern.)
Ignore(u, others) ==
    /\ ignoring[u] = {}
    /\ others # {} /\ u \notin others /\ others \cap Mods = {}
    /\ \A v \in others : /\ Unlocked(u, v)
                         /\ accepts[<<u, v>>] < MaxConfirmations
                         /\ accepts[<<v, u>>] < MaxConfirmations
    /\ ignoring' = [ignoring EXCEPT ![u] = others]
    /\ deleting' = [deleting EXCEPT ![u] = FriendRows(u, others)]
    /\ UNCHANGED <<tables, requesting, history>>

IgnoreCommit(u) ==
    /\ ignoring[u] # {}
    /\ ignoreuser' = ignoreuser \cup {<<u, v>> : v \in ignoring[u]}
    /\ frienduser' = [p \in Pairs |->
                         IF p \in deleting[u] THEN "none" ELSE frienduser[p]]
    /\ asked' = {p \in asked : Couple(p[1], p[2]) \cap deleting[u] = {}}
    /\ severed' = severed \cup
                    {p \in Pairs : Couple(p[1], p[2]) \cap deleting[u] # {}}
    /\ overtaken' = overtaken \cup
                      {p \in Pairs : /\ \E v \in ignoring[u] : p \in Couple(u, v)
                                     /\ \E q \in Couple(p[1], p[2]) :
                                           requesting[q] # "idle"}
    /\ ignoring' = [ignoring EXCEPT ![u] = {}]
    /\ deleting' = [deleting EXCEPT ![u] = {}]
    /\ UNCHANGED <<requests, accepts, requesting>>

\* ignoreuser.remove(userid, ignore)
Unignore(u, v) ==
    /\ <<u, v>> \in ignoreuser
    /\ ignoreuser' = ignoreuser \ {<<u, v>>}
    /\ UNCHANGED <<frienduser, requests, accepts, requesting, ignoring,
                   deleting, history>>

-----------------------------------------------------------------------------
\* Fault: the count of a notification that is already gone goes down again.
RemoveNotificationUnchecked(u, v) ==
    /\ requests' = [requests EXCEPT ![<<u, v>>] = @ - 1]
    /\ UNCHANGED <<accepts, frienduser, ignoreuser, requesting, ignoring,
                   deleting, history>>

\* message.remove(userid, messages): users clear their notifications away.
RemoveNotification(u, v) ==
    /\ \/ /\ requests[<<u, v>>] > 0
          /\ requests' = [requests EXCEPT ![<<u, v>>] = @ - 1]
          /\ accepts' = accepts
       \/ /\ accepts[<<u, v>>] > 0
          /\ accepts' = [accepts EXCEPT ![<<u, v>>] = @ - 1]
          /\ requests' = requests
    /\ UNCHANGED <<frienduser, ignoreuser, requesting, ignoring, deleting, history>>

Next ==
    \E u \in Users :
        \/ \E v \in Users \ {u} :
              \/ CheckIgnoredYou(u, v)
              \/ CheckYouIgnored(u, v)
              \/ Request(u, v)
              \/ Remove(u, v)
              \/ RemoveRequest(u, v)
              \/ Unignore(u, v)
              \/ RemoveNotification(u, v)
        \/ \E others \in SUBSET Users : Ignore(u, others)
        \/ IgnoreCommit(u)

Spec == Init /\ [][Next]_vars

-----------------------------------------------------------------------------
\* Two users never have two rows, one each way, whatever order their requests,
\* removals and blocks commit in: remove()'s one_or_none() relies on it.
OneRow ==
    \A p \in Pairs :
        frienduser[p] # "none" => frienduser[Reverse(p)] = "none"

\* A row says who wants what: it is pending while one user has asked, and
\* accepted only when each of the two has asked since there last was no row.
\* Asking twice does not accept one's own request.
Consent ==
    \A p \in Pairs :
        /\ frienduser[p] = "p" => p \in asked /\ Reverse(p) \notin asked
        /\ frienduser[p] = "" => p \in asked /\ Reverse(p) \in asked
        /\ frienduser[p] = "none" /\ frienduser[Reverse(p)] = "none" => p \notin asked

\* Repeating, withdrawing or accepting a request, or blocking in between,
\* never leaves two notifications of one request.
OneRequestNotification ==
    \A p \in Pairs : requests[p] \in {0, 1}

\* Unless a block has parted the two, what the notifications say is true: a
\* request that is announced is pending, a confirmation that is announced is
\* of a friendship that stands, and it is announced once.
NotificationsTrue ==
    \A p \in Pairs :
        p \notin severed =>
            /\ requests[p] # 0 => frienduser[Reverse(p)] = "p"
            /\ accepts[p] # 0 => accepts[p] = 1 /\ frienduser[p] = ""

\* Blocking someone ends the friendship and keeps new requests out, both ways;
\* the only row it can leave is one of a request whose checks had already run.
BlockParts ==
    \A p \in ignoreuser \ overtaken :
        frienduser[p] = "none" /\ frienduser[Reverse(p)] = "none"

\* For every two users the tables take the transitions of the table that
\* weasyl/test/test_frienduser.py walks, and blocking's, and no others.
Relation ==
    [c \in {{p[1], p[2]} : p \in Pairs} |->
        LET row == {p \in Pairs : {p[1], p[2]} = c /\ frienduser[p] # "none"}
        IN  IF row = {} THEN [is |-> "initial"]
            ELSE LET p == CHOOSE p \in row : TRUE
                 IN  [is |-> IF frienduser[p] = "p" THEN "request" ELSE "friends",
                      from |-> p[1]]]

Abstract == INSTANCE Friendship WITH relation <- Relation

ImplementsFriendship == Abstract!RelationSpec

\* "Assert that the app is in a specific state with respect to two users'
\* friendship": users who are not friends and have no request pending have no
\* notifications of either (weasyl/test/test_frienduser.py:202, State.INITIAL).
InitialIsSilent ==
    \A p \in Pairs :
        (frienduser[p] = "none" /\ frienduser[Reverse(p)] = "none")
            => requests[p] = 0 /\ accepts[p] = 0
=============================================================================
