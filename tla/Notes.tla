-------------------------------- MODULE Notes ---------------------------------
(***************************************************************************)
(* Private messages (weasyl/note.py): sending, reading and trashing them,  *)
(* who may send one to whom, and the number of unread notes that every     *)
(* page shows from a cache.                                                *)
(*                                                                         *)
(* A note carries the letters u (unread), r (trashed by its recipient) and *)
(* s (trashed by its sender).  Each statement commits on its own.  Titles, *)
(* contents, vouching and the copy of a moderator's note for the staff are *)
(* left out.                                                               *)
(***************************************************************************)
EXTENDS Requests, Naturals, FiniteSets

CONSTANTS
    Users,
    Mods,           \* staff.MODS
    Messages,       \* bound: notes that can be sent
    Missing,        \* no cached value
    None

VARIABLES
    message,        \* the rows of message, or None
    permitted,      \* permitted_senders: pairs of a user and a sender
    ignoring,       \* ignoreuser: pairs of a user and the one ignored
    accepts,        \* whose notes a user wants (config letters y and z)
    friends,        \* pairs of friends, in both orders
    unread,         \* the first number of the cached _page_header_info, or Missing
    outdated        \* history: users whose cached number was left behind

settings == <<permitted, ignoring, accepts, friends>>
vars == <<message, settings, unread, call, outdated>>

Row == [from : Users, to : Users, flags : SUBSET {"u", "r", "s"}]
\* The notes can be counted; None is the absence of a row.
ConstantsOK == IsFiniteSet(Messages) /\ None \notin Row

Sent == {n \in Messages : message[n] # None}

SendCall == [at : {"insert", "announce", "permit"}, from : Users, to : Users]
ViewCall == [at : {"mark", "seen"}, user : Users, note : Messages]
RemoveCall == [at : {"trash"}, user : Users, notes : SUBSET Messages]
HeaderCall == [at : {"fill"}, user : Users, value : Nat, late : BOOLEAN]

TypeOK ==
    /\ message \in [Messages -> Row \cup {None}]
    /\ permitted \subseteq Users \X Users /\ ignoring \subseteq Users \X Users
    /\ friends \subseteq Users \X Users
    /\ accepts \in [Users -> {"anyone", "friends", "staff"}]
    /\ unread \in [Users -> Nat \cup {Missing}]
    /\ call \in [Calls -> {Idle} \cup SendCall \cup ViewCall \cup RemoveCall \cup HeaderCall]
    /\ outdated \subseteq Users

Init ==
    /\ message = [n \in Messages |-> None]
    /\ permitted = {} /\ ignoring = {} /\ friends = {}
    /\ accepts = [u \in Users |-> "anyone"]
    /\ unread = [u \in Users |-> Missing]
    /\ call = AllIdle /\ outdated = {}

-----------------------------------------------------------------------------
\* private_messages_unread_count
Unread(u) == Cardinality({n \in Sent : message[n].to = u /\ "u" \in message[n].flags})

\* The reads of u's header that are on their way to the cache come too late.
Overtake(calls, u) ==
    [c \in Calls |-> IF calls[c].at = "fill" /\ calls[c].user = u
                       THEN [calls[c] EXCEPT !.late = TRUE] ELSE calls[c]]

\* _page_header_info.invalidate(u), after which the call goes on.
Invalidate(c, u, next) ==
    /\ unread' = [unread EXCEPT ![u] = Missing]
    /\ outdated' = outdated \ {u}
    /\ call' = Overtake([call EXCEPT ![c] = next], u)

\* send: whom a user may send a note to.
MaySend(u, v) ==
    /\ u # v
    /\ {<<u, v>>, <<v, u>>} \cap ignoring = {}
    /\ \/ u \in Mods \/ <<v, u>> \in permitted \/ accepts[v] = "anyone"
       \/ accepts[v] = "friends" /\ <<u, v>> \in friends

Send(c, u, v) ==
    /\ MaySend(u, v)
    /\ Start(c, [at |-> "insert", from |-> u, to |-> v])
    /\ UNCHANGED <<message, settings, unread, outdated>>

Insert(c, n) ==
    /\ At(c, "insert")
    /\ message[n] = None
    /\ message' = [message EXCEPT ![n] = [from |-> call[c].from, to |-> call[c].to, flags |-> {"u"}]]
    /\ Goto(c, "announce")
    /\ UNCHANGED <<settings, unread, outdated>>

Announce(c) ==
    /\ At(c, "announce")
    /\ Invalidate(c, call[c].to, [call[c] EXCEPT !.at = "permit"])
    /\ UNCHANGED <<message, settings>>

\* Fault: the pair is the wrong way round.
PermitSender(c) ==
    /\ At(c, "permit")
    /\ permitted' = permitted \cup {<<call[c].to, call[c].from>>}
    /\ End(c)
    /\ UNCHANGED <<message, ignoring, accepts, friends, unread, outdated>>

\* The recipient may answer, whatever notes the sender wants.
Permit(c) ==
    /\ At(c, "permit")
    /\ permitted' = permitted \cup {<<call[c].from, call[c].to>>}
    /\ End(c)
    /\ UNCHANGED <<message, ignoring, accepts, friends, unread, outdated>>

\* select_view of an unread note by its recipient; other views change nothing.
View(c, u, n) ==
    /\ n \in Sent
    /\ message[n].to = u /\ "r" \notin message[n].flags /\ "u" \in message[n].flags
    /\ Start(c, [at |-> "mark", user |-> u, note |-> n])
    /\ UNCHANGED <<message, settings, unread, outdated>>

MarkRead(c) ==
    /\ At(c, "mark")
    /\ message' = [message EXCEPT ![call[c].note].flags = @ \ {"u"}]
    /\ Goto(c, "seen")
    /\ UNCHANGED <<settings, unread, outdated>>

Seen(c) ==
    /\ At(c, "seen")
    /\ Invalidate(c, call[c].user, Idle)
    /\ UNCHANGED <<message, settings>>

\* remove_list: the notes the user sent ...
TrashSent(c, u, ns) ==
    /\ ns # {} /\ ns \subseteq Sent
    /\ message' = [n \in Messages |->
          IF n \in ns /\ message[n].from = u THEN [message[n] EXCEPT !.flags = @ \cup {"s"}] ELSE message[n]]
    /\ Start(c, [at |-> "trash", user |-> u, notes |-> ns])
    /\ UNCHANGED <<settings, unread, outdated>>

\* ... and those received, which are no longer unread; the header is not told.
TrashReceived(c) ==
    /\ At(c, "trash")
    /\ LET u == call[c].user
           received == {n \in call[c].notes : message[n].to = u}
       IN  /\ message' = [n \in Messages |->
                 IF n \in received THEN [message[n] EXCEPT !.flags = (@ \ {"u"}) \cup {"r"}] ELSE message[n]]
           /\ IF \E n \in received : "u" \in message[n].flags
                THEN outdated' = outdated \cup {u} /\ call' = Overtake([call EXCEPT ![c] = Idle], u)
                ELSE outdated' = outdated /\ End(c)
    /\ UNCHANGED <<settings, unread>>

\* A page shows the header: from the cache, or counted and then cached.  The
\* notification pages always count (refresh).
CountHeader(c, u) ==
    /\ Start(c, [at |-> "fill", user |-> u, value |-> Unread(u), late |-> FALSE])
    /\ UNCHANGED <<message, settings, unread, outdated>>

FillHeader(c) ==
    /\ At(c, "fill")
    /\ LET u == call[c].user
       IN  /\ unread' = [unread EXCEPT ![u] = call[c].value]
           /\ outdated' = IF call[c].late THEN outdated \cup {u} ELSE outdated \ {u}
    /\ End(c)
    /\ UNCHANGED <<message, settings>>

\* expiration_time, 180 seconds
ExpireHeader(u) ==
    /\ unread[u] # Missing
    /\ unread' = [unread EXCEPT ![u] = Missing]
    /\ outdated' = outdated \ {u}
    /\ UNCHANGED <<message, settings, call>>

Ignore(u, v) ==
    /\ u # v
    /\ ignoring' = IF <<u, v>> \in ignoring THEN ignoring \ {<<u, v>>} ELSE ignoring \cup {<<u, v>>}
    /\ UNCHANGED <<message, permitted, accepts, friends, unread, call, outdated>>

\* Preferences and friendships change.
Accept(u, whose) ==
    /\ accepts' = [accepts EXCEPT ![u] = whose]
    /\ UNCHANGED <<message, permitted, ignoring, friends, unread, call, outdated>>

Befriend(u, v) ==
    /\ u # v
    /\ friends' = friends \cup {<<u, v>>, <<v, u>>}
    /\ UNCHANGED <<message, permitted, ignoring, accepts, unread, call, outdated>>

Next ==
    \/ \E u \in Users : ExpireHeader(u) \/ \E whose \in {"anyone", "friends", "staff"} : Accept(u, whose)
    \/ \E u, v \in Users : Ignore(u, v) \/ Befriend(u, v)
    \/ \E c \in Calls :
        \/ \E u, v \in Users : Send(c, u, v)
        \/ \E n \in Messages : Insert(c, n)
        \/ Announce(c) \/ Permit(c)
        \/ \E u \in Users, n \in Messages : View(c, u, n)
        \/ MarkRead(c) \/ Seen(c)
        \/ \E u \in Users, ns \in SUBSET Messages : TrashSent(c, u, ns)
        \/ TrashReceived(c)
        \/ \E u \in Users : CountHeader(c, u)
        \/ FillHeader(c)

Spec == Init /\ [][Next]_vars

-----------------------------------------------------------------------------
Sending(n) == \E c \in Calls : /\ call[c].at \in {"announce", "permit"}
                               /\ call[c].from = message[n].from /\ call[c].to = message[n].to

\* The recipient of a note may answer it, whoever's notes its sender wants,
\* once the call that sent it is over: the permission is the last statement.
ReplyIsPermitted ==
    \A n \in Sent : <<message[n].from, message[n].to>> \in permitted \/ Sending(n)

\* A note that its recipient trashed is not counted as unread, though reading
\* and trashing it may overlap.
TrashedIsRead == \A n \in Sent : "r" \in message[n].flags => "u" \notin message[n].flags

\* The cached number of unread notes is right, but while a statement that
\* changed it has not been announced, after unread notes were trashed, which
\* is not announced at all, and after a count that was overtaken.
UnreadIsCounted ==
    \A u \in Users : unread[u] # Missing /\ u \notin outdated =>
        \/ unread[u] = Unread(u)
        \/ \E c \in Calls : (At(c, "announce") /\ call[c].to = u) \/ (At(c, "seen") /\ call[c].user = u)
================================================================================
