----------------------------- MODULE Friendship ------------------------------
(***************************************************************************)
(* What friendship promises any two users: the transition table that       *)
(* weasyl/test/test_frienduser.py walks (State, Action, _TRANSITIONS),     *)
(* with the one transition its unwritten test_sequences_with_blocking is   *)
(* about: blocking ends whatever there was.  A relation has no history and *)
(* no messages, and every transition is atomic.                            *)
(***************************************************************************)
CONSTANT Users

VARIABLE relation   \* for each two users, their state

\* INITIAL, REQUEST_FROM_<u> and FRIENDS_FROM_<u>.
INITIAL == [is |-> "initial"]
REQUEST_FROM(u) == [is |-> "request", from |-> u]
FRIENDS_FROM(u) == [is |-> "friends", from |-> u]

Couples == {{u, v} : u \in Users, v \in Users} \ {{u} : u \in Users}

Become(couple, state) ==
    relation' = [relation EXCEPT ![couple] = state]

RelationInit == relation = [c \in Couples |-> INITIAL]

\* ADD_BY_<u>: ask, or confirm what the other one asked.
Add(u, v) ==
    \/ relation[{u, v}] = INITIAL /\ Become({u, v}, REQUEST_FROM(u))
    \/ relation[{u, v}] = REQUEST_FROM(v) /\ Become({u, v}, FRIENDS_FROM(v))

\* REMOVE_BY_<u>: from any state, by either of the two.
Remove(u, v) == Become({u, v}, INITIAL)

\* WITHDRAW_BY_<u>: only the user who asked, and only while it is pending.
Withdraw(u, v) ==
    relation[{u, v}] = REQUEST_FROM(u) /\ Become({u, v}, INITIAL)

\* One user blocks several: all those relations end at once.
Block(u, others) ==
    relation' = [c \in Couples |->
                    IF \E v \in others : c = {u, v} THEN INITIAL ELSE relation[c]]

RelationNext ==
    \E u \in Users :
        \/ \E v \in Users \ {u} : Add(u, v) \/ Remove(u, v) \/ Withdraw(u, v)
        \/ \E others \in SUBSET (Users \ {u}) : Block(u, others)

RelationSpec == RelationInit /\ [][RelationNext]_relation
=============================================================================
