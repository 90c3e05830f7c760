------------------------------ MODULE NameLookups ------------------------------
(***************************************************************************)
(* Which account a name leads to (define._get_userids, profile.resolve):   *)
(* the name of an account, its alias or its redirect, looked up through a  *)
(* cache that has no expiry.  A name nobody has is not cached, so that     *)
(* nothing is announced when one is taken; a name that is given up has to  *)
(* be invalidated (weasyl/login.py, weasyl/useralias.py).                  *)
(*                                                                         *)
(* A transaction of change_username is open between its first statements,  *)
(* which invalidate, and its commit.  Changes are not cosmetic.  That a    *)
(* name that was free is claimed twice is the matter of Usernames: here it *)
(* is still free when it is claimed.  The copies that a thread keeps for   *)
(* the rest of a request are left out.                                     *)
(***************************************************************************)
EXTENDS Requests

CONSTANTS
    Users, Names,
    None

ConstantsOK == None \notin Users \cup Names

VARIABLES
    login,          \* login.login_name of each user, or None
    useralias,      \* the row of each user, or None
    redirect,       \* the active row of username_history of each user, or None
    cached,         \* _get_userids: the user of each name, or None
    lingering       \* history: names whose cached user had been looked up before
                    \* they were given up, and was not invalidated after it

vars == <<login, useralias, redirect, cached, lingering, call>>

LookupCall == [at : {"fill"}, name : Names, user : Users, late : BOOLEAN]
ChangeCall == [at : {"release", "commit"}, user : Users, from : Names, to : Names,
               released : Names \cup {None}, again : BOOLEAN]
InvalidateCall == [at : {"invalidate"}, name : Names]
AliasCall == [at : {"alias"}, user : Users, name : Names]

TypeOK ==
    /\ {login, useralias, redirect} \subseteq [Users -> Names \cup {None}]
    /\ cached \in [Names -> Users \cup {None}]
    /\ lingering \subseteq Names
    /\ call \in [Calls -> {Idle} \cup LookupCall \cup ChangeCall \cup InvalidateCall \cup AliasCall]

Init ==
    /\ login = [u \in Users |-> None] /\ useralias = login /\ redirect = login
    /\ cached = [n \in Names |-> None]
    /\ lingering = {}
    /\ call = AllIdle

-----------------------------------------------------------------------------
NamesOf(u) == {login[u], useralias[u], redirect[u]}
Holders(n) == {u \in Users : n \in NamesOf(u)}

\* The lookups of n that are on their way to the cache come too late.
Overtake(calls, n) ==
    [c \in Calls |-> IF calls[c].at = "fill" /\ calls[c].name = n
                       THEN [calls[c] EXCEPT !.late = TRUE] ELSE calls[c]]

\* _get_userids.invalidate(n)
Invalidated(n) ==
    /\ cached' = [k \in Names |-> IF k = n THEN None ELSE cached[k]]
    /\ lingering' = lingering \ {n}

\* A transaction that is open has released n, which is cached again.
Returned(calls, n) ==
    [c \in Calls |-> IF calls[c].at = "commit" /\ calls[c].released = n
                       THEN [calls[c] EXCEPT !.again = TRUE] ELSE calls[c]]

\* An account is verified under a name that is free.
Verify(u, n) ==
    /\ login[u] = None /\ Holders(n) = {}
    /\ login' = [login EXCEPT ![u] = n]
    /\ UNCHANGED <<useralias, redirect, cached, lingering, call>>

\* useralias.set: the alias is deleted, and nothing is invalidated; ...
AliasDelete(c, u, n) ==
    /\ login[u] # None /\ call[c] = Idle
    /\ n # useralias[u] /\ (n # None => Holders(n) = {})
    /\ useralias' = [useralias EXCEPT ![u] = None]
    /\ lingering' = lingering \cup {k \in Names : k = useralias[u] /\ cached[k] # None}
    /\ call' = Overtake([call EXCEPT ![c] = IF n = None THEN Idle ELSE [at |-> "alias", user |-> u, name |-> n]],
                        useralias[u])
    /\ UNCHANGED <<login, redirect, cached>>

\* ... then the new one is inserted.
AliasInsert(c) ==
    /\ At(c, "alias")
    /\ LET u == call[c].user
       IN  useralias' = IF Holders(call[c].name) = {} /\ useralias[u] = None
                          THEN [useralias EXCEPT ![u] = call[c].name] ELSE useralias
    /\ End(c)
    /\ UNCHANGED <<login, redirect, cached, lingering>>

\* change_username: the old name is read before the transaction ...
ChangeBegin(c, u, n) ==
    /\ login[u] \notin {None, n}
    /\ Start(c, [at |-> "release", user |-> u, from |-> login[u], to |-> n,
                released |-> None, again |-> FALSE])
    /\ UNCHANGED <<login, useralias, redirect, cached, lingering>>

\* ... which releases the redirect and invalidates it, and is rolled back if
\* the name is not free, or not the user's any more.
ChangeRelease(c) ==
    /\ At(c, "release")
    /\ LET u == call[c].user
           held == Holders(call[c].to) \subseteq {u} /\ useralias[u] # call[c].to
       IN  /\ Invalidated(redirect[u])
           /\ call' = Overtake(
                  [call EXCEPT ![c] = IF held /\ login[u] = @.from
                                        THEN [at |-> "commit", user |-> u, from |-> @.from, to |-> @.to,
                                              released |-> redirect[u], again |-> FALSE]
                                        ELSE Idle],
                  redirect[u])
    /\ UNCHANGED <<login, useralias, redirect>>

\* The commit, which repeats the transaction if it conflicts with another.
ChangeCommit(c) ==
    /\ At(c, "commit")
    /\ LET q == call[c]
           u == q.user
           given_up == IF q.released = q.to THEN None ELSE q.released
       IN  IF login[u] = q.from /\ redirect[u] = q.released
              /\ Holders(q.to) \subseteq {u} /\ useralias[u] # q.to
           THEN /\ login' = [login EXCEPT ![u] = q.to]
                /\ redirect' = [redirect EXCEPT ![u] = q.from]
                /\ call' = Overtake([call EXCEPT ![c] = [at |-> "invalidate", name |-> q.from]], given_up)
                /\ lingering' = lingering \cup {n \in Names : n = given_up /\ q.again}
           ELSE Goto(c, "release") /\ UNCHANGED <<login, redirect, lingering>>
    /\ UNCHANGED <<useralias, cached>>

\* release_username outside a transaction, by control_username_post_; ...
Release(c, u) ==
    /\ redirect[u] # None
    /\ Start(c, [at |-> "invalidate", name |-> redirect[u]])
    /\ redirect' = [redirect EXCEPT ![u] = None]
    /\ UNCHANGED <<login, useralias, cached, lingering>>

\* Fault: the name that was given up is not invalidated.
InvalidateNothing(c) ==
    /\ At(c, "invalidate")
    /\ End(c)
    /\ UNCHANGED <<login, useralias, redirect, cached, lingering>>

\* ... its invalidation, and that of the old name after a change.
Invalidate(c) ==
    /\ At(c, "invalidate")
    /\ Invalidated(call[c].name)
    /\ call' = Overtake([call EXCEPT ![c] = Idle], call[c].name)
    /\ UNCHANGED <<login, useralias, redirect>>

-----------------------------------------------------------------------------
\* A lookup of what is not cached reads the tables ...
LookupRead(c, n) ==
    /\ cached[n] = None
    /\ \E u \in Holders(n) : Start(c, [at |-> "fill", name |-> n, user |-> u, late |-> FALSE])
    /\ UNCHANGED <<login, useralias, redirect, cached, lingering>>

\* ... and stores what it found.
LookupFill(c) ==
    /\ At(c, "fill")
    /\ LET q == call[c]
       IN  /\ cached' = [cached EXCEPT ![q.name] = q.user]
           /\ lingering' = IF q.late THEN lingering \cup {q.name} ELSE lingering \ {q.name}
           /\ call' = Returned([call EXCEPT ![c] = Idle], q.name)
    /\ UNCHANGED <<login, useralias, redirect>>

\* memcached may drop anything.
Evict(n) ==
    /\ cached[n] # None
    /\ Invalidated(n)
    /\ UNCHANGED <<login, useralias, redirect, call>>

Next ==
    \/ \E u \in Users, n \in Names : Verify(u, n)
    \/ \E n \in Names : Evict(n)
    \/ \E c \in Calls :
          \/ \E u \in Users, n \in Names \cup {None} : AliasDelete(c, u, n)
          \/ AliasInsert(c)
          \/ \E u \in Users, n \in Names : ChangeBegin(c, u, n)
          \/ ChangeRelease(c) \/ ChangeCommit(c)
          \/ \E u \in Users : Release(c, u)
          \/ Invalidate(c)
          \/ \E n \in Names : LookupRead(c, n)
          \/ LookupFill(c)

Spec == Init /\ [][Next]_vars

-----------------------------------------------------------------------------
\* A name leads to the account that has it, though it may have been another's:
\* but while its release has not been invalidated yet, and where a lookup from
\* before the release was cached after that, was made while the transaction was
\* open that gave it up, or was of an alias that has been deleted.
LookupsFindTheHolder ==
    \A n \in Names \ lingering :
        cached[n] # None => cached[n] \in Holders(n) \/ \E c \in Calls : At(c, "invalidate") /\ call[c].name = n
================================================================================
