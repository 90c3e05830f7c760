------------------------------ MODULE Usernames ------------------------------
(***************************************************************************)
(* Who holds which username.  Four tables give names away: login (accounts *)
(* and their current names), logincreate (accounts waiting for their email *)
(* address to be verified), useralias (premium aliases) and the active     *)
(* rows of username_history (redirects from a previous name).  A unique    *)
(* index keeps a name from being twice in one of them; that it is not in   *)
(* two of them is up to weasyl/login.py and weasyl/useralias.py.           *)
(*                                                                         *)
(* Only change_username checks and writes in one (serializable, retried)   *)
(* transaction, and the names it starts from are read before it, through   *)
(* the cache of _get_display_name, which has no expiry.  create(),         *)
(* verify() and useralias.set() are statements that commit one by one, and *)
(* steps of their own here.  A display name is a sysname and how it is     *)
(* written.                                                                *)
(***************************************************************************)
EXTENDS Naturals, FiniteSets

CONSTANTS
    Users,          \* the userids accounts can get
    Names,          \* sysnames
    Styles,         \* ways of writing a name
    Requests,       \* bound: change_username calls in progress at a time
    MaxCreates,     \* bound: create() calls in progress for one name
    NoName, NoDisplay

ASSUME NoNameAssumption == NoName \notin Names
ASSUME MaxCreatesAssumption == MaxCreates \in Nat
ASSUME NoDisplayAssumption == NoDisplay \notin Names \X Styles

VARIABLES
    login,          \* login.login_name, or that there is no account
    profile,        \* profile.username
    alias,          \* useralias.alias_name
    redirect,       \* the login_name of the user's active username_history row
    recent,         \* users whose last change that was not cosmetic is recent
    pending,        \* the logincreate row of each name: none, valid or invalid
    creating,       \* how many create() calls have found each name free
    verifying,      \* names whose valid row verify() has read, or is then gone
    aliasing,       \* how far each user's useralias.set() is, and to which name
    changing,       \* the change_username calls in progress
    displayed,      \* _get_display_name's cache
    filling,        \* display names queried to be cached, and not cached yet
    raced,          \* history: names claimed while another call held them free
    crossed         \* history: users whose changes overlapped each other, or a
                    \* filling of the cache

tables == <<login, profile, alias, redirect, recent, pending>>
calls == <<creating, verifying, aliasing, changing>>
cache == <<displayed, filling>>
history == <<raced, crossed>>
vars == <<tables, calls, cache, history>>

Displays == Names \X Styles
Sysname(d) == d[1]
Idle == [stage |-> "idle"]

TypeOK ==
    /\ login \in [Users -> Names \cup {NoName}]
    /\ profile \in [Users -> Displays \cup {NoDisplay}]
    /\ \A u \in Users : login[u] = NoName <=> profile[u] = NoDisplay
    /\ alias \in [Users -> Names \cup {NoName}]
    /\ redirect \in [Users -> Names \cup {NoName}]
    /\ recent \subseteq Users
    /\ pending \in [Names -> {"none", "valid", "invalid"}]
    /\ creating \in [Names -> 0 .. MaxCreates]
    /\ verifying \in [Names -> {"idle", "read", "gone"}]
    /\ aliasing \in [Users -> {Idle} \cup [stage : {"free", "deleted"}, name : Names]]
    /\ changing \in [Requests -> {Idle} \cup
          [stage : {"read", "open", "committed"}, user : Users,
           from : Displays, to : Displays, bypass : BOOLEAN]]
    /\ displayed \in [Users -> Displays \cup {NoDisplay}]
    /\ filling \in [Users -> Displays \cup {NoDisplay}]
    /\ raced \subseteq Names
    /\ crossed \subseteq Users

Init ==
    /\ login = [u \in Users |-> NoName]
    /\ profile = [u \in Users |-> NoDisplay]
    /\ alias = [u \in Users |-> NoName]
    /\ redirect = [u \in Users |-> NoName]
    /\ recent = {}
    /\ pending = [n \in Names |-> "none"]
    /\ creating = [n \in Names |-> 0]
    /\ verifying = [n \in Names |-> "idle"]
    /\ aliasing = [u \in Users |-> Idle]
    /\ changing = [r \in Requests |-> Idle]
    /\ displayed = [u \in Users |-> NoDisplay]
    /\ filling = [u \in Users |-> NoDisplay]
    /\ raced = {}
    /\ crossed = {}

-----------------------------------------------------------------------------
\* username_exists(login_name)
Taken(n) ==
    \/ \E u \in Users : n \in {login[u], alias[u], redirect[u]}
    \/ pending[n] # "none"

Cosmetic(c) == Sysname(c.from) = Sysname(c.to)

\* The calls that have found n free, or their own, and go on to write it.
HeldFree(n) ==
    {<<"create", n>> : i \in 1 .. creating[n]}
        \cup {<<"verify", n>> : s \in {verifying[n]} \ {"idle"}}
        \cup {<<"alias", u>> : u \in {u \in Users : aliasing[u] # Idle /\ aliasing[u].name = n}}
        \cup {<<"change", r>> : r \in {r \in Requests :
                 changing[r].stage = "open" /\ ~Cosmetic(changing[r]) /\ Sysname(changing[r].to) = n}}

RacedAfterClaim(call, n) == raced \cup IF HeldFree(n) = {call} THEN {} ELSE {n}

\* Rows of logincreate are deleted; a verify() that has read one goes on.
DeletePending(gone) ==
    /\ pending' = [n \in Names |-> IF n \in gone THEN "none" ELSE pending[n]]
    /\ verifying' = [n \in Names |-> IF n \in gone /\ verifying[n] = "read"
                                     THEN "gone" ELSE verifying[n]]

\* admincontrol_pending_accounts_post_, and _delete_expired, which is the first
\* statement of every create() and verify(): a row may be two days old any time.
PurgePending(n) ==
    /\ pending[n] # "none"
    /\ DeletePending({n})
    /\ UNCHANGED <<login, profile, alias, redirect, recent,
                   creating, aliasing, changing, cache, history>>

\* create(form): username_exists, then email_exists (which decides whether the
\* row is valid or a dummy), then the insert.  The unique index refuses it if
\* another create() was faster.
CreateCheck(n) ==
    /\ creating[n] < MaxCreates
    /\ ~Taken(n)
    /\ creating' = [creating EXCEPT ![n] = @ + 1]
    /\ UNCHANGED <<tables, verifying, aliasing, changing, cache, history>>

CreateInsert(n) ==
    /\ creating[n] > 0
    /\ creating' = [creating EXCEPT ![n] = @ - 1]
    /\ IF pending[n] = "none"
       THEN /\ \E row \in {"valid", "invalid"} : pending' = [pending EXCEPT ![n] = row]
            /\ raced' = RacedAfterClaim(<<"create", n>>, n)
       ELSE UNCHANGED <<pending, raced>>
    /\ UNCHANGED <<login, profile, alias, redirect, recent,
                   verifying, aliasing, changing, cache, crossed>>

\* verify(token): the row is read by a statement of its own; the transaction
\* that makes an account of it fails if login already has the name.
VerifyRead(n) ==
    /\ verifying[n] = "idle"
    /\ pending[n] = "valid"
    /\ verifying' = [verifying EXCEPT ![n] = "read"]
    /\ UNCHANGED <<tables, creating, aliasing, changing, cache, history>>

Verify(n) ==
    /\ verifying[n] # "idle"
    /\ IF \E u \in Users : login[u] = n
       THEN UNCHANGED <<login, profile, pending, raced>>
       ELSE /\ \E u \in Users, s \in Styles :
                  /\ login[u] = NoName
                  /\ login' = [login EXCEPT ![u] = n]
                  /\ profile' = [profile EXCEPT ![u] = <<n, s>>]
            /\ pending' = IF verifying[n] = "gone" THEN pending
                          ELSE [pending EXCEPT ![n] = "none"]
            /\ raced' = RacedAfterClaim(<<"verify", n>>, n)
    /\ verifying' = [verifying EXCEPT ![n] = "idle"]
    /\ UNCHANGED <<alias, redirect, recent, creating, aliasing, changing, cache, crossed>>

-----------------------------------------------------------------------------
\* useralias.set(userid, username)
AliasCheck(u, n) ==
    /\ login[u] # NoName
    /\ aliasing[u] = Idle
    /\ ~Taken(n)
    /\ aliasing' = [aliasing EXCEPT ![u] = [stage |-> "free", name |-> n]]
    /\ UNCHANGED <<tables, creating, verifying, changing, cache, history>>

AliasDelete(u) ==
    /\ aliasing[u].stage = "free"
    /\ alias' = [alias EXCEPT ![u] = NoName]
    /\ aliasing' = [aliasing EXCEPT ![u].stage = "deleted"]
    /\ UNCHANGED <<login, profile, redirect, recent, pending,
                   creating, verifying, changing, cache, history>>

AliasInsert(u) ==
    /\ aliasing[u].stage = "deleted"
    /\ LET n == aliasing[u].name
       IN  IF \E v \in Users : alias[v] = n
           THEN UNCHANGED <<alias, raced>>
           ELSE /\ alias' = [alias EXCEPT ![u] = n]
                /\ raced' = RacedAfterClaim(<<"alias", u>>, n)
    /\ aliasing' = [aliasing EXCEPT ![u] = Idle]
    /\ UNCHANGED <<login, profile, redirect, recent, pending,
                   creating, verifying, changing, cache, crossed>>

-----------------------------------------------------------------------------
\* change_username(acting_user, target_user, bypass_limit, new_username)

InProgress(u) == {r \in Requests : changing[r] # Idle /\ changing[r].user = u}

\* get_username(target_user), through the cache; the same name ends the call.
ChangeRead(r, u, to, bypass) ==
    /\ changing[r] = Idle
    /\ login[u] # NoName
    /\ LET from == IF displayed[u] = NoDisplay THEN profile[u] ELSE displayed[u]
       IN  /\ to # from
           /\ changing' = [changing EXCEPT ![r] =
                  [stage |-> "read", user |-> u, from |-> from, to |-> to, bypass |-> bypass]]
           /\ displayed' = [displayed EXCEPT ![u] = from]
    /\ crossed' = crossed \cup IF InProgress(u) = {} THEN {} ELSE {u}
    /\ UNCHANGED <<tables, creating, verifying, aliasing, filling, raced>>

\* Fault: pending accounts are not looked at.
ConflictIgnoringPending(u, n) ==
    \/ \E v \in Users \ {u} : login[v] = n
    \/ \E v \in Users : alias[v] = n
    \/ \E v \in Users \ {u} : redirect[v] = n

\* The transaction's conflict check, after release_username.
Conflict(u, n) ==
    \/ \E v \in Users \ {u} : login[v] = n
    \/ \E v \in Users : alias[v] = n
    \/ \E v \in Users \ {u} : redirect[v] = n
    \/ pending[n] # "none"

\* Fault: the number of updated login rows is not looked at.
AllowedUnchecked(c) ==
    \/ Cosmetic(c)
    \/ /\ c.bypass \/ c.user \notin recent
       /\ ~Conflict(c.user, Sysname(c.to))

\* What the transaction's statements require of the state it sees: the limit,
\* no conflict, and that the login row still has the name read before.
Allowed(c) ==
    \/ Cosmetic(c)
    \/ /\ c.bypass \/ c.user \notin recent
       /\ ~Conflict(c.user, Sysname(c.to))
       /\ login[c.user] = Sysname(c.from)

ChangeBegin(r) ==
    /\ changing[r].stage = "read"
    /\ changing' = [changing EXCEPT ![r] = IF Allowed(@) THEN [@ EXCEPT !.stage = "open"]
                                           ELSE Idle]
    /\ UNCHANGED <<tables, creating, verifying, aliasing, cache, history>>

\* An open transaction that has updated a row of u that another one then
\* commits to is rolled back and retried (serializable_retry).
Retried(u) ==
    [r \in Requests |-> IF changing[r].stage = "open" /\ changing[r].user = u
                        THEN [changing[r] EXCEPT !.stage = "read"]
                        ELSE changing[r]]

\* Fault: the profile is forgotten.
RenamedInLoginOnly(c) ==
    /\ redirect' = [redirect EXCEPT ![c.user] = Sysname(c.from)]
    /\ recent' = recent \cup {c.user}
    /\ login' = [login EXCEPT ![c.user] = Sysname(c.to)]
    /\ profile' = profile

\* The writes of a change that is not cosmetic; a cosmetic one writes profile.
Renamed(c) ==
    /\ redirect' = [redirect EXCEPT ![c.user] = Sysname(c.from)]
    /\ recent' = recent \cup {c.user}
    /\ login' = [login EXCEPT ![c.user] = Sysname(c.to)]
    /\ profile' = [profile EXCEPT ![c.user] = c.to]

\* The commit; the unique indexes of login and username_history make it fail
\* when someone was faster with the same name.
ChangeCommit(r) ==
    /\ changing[r].stage = "open"
    /\ LET c == changing[r]
           u == c.user
       IN  IF ~Cosmetic(c) /\ \E v \in Users \ {u} : \/ login[v] = Sysname(c.to)
                                                     \/ redirect[v] = Sysname(c.from)
           THEN /\ changing' = [changing EXCEPT ![r] = Idle]
                /\ UNCHANGED <<login, redirect, recent, profile, raced, crossed>>
           ELSE /\ IF Cosmetic(c)
                   THEN /\ profile' = [profile EXCEPT ![u] = c.to]
                        /\ UNCHANGED <<login, redirect, recent, raced>>
                   ELSE /\ Renamed(c)
                        /\ raced' = RacedAfterClaim(<<"change", r>>, Sysname(c.to))
                /\ changing' = [Retried(u) EXCEPT ![r] = [c EXCEPT !.stage = "committed"]]
                /\ crossed' = crossed \cup IF filling[u] = NoDisplay THEN {} ELSE {u}
    /\ UNCHANGED <<alias, pending, creating, verifying, aliasing, cache>>

\* username_invalidate(target_user)
ChangeInvalidate(r) ==
    /\ changing[r].stage = "committed"
    /\ displayed' = [displayed EXCEPT ![changing[r].user] = NoDisplay]
    /\ changing' = [changing EXCEPT ![r] = Idle]
    /\ UNCHANGED <<tables, creating, verifying, aliasing, filling, history>>

\* control_username_post_ with "release": release_username outside any transaction.
Release(u) ==
    /\ redirect[u] # NoName
    /\ redirect' = [redirect EXCEPT ![u] = NoName]
    /\ changing' = Retried(u)
    /\ UNCHANGED <<login, profile, alias, recent, pending,
                   creating, verifying, aliasing, cache, history>>

\* Thirty days after a change the user may make the next one.
MonthPasses(u) ==
    /\ u \in recent
    /\ recent' = recent \ {u}
    /\ UNCHANGED <<login, profile, alias, redirect, pending, calls, cache, history>>

\* Any page that shows u's name: _get_display_name queries what is not cached ...
DisplayQuery(u) ==
    /\ displayed[u] = NoDisplay /\ filling[u] = NoDisplay /\ login[u] # NoName
    /\ filling' = [filling EXCEPT ![u] = profile[u]]
    /\ UNCHANGED <<tables, calls, displayed, history>>

\* ... and caches what it got.
DisplayCache(u) ==
    /\ filling[u] # NoDisplay
    /\ displayed' = [displayed EXCEPT ![u] = filling[u]]
    /\ filling' = [filling EXCEPT ![u] = NoDisplay]
    /\ UNCHANGED <<tables, calls, history>>

Next ==
    \/ \E n \in Names :
          \/ PurgePending(n) \/ CreateCheck(n) \/ CreateInsert(n)
          \/ VerifyRead(n) \/ Verify(n)
    \/ \E u \in Users :
          \/ \E n \in Names : AliasCheck(u, n)
          \/ AliasDelete(u) \/ AliasInsert(u) \/ Release(u) \/ MonthPasses(u)
          \/ DisplayQuery(u) \/ DisplayCache(u)
    \/ \E r \in Requests :
          \/ \E u \in Users, to \in Displays, bypass \in BOOLEAN : ChangeRead(r, u, to, bypass)
          \/ ChangeBegin(r) \/ ChangeCommit(r) \/ ChangeInvalidate(r)

Spec == Init /\ [][Next]_vars

-----------------------------------------------------------------------------
\* Everything that holds a name: the rows _get_userids would find, and pending
\* accounts.
Holders(n) ==
    {<<"login", u>> : u \in {u \in Users : login[u] = n}}
        \cup {<<"useralias", u>> : u \in {u \in Users : alias[u] = n}}
        \cup {<<"username_history", u>> : u \in {u \in Users : redirect[u] = n}}
        \cup {<<"logincreate", n>> : s \in {pending[n]} \ {"none"}}

\* A name never has two holders, whatever is created, verified, changed,
\* redirected, released and aliased, unless somebody claimed it between the
\* moment another call found it free and the moment that call wrote it.
OneHolder ==
    \A n \in Names \ raced : Cardinality(Holders(n)) <= 1

\* Unless a user's changes overlapped each other or the caching of the name,
\* the name an account shows is the name it signs in with: a change that is
\* taken for cosmetic is one.
DisplaysOwnName ==
    \A u \in Users \ crossed :
        login[u] # NoName => Sysname(profile[u]) = login[u]

\* Whatever was cached or changed in the meantime, an account's name changes
\* only by leaving a redirect from the name it really had.
RedirectsFromOldName ==
    [][\A u \in Users :
          login[u] # NoName /\ login'[u] # login[u] => redirect'[u] = login[u]]_vars

\* A history row is cosmetic "if the username changed but the login_name
\* didn't" (libweasyl/models/tables.py:987): the name that is shown after a
\* cosmetic change is the login_name still.
CosmeticKeepsLoginName ==
    [][\A r \in Requests :
          /\ changing[r].stage = "open" /\ changing'[r].stage = "committed"
          /\ Cosmetic(changing[r])
          => Sysname(profile'[changing[r].user]) = login'[changing[r].user]]_vars
=============================================================================
