---------------------------- MODULE UsernamesProofs ----------------------------
(***************************************************************************)
(* Proofs about Usernames, for any accounts, names, ways of writing them   *)
(* and any number of calls at a time.                                      *)
(***************************************************************************)
EXTENDS Usernames, FiniteSetTheorems, TLAPS

-----------------------------------------------------------------------------
\* Who holds a name, without counting.
Signed(n) == \E u \in Users : login[u] = n
Aliased(n) == \E u \in Users : alias[u] = n
Redirected(n) == \E u \in Users : redirect[u] = n
Waiting(n) == pending[n] # "none"

\* Which calls hold it free.
Aliasing(u, n) == aliasing[u] # Idle /\ aliasing[u].name = n
Renaming(r, n) == changing[r].stage = "open" /\ ~Cosmetic(changing[r]) /\ Sysname(changing[r].to) = n

\* The unique indexes.
Unique ==
    \A u, v \in Users :
        /\ login[u] = login[v] /\ login[u] # NoName => u = v
        /\ alias[u] = alias[v] /\ alias[u] # NoName => u = v
        /\ redirect[u] = redirect[v] /\ redirect[u] # NoName => u = v

\* A name is held by one of the tables, and not while a call holds it free:
\* but create() and verify() by the waiting account, and a change by the
\* redirect of its own user.
Apart(n) ==
    /\ Signed(n) => ~Aliased(n) /\ ~Redirected(n) /\ ~Waiting(n)
    /\ Aliased(n) => ~Redirected(n) /\ ~Waiting(n)
    /\ Redirected(n) => ~Waiting(n)
    /\ creating[n] > 0 \/ verifying[n] # "idle" => ~Signed(n) /\ ~Aliased(n) /\ ~Redirected(n)
    /\ verifying[n] = "gone" => ~Waiting(n)
    /\ \A u \in Users : Aliasing(u, n) => ~Signed(n) /\ ~Aliased(n) /\ ~Redirected(n) /\ ~Waiting(n)
    /\ \A r \in Requests : Renaming(r, n) =>
           /\ ~Signed(n) /\ ~Aliased(n) /\ ~Waiting(n)
           /\ \A v \in Users \ {changing[r].user} : redirect[v] # n

NamesApart == \A n \in Names \ raced : Apart(n)

\* An open transaction has the name its account has.
OpenIsCurrent ==
    \A r \in Requests :
        changing[r].stage = "open" /\ ~Cosmetic(changing[r]) =>
            login[changing[r].user] = Sysname(changing[r].from)

\* Only what has an account has its name looked up or changed.
AccountsOnly ==
    \A u \in Users : login[u] = NoName =>
        displayed[u] = NoDisplay /\ filling[u] = NoDisplay /\ InProgress(u) = {}

\* What is known of the name of u, and what its change starts from, is its name.
KnownAs(u) ==
    /\ login[u] # NoName => Sysname(profile[u]) = login[u]
    /\ filling[u] # NoDisplay => Sysname(filling[u]) = login[u]
    /\ \A r \in Requests :
           changing[r].stage \in {"read", "open"} /\ changing[r].user = u => Sysname(changing[r].from) = login[u]
    /\ displayed[u] # NoDisplay =>
           \/ Sysname(displayed[u]) = login[u]
           \/ \E r \in Requests : changing[r].stage = "committed" /\ changing[r].user = u
    /\ \A q, r \in InProgress(u) : q = r

NamesKnown == \A u \in Users \ crossed : KnownAs(u)

IInv == TypeOK /\ Unique /\ NamesApart /\ OpenIsCurrent /\ AccountsOnly /\ NamesKnown

-----------------------------------------------------------------------------
\* The calls in progress.
Alias == [stage : {"free", "deleted"}, name : Names]
Change == [stage : {"read", "open", "committed"}, user : Users,
           from : Displays, to : Displays, bypass : BOOLEAN]

Going(r) == changing[r].stage # "idle"
Same(r) ==
    /\ changing'[r].user = changing[r].user
    /\ changing'[r].from = changing[r].from
    /\ changing'[r].to = changing[r].to
OthersStay(r) == \A q \in Requests \ {r} : changing'[q] = changing[q]

\* A call that has touched a row of u is sent back; any other goes on.
Resent(q, u) ==
    /\ Same(q)
    /\ \/ changing'[q] = changing[q] /\ (changing[q].stage = "open" => changing[q].user # u)
       \/ changing'[q].stage = "read" /\ changing[q].stage = "open"

LEMMA SysnameIsName == ASSUME NEW d \in Displays PROVE Sysname(d) \in Names
  BY DEF Displays, Sysname

LEMMA Types ==
    ASSUME TypeOK
    PROVE  /\ aliasing \in [Users -> {Idle} \cup Alias]
           /\ changing \in [Requests -> {Idle} \cup Change]
           /\ \A r \in Requests : Going(r) <=> changing[r] # Idle
           /\ \A r \in Requests : Going(r) => changing[r] \in Change
           /\ \A r \in Requests : Going(r) =>
                  /\ changing[r].stage \in {"read", "open", "committed"}
                  /\ changing[r].user \in Users
                  /\ changing[r].from \in Displays /\ changing[r].to \in Displays
           /\ \A u \in Users : aliasing[u] # Idle => aliasing[u] \in Alias
           /\ \A u \in Users : aliasing[u] # Idle => aliasing[u].stage # "idle" /\ aliasing[u].name \in Names
<1>1. aliasing \in [Users -> {Idle} \cup Alias] /\ changing \in [Requests -> {Idle} \cup Change]
  BY DEF TypeOK, Alias, Change
<1>2. Idle.stage = "idle"
  BY DEF Idle
<1>3. \A c \in Change : /\ c.stage \in {"read", "open", "committed"} /\ c.user \in Users
                        /\ c.from \in Displays /\ c.to \in Displays
  BY DEF Change
<1>4. \A c \in Alias : c.stage \in {"free", "deleted"} /\ c.name \in Names
  BY DEF Alias
<1>5. \A r \in Requests : Going(r) <=> changing[r] # Idle
  BY <1>1, <1>2, <1>3 DEF Going
<1>6. \A r \in Requests : Going(r) => changing[r] \in Change
  BY <1>1, <1>5
<1>7. \A u \in Users : aliasing[u] # Idle => aliasing[u] \in Alias
  BY <1>1
<1> QED
  BY <1>1, <1>3, <1>4, <1>5, <1>6, <1>7

LEMMA InProgressIs ==
    ASSUME TypeOK, NEW u \in Users
    PROVE  InProgress(u) = {r \in Requests : Going(r) /\ changing[r].user = u}
  BY Types DEF InProgress

\* What a call becomes is a call.
LEMMA Becomes ==
    ASSUME TypeOK, NEW r \in Requests, NEW c \in {Idle} \cup Change, changing' = [changing EXCEPT ![r] = c]
    PROVE  /\ changing' \in [Requests -> {Idle} \cup Change]
           /\ changing'[r] = c /\ OthersStay(r)
  BY Types DEF OthersStay

LEMMA IdleStage == Idle.stage = "idle"
  BY DEF Idle

LEMMA StageSet ==
    ASSUME NEW c \in Change, NEW s \in {"read", "open", "committed"}
    PROVE  /\ [c EXCEPT !.stage = s] \in Change
           /\ [c EXCEPT !.stage = s].stage = s
           /\ [c EXCEPT !.stage = s].user = c.user
           /\ [c EXCEPT !.stage = s].from = c.from
           /\ [c EXCEPT !.stage = s].to = c.to
  BY DEF Change

\* What change_username starts from.
Known(u) == IF displayed[u] = NoDisplay THEN profile[u] ELSE displayed[u]

LEMMA KnownIsDisplay ==
    ASSUME TypeOK, NEW u \in Users, login[u] # NoName
    PROVE  Known(u) \in Displays
  BY DEF TypeOK, Known

LEMMA ReadIs ==
    ASSUME TypeOK, NEW r \in Requests, NEW u \in Users, NEW to \in Displays, NEW bypass \in BOOLEAN,
           ChangeRead(r, u, to, bypass)
    PROVE  /\ changing' \in [Requests -> {Idle} \cup Change]
           /\ OthersStay(r) /\ ~Going(r) /\ changing'[r].stage = "read"
           /\ changing'[r].user = u /\ changing'[r].from = Known(u) /\ changing'[r].to = to
           /\ login[u] # NoName /\ Known(u) \in Displays
           /\ displayed' = [displayed EXCEPT ![u] = Known(u)]
           /\ crossed' = crossed \cup IF InProgress(u) = {} THEN {} ELSE {u}
           /\ UNCHANGED <<tables, creating, verifying, aliasing, filling, raced>>
<1> DEFINE c == [stage |-> "read", user |-> u, from |-> Known(u), to |-> to, bypass |-> bypass]
<1>1. Known(u) \in Displays
  BY KnownIsDisplay DEF ChangeRead
<1>2. /\ c \in Change /\ c.stage = "read" /\ c.user = u /\ c.from = Known(u) /\ c.to = to
  BY <1>1 DEF Change
<1>3. changing' = [changing EXCEPT ![r] = c] /\ displayed' = [displayed EXCEPT ![u] = Known(u)]
  BY DEF ChangeRead, Known
<1>4. /\ changing[r] = Idle /\ login[u] # NoName
      /\ crossed' = crossed \cup IF InProgress(u) = {} THEN {} ELSE {u}
      /\ UNCHANGED <<tables, creating, verifying, aliasing, filling, raced>>
  BY DEF ChangeRead
<1>5. ~Going(r)
  BY <1>4, IdleStage DEF Going
<1> HIDE DEF c
<1> QED
  BY <1>1, <1>2, <1>3, <1>4, <1>5, Becomes

LEMMA BeginIs ==
    ASSUME TypeOK, NEW r \in Requests, ChangeBegin(r)
    PROVE  /\ changing' \in [Requests -> {Idle} \cup Change]
           /\ OthersStay(r) /\ Going(r) /\ changing[r].stage = "read"
           /\ \/ changing'[r] = Idle
              \/ Allowed(changing[r]) /\ Same(r) /\ changing'[r].stage = "open"
           /\ UNCHANGED <<tables, creating, verifying, aliasing, cache, history>>
<1> DEFINE c == changing[r]
           q == IF Allowed(c) THEN [c EXCEPT !.stage = "open"] ELSE Idle
<1>1. c.stage = "read" /\ Going(r)
  BY DEF ChangeBegin, Going
<1>2. c \in Change
  BY <1>1, Types
<1>3. q \in {Idle} \cup Change
  BY <1>2, StageSet
<1>4. \/ q = Idle
      \/ /\ Allowed(c) /\ q.stage = "open" /\ q.user = c.user /\ q.from = c.from /\ q.to = c.to
  BY <1>2, StageSet
<1>5. changing' = [changing EXCEPT ![r] = q]
  BY DEF ChangeBegin
<1>6. UNCHANGED <<tables, creating, verifying, aliasing, cache, history>>
  BY DEF ChangeBegin
<1> HIDE DEF q
<1>7. changing' \in [Requests -> {Idle} \cup Change] /\ changing'[r] = q /\ OthersStay(r)
  BY <1>3, <1>5, Becomes
<1> QED
  BY <1>1, <1>4, <1>6, <1>7 DEF Same

LEMMA InvalidateIs ==
    ASSUME TypeOK, NEW r \in Requests, ChangeInvalidate(r)
    PROVE  /\ changing' \in [Requests -> {Idle} \cup Change]
           /\ OthersStay(r) /\ Going(r) /\ changing[r].stage = "committed" /\ changing'[r] = Idle
           /\ displayed' = [displayed EXCEPT ![changing[r].user] = NoDisplay]
           /\ UNCHANGED <<tables, creating, verifying, aliasing, filling, history>>
<1>1. changing[r].stage = "committed" /\ changing' = [changing EXCEPT ![r] = Idle]
  BY DEF ChangeInvalidate
<1>2. /\ displayed' = [displayed EXCEPT ![changing[r].user] = NoDisplay]
      /\ UNCHANGED <<tables, creating, verifying, aliasing, filling, history>>
  BY DEF ChangeInvalidate
<1> QED
  BY <1>1, <1>2, Becomes DEF Going

\* A retry sends the open calls of u back.
LEMMA RetriedIs ==
    ASSUME TypeOK, NEW u
    PROVE  /\ Retried(u) \in [Requests -> {Idle} \cup Change]
           /\ \A q \in Requests :
                  \/ /\ Retried(u)[q] = changing[q]
                     /\ changing[q].stage = "open" => changing[q].user # u
                  \/ /\ changing[q].stage = "open" /\ Retried(u)[q].stage = "read"
                     /\ Retried(u)[q].user = changing[q].user
                     /\ Retried(u)[q].from = changing[q].from
                     /\ Retried(u)[q].to = changing[q].to
<1>1. Retried(u) = [q \in Requests |-> Retried(u)[q]]
  BY DEF Retried
<1>2. ASSUME NEW q \in Requests
      PROVE  /\ Retried(u)[q] \in {Idle} \cup Change
             /\ \/ /\ Retried(u)[q] = changing[q]
                   /\ changing[q].stage = "open" => changing[q].user # u
                \/ /\ changing[q].stage = "open" /\ Retried(u)[q].stage = "read"
                   /\ Retried(u)[q].user = changing[q].user
                   /\ Retried(u)[q].from = changing[q].from
                   /\ Retried(u)[q].to = changing[q].to
  <2>1. Retried(u)[q] = IF changing[q].stage = "open" /\ changing[q].user = u
                        THEN [changing[q] EXCEPT !.stage = "read"]
                        ELSE changing[q]
    BY DEF Retried
  <2>2. CASE changing[q].stage = "open" /\ changing[q].user = u
    <3>1. changing[q] \in Change
      BY <2>2, Types DEF Going
    <3> DEFINE w == [changing[q] EXCEPT !.stage = "read"]
    <3>2. /\ w \in Change /\ w.stage = "read" /\ w.user = changing[q].user
          /\ w.from = changing[q].from /\ w.to = changing[q].to
      BY <3>1, StageSet
    <3>3. Retried(u)[q] = w
      BY <2>1, <2>2
    <3> HIDE DEF w
    <3> QED
      BY <2>2, <3>2, <3>3
  <2>3. CASE ~(changing[q].stage = "open" /\ changing[q].user = u)
    BY <2>1, <2>3, Types
  <2> QED
    BY <2>2, <2>3
<1> QED
  BY <1>1, <1>2

LEMMA ReleaseIs ==
    ASSUME TypeOK, NEW u \in Users, Release(u)
    PROVE  /\ changing' \in [Requests -> {Idle} \cup Change]
           /\ \A r \in Requests : Resent(r, u)
           /\ redirect' = [redirect EXCEPT ![u] = NoName]
           /\ UNCHANGED <<login, profile, alias, recent, pending, creating, verifying, aliasing, cache, history>>
<1>1. changing' = Retried(u)
  BY DEF Release
<1>2. /\ redirect' = [redirect EXCEPT ![u] = NoName]
      /\ UNCHANGED <<login, profile, alias, recent, pending, creating, verifying, aliasing, cache, history>>
  BY DEF Release
<1>3. changing' \in [Requests -> {Idle} \cup Change]
  BY <1>1, RetriedIs
<1>4. ASSUME NEW r \in Requests
      PROVE  Resent(r, u)
  BY <1>1, RetriedIs DEF Resent, Same
<1> QED
  BY <1>2, <1>3, <1>4

Fails(c) == ~Cosmetic(c) /\ \E v \in Users \ {c.user} : login[v] = Sysname(c.to) \/ redirect[v] = Sysname(c.from)

\* The three ways a commit can go.
CommitFails(r) ==
    /\ OthersStay(r) /\ changing'[r] = Idle
    /\ UNCHANGED <<login, redirect, recent, profile, raced, crossed>>

Committed(r) ==
    LET u == changing[r].user
    IN  /\ (\A q \in Requests \ {r} : Resent(q, u)) /\ Same(r) /\ changing'[r].stage = "committed"
        /\ crossed' = crossed \cup IF filling[u] = NoDisplay THEN {} ELSE {u}

Restyles(r) ==
    /\ Committed(r) /\ Cosmetic(changing[r])
    /\ profile' = [profile EXCEPT ![changing[r].user] = changing[r].to]
    /\ UNCHANGED <<login, redirect, recent, raced>>

Renames(r) ==
    /\ Committed(r) /\ ~Cosmetic(changing[r]) /\ ~Fails(changing[r])
    /\ Renamed(changing[r])
    /\ raced' = RacedAfterClaim(<<"change", r>>, Sysname(changing[r].to))

LEMMA CommitIs ==
    ASSUME TypeOK, NEW r \in Requests, ChangeCommit(r)
    PROVE  /\ changing' \in [Requests -> {Idle} \cup Change]
           /\ Going(r) /\ changing[r].stage = "open"
           /\ CommitFails(r) \/ Restyles(r) \/ Renames(r)
           /\ UNCHANGED <<alias, pending, creating, verifying, aliasing, cache>>
<1> DEFINE c == changing[r]
           u == c.user
           q == [c EXCEPT !.stage = "committed"]
           after == [Retried(u) EXCEPT ![r] = q]
<1>1. c.stage = "open" /\ Going(r) /\ c \in Change
  BY Types DEF ChangeCommit, Going
<1>2. UNCHANGED <<alias, pending, creating, verifying, aliasing, cache>>
  BY DEF ChangeCommit
<1>3. CASE Fails(c)
  <2>1. /\ changing' = [changing EXCEPT ![r] = Idle]
        /\ UNCHANGED <<login, redirect, recent, profile, raced, crossed>>
    BY <1>3 DEF ChangeCommit, Fails
  <2> QED
    BY <1>1, <1>2, <2>1, Becomes DEF CommitFails
<1>4. CASE ~Fails(c)
  <2>1. /\ changing' = after
        /\ crossed' = crossed \cup IF filling[u] = NoDisplay THEN {} ELSE {u}
    BY <1>4 DEF ChangeCommit, Fails
  <2>2. \/ /\ Cosmetic(c) /\ profile' = [profile EXCEPT ![u] = c.to]
           /\ UNCHANGED <<login, redirect, recent, raced>>
        \/ /\ ~Cosmetic(c) /\ Renamed(c) /\ raced' = RacedAfterClaim(<<"change", r>>, Sysname(c.to))
    BY <1>4 DEF ChangeCommit, Fails
  <2>3. q \in Change /\ q.stage = "committed" /\ q.user = c.user /\ q.from = c.from /\ q.to = c.to
    BY <1>1, StageSet
  <2> HIDE DEF q
  <2>4. /\ after \in [Requests -> {Idle} \cup Change] /\ after[r] = q
        /\ \A d \in Requests \ {r} : after[d] = Retried(u)[d]
    BY <2>3, RetriedIs
  <2> HIDE DEF after
  <2>5. Same(r) /\ changing'[r].stage = "committed"
    BY <2>1, <2>3, <2>4 DEF Same
  <2>6. ASSUME NEW d \in Requests \ {r}
        PROVE  Resent(d, u)
    <3>1. changing'[d] = Retried(u)[d]
      BY <2>1, <2>4
    <3> QED
      BY <3>1, RetriedIs DEF Resent, Same
  <2>7. Committed(r)
    BY <2>1, <2>5, <2>6 DEF Committed
  <2> QED
    BY <1>1, <1>2, <1>4, <2>1, <2>2, <2>4, <2>7 DEF Restyles, Renames
<1> QED
  BY <1>3, <1>4

LEMMA AliasSteps ==
    ASSUME TypeOK, NEW u \in Users
    PROVE  /\ \A n \in Names : AliasCheck(u, n) =>
                  /\ aliasing' \in [Users -> {Idle} \cup Alias]
                  /\ aliasing'[u] # Idle /\ aliasing'[u].name = n
                  /\ \A v \in Users \ {u} : aliasing'[v] = aliasing[v]
           /\ AliasDelete(u) =>
                  /\ aliasing' \in [Users -> {Idle} \cup Alias]
                  /\ aliasing[u] # Idle /\ aliasing'[u] # Idle /\ aliasing'[u].name = aliasing[u].name
                  /\ \A v \in Users \ {u} : aliasing'[v] = aliasing[v]
           /\ AliasInsert(u) =>
                  /\ aliasing' \in [Users -> {Idle} \cup Alias]
                  /\ aliasing[u] # Idle /\ aliasing[u].name \in Names /\ aliasing'[u] = Idle
                  /\ \A v \in Users \ {u} : aliasing'[v] = aliasing[v]
<1>1. ASSUME NEW n \in Names, AliasCheck(u, n)
      PROVE  /\ aliasing' \in [Users -> {Idle} \cup Alias]
             /\ aliasing'[u] # Idle /\ aliasing'[u].name = n
             /\ \A v \in Users \ {u} : aliasing'[v] = aliasing[v]
  <2> DEFINE a == [stage |-> "free", name |-> n]
  <2>1. a \in Alias /\ a.name = n /\ a.stage = "free"
    BY DEF Alias
  <2>2. aliasing' = [aliasing EXCEPT ![u] = a]
    BY <1>1 DEF AliasCheck
  <2> HIDE DEF a
  <2> QED
    BY <2>1, <2>2, Types, IdleStage
<1>2. ASSUME AliasDelete(u)
      PROVE  /\ aliasing' \in [Users -> {Idle} \cup Alias]
             /\ aliasing[u] # Idle /\ aliasing'[u] # Idle /\ aliasing'[u].name = aliasing[u].name
             /\ \A v \in Users \ {u} : aliasing'[v] = aliasing[v]
  <2> DEFINE a == [aliasing[u] EXCEPT !.stage = "deleted"]
  <2>1. aliasing[u].stage = "free" /\ aliasing' = [aliasing EXCEPT ![u] = a]
    BY <1>2 DEF AliasDelete
  <2>2. aliasing[u] # Idle /\ aliasing[u] \in Alias
    BY <2>1, Types, IdleStage
  <2>3. a \in Alias /\ a.name = aliasing[u].name /\ a.stage = "deleted"
    BY <2>2 DEF Alias
  <2> HIDE DEF a
  <2> QED
    BY <2>1, <2>2, <2>3, Types, IdleStage
<1>3. ASSUME AliasInsert(u)
      PROVE  /\ aliasing' \in [Users -> {Idle} \cup Alias]
             /\ aliasing[u] # Idle /\ aliasing[u].name \in Names /\ aliasing'[u] = Idle
             /\ \A v \in Users \ {u} : aliasing'[v] = aliasing[v]
  <2>1. aliasing[u].stage = "deleted" /\ aliasing' = [aliasing EXCEPT ![u] = Idle]
    BY <1>3 DEF AliasInsert
  <2>2. aliasing[u] # Idle
    BY <2>1, IdleStage
  <2> QED
    BY <2>1, <2>2, Types
<1> QED
  BY <1>1, <1>2, <1>3

LEMMA RacedGrows == ASSUME NEW call, NEW n PROVE raced \subseteq RacedAfterClaim(call, n)
  BY DEF RacedAfterClaim

-----------------------------------------------------------------------------
\* Types.
TypeOfTables ==
    /\ login \in [Users -> Names \cup {NoName}]
    /\ profile \in [Users -> Displays \cup {NoDisplay}]
    /\ \A u \in Users : login[u] = NoName <=> profile[u] = NoDisplay
    /\ alias \in [Users -> Names \cup {NoName}]
    /\ redirect \in [Users -> Names \cup {NoName}]
    /\ recent \subseteq Users

TypeOfClaims ==
    /\ pending \in [Names -> {"none", "valid", "invalid"}]
    /\ creating \in [Names -> 0 .. MaxCreates]
    /\ verifying \in [Names -> {"idle", "read", "gone"}]
    /\ aliasing \in [Users -> {Idle} \cup Alias]

TypeOfChanges ==
    /\ changing \in [Requests -> {Idle} \cup Change]
    /\ displayed \in [Users -> Displays \cup {NoDisplay}]
    /\ filling \in [Users -> Displays \cup {NoDisplay}]
    /\ raced \subseteq Names
    /\ crossed \subseteq Users

LEMMA TypeParts == TypeOK <=> TypeOfTables /\ TypeOfClaims /\ TypeOfChanges
  BY DEF TypeOK, TypeOfTables, TypeOfClaims, TypeOfChanges, Alias, Change

LEMMA TypePartsNext == TypeOK' <=> TypeOfTables' /\ TypeOfClaims' /\ TypeOfChanges'
  BY DEF TypeOK, TypeOfTables, TypeOfClaims, TypeOfChanges, Alias, Change

LEMMA TypeInit == Init => TypeOK
  BY NoNameAssumption, MaxCreatesAssumption, NoDisplayAssumption DEF Init, TypeOK

LEMMA ClaimTypes ==
    ASSUME NEW call, NEW n \in Names, TypeOK
    PROVE  RacedAfterClaim(call, n) \subseteq Names
  BY DEF TypeOK, RacedAfterClaim

LEMMA RowTypes ==
    ASSUME TypeOK, NEW u \in Users, NEW d \in Displays
    PROVE  /\ [login EXCEPT ![u] = Sysname(d)] \in [Users -> Names \cup {NoName}]
           /\ [profile EXCEPT ![u] = d] \in [Users -> Displays \cup {NoDisplay}]
           /\ \A v \in Users : [login EXCEPT ![u] = Sysname(d)][v] = NoName
                               <=> [profile EXCEPT ![u] = d][v] = NoDisplay
           /\ login[u] # NoName =>
                  \A v \in Users : login[v] = NoName <=> [profile EXCEPT ![u] = d][v] = NoDisplay
<1>1. Sysname(d) \in Names /\ Sysname(d) # NoName /\ d # NoDisplay
  BY SysnameIsName, NoNameAssumption, NoDisplayAssumption DEF Displays
<1> HIDE DEF Sysname
<1> QED
  BY <1>1, TypeParts DEF TypeOfTables

\* A change is of an account.
OpenHasAccount == \A r \in Requests : Going(r) => login[changing[r].user] # NoName

LEMMA TypeNext ==
    ASSUME TypeOK, OpenHasAccount, [Next]_vars
    PROVE  TypeOK'
<1> USE TypeParts, TypePartsNext
<1>1. ASSUME NEW n \in Names, PurgePending(n) PROVE TypeOK'
  BY <1>1 DEF PurgePending, DeletePending, cache, history, TypeOfTables, TypeOfClaims, TypeOfChanges
<1>2. ASSUME NEW n \in Names, CreateCheck(n) PROVE TypeOK'
  BY <1>2, MaxCreatesAssumption DEF CreateCheck, tables, cache, history, TypeOfTables, TypeOfClaims, TypeOfChanges
<1>3. ASSUME NEW n \in Names, CreateInsert(n) PROVE TypeOK'
  <2>1. raced' \subseteq Names
    BY <1>3, ClaimTypes DEF CreateInsert, TypeOfChanges
  <2>2. creating' \in [Names -> 0 .. MaxCreates] /\ pending' \in [Names -> {"none", "valid", "invalid"}]
    BY <1>3, MaxCreatesAssumption DEF CreateInsert, TypeOfClaims
  <2>3. UNCHANGED <<login, profile, alias, redirect, recent, verifying, aliasing, changing, displayed, filling, crossed>>
    BY <1>3 DEF CreateInsert, cache
  <2> QED
    BY <2>1, <2>2, <2>3 DEF TypeOfTables, TypeOfClaims, TypeOfChanges
<1>4. ASSUME NEW n \in Names, VerifyRead(n) PROVE TypeOK'
  BY <1>4 DEF VerifyRead, tables, cache, history, TypeOfTables, TypeOfClaims, TypeOfChanges
<1>5. ASSUME NEW n \in Names, Verify(n) PROVE TypeOK'
  <2>1. raced' \subseteq Names
    BY <1>5, ClaimTypes DEF Verify, TypeOfChanges
  <2>2. verifying' \in [Names -> {"idle", "read", "gone"}] /\ pending' \in [Names -> {"none", "valid", "invalid"}]
    BY <1>5 DEF Verify, TypeOfClaims
  <2>3. UNCHANGED <<alias, redirect, recent, creating, aliasing, changing, displayed, filling, crossed>>
    BY <1>5 DEF Verify, cache
  <2>4. \/ UNCHANGED <<login, profile>>
        \/ \E u \in Users, s \in Styles : /\ login' = [login EXCEPT ![u] = n]
                                          /\ profile' = [profile EXCEPT ![u] = <<n, s>>]
    BY <1>5 DEF Verify
  <2>5. /\ login' \in [Users -> Names \cup {NoName}]
        /\ profile' \in [Users -> Displays \cup {NoDisplay}]
        /\ \A u \in Users : login'[u] = NoName <=> profile'[u] = NoDisplay
    <3>1. CASE UNCHANGED <<login, profile>>
      BY <3>1 DEF TypeOfTables
    <3>2. ASSUME NEW u \in Users, NEW s \in Styles,
                 login' = [login EXCEPT ![u] = n], profile' = [profile EXCEPT ![u] = <<n, s>>]
          PROVE  <2>5!1 /\ <2>5!2 /\ <2>5!3
      <4>1. <<n, s>> \in Displays /\ Sysname(<<n, s>>) = n
        BY DEF Displays, Sysname
      <4> QED
        BY <3>2, <4>1, RowTypes
    <3> QED
      BY <2>4, <3>1, <3>2
  <2> QED
    BY <2>1, <2>2, <2>3, <2>5 DEF TypeOfTables, TypeOfClaims, TypeOfChanges
<1>6. ASSUME NEW u \in Users, NEW n \in Names, AliasCheck(u, n) PROVE TypeOK'
  <2>1. aliasing' \in [Users -> {Idle} \cup Alias]
    BY <1>6, AliasSteps
  <2>2. UNCHANGED <<tables, creating, verifying, changing, cache, history>>
    BY <1>6 DEF AliasCheck
  <2> QED
    BY <2>1, <2>2 DEF tables, cache, history, TypeOfTables, TypeOfClaims, TypeOfChanges
<1>7. ASSUME NEW u \in Users, AliasDelete(u) PROVE TypeOK'
  <2>1. aliasing' \in [Users -> {Idle} \cup Alias]
    BY <1>7, AliasSteps
  <2>2. /\ alias' = [alias EXCEPT ![u] = NoName]
        /\ UNCHANGED <<login, profile, redirect, recent, pending, creating, verifying, changing, cache, history>>
    BY <1>7 DEF AliasDelete
  <2> QED
    BY <2>1, <2>2 DEF cache, history, TypeOfTables, TypeOfClaims, TypeOfChanges
<1>8. ASSUME NEW u \in Users, AliasInsert(u) PROVE TypeOK'
  <2>1. aliasing' \in [Users -> {Idle} \cup Alias] /\ aliasing[u].name \in Names
    BY <1>8, AliasSteps
  <2>2. raced' \subseteq Names
    BY <1>8, <2>1, ClaimTypes DEF AliasInsert, TypeOfChanges
  <2>3. alias' \in [Users -> Names \cup {NoName}]
    BY <1>8, <2>1 DEF AliasInsert, TypeOfTables
  <2>4. UNCHANGED <<login, profile, redirect, recent, pending, creating, verifying, changing, displayed, filling, crossed>>
    BY <1>8 DEF AliasInsert, cache
  <2> QED
    BY <2>1, <2>2, <2>3, <2>4 DEF TypeOfTables, TypeOfClaims, TypeOfChanges
<1>9. ASSUME NEW u \in Users, Release(u) PROVE TypeOK'
  BY <1>9, ReleaseIs DEF cache, history, TypeOfTables, TypeOfClaims, TypeOfChanges
<1>10. ASSUME NEW u \in Users, MonthPasses(u) PROVE TypeOK'
  BY <1>10 DEF MonthPasses, calls, cache, history, TypeOfTables, TypeOfClaims, TypeOfChanges
<1>11. ASSUME NEW u \in Users, DisplayQuery(u) PROVE TypeOK'
  BY <1>11 DEF DisplayQuery, tables, calls, history, TypeOfTables, TypeOfClaims, TypeOfChanges
<1>12. ASSUME NEW u \in Users, DisplayCache(u) PROVE TypeOK'
  BY <1>12 DEF DisplayCache, tables, calls, history, TypeOfTables, TypeOfClaims, TypeOfChanges
<1>13. ASSUME NEW r \in Requests, NEW u \in Users, NEW to \in Displays, NEW bypass \in BOOLEAN,
              ChangeRead(r, u, to, bypass)
       PROVE  TypeOK'
  <2>1. /\ changing' \in [Requests -> {Idle} \cup Change] /\ Known(u) \in Displays
        /\ displayed' = [displayed EXCEPT ![u] = Known(u)]
        /\ crossed' = crossed \cup IF InProgress(u) = {} THEN {} ELSE {u}
        /\ UNCHANGED <<tables, creating, verifying, aliasing, filling, raced>>
    BY <1>13, ReadIs
  <2>2. crossed' \subseteq Users
    BY <2>1 DEF TypeOfChanges
  <2> QED
    BY <2>1, <2>2 DEF tables, TypeOfTables, TypeOfClaims, TypeOfChanges
<1>14. ASSUME NEW r \in Requests, ChangeBegin(r) PROVE TypeOK'
  <2>1. /\ changing' \in [Requests -> {Idle} \cup Change]
        /\ UNCHANGED <<tables, creating, verifying, aliasing, cache, history>>
    BY <1>14, BeginIs
  <2> QED
    BY <2>1 DEF tables, cache, history, TypeOfTables, TypeOfClaims, TypeOfChanges
<1>15. ASSUME NEW r \in Requests, ChangeCommit(r) PROVE TypeOK'
  <2> DEFINE c == changing[r]
  <2>1. /\ changing' \in [Requests -> {Idle} \cup Change] /\ Going(r)
        /\ CommitFails(r) \/ Restyles(r) \/ Renames(r)
        /\ UNCHANGED <<alias, pending, creating, verifying, aliasing, cache>>
    BY <1>15, CommitIs
  <2>2. c.user \in Users /\ c.from \in Displays /\ c.to \in Displays /\ login[c.user] # NoName
    BY <2>1, Types DEF OpenHasAccount
  <2>3. CASE CommitFails(r)
    BY <2>1, <2>3 DEF CommitFails, cache, TypeOfTables, TypeOfClaims, TypeOfChanges
  <2>4. CASE Restyles(r)
    <3>1. crossed' \subseteq Users
      BY <2>4, <2>2 DEF Restyles, Committed, TypeOfChanges
    <3>2. profile' = [profile EXCEPT ![c.user] = c.to] /\ UNCHANGED <<login, redirect, recent, raced>>
      BY <2>4 DEF Restyles
    <3>3. TypeOfTables'
      BY <2>1, <2>2, <3>2, RowTypes DEF TypeOfTables
    <3> QED
      BY <2>1, <3>1, <3>2, <3>3 DEF cache, TypeOfClaims, TypeOfChanges
  <2>5. CASE Renames(r)
    <3>1. crossed' \subseteq Users
      BY <2>5, <2>2 DEF Renames, Committed, TypeOfChanges
    <3>2. Renamed(c) /\ raced' = RacedAfterClaim(<<"change", r>>, Sysname(c.to))
      BY <2>5 DEF Renames
    <3>3. raced' \subseteq Names
      BY <2>2, <3>2, ClaimTypes, SysnameIsName
    <3>4. /\ redirect' \in [Users -> Names \cup {NoName}] /\ recent' \subseteq Users
      BY <2>2, <3>2, SysnameIsName DEF Renamed, TypeOfTables
    <3>5. /\ login' \in [Users -> Names \cup {NoName}]
          /\ profile' \in [Users -> Displays \cup {NoDisplay}]
          /\ \A u \in Users : login'[u] = NoName <=> profile'[u] = NoDisplay
      BY <2>2, <3>2, RowTypes DEF Renamed
    <3>6. TypeOfTables'
      BY <2>1, <3>4, <3>5 DEF TypeOfTables
    <3> QED
      BY <2>1, <3>1, <3>3, <3>6 DEF cache, TypeOfClaims, TypeOfChanges
  <2> QED
    BY <2>1, <2>3, <2>4, <2>5
<1>16. ASSUME NEW r \in Requests, ChangeInvalidate(r) PROVE TypeOK'
  <2>1. /\ changing' \in [Requests -> {Idle} \cup Change]
        /\ displayed' = [displayed EXCEPT ![changing[r].user] = NoDisplay]
        /\ UNCHANGED <<tables, creating, verifying, aliasing, filling, history>>
    BY <1>16, InvalidateIs
  <2> QED
    BY <2>1 DEF tables, history, TypeOfTables, TypeOfClaims, TypeOfChanges
<1>17. CASE UNCHANGED vars
  BY <1>17 DEF vars, tables, calls, cache, history, TypeOfTables, TypeOfClaims, TypeOfChanges
<1> QED
  BY <1>1, <1>2, <1>3, <1>4, <1>5, <1>6, <1>7, <1>8, <1>9, <1>10, <1>11, <1>12, <1>13, <1>14, <1>15, <1>16, <1>17
  DEF Next

-----------------------------------------------------------------------------
\* What each step leaves alone.
LEMMA AccountsHaveNames ==
    ASSUME TypeOK, AccountsOnly
    PROVE  OpenHasAccount
  BY Types, InProgressIs DEF AccountsOnly, OpenHasAccount

\* An account is opened only by Verify and renamed only by ChangeCommit.
LEMMA VerifyIs ==
    ASSUME TypeOK, NEW n \in Names, Verify(n)
    PROVE  \/ UNCHANGED <<login, profile, pending, raced>>
           \/ /\ \A v \in Users : login[v] # n
              /\ \E u \in Users, s \in Styles :
                    /\ login[u] = NoName
                    /\ login' = [login EXCEPT ![u] = n]
                    /\ profile' = [profile EXCEPT ![u] = <<n, s>>]
              /\ pending' = IF verifying[n] = "gone" THEN pending ELSE [pending EXCEPT ![n] = "none"]
              /\ raced' = RacedAfterClaim(<<"verify", n>>, n)
  BY DEF Verify

\* The steps that change no table.
Aside ==
    \/ \E n \in Names : CreateCheck(n) \/ VerifyRead(n)
    \/ \E u \in Users : \/ \E n \in Names : AliasCheck(u, n)
                        \/ DisplayQuery(u) \/ DisplayCache(u)
    \/ \E r \in Requests :
          \/ \E u \in Users, to \in Displays, bypass \in BOOLEAN : ChangeRead(r, u, to, bypass)
          \/ ChangeBegin(r) \/ ChangeInvalidate(r)
    \/ UNCHANGED vars

LEMMA AsideKeeps == ASSUME Aside PROVE UNCHANGED tables
  BY DEF Aside, CreateCheck, VerifyRead, AliasCheck, DisplayQuery, DisplayCache, ChangeRead, ChangeBegin,
         ChangeInvalidate, vars

LEMMA NextIs ==
    ASSUME [Next]_vars
    PROVE  \/ Aside
           \/ \E n \in Names : PurgePending(n) \/ CreateInsert(n) \/ Verify(n)
           \/ \E u \in Users : AliasDelete(u) \/ AliasInsert(u) \/ Release(u) \/ MonthPasses(u)
           \/ \E r \in Requests : ChangeCommit(r)
  BY DEF Next, Aside

\* The unique indexes hold.
LEMMA UniqueNext ==
    ASSUME TypeOK, OpenHasAccount, Unique, [Next]_vars
    PROVE  Unique'
<1> USE TypeParts
<1>1. CASE Aside
  BY <1>1, AsideKeeps DEF tables, Unique
<1>2. ASSUME NEW n \in Names, PurgePending(n) PROVE Unique'
  BY <1>2 DEF PurgePending, Unique
<1>3. ASSUME NEW n \in Names, CreateInsert(n) PROVE Unique'
  BY <1>3 DEF CreateInsert, Unique
<1>4. ASSUME NEW n \in Names, Verify(n) PROVE Unique'
  <2>1. UNCHANGED <<alias, redirect>>
    BY <1>4 DEF Verify
  <2>2. CASE UNCHANGED <<login, profile, pending, raced>>
    BY <2>1, <2>2 DEF Unique
  <2>3. ASSUME NEW u \in Users, \A v \in Users : login[v] # n, login' = [login EXCEPT ![u] = n]
        PROVE  Unique'
    BY <2>1, <2>3 DEF Unique, TypeOfTables
  <2> QED
    BY <1>4, <2>2, <2>3, VerifyIs
<1>5. ASSUME NEW u \in Users, AliasDelete(u) PROVE Unique'
  BY <1>5 DEF AliasDelete, Unique, TypeOfTables
<1>6. ASSUME NEW u \in Users, AliasInsert(u) PROVE Unique'
  BY <1>6 DEF AliasInsert, Unique, TypeOfTables
<1>7. ASSUME NEW u \in Users, Release(u) PROVE Unique'
  BY <1>7 DEF Release, Unique, TypeOfTables
<1>8. ASSUME NEW u \in Users, MonthPasses(u) PROVE Unique'
  BY <1>8 DEF MonthPasses, Unique
<1>9. ASSUME NEW r \in Requests, ChangeCommit(r) PROVE Unique'
  <2> DEFINE c == changing[r]
  <2>1. /\ Going(r) /\ (CommitFails(r) \/ Restyles(r) \/ Renames(r))
        /\ UNCHANGED <<alias, pending, creating, verifying, aliasing, cache>>
    BY <1>9, CommitIs
  <2>2. c.user \in Users
    BY <2>1, Types
  <2>3. CASE CommitFails(r) \/ Restyles(r)
    BY <2>1, <2>3 DEF CommitFails, Restyles, Unique
  <2>4. CASE Renames(r)
    <3>1. /\ redirect' = [redirect EXCEPT ![c.user] = Sysname(c.from)]
          /\ login' = [login EXCEPT ![c.user] = Sysname(c.to)]
      BY <2>4 DEF Renames, Renamed
    <3>2. \A v \in Users \ {c.user} : login[v] # Sysname(c.to) /\ redirect[v] # Sysname(c.from)
      BY <2>4 DEF Renames, Fails
    <3> HIDE DEF c
    <3>3. /\ \A v \in Users \ {c.user} : login'[v] = login[v] /\ redirect'[v] = redirect[v]
          /\ login'[c.user] = Sysname(c.to) /\ redirect'[c.user] = Sysname(c.from)
      BY <2>2, <3>1 DEF TypeOfTables
    <3> QED
      BY <2>1, <2>2, <3>2, <3>3 DEF Unique
  <2> QED
    BY <2>1, <2>3, <2>4
<1> QED
  BY <1>1, <1>2, <1>3, <1>4, <1>5, <1>6, <1>7, <1>8, <1>9, NextIs

-----------------------------------------------------------------------------
\* What a step can make of the calls in progress: they start in "read" from
\* what is known of an account, are opened when they are allowed, are sent back
\* to "read", are committed, or end.
Steps(q) ==
    \/ changing'[q] = changing[q]
    \/ ~Going(q)'
    \/ Same(q) /\ changing[q].stage = "open" /\ changing'[q].stage \in {"read", "committed"}
    \/ Same(q) /\ changing[q].stage = "read" /\ changing'[q].stage = "open" /\ Allowed(changing[q])
    \/ /\ ~Going(q) /\ changing'[q].stage = "read"
       /\ changing'[q].user \in Users /\ login[changing'[q].user] # NoName

LEMMA CallsStep ==
    ASSUME TypeOK, [Next]_vars, NEW q \in Requests
    PROVE  Steps(q)
<1>1. CASE UNCHANGED changing
  BY <1>1 DEF Steps
<1>2. ASSUME NEW r \in Requests, NEW u \in Users, NEW to \in Displays, NEW bypass \in BOOLEAN,
             ChangeRead(r, u, to, bypass)
      PROVE  Steps(q)
  BY <1>2, ReadIs DEF Steps, OthersStay
<1>3. ASSUME NEW r \in Requests, ChangeBegin(r) PROVE Steps(q)
  <2>1. CASE q # r
    BY <1>3, <2>1, BeginIs DEF Steps, OthersStay
  <2>2. CASE q = r /\ changing'[r] = Idle
    BY <2>2, IdleStage DEF Steps, Going
  <2>3. CASE q = r /\ Allowed(changing[r]) /\ Same(r) /\ changing'[r].stage = "open"
    BY <1>3, <2>3, BeginIs DEF Steps
  <2> QED
    BY <1>3, <2>1, <2>2, <2>3, BeginIs
<1>4. ASSUME NEW r \in Requests, ChangeInvalidate(r) PROVE Steps(q)
  <2>1. CASE q # r
    BY <1>4, <2>1, InvalidateIs DEF Steps, OthersStay
  <2>2. CASE q = r
    BY <1>4, <2>2, InvalidateIs, IdleStage DEF Steps, Going
  <2> QED
    BY <2>1, <2>2
<1>5. ASSUME NEW u \in Users, Release(u) PROVE Steps(q)
  <2>1. Resent(q, u)
    BY <1>5, ReleaseIs
  <2> QED
    BY <2>1 DEF Resent, Steps
<1>6. ASSUME NEW r \in Requests, ChangeCommit(r) PROVE Steps(q)
  <2>1. changing[r].stage = "open" /\ (CommitFails(r) \/ Restyles(r) \/ Renames(r))
    BY <1>6, CommitIs
  <2>2. CASE CommitFails(r)
    BY <2>2, IdleStage DEF CommitFails, OthersStay, Steps, Going
  <2>3. CASE Committed(r)
    <3>1. CASE q = r
      BY <2>1, <2>3, <3>1 DEF Committed, Steps
    <3>2. CASE q # r
      <4>1. Resent(q, changing[r].user)
        BY <2>3, <3>2 DEF Committed
      <4> QED
        BY <4>1 DEF Resent, Steps
    <3> QED
      BY <3>1, <3>2
  <2> QED
    BY <2>1, <2>2, <2>3 DEF Restyles, Renames
<1> QED
  BY <1>1, <1>2, <1>3, <1>4, <1>5, <1>6
  DEF Next, PurgePending, CreateCheck, CreateInsert, VerifyRead, Verify, AliasCheck, AliasDelete, AliasInsert,
      MonthPasses, DisplayQuery, DisplayCache, calls, vars

LEMMA LoginStep ==
    ASSUME TypeOK, [Next]_vars, NEW u \in Users
    PROVE  \/ login'[u] = login[u]
           \/ login[u] = NoName /\ login'[u] # NoName
           \/ \E r \in Requests : ChangeCommit(r) /\ Renames(r) /\ changing[r].user = u
<1> USE TypeParts
<1>1. CASE UNCHANGED login
  BY <1>1
<1>2. ASSUME NEW n \in Names, Verify(n)
      PROVE  login'[u] = login[u] \/ (login[u] = NoName /\ login'[u] # NoName)
  <2>1. ASSUME NEW v \in Users, login[v] = NoName, login' = [login EXCEPT ![v] = n]
        PROVE  login'[u] = login[u] \/ (login[u] = NoName /\ login'[u] # NoName)
    BY <2>1, NoNameAssumption DEF TypeOfTables
  <2> QED
    BY <1>2, <2>1, VerifyIs
<1>3. ASSUME NEW r \in Requests, ChangeCommit(r)
      PROVE  login'[u] = login[u] \/ (Renames(r) /\ changing[r].user = u)
  <2>1. CASE CommitFails(r) \/ Restyles(r)
    BY <2>1 DEF CommitFails, Restyles
  <2>2. CASE Renames(r)
    BY <2>2 DEF Renames, Renamed, TypeOfTables
  <2> QED
    BY <1>3, <2>1, <2>2, CommitIs
<1>4. CASE Aside
  BY <1>1, <1>4, AsideKeeps DEF tables
<1> QED
  BY <1>1, <1>2, <1>3, <1>4, NextIs
  DEF PurgePending, CreateInsert, AliasDelete, AliasInsert, Release, MonthPasses

LEMMA OpenIsCurrentNext ==
    ASSUME TypeOK, OpenHasAccount, OpenIsCurrent, [Next]_vars
    PROVE  OpenIsCurrent'
<1> SUFFICES ASSUME NEW q \in Requests, changing'[q].stage = "open", ~Cosmetic(changing'[q])
             PROVE  login'[changing'[q].user] = Sysname(changing'[q].from)
  BY DEF OpenIsCurrent
<1>1. Steps(q)
  BY CallsStep
<1>2. /\ Going(q) /\ Same(q) /\ ~Cosmetic(changing[q])
      /\ changing[q].user \in Users /\ login[changing[q].user] = Sysname(changing[q].from)
  <2>1. CASE changing'[q] = changing[q]
    BY <2>1, Types DEF Going, Same, OpenIsCurrent
  <2>2. CASE Same(q) /\ changing[q].stage = "read" /\ Allowed(changing[q])
    BY <2>2, Types DEF Going, Same, Allowed, Cosmetic
  <2> QED
    BY <1>1, <2>1, <2>2 DEF Steps, Going
<1> DEFINE u == changing[q].user
<1>3. login[u] # NoName
  BY <1>2 DEF OpenHasAccount
<1>4. CASE login'[u] = login[u]
  BY <1>2, <1>4 DEF Same
<1>5. ASSUME NEW r \in Requests, ChangeCommit(r), Renames(r), changing[r].user = u
      PROVE  FALSE
  <2>1. CASE q = r
    BY <1>5, <2>1 DEF Renames, Committed
  <2>2. CASE q # r
    <3>1. Resent(q, u)
      BY <1>5, <2>2 DEF Renames, Committed
    <3>2. changing[q].user # u
      BY <3>1 DEF Resent
    <3> QED
      BY <3>2
  <2> QED
    BY <2>1, <2>2
<1> QED
  BY <1>2, <1>3, <1>4, <1>5, LoginStep

LEMMA AccountsOnlyNext ==
    ASSUME TypeOK, TypeOK', AccountsOnly, [Next]_vars
    PROVE  AccountsOnly'
<1> USE TypeParts
<1>1. OpenHasAccount
  BY AccountsHaveNames
<1> SUFFICES ASSUME NEW u \in Users, login'[u] = NoName
             PROVE  displayed'[u] = NoDisplay /\ filling'[u] = NoDisplay /\ InProgress(u)' = {}
  BY DEF AccountsOnly
<1>2. login[u] = NoName
  <2>1. ASSUME NEW r \in Requests, Renames(r), ChangeCommit(r), changing[r].user = u
        PROVE  FALSE
    <3>1. changing[r].to \in Displays
      BY <2>1, CommitIs, Types
    <3>2. login'[u] = Sysname(changing[r].to)
      BY <2>1 DEF Renames, Renamed, TypeOfTables
    <3> QED
      BY <3>1, <3>2, SysnameIsName, NoNameAssumption
  <2> QED
    BY <2>1, LoginStep
<1>3. displayed[u] = NoDisplay /\ filling[u] = NoDisplay /\ InProgress(u) = {}
  BY <1>2 DEF AccountsOnly
<1>4. ASSUME NEW q \in Requests, Going(q)', changing'[q].user = u
      PROVE  FALSE
  <2>1. Steps(q)
    BY CallsStep
  <2>2. Going(q) /\ changing[q].user = u
    BY <1>2, <1>4, <2>1 DEF Steps, Going, Same
  <2> QED
    BY <1>2, <2>2, <1>1 DEF OpenHasAccount
<1>5. InProgress(u)' = {}
  <2>1. Idle.stage = "idle"
    BY IdleStage
  <2> QED
    BY <1>4, <2>1, TypePartsNext DEF InProgress, Going, TypeOfChanges, Change
<1>6. displayed'[u] = NoDisplay /\ filling'[u] = NoDisplay
  <2>1. CASE UNCHANGED cache
    BY <2>1, <1>3 DEF cache
  <2>2. ASSUME NEW v \in Users, DisplayQuery(v) \/ DisplayCache(v)
        PROVE  displayed'[u] = NoDisplay /\ filling'[u] = NoDisplay
    BY <1>2, <1>3, <2>2 DEF DisplayQuery, DisplayCache, TypeOfChanges
  <2>3. ASSUME NEW r \in Requests, NEW v \in Users, NEW to \in Displays, NEW bypass \in BOOLEAN,
               ChangeRead(r, v, to, bypass)
        PROVE  displayed'[u] = NoDisplay /\ filling'[u] = NoDisplay
    BY <1>2, <1>3, <2>3, ReadIs DEF TypeOfChanges
  <2>4. ASSUME NEW r \in Requests, ChangeInvalidate(r)
        PROVE  displayed'[u] = NoDisplay /\ filling'[u] = NoDisplay
    BY <1>3, <2>4, InvalidateIs DEF TypeOfChanges
  <2> QED
    BY <2>1, <2>2, <2>3, <2>4
    DEF Next, PurgePending, CreateCheck, CreateInsert, VerifyRead, Verify, AliasCheck, AliasDelete, AliasInsert,
        MonthPasses, Release, ChangeBegin, ChangeCommit, vars
<1> QED
  BY <1>5, <1>6

-----------------------------------------------------------------------------
\* Names with one holder.
LEMMA NoNameIsNone == ASSUME NEW n \in Names PROVE n # NoName
  BY NoNameAssumption

\* The call that writes a name is the only one that holds it free, unless the
\* name is raced for.
LEMMA OnlyCall ==
    ASSUME TypeOK, NEW n \in Names, NEW call, HeldFree(n) = {call}
    PROVE  /\ creating[n] > 0 => call = <<"create", n>>
           /\ verifying[n] # "idle" => call = <<"verify", n>>
           /\ \A u \in Users : Aliasing(u, n) => call = <<"alias", u>>
           /\ \A r \in Requests : Renaming(r, n) => call = <<"change", r>>
<1>1. ASSUME creating[n] > 0 PROVE call = <<"create", n>>
  <2>1. creating[n] \in Nat
    BY TypeParts, MaxCreatesAssumption DEF TypeOfClaims
  <2>2. 1 \in 1 .. creating[n]
    BY <1>1, <2>1
  <2>3. <<"create", n>> \in {<<"create", n>> : i \in 1 .. creating[n]}
    BY <2>2
  <2> QED
    BY <2>3 DEF HeldFree
<1>2. ASSUME verifying[n] # "idle" PROVE call = <<"verify", n>>
  <2>1. <<"verify", n>> \in {<<"verify", n>> : s \in {verifying[n]} \ {"idle"}}
    BY <1>2
  <2> QED
    BY <2>1 DEF HeldFree
<1>3. ASSUME NEW u \in Users, Aliasing(u, n) PROVE call = <<"alias", u>>
  <2>1. <<"alias", u>> \in {<<"alias", v>> : v \in {v \in Users : aliasing[v] # Idle /\ aliasing[v].name = n}}
    BY <1>3 DEF Aliasing
  <2> QED
    BY <2>1 DEF HeldFree
<1>4. ASSUME NEW r \in Requests, Renaming(r, n) PROVE call = <<"change", r>>
  <2>1. <<"change", r>> \in {<<"change", q>> : q \in {q \in Requests :
             changing[q].stage = "open" /\ ~Cosmetic(changing[q]) /\ Sysname(changing[q].to) = n}}
    BY <1>4 DEF Renaming
  <2> QED
    BY <2>1 DEF HeldFree
<1> QED
  BY <1>1, <1>2, <1>3, <1>4

LEMMA CallsDiffer ==
    ASSUME NEW a, NEW b
    PROVE  /\ <<"create", a>> # <<"verify", b>> /\ <<"create", a>> # <<"alias", b>> /\ <<"create", a>> # <<"change", b>>
           /\ <<"verify", a>> # <<"alias", b>> /\ <<"verify", a>> # <<"change", b>>
           /\ <<"alias", a>> # <<"change", b>>
           /\ <<"alias", a>> = <<"alias", b>> => a = b
           /\ <<"change", a>> = <<"change", b>> => a = b
  OBVIOUS

\* A name that nothing new holds, or holds free, stays apart.
Lets(n) ==
    /\ Signed(n)' => Signed(n)
    /\ Aliased(n)' => Aliased(n)
    /\ \A u \in Users : redirect'[u] = n => redirect[u] = n
    /\ Waiting(n)' => Waiting(n)

Frees(n) ==
    /\ creating'[n] > 0 => creating[n] > 0
    /\ verifying'[n] # "idle" => verifying[n] # "idle"
    /\ verifying'[n] = "gone" => verifying[n] = "gone" \/ ~Waiting(n)'
    /\ \A u \in Users : Aliasing(u, n)' => Aliasing(u, n)
    /\ \A r \in Requests : Renaming(r, n)' => Renaming(r, n) /\ changing'[r].user = changing[r].user

LEMMA StaysApart ==
    ASSUME NEW n, Apart(n), Lets(n), Frees(n)
    PROVE  Apart(n)'
<1>1. Redirected(n)' => Redirected(n)
  BY DEF Lets, Redirected
<1>2. /\ Signed(n)' => ~Aliased(n)' /\ ~Redirected(n)' /\ ~Waiting(n)'
      /\ Aliased(n)' => ~Redirected(n)' /\ ~Waiting(n)'
      /\ Redirected(n)' => ~Waiting(n)'
  BY <1>1 DEF Lets, Apart
<1>3. creating'[n] > 0 \/ verifying'[n] # "idle" => ~Signed(n)' /\ ~Aliased(n)' /\ ~Redirected(n)'
  BY <1>1 DEF Lets, Frees, Apart
<1>4. verifying'[n] = "gone" => ~Waiting(n)'
  BY DEF Lets, Frees, Apart
<1>5. \A u \in Users : Aliasing(u, n)' => ~Signed(n)' /\ ~Aliased(n)' /\ ~Redirected(n)' /\ ~Waiting(n)'
  BY <1>1 DEF Lets, Frees, Apart
<1>6. ASSUME NEW r \in Requests, Renaming(r, n)'
      PROVE  /\ ~Signed(n)' /\ ~Aliased(n)' /\ ~Waiting(n)'
             /\ \A v \in Users \ {changing'[r].user} : redirect'[v] # n
  BY <1>6 DEF Lets, Frees, Apart
<1> QED
  BY <1>2, <1>3, <1>4, <1>5, <1>6 DEF Apart

\* What the calls in progress hold free stays held by the same ones.
LEMMA RenamingStays ==
    ASSUME NEW n, NEW q, \/ changing'[q] = changing[q]
                         \/ changing'[q].stage # "open"
    PROVE  Renaming(q, n)' => Renaming(q, n) /\ changing'[q].user = changing[q].user
  BY DEF Renaming, Cosmetic

ApartNext == \A n \in Names \ raced : n \notin raced' => Apart(n)'

LEMMA ApartPurge ==
    ASSUME TypeOK, NamesApart, NEW m \in Names, PurgePending(m)
    PROVE  ApartNext
<1> SUFFICES ASSUME NEW n \in Names \ raced PROVE Apart(n)'
  BY DEF ApartNext
<1> USE TypeParts
<1>1. UNCHANGED <<login, alias, redirect, creating, aliasing, changing>>
  BY DEF PurgePending
<1>2. /\ pending'[n] = IF n = m THEN "none" ELSE pending[n]
      /\ verifying'[n] = IF n = m /\ verifying[n] = "read" THEN "gone" ELSE verifying[n]
  BY DEF PurgePending, DeletePending
<1>3. Lets(n)
  BY <1>1, <1>2 DEF Lets, Signed, Aliased, Waiting
<1>4. Frees(n)
  BY <1>1, <1>2 DEF Frees, Aliasing, Renaming, Cosmetic, Waiting
<1> QED
  BY <1>3, <1>4, StaysApart DEF NamesApart

LEMMA ApartCreateCheck ==
    ASSUME TypeOK, NamesApart, NEW m \in Names, CreateCheck(m)
    PROVE  ApartNext
<1> SUFFICES ASSUME NEW n \in Names \ raced PROVE Apart(n)'
  BY DEF ApartNext
<1> USE TypeParts
<1>1. UNCHANGED <<login, alias, redirect, pending, verifying, aliasing, changing>>
  BY DEF CreateCheck, tables
<1>2. ~Taken(m) /\ creating' = [creating EXCEPT ![m] = @ + 1]
  BY DEF CreateCheck
<1>3. Apart(n)
  BY DEF NamesApart
<1>4. CASE n # m
  <2>1. creating'[n] = creating[n]
    BY <1>2, <1>4 DEF TypeOfClaims
  <2>2. Lets(n) /\ Frees(n)
    BY <1>1, <2>1 DEF Lets, Frees, Signed, Aliased, Waiting, Aliasing, Renaming, Cosmetic
  <2> QED
    BY <1>3, <2>2, StaysApart
<1>5. CASE n = m
  <2>1. ~Signed(n) /\ ~Aliased(n) /\ ~Redirected(n) /\ ~Waiting(n)
    BY <1>2, <1>5 DEF Taken, Signed, Aliased, Redirected, Waiting
  <2>2. /\ ~Signed(n)' /\ ~Aliased(n)' /\ ~Redirected(n)' /\ ~Waiting(n)'
        /\ \A v \in Users : redirect'[v] # n
    BY <1>1, <2>1 DEF Signed, Aliased, Redirected, Waiting
  <2> QED
    BY <2>2 DEF Apart
<1> QED
  BY <1>4, <1>5

LEMMA ApartCreateInsert ==
    ASSUME TypeOK, NamesApart, NEW m \in Names, CreateInsert(m)
    PROVE  ApartNext
<1> SUFFICES ASSUME NEW n \in Names \ raced, n \notin raced' PROVE Apart(n)'
  BY DEF ApartNext
<1> USE TypeParts
<1>1. UNCHANGED <<login, alias, redirect, verifying, aliasing, changing>>
  BY DEF CreateInsert
<1>2. creating[m] > 0 /\ creating' = [creating EXCEPT ![m] = @ - 1] /\ creating[n] \in Nat
  BY MaxCreatesAssumption DEF CreateInsert, TypeOfClaims
<1>3. Apart(n)
  BY DEF NamesApart
<1>4. creating'[n] > 0 => creating[n] > 0
  BY <1>2 DEF TypeOfClaims
<1>5. \/ pending'[n] = pending[n]
      \/ n = m /\ HeldFree(m) = {<<"create", m>>}
  BY DEF CreateInsert, RacedAfterClaim, TypeOfClaims
<1>6. CASE pending'[n] = pending[n]
  <2>1. Lets(n) /\ Frees(n)
    BY <1>1, <1>4, <1>6 DEF Lets, Frees, Signed, Aliased, Waiting, Aliasing, Renaming, Cosmetic
  <2> QED
    BY <1>3, <2>1, StaysApart
<1>7. CASE n = m /\ HeldFree(m) = {<<"create", m>>}
  <2>1. verifying[n] = "idle" /\ (\A u \in Users : ~Aliasing(u, n)) /\ (\A r \in Requests : ~Renaming(r, n))
    BY <1>7, OnlyCall, CallsDiffer
  <2>2. ~Signed(n) /\ ~Aliased(n) /\ ~Redirected(n)
    BY <1>2, <1>3, <1>7 DEF Apart
  <2>3. /\ verifying'[n] = "idle" /\ (\A u \in Users : ~Aliasing(u, n)') /\ (\A r \in Requests : ~Renaming(r, n)')
        /\ ~Signed(n)' /\ ~Aliased(n)' /\ ~Redirected(n)'
    BY <1>1, <2>1, <2>2 DEF Signed, Aliased, Redirected, Aliasing, Renaming, Cosmetic
  <2> QED
    BY <2>3 DEF Apart
<1> QED
  BY <1>5, <1>6, <1>7

LEMMA ApartVerify ==
    ASSUME TypeOK, NamesApart, NEW m \in Names, Verify(m)
    PROVE  ApartNext
<1> SUFFICES ASSUME NEW n \in Names \ raced, n \notin raced' PROVE Apart(n)'
  BY DEF ApartNext
<1> USE TypeParts
<1>1. UNCHANGED <<alias, redirect, creating, aliasing, changing>>
  BY DEF Verify
<1>2. verifying[m] # "idle" /\ verifying'[m] = "idle" /\ (n # m => verifying'[n] = verifying[n])
  BY DEF Verify, TypeOfClaims
<1>3. Apart(n)
  BY DEF NamesApart
<1>4. Frees(n) \/ (Waiting(n)' /\ ~Waiting(n))
  BY <1>1, <1>2 DEF Frees, Aliasing, Renaming, Cosmetic
<1>5. CASE UNCHANGED <<login, profile, pending, raced>>
  <2>1. Lets(n)
    BY <1>1, <1>5 DEF Lets, Signed, Aliased, Waiting
  <2> QED
    BY <1>3, <1>4, <2>1, StaysApart DEF Lets
<1>6. ASSUME NEW u \in Users, login[u] = NoName, login' = [login EXCEPT ![u] = m],
             pending' = IF verifying[m] = "gone" THEN pending ELSE [pending EXCEPT ![m] = "none"],
             raced' = RacedAfterClaim(<<"verify", m>>, m)
      PROVE  Apart(n)'
  <2>1. CASE n # m
    <3>1. Signed(n)' => Signed(n)
      BY <1>6, <2>1 DEF Signed, TypeOfTables
    <3>2. pending'[n] = pending[n]
      BY <1>6, <2>1 DEF TypeOfClaims
    <3>3. Lets(n)
      BY <1>1, <3>1, <3>2 DEF Lets, Aliased, Waiting
    <3> QED
      BY <1>3, <1>4, <3>2, <3>3, StaysApart DEF Waiting
  <2>2. CASE n = m
    <3>1. HeldFree(n) = {<<"verify", n>>}
      BY <1>6, <2>2 DEF RacedAfterClaim
    <3>2. /\ ~(creating[n] > 0) /\ (\A v \in Users : ~Aliasing(v, n)) /\ (\A r \in Requests : ~Renaming(r, n))
      BY <3>1, OnlyCall, CallsDiffer
    <3>3. ~Aliased(n) /\ ~Redirected(n)
      BY <1>2, <1>3, <2>2 DEF Apart
    <3>4. ~Waiting(n)'
      BY <1>3, <1>6, <2>2 DEF Waiting, Apart, TypeOfClaims
    <3>5. /\ verifying'[n] = "idle" /\ ~(creating'[n] > 0)
          /\ (\A v \in Users : ~Aliasing(v, n)') /\ (\A r \in Requests : ~Renaming(r, n)')
          /\ ~Aliased(n)' /\ ~Redirected(n)'
      BY <1>1, <1>2, <2>2, <3>2, <3>3 DEF Aliased, Redirected, Aliasing, Renaming, Cosmetic
    <3> QED
      BY <3>4, <3>5 DEF Apart
  <2> QED
    BY <2>1, <2>2
<1> QED
  BY <1>5, <1>6, VerifyIs

LEMMA ApartAliasCheck ==
    ASSUME TypeOK, NamesApart, NEW u \in Users, NEW m \in Names, AliasCheck(u, m)
    PROVE  ApartNext
<1> SUFFICES ASSUME NEW n \in Names \ raced PROVE Apart(n)'
  BY DEF ApartNext
<1>1. UNCHANGED <<login, alias, redirect, pending, creating, verifying, changing>> /\ ~Taken(m)
  BY DEF AliasCheck, tables
<1>2. aliasing'[u].name = m /\ \A v \in Users \ {u} : aliasing'[v] = aliasing[v]
  BY AliasSteps
<1>3. Apart(n)
  BY DEF NamesApart
<1>4. CASE n # m
  <2>1. Lets(n) /\ Frees(n)
    BY <1>1, <1>2, <1>4 DEF Lets, Frees, Signed, Aliased, Waiting, Aliasing, Renaming, Cosmetic
  <2> QED
    BY <1>3, <2>1, StaysApart
<1>5. CASE n = m
  <2>1. ~Signed(n) /\ ~Aliased(n) /\ ~Redirected(n) /\ ~Waiting(n)
    BY <1>1, <1>5 DEF Taken, Signed, Aliased, Redirected, Waiting
  <2>2. /\ ~Signed(n)' /\ ~Aliased(n)' /\ ~Redirected(n)' /\ ~Waiting(n)'
        /\ \A v \in Users : redirect'[v] # n
    BY <1>1, <2>1 DEF Signed, Aliased, Redirected, Waiting
  <2> QED
    BY <2>2 DEF Apart
<1> QED
  BY <1>4, <1>5

LEMMA ApartAliasDelete ==
    ASSUME TypeOK, NamesApart, NEW u \in Users, AliasDelete(u)
    PROVE  ApartNext
<1> SUFFICES ASSUME NEW n \in Names \ raced PROVE Apart(n)'
  BY DEF ApartNext
<1> USE TypeParts
<1>1. /\ UNCHANGED <<login, redirect, pending, creating, verifying, changing>>
      /\ alias' = [alias EXCEPT ![u] = NoName]
  BY DEF AliasDelete
<1>2. /\ aliasing[u] # Idle /\ aliasing'[u].name = aliasing[u].name
      /\ \A v \in Users \ {u} : aliasing'[v] = aliasing[v]
  BY AliasSteps
<1>3. Aliased(n)' => Aliased(n)
  BY <1>1, NoNameIsNone DEF Aliased, TypeOfTables
<1>4. Lets(n)
  BY <1>1, <1>3 DEF Lets, Signed, Waiting
<1>5. Frees(n)
  BY <1>1, <1>2 DEF Frees, Aliasing, Renaming, Cosmetic
<1> QED
  BY <1>4, <1>5, StaysApart DEF NamesApart

LEMMA ApartAliasInsert ==
    ASSUME TypeOK, NamesApart, NEW u \in Users, AliasInsert(u)
    PROVE  ApartNext
<1> SUFFICES ASSUME NEW n \in Names \ raced, n \notin raced' PROVE Apart(n)'
  BY DEF ApartNext
<1> USE TypeParts
<1> DEFINE m == aliasing[u].name
<1>1. UNCHANGED <<login, redirect, pending, creating, verifying, changing>>
  BY DEF AliasInsert
<1>2. /\ aliasing[u] # Idle /\ m \in Names /\ aliasing'[u] = Idle
      /\ \A v \in Users \ {u} : aliasing'[v] = aliasing[v]
  BY AliasSteps
<1>3. Apart(n)
  BY DEF NamesApart
<1>4. \/ UNCHANGED <<alias, raced>>
      \/ alias' = [alias EXCEPT ![u] = m] /\ raced' = RacedAfterClaim(<<"alias", u>>, m)
  BY DEF AliasInsert
<1>5. Frees(n)
  BY <1>1, <1>2 DEF Frees, Aliasing, Renaming, Cosmetic
<1>6. CASE Aliased(n)' => Aliased(n)
  <2>1. Lets(n)
    BY <1>1, <1>6 DEF Lets, Signed, Waiting
  <2> QED
    BY <1>3, <1>5, <2>1, StaysApart
<1>7. CASE Aliased(n)' /\ ~Aliased(n)
  <2>1. n = m /\ HeldFree(n) = {<<"alias", u>>}
    BY <1>4, <1>7 DEF Aliased, TypeOfTables, RacedAfterClaim
  <2>2. /\ ~(creating[n] > 0) /\ verifying[n] = "idle"
        /\ (\A v \in Users \ {u} : ~Aliasing(v, n)) /\ (\A r \in Requests : ~Renaming(r, n))
    <3>1. /\ creating[n] > 0 => <<"alias", u>> = <<"create", n>>
          /\ verifying[n] # "idle" => <<"alias", u>> = <<"verify", n>>
          /\ \A v \in Users : Aliasing(v, n) => <<"alias", u>> = <<"alias", v>>
          /\ \A r \in Requests : Renaming(r, n) => <<"alias", u>> = <<"change", r>>
      BY <2>1, OnlyCall
    <3> QED
      BY <3>1, CallsDiffer
  <2>3. Aliasing(u, n)
    BY <1>2, <2>1 DEF Aliasing
  <2>4. ~Signed(n) /\ ~Redirected(n) /\ ~Waiting(n)
    BY <1>3, <2>3 DEF Apart
  <2>5. /\ ~(creating'[n] > 0) /\ verifying'[n] = "idle" /\ (\A v \in Users : ~Aliasing(v, n)')
        /\ (\A r \in Requests : ~Renaming(r, n)') /\ ~Signed(n)' /\ ~Redirected(n)' /\ ~Waiting(n)'
    BY <1>1, <1>2, <2>2, <2>4 DEF Signed, Redirected, Waiting, Aliasing, Renaming, Cosmetic
  <2> QED
    BY <2>5 DEF Apart
<1> QED
  BY <1>6, <1>7

LEMMA ApartRelease ==
    ASSUME TypeOK, NamesApart, NEW u \in Users, Release(u)
    PROVE  ApartNext
<1> SUFFICES ASSUME NEW n \in Names \ raced PROVE Apart(n)'
  BY DEF ApartNext
<1> USE TypeParts
<1>1. /\ UNCHANGED <<login, alias, pending, creating, verifying, aliasing>>
      /\ redirect' = [redirect EXCEPT ![u] = NoName]
      /\ \A r \in Requests : Resent(r, u)
  BY ReleaseIs
<1>2. Lets(n)
  BY <1>1, NoNameIsNone DEF Lets, Signed, Aliased, Waiting, TypeOfTables
<1>3. \A r \in Requests : Renaming(r, n)' => Renaming(r, n) /\ changing'[r].user = changing[r].user
  BY <1>1, RenamingStays DEF Resent
<1>4. Frees(n)
  BY <1>1, <1>3 DEF Frees, Aliasing
<1> QED
  BY <1>2, <1>4, StaysApart DEF NamesApart

LEMMA ApartChangeBegin ==
    ASSUME TypeOK, NamesApart, NEW r \in Requests, ChangeBegin(r)
    PROVE  ApartNext
<1> SUFFICES ASSUME NEW n \in Names \ raced PROVE Apart(n)'
  BY DEF ApartNext
<1> USE TypeParts
<1> DEFINE c == changing[r]
<1>1. UNCHANGED <<login, alias, redirect, pending, creating, verifying, aliasing>>
  BY BeginIs DEF tables
<1>2. /\ OthersStay(r) /\ Going(r) /\ c.stage = "read"
      /\ \/ changing'[r] = Idle
         \/ Allowed(c) /\ Same(r) /\ changing'[r].stage = "open"
  BY BeginIs
<1>3. Apart(n)
  BY DEF NamesApart
<1>4. \A q \in Requests \ {r} : Renaming(q, n)' => Renaming(q, n) /\ changing'[q].user = changing[q].user
  BY <1>2, RenamingStays DEF OthersStay
<1>5. Lets(n)
  BY <1>1 DEF Lets, Signed, Aliased, Waiting
<1>6. CASE ~Renaming(r, n)'
  <2>1. Frees(n)
    BY <1>1, <1>4, <1>6 DEF Frees, Aliasing
  <2> QED
    BY <1>3, <1>5, <2>1, StaysApart
<1>7. CASE Renaming(r, n)'
  <2>1. Allowed(c) /\ Same(r) /\ ~Cosmetic(c) /\ Sysname(c.to) = n
    BY <1>2, <1>7, IdleStage DEF Renaming, Cosmetic, Same
  <2>2. ~Conflict(c.user, n) /\ login[c.user] # n /\ c.user \in Users
    BY <1>2, <2>1, Types DEF Allowed, Cosmetic
  <2>3. /\ ~Signed(n) /\ ~Aliased(n) /\ ~Waiting(n)
        /\ \A v \in Users \ {c.user} : redirect[v] # n
    BY <2>2 DEF Conflict, Signed, Aliased, Waiting
  <2>4. creating[n] > 0 \/ verifying[n] # "idle" => ~Redirected(n)
    BY <1>3 DEF Apart
  <2>5. \A u \in Users : Aliasing(u, n) => ~Redirected(n)
    BY <1>3 DEF Apart
  <2>6. /\ ~Signed(n)' /\ ~Aliased(n)' /\ ~Waiting(n)'
        /\ \A v \in Users \ {changing'[r].user} : redirect'[v] # n
        /\ creating'[n] > 0 \/ verifying'[n] # "idle" => ~Redirected(n)'
        /\ \A u \in Users : Aliasing(u, n)' => ~Redirected(n)'
    BY <1>1, <2>1, <2>3, <2>4, <2>5 DEF Signed, Aliased, Redirected, Waiting, Aliasing, Same
  <2>7. ASSUME NEW q \in Requests, Renaming(q, n)'
        PROVE  \A v \in Users \ {changing'[q].user} : redirect'[v] # n
    <3>1. CASE q = r
      BY <2>6, <3>1
    <3>2. CASE q # r
      <4>1. Renaming(q, n) /\ changing'[q].user = changing[q].user
        BY <1>4, <2>7, <3>2
      <4> QED
        BY <1>1, <1>3, <4>1 DEF Apart
    <3> QED
      BY <3>1, <3>2
  <2> QED
    BY <2>6, <2>7 DEF Apart
<1> QED
  BY <1>6, <1>7

LEMMA ApartChangeCommit ==
    ASSUME TypeOK, OpenHasAccount, Unique, NamesApart, OpenIsCurrent, NEW r \in Requests, ChangeCommit(r)
    PROVE  ApartNext
<1> SUFFICES ASSUME NEW n \in Names \ raced, n \notin raced' PROVE Apart(n)'
  BY DEF ApartNext
<1> USE TypeParts
<1> DEFINE c == changing[r]
           u == c.user
<1>1. UNCHANGED <<alias, pending, creating, verifying, aliasing>>
  BY CommitIs
<1>2. c.stage = "open" /\ (CommitFails(r) \/ Restyles(r) \/ Renames(r))
  BY CommitIs
<1>3. u \in Users /\ c.from \in Displays /\ c.to \in Displays /\ login[u] # NoName
  BY CommitIs, Types DEF OpenHasAccount
<1>4. Apart(n)
  BY DEF NamesApart
<1>5. changing'[r].stage # "open"
  BY <1>2, IdleStage DEF CommitFails, Restyles, Renames, Committed
<1>6. \A q \in Requests : Renaming(q, n)' => q # r /\ Renaming(q, n) /\ changing'[q].user = changing[q].user
  <2>1. ASSUME NEW q \in Requests \ {r}
        PROVE  changing'[q] = changing[q] \/ changing'[q].stage # "open"
    BY <1>2 DEF CommitFails, OthersStay, Restyles, Renames, Committed, Resent
  <2>2. ~Renaming(r, n)'
    BY <1>5 DEF Renaming
  <2> QED
    BY <2>1, <2>2, RenamingStays
<1>7. Frees(n)
  BY <1>1, <1>6 DEF Frees, Aliasing
<1>8. CASE CommitFails(r) \/ Restyles(r)
  <2>1. UNCHANGED <<login, redirect>>
    BY <1>8 DEF CommitFails, Restyles
  <2>2. Lets(n)
    BY <1>1, <2>1 DEF Lets, Signed, Aliased, Waiting
  <2> QED
    BY <1>4, <1>7, <2>2, StaysApart
<1>9. CASE Renames(r)
  <2> DEFINE m == Sysname(c.to)
             f == Sysname(c.from)
  <2>1. /\ redirect' = [redirect EXCEPT ![u] = f] /\ login' = [login EXCEPT ![u] = m]
        /\ raced' = RacedAfterClaim(<<"change", r>>, m) /\ ~Cosmetic(c)
    BY <1>9 DEF Renames, Renamed
  <2>2. m # f /\ login[u] = f
    BY <1>2, <2>1 DEF Cosmetic, OpenIsCurrent
  <2> HIDE DEF m, f
  <2>3. /\ login'[u] = m /\ redirect'[u] = f
        /\ \A v \in Users \ {u} : login'[v] = login[v] /\ redirect'[v] = redirect[v]
    BY <1>3, <2>1 DEF TypeOfTables
  <2>4. CASE n = m
    <3>1. HeldFree(n) = {<<"change", r>>}
      BY <2>1, <2>4 DEF RacedAfterClaim
    <3>2. /\ creating[n] > 0 => <<"change", r>> = <<"create", n>>
          /\ verifying[n] # "idle" => <<"change", r>> = <<"verify", n>>
          /\ \A v \in Users : Aliasing(v, n) => <<"change", r>> = <<"alias", v>>
          /\ \A q \in Requests : Renaming(q, n) => <<"change", r>> = <<"change", q>>
      BY <3>1, OnlyCall
    <3>3. /\ ~(creating[n] > 0) /\ verifying[n] = "idle" /\ (\A v \in Users : ~Aliasing(v, n))
          /\ \A q \in Requests : Renaming(q, n) => q = r
      BY <3>2, CallsDiffer
    <3>4. Renaming(r, n)
      BY <1>2, <2>1, <2>4 DEF Renaming, m
    <3>5. ~Aliased(n) /\ ~Waiting(n) /\ \A v \in Users \ {u} : redirect[v] # n
      BY <1>4, <3>4 DEF Apart
    <3>6. ~Aliased(n)' /\ ~Waiting(n)' /\ ~Redirected(n)'
      BY <1>1, <1>3, <2>2, <2>3, <2>4, <3>5 DEF Aliased, Waiting, Redirected
    <3>7. /\ ~(creating'[n] > 0) /\ verifying'[n] = "idle" /\ (\A v \in Users : ~Aliasing(v, n)')
          /\ (\A q \in Requests : ~Renaming(q, n)')
      BY <1>1, <1>6, <3>3 DEF Aliasing
    <3> QED
      BY <3>6, <3>7 DEF Apart
  <2>5. CASE n = f
    <3>1. Signed(n)
      BY <1>3, <2>2, <2>5 DEF Signed
    <3>2. /\ ~Aliased(n) /\ ~Waiting(n)
          /\ ~(creating[n] > 0) /\ verifying[n] = "idle" /\ (\A v \in Users : ~Aliasing(v, n))
          /\ \A q \in Requests : ~Renaming(q, n)
      BY <1>4, <3>1 DEF Apart
    <3>3. ~Signed(n)'
      BY <1>3, <2>2, <2>3, <2>5 DEF Signed, Unique
    <3>4. ~Aliased(n)' /\ ~Waiting(n)'
      BY <1>1, <3>2 DEF Aliased, Waiting
    <3>5. /\ ~(creating'[n] > 0) /\ verifying'[n] = "idle" /\ (\A v \in Users : ~Aliasing(v, n)')
          /\ (\A q \in Requests : ~Renaming(q, n)')
      BY <1>1, <1>6, <3>2 DEF Aliasing
    <3> QED
      BY <3>3, <3>4, <3>5 DEF Apart
  <2>6. CASE n # m /\ n # f
    <3>1. Lets(n)
      BY <1>1, <1>3, <2>3, <2>6 DEF Lets, Signed, Aliased, Waiting
    <3> QED
      BY <1>4, <1>7, <3>1, StaysApart
  <2> QED
    BY <2>4, <2>5, <2>6
<1> QED
  BY <1>2, <1>8, <1>9

LEMMA ApartElse ==
    ASSUME TypeOK, NamesApart,
           UNCHANGED <<login, alias, redirect, pending, creating, aliasing>>,
           \/ UNCHANGED <<verifying, changing>>
           \/ \E m \in Names : VerifyRead(m)
           \/ \E r \in Requests : changing'[r].stage # "open" /\ OthersStay(r) /\ UNCHANGED verifying
    PROVE  ApartNext
<1> SUFFICES ASSUME NEW n \in Names \ raced PROVE Apart(n)'
  BY DEF ApartNext
<1> USE TypeParts
<1>1. Apart(n)
  BY DEF NamesApart
<1>2. Lets(n)
  BY DEF Lets, Signed, Aliased, Waiting
<1>3. CASE UNCHANGED <<verifying, changing>>
  <2>1. Frees(n)
    BY <1>3 DEF Frees, Aliasing, Renaming, Cosmetic
  <2> QED
    BY <1>1, <1>2, <2>1, StaysApart
<1>4. ASSUME NEW r \in Requests, changing'[r].stage # "open", OthersStay(r), UNCHANGED verifying
      PROVE  Apart(n)'
  <2>1. \A q \in Requests : Renaming(q, n)' => Renaming(q, n) /\ changing'[q].user = changing[q].user
    BY <1>4, RenamingStays DEF OthersStay
  <2>2. Frees(n)
    BY <1>4, <2>1 DEF Frees, Aliasing
  <2> QED
    BY <1>1, <1>2, <2>2, StaysApart
<1>5. ASSUME NEW m \in Names, VerifyRead(m) PROVE Apart(n)'
  <2>1. UNCHANGED changing /\ verifying' = [verifying EXCEPT ![m] = "read"] /\ Waiting(m)
    BY <1>5 DEF VerifyRead, Waiting
  <2>2. CASE n # m
    <3>1. Frees(n)
      BY <2>1, <2>2 DEF Frees, Aliasing, Renaming, Cosmetic, TypeOfClaims
    <3> QED
      BY <1>1, <1>2, <3>1, StaysApart
  <2>3. CASE n = m
    <3>1. /\ ~Signed(n) /\ ~Aliased(n) /\ ~Redirected(n)
          /\ \A q \in Users : ~Aliasing(q, n)
          /\ \A q \in Requests : ~Renaming(q, n)
      BY <1>1, <2>1, <2>3 DEF Apart
    <3>2. /\ ~Signed(n)' /\ ~Aliased(n)' /\ ~Redirected(n)' /\ verifying'[n] = "read"
          /\ \A q \in Users : ~Aliasing(q, n)'
          /\ \A q \in Requests : ~Renaming(q, n)'
      BY <2>1, <2>3, <3>1 DEF Signed, Aliased, Redirected, Aliasing, Renaming, Cosmetic, TypeOfClaims
    <3> QED
      BY <3>2 DEF Apart
  <2> QED
    BY <2>2, <2>3
<1> QED
  BY <1>3, <1>4, <1>5

LEMMA NamesApartNext ==
    ASSUME TypeOK, OpenHasAccount, Unique, NamesApart, OpenIsCurrent, [Next]_vars
    PROVE  NamesApart'
<1>1. raced \subseteq raced'
  <2>1. ASSUME NEW n \in Names, Verify(n) PROVE raced \subseteq raced'
    <3>1. raced' = raced \/ raced' = RacedAfterClaim(<<"verify", n>>, n)
      BY <2>1 DEF Verify
    <3> QED
      BY <3>1, RacedGrows
  <2>2. ASSUME NEW n \in Names, CreateInsert(n) PROVE raced \subseteq raced'
    <3>1. raced' = raced \/ raced' = RacedAfterClaim(<<"create", n>>, n)
      BY <2>2 DEF CreateInsert
    <3> QED
      BY <3>1, RacedGrows
  <2>3. ASSUME NEW u \in Users, AliasInsert(u) PROVE raced \subseteq raced'
    BY <2>3, RacedGrows DEF AliasInsert
  <2>4. ASSUME NEW r \in Requests, ChangeCommit(r) PROVE raced \subseteq raced'
    BY <2>4, CommitIs, RacedGrows DEF CommitFails, Restyles, Renames
  <2>5. CASE UNCHANGED raced
    BY <2>5
  <2> QED
    BY <2>1, <2>2, <2>3, <2>4, <2>5
    DEF Next, PurgePending, CreateCheck, VerifyRead, AliasCheck, AliasDelete, Release, MonthPasses, DisplayQuery,
        DisplayCache, ChangeRead, ChangeBegin, ChangeInvalidate, history, vars
<1>2. ASSUME NEW u \in Users, MonthPasses(u) \/ DisplayQuery(u) \/ DisplayCache(u) PROVE ApartNext
  BY <1>2, ApartElse DEF MonthPasses, DisplayQuery, DisplayCache, tables, calls
<1>3. ASSUME NEW m \in Names, VerifyRead(m) PROVE ApartNext
  BY <1>3, ApartElse DEF VerifyRead, tables
<1>4. ASSUME NEW r \in Requests, NEW u \in Users, NEW to \in Displays, NEW bypass \in BOOLEAN,
             ChangeRead(r, u, to, bypass)
      PROVE  ApartNext
  <2>1. /\ changing'[r].stage # "open" /\ OthersStay(r)
        /\ UNCHANGED <<login, alias, redirect, pending, creating, verifying, aliasing>>
    BY <1>4, ReadIs DEF tables
  <2> QED
    BY <2>1, ApartElse
<1>5. ASSUME NEW r \in Requests, ChangeInvalidate(r) PROVE ApartNext
  <2>1. /\ changing'[r].stage # "open" /\ OthersStay(r)
        /\ UNCHANGED <<login, alias, redirect, pending, creating, verifying, aliasing>>
    BY <1>5, InvalidateIs, IdleStage DEF tables
  <2> QED
    BY <2>1, ApartElse
<1>6. ASSUME UNCHANGED vars PROVE ApartNext
  <2>1. /\ UNCHANGED <<login, alias, redirect, pending, creating, aliasing>>
        /\ UNCHANGED <<verifying, changing>>
    BY <1>6 DEF vars, tables, calls
  <2> QED
    BY <2>1, ApartElse
<1>7. ASSUME NEW n \in Names, PurgePending(n) \/ CreateCheck(n) \/ CreateInsert(n) \/ Verify(n) PROVE ApartNext
  BY <1>7, ApartPurge, ApartCreateCheck, ApartCreateInsert, ApartVerify
<1>8. ASSUME NEW u \in Users, (\E n \in Names : AliasCheck(u, n)) \/ AliasDelete(u) \/ AliasInsert(u) \/ Release(u)
      PROVE  ApartNext
  BY <1>8, ApartAliasCheck, ApartAliasDelete, ApartAliasInsert, ApartRelease
<1>9. ASSUME NEW r \in Requests, ChangeBegin(r) \/ ChangeCommit(r) PROVE ApartNext
  BY <1>9, ApartChangeBegin, ApartChangeCommit
<1>10. ApartNext
  BY <1>2, <1>3, <1>4, <1>5, <1>6, <1>7, <1>8, <1>9 DEF Next
<1> QED
  BY <1>1, <1>10 DEF ApartNext, NamesApart

-----------------------------------------------------------------------------
\* Names that are known.
KnownNext == \A u \in Users \ crossed : u \notin crossed' => KnownAs(u)'

LEMMA ProgressIs ==
    ASSUME TypeOK, NEW u \in Users, KnownAs(u), NEW q \in Requests, NEW r \in Requests,
           Going(q), Going(r), changing[q].user = u, changing[r].user = u
    PROVE  q = r
  BY InProgressIs DEF KnownAs

LEMMA ProgressNext ==
    ASSUME TypeOK', NEW u \in Users
    PROVE  InProgress(u)' = {r \in Requests : Going(r)' /\ changing'[r].user = u}
<1>1. \A r \in Requests : changing'[r] \in {Idle} \cup Change
  BY TypePartsNext DEF TypeOfChanges
<1>2. \A c \in Change : c.stage # "idle"
  BY DEF Change
<1> QED
  BY <1>1, <1>2, IdleStage DEF InProgress, Going

\* What a step leaves of what is known of u's name.
Untouched(u) ==
    /\ login'[u] = login[u] /\ profile'[u] = profile[u]
    /\ displayed'[u] = displayed[u] /\ filling'[u] = filling[u]

LEMMA StaysKnown ==
    ASSUME TypeOK, TypeOK', NEW u \in Users, KnownAs(u), Untouched(u),
           \A q \in Requests :
               \/ changing'[q] = changing[q]
               \/ Same(q) /\ changing[q].stage \in {"read", "open"} /\ changing'[q].stage \in {"read", "open"}
               \/ ~(Going(q) /\ changing[q].user = u) /\ ~(Going(q)' /\ changing'[q].user = u)
               \/ ~Going(q)' /\ changing[q].stage # "committed"
    PROVE  KnownAs(u)'
<1>1. ASSUME NEW q \in Requests, changing'[q].stage \in {"read", "open"}, changing'[q].user = u
      PROVE  Sysname(changing'[q].from) = login'[u]
  BY <1>1 DEF Untouched, KnownAs, Same, Going
<1>2. ASSUME NEW q \in Requests, changing[q].stage = "committed", changing[q].user = u
      PROVE  changing'[q].stage = "committed" /\ changing'[q].user = u
  BY <1>2 DEF Same, Going
<1>3. ASSUME NEW q \in Requests, Going(q)', changing'[q].user = u
      PROVE  Going(q) /\ changing[q].user = u
  BY <1>3 DEF Same, Going
<1>4. ASSUME NEW q \in InProgress(u)', NEW r \in InProgress(u)'
      PROVE  q = r
  <2>1. /\ q \in Requests /\ Going(q)' /\ changing'[q].user = u
        /\ r \in Requests /\ Going(r)' /\ changing'[r].user = u
    BY <1>4, ProgressNext
  <2> QED
    BY <2>1, <1>3, ProgressIs
<1>5. /\ login'[u] # NoName => Sysname(profile'[u]) = login'[u]
      /\ filling'[u] # NoDisplay => Sysname(filling'[u]) = login'[u]
  BY DEF Untouched, KnownAs
<1>6. displayed'[u] # NoDisplay =>
           \/ Sysname(displayed'[u]) = login'[u]
           \/ \E r \in Requests : changing'[r].stage = "committed" /\ changing'[r].user = u
  BY <1>2 DEF Untouched, KnownAs
<1> QED
  BY <1>1, <1>4, <1>5, <1>6 DEF KnownAs

LEMMA KnownRead ==
    ASSUME TypeOK, TypeOK', NamesKnown, NEW r \in Requests, NEW v \in Users, NEW to \in Displays,
           NEW bypass \in BOOLEAN, ChangeRead(r, v, to, bypass)
    PROVE  KnownNext
<1> SUFFICES ASSUME NEW u \in Users \ crossed, u \notin crossed' PROVE KnownAs(u)'
  BY DEF KnownNext
<1> USE TypeParts, TypePartsNext
<1>1. /\ OthersStay(r) /\ ~Going(r) /\ changing'[r].stage = "read"
      /\ changing'[r].user = v /\ changing'[r].from = Known(v)
      /\ login[v] # NoName /\ Known(v) \in Displays
      /\ displayed' = [displayed EXCEPT ![v] = Known(v)]
      /\ crossed' = crossed \cup IF InProgress(v) = {} THEN {} ELSE {v}
      /\ UNCHANGED <<login, profile, filling>>
  BY ReadIs DEF tables
<1>2. KnownAs(u)
  BY DEF NamesKnown
<1>3. CASE u # v
  <2>1. Untouched(u)
    BY <1>1, <1>3 DEF Untouched, TypeOfChanges
  <2>2. \A q \in Requests : \/ changing'[q] = changing[q]
                            \/ ~(Going(q) /\ changing[q].user = u) /\ ~(Going(q)' /\ changing'[q].user = u)
    BY <1>1, <1>3 DEF OthersStay
  <2> QED
    BY <1>2, <2>1, <2>2, StaysKnown
<1>4. CASE u = v
  <2>1. InProgress(u) = {}
    BY <1>1, <1>4
  <2>2. \A q \in Requests : ~(Going(q) /\ changing[q].user = u)
    BY <2>1, InProgressIs
  <2>3. Sysname(Known(u)) = login[u]
    <3>1. CASE displayed[u] = NoDisplay
      BY <1>1, <1>2, <1>4, <3>1 DEF Known, KnownAs
    <3>2. CASE displayed[u] # NoDisplay
      BY <1>2, <2>2, <3>2 DEF Known, KnownAs, Going
    <3> QED
      BY <3>1, <3>2
  <2>4. \A q \in Requests : Going(q)' /\ changing'[q].user = u => q = r
    BY <1>1, <2>2 DEF OthersStay, Going
  <2>5. \A q \in Requests : changing'[q].stage \in {"read", "open"} /\ changing'[q].user = u => q = r
    BY <2>4 DEF Going
  <2>6. \A p, q \in InProgress(u)' : p = q
    BY <2>4, ProgressNext
  <2>7. displayed'[u] = Known(u)
    BY <1>1, <1>4 DEF TypeOfChanges
  <2>8. /\ login'[u] # NoName => Sysname(profile'[u]) = login'[u]
        /\ filling'[u] # NoDisplay => Sysname(filling'[u]) = login'[u]
    BY <1>1, <1>2 DEF KnownAs
  <2>9. \A q \in Requests :
           changing'[q].stage \in {"read", "open"} /\ changing'[q].user = u => Sysname(changing'[q].from) = login'[u]
    BY <1>1, <1>4, <2>3, <2>5
  <2> QED
    BY <1>1, <1>4, <2>3, <2>6, <2>7, <2>8, <2>9 DEF KnownAs
<1> QED
  BY <1>3, <1>4

LEMMA KnownInvalidate ==
    ASSUME TypeOK, TypeOK', NamesKnown, NEW r \in Requests, ChangeInvalidate(r)
    PROVE  KnownNext
<1> SUFFICES ASSUME NEW u \in Users \ crossed PROVE KnownAs(u)'
  BY DEF KnownNext
<1> USE TypeParts, TypePartsNext
<1>1. /\ OthersStay(r) /\ Going(r) /\ changing'[r] = Idle
      /\ displayed' = [displayed EXCEPT ![changing[r].user] = NoDisplay]
      /\ UNCHANGED <<login, profile, filling>>
  BY InvalidateIs DEF tables
<1>2. KnownAs(u)
  BY DEF NamesKnown
<1>3. ~Going(r)'
  BY <1>1, IdleStage DEF Going
<1>4. CASE u # changing[r].user
  <2>1. Untouched(u)
    BY <1>1, <1>4 DEF Untouched, TypeOfChanges
  <2>2. \A q \in Requests : \/ changing'[q] = changing[q]
                            \/ ~(Going(q) /\ changing[q].user = u) /\ ~(Going(q)' /\ changing'[q].user = u)
    BY <1>1, <1>3, <1>4 DEF OthersStay
  <2> QED
    BY <1>2, <2>1, <2>2, StaysKnown
<1>5. CASE u = changing[r].user
  <2>1. \A q \in Requests : Going(q) /\ changing[q].user = u => q = r
    BY <1>1, <1>2, <1>5, ProgressIs
  <2>2. \A q \in Requests : ~(Going(q)' /\ changing'[q].user = u)
    BY <1>1, <1>3, <2>1 DEF OthersStay, Going
  <2>3. \A q \in Requests : ~(changing'[q].stage \in {"read", "open"} /\ changing'[q].user = u)
    BY <2>2 DEF Going
  <2>4. displayed'[u] = NoDisplay
    BY <1>1, <1>5 DEF TypeOfChanges
  <2>5. /\ login'[u] # NoName => Sysname(profile'[u]) = login'[u]
        /\ filling'[u] # NoDisplay => Sysname(filling'[u]) = login'[u]
    BY <1>1, <1>2 DEF KnownAs
  <2>6. InProgress(u)' = {}
    BY <2>2, ProgressNext
  <2> QED
    BY <2>3, <2>4, <2>5, <2>6 DEF KnownAs
<1> QED
  BY <1>4, <1>5

LEMMA KnownCommit ==
    ASSUME TypeOK, TypeOK', OpenHasAccount, NamesKnown, NEW r \in Requests, ChangeCommit(r)
    PROVE  KnownNext
<1> SUFFICES ASSUME NEW u \in Users \ crossed, u \notin crossed' PROVE KnownAs(u)'
  BY DEF KnownNext
<1> USE TypeParts, TypePartsNext
<1> DEFINE c == changing[r]
<1>1. /\ Going(r) /\ c.stage = "open" /\ UNCHANGED <<displayed, filling>>
      /\ CommitFails(r) \/ Restyles(r) \/ Renames(r)
  BY CommitIs DEF cache
<1>2. KnownAs(u)
  BY DEF NamesKnown
<1>3. c.user \in Users /\ c.from \in Displays /\ c.to \in Displays /\ login[c.user] # NoName
  BY <1>1, Types DEF OpenHasAccount
<1>4. CASE CommitFails(r)
  <2>1. Untouched(u)
    BY <1>1, <1>4 DEF Untouched, CommitFails
  <2>2. \A q \in Requests : changing'[q] = changing[q] \/ (~Going(q)' /\ changing[q].stage # "committed")
    BY <1>1, <1>4, IdleStage DEF CommitFails, OthersStay, Going
  <2> QED
    BY <1>2, <2>1, <2>2, StaysKnown
<1>5. CASE Committed(r) /\ u # c.user /\ login'[u] = login[u] /\ profile'[u] = profile[u]
  <2>1. Untouched(u)
    BY <1>1, <1>5 DEF Untouched
  <2>2. ASSUME NEW q \in Requests
        PROVE  \/ changing'[q] = changing[q]
               \/ Same(q) /\ changing[q].stage \in {"read", "open"} /\ changing'[q].stage \in {"read", "open"}
               \/ ~(Going(q) /\ changing[q].user = u) /\ ~(Going(q)' /\ changing'[q].user = u)
    <3>1. CASE q = r
      BY <1>5, <3>1 DEF Committed, Same
    <3>2. CASE q # r
      BY <1>5, <3>2 DEF Committed, Resent
    <3> QED
      BY <3>1, <3>2
  <2> QED
    BY <1>2, <2>1, <2>2, StaysKnown
<1>6. CASE Committed(r) /\ u = c.user /\ Sysname(profile'[u]) = login'[u]
  <2>1. filling[u] = NoDisplay
    BY <1>6 DEF Committed
  <2>2. \A q \in Requests : Going(q) /\ changing[q].user = u => q = r
    BY <1>1, <1>2, <1>6, ProgressIs
  <2>3. changing'[r].stage = "committed" /\ changing'[r].user = u
    BY <1>6 DEF Committed, Same
  <2>4. ASSUME NEW q \in Requests \ {r} PROVE ~(Going(q)' /\ changing'[q].user = u)
    BY <1>6, <2>2 DEF Committed, Resent, Same, Going
  <2>5. \A q \in Requests : ~(changing'[q].stage \in {"read", "open"} /\ changing'[q].user = u)
    BY <2>3, <2>4 DEF Going
  <2>6. \A p, q \in InProgress(u)' : p = q
    BY <2>4, ProgressNext
  <2>7. filling'[u] = NoDisplay
    BY <1>1, <2>1
  <2> QED
    BY <1>6, <2>3, <2>5, <2>6, <2>7 DEF KnownAs
<1>7. CASE Restyles(r)
  <2>1. /\ Committed(r) /\ Cosmetic(c) /\ profile' = [profile EXCEPT ![c.user] = c.to]
        /\ UNCHANGED login
    BY <1>7 DEF Restyles
  <2>2. u # c.user => login'[u] = login[u] /\ profile'[u] = profile[u]
    BY <2>1 DEF TypeOfTables
  <2>3. u = c.user => Sysname(profile'[u]) = login'[u]
    BY <1>1, <1>2, <1>3, <2>1 DEF TypeOfTables, KnownAs, Cosmetic
  <2> QED
    BY <1>5, <1>6, <2>1, <2>2, <2>3
<1>8. CASE Renames(r)
  <2>1. /\ Committed(r)
        /\ login' = [login EXCEPT ![c.user] = Sysname(c.to)]
        /\ profile' = [profile EXCEPT ![c.user] = c.to]
    BY <1>8 DEF Renames, Renamed
  <2>2. u # c.user => login'[u] = login[u] /\ profile'[u] = profile[u]
    BY <2>1 DEF TypeOfTables
  <2>3. u = c.user => Sysname(profile'[u]) = login'[u]
    BY <1>3, <2>1 DEF TypeOfTables
  <2> QED
    BY <1>5, <1>6, <2>1, <2>2, <2>3
<1> QED
  BY <1>1, <1>4, <1>7, <1>8

LEMMA NamesKnownNext ==
    ASSUME TypeOK, TypeOK', OpenHasAccount, AccountsOnly, NamesKnown, [Next]_vars
    PROVE  NamesKnown'
<1> USE TypeParts, TypePartsNext
<1>1. crossed \subseteq crossed'
  <2>1. ASSUME NEW r \in Requests, ChangeCommit(r) PROVE crossed \subseteq crossed'
    BY <2>1, CommitIs DEF CommitFails, Restyles, Renames, Committed
  <2>2. ASSUME NEW r \in Requests, NEW u \in Users, NEW to \in Displays, NEW bypass \in BOOLEAN,
               ChangeRead(r, u, to, bypass)
        PROVE  crossed \subseteq crossed'
    BY <2>2, ReadIs
  <2>3. CASE UNCHANGED crossed
    BY <2>3
  <2> QED
    BY <2>1, <2>2, <2>3
    DEF Next, PurgePending, CreateCheck, CreateInsert, Verify, VerifyRead, AliasCheck, AliasDelete, AliasInsert,
        Release, MonthPasses, DisplayQuery, DisplayCache, ChangeBegin, ChangeInvalidate, history, vars
<1>2. ASSUME UNCHANGED <<login, profile, displayed, filling>>,
             \/ UNCHANGED changing
             \/ \E r \in Requests : ChangeBegin(r)
             \/ \E u \in Users : Release(u)
      PROVE  KnownNext
  <2> SUFFICES ASSUME NEW u \in Users \ crossed PROVE KnownAs(u)'
    BY DEF KnownNext
  <2>1. KnownAs(u) /\ Untouched(u)
    BY <1>2 DEF NamesKnown, Untouched
  <2>2. CASE UNCHANGED changing
    BY <2>1, <2>2, StaysKnown
  <2>3. ASSUME NEW r \in Requests, ChangeBegin(r) PROVE KnownAs(u)'
    <3>1. \/ ~Going(r)' /\ changing[r].stage # "committed"
          \/ Same(r) /\ changing[r].stage = "read" /\ changing'[r].stage = "open"
      BY <2>3, BeginIs, IdleStage DEF Going
    <3>2. OthersStay(r)
      BY <2>3, BeginIs
    <3> QED
      BY <2>1, <3>1, <3>2, StaysKnown DEF OthersStay
  <2>4. ASSUME NEW v \in Users, Release(v) PROVE KnownAs(u)'
    <3>1. \A q \in Requests :
             \/ changing'[q] = changing[q]
             \/ Same(q) /\ changing[q].stage = "open" /\ changing'[q].stage = "read"
      BY <2>4, ReleaseIs DEF Resent
    <3> QED
      BY <2>1, <3>1, StaysKnown
  <2> QED
    BY <1>2, <2>2, <2>3, <2>4
<1>3. ASSUME NEW n \in Names, Verify(n) PROVE KnownNext
  <2>1. UNCHANGED <<displayed, filling, changing>>
    BY <1>3 DEF Verify, cache
  <2>2. CASE UNCHANGED <<login, profile>>
    BY <1>2, <2>1, <2>2
  <2>3. ASSUME NEW v \in Users, NEW s \in Styles, login[v] = NoName,
               login' = [login EXCEPT ![v] = n], profile' = [profile EXCEPT ![v] = <<n, s>>],
               NEW u \in Users \ crossed
        PROVE  KnownAs(u)'
    <3>1. KnownAs(u)
      BY DEF NamesKnown
    <3>2. CASE u # v
      <4>1. Untouched(u)
        BY <2>1, <2>3, <3>2 DEF Untouched, TypeOfTables
      <4> QED
        BY <2>1, <3>1, <4>1, StaysKnown
    <3>3. CASE u = v
      <4>1. displayed[u] = NoDisplay /\ filling[u] = NoDisplay /\ InProgress(u) = {}
        BY <2>3, <3>3 DEF AccountsOnly
      <4>2. \A q \in Requests : ~(Going(q) /\ changing[q].user = u)
        BY <4>1, InProgressIs
      <4>3. displayed'[u] = NoDisplay /\ filling'[u] = NoDisplay
        BY <2>1, <4>1
      <4>4. \A q \in Requests : ~(Going(q)' /\ changing'[q].user = u)
        BY <2>1, <4>2 DEF Going
      <4>5. \A q \in Requests : ~(changing'[q].stage \in {"read", "open"} /\ changing'[q].user = u)
        BY <4>4 DEF Going
      <4>6. InProgress(u)' = {}
        BY <4>4, ProgressNext
      <4>7. Sysname(profile'[u]) = login'[u]
        BY <2>3, <3>3 DEF TypeOfTables, Sysname
      <4> QED
        BY <4>3, <4>5, <4>6, <4>7 DEF KnownAs
    <3> QED
      BY <3>2, <3>3
  <2>4. ASSUME NEW v \in Users, NEW s \in Styles, login[v] = NoName,
               login' = [login EXCEPT ![v] = n], profile' = [profile EXCEPT ![v] = <<n, s>>]
        PROVE  KnownNext
    BY <2>3, <2>4 DEF KnownNext
  <2>5. \/ UNCHANGED <<login, profile>>
        \/ \E v \in Users, s \in Styles :
              /\ login[v] = NoName
              /\ login' = [login EXCEPT ![v] = n] /\ profile' = [profile EXCEPT ![v] = <<n, s>>]
    BY <1>3 DEF Verify
  <2> QED
    BY <2>2, <2>4, <2>5
<1>4. ASSUME NEW v \in Users, DisplayQuery(v) PROVE KnownNext
  <2> SUFFICES ASSUME NEW u \in Users \ crossed PROVE KnownAs(u)'
    BY DEF KnownNext
  <2>1. /\ login[v] # NoName /\ filling' = [filling EXCEPT ![v] = profile[v]]
        /\ UNCHANGED <<login, profile, displayed, changing>>
    BY <1>4 DEF DisplayQuery, tables, calls
  <2>2. KnownAs(u)
    BY DEF NamesKnown
  <2>3. /\ login'[u] # NoName => Sysname(profile'[u]) = login'[u]
        /\ filling'[u] # NoDisplay => Sysname(filling'[u]) = login'[u]
    BY <2>1, <2>2 DEF KnownAs, TypeOfChanges
  <2>4. InProgress(u)' = InProgress(u)
    BY <2>1 DEF InProgress
  <2> QED
    BY <2>1, <2>2, <2>3, <2>4 DEF KnownAs
<1>5. ASSUME NEW v \in Users, DisplayCache(v) PROVE KnownNext
  <2> SUFFICES ASSUME NEW u \in Users \ crossed PROVE KnownAs(u)'
    BY DEF KnownNext
  <2>1. /\ filling[v] # NoDisplay
        /\ displayed' = [displayed EXCEPT ![v] = filling[v]] /\ filling' = [filling EXCEPT ![v] = NoDisplay]
        /\ UNCHANGED <<login, profile, changing>>
    BY <1>5 DEF DisplayCache, tables, calls
  <2>2. KnownAs(u)
    BY DEF NamesKnown
  <2>3. /\ filling'[u] # NoDisplay => Sysname(filling'[u]) = login'[u]
        /\ displayed'[u] = displayed[u] \/ Sysname(displayed'[u]) = login'[u]
    BY <2>1, <2>2 DEF KnownAs, TypeOfChanges
  <2>4. InProgress(u)' = InProgress(u)
    BY <2>1 DEF InProgress
  <2> QED
    BY <2>1, <2>2, <2>3, <2>4 DEF KnownAs
<1>6. KnownNext
  BY <1>2, <1>3, <1>4, <1>5, KnownRead, KnownInvalidate, KnownCommit
  DEF Next, PurgePending, CreateCheck, CreateInsert, VerifyRead, AliasCheck, AliasDelete, AliasInsert,
      Release, MonthPasses, ChangeBegin, tables, calls, cache, vars
<1> QED
  BY <1>1, <1>6 DEF KnownNext, NamesKnown

-----------------------------------------------------------------------------
\* The inductive invariant.
LEMMA InitInv == Init => IInv
<1> SUFFICES ASSUME Init PROVE IInv
  OBVIOUS
<1>1. TypeOK
  BY TypeInit
<1>2. Unique /\ OpenIsCurrent
  BY IdleStage DEF Init, Unique, OpenIsCurrent
<1>3. NamesApart
  BY IdleStage, NoNameAssumption
  DEF Init, NamesApart, Apart, Signed, Aliased, Redirected, Waiting, Aliasing, Renaming
<1>4. \A u \in Users : InProgress(u) = {}
  BY DEF Init, InProgress
<1>5. AccountsOnly
  BY <1>4 DEF Init, AccountsOnly
<1>6. NamesKnown
  BY <1>4, IdleStage DEF Init, NamesKnown, KnownAs
<1> QED
  BY <1>1, <1>2, <1>3, <1>5, <1>6 DEF IInv

LEMMA NextInv == IInv /\ [Next]_vars => IInv'
<1> SUFFICES ASSUME IInv, [Next]_vars PROVE IInv'
  OBVIOUS
<1>1. TypeOK /\ Unique /\ NamesApart /\ OpenIsCurrent /\ AccountsOnly /\ NamesKnown
  BY DEF IInv
<1>2. OpenHasAccount
  BY <1>1, AccountsHaveNames
<1>3. TypeOK'
  BY <1>1, <1>2, TypeNext
<1>4. Unique'
  BY <1>1, <1>2, UniqueNext
<1>5. NamesApart'
  BY <1>1, <1>2, NamesApartNext
<1>6. OpenIsCurrent'
  BY <1>1, <1>2, OpenIsCurrentNext
<1>7. AccountsOnly'
  BY <1>1, <1>3, AccountsOnlyNext
<1>8. NamesKnown'
  BY <1>1, <1>2, <1>3, NamesKnownNext
<1> QED
  BY <1>3, <1>4, <1>5, <1>6, <1>7, <1>8 DEF IInv

\* Every state is typed, keeps the unique indexes and the names apart that
\* nobody raced for, and knows the names of users whose changes did not cross.
THEOREM Invariant == Spec => []IInv
<1>1. Init => IInv
  BY InitInv
<1>2. IInv /\ [Next]_vars => IInv'
  BY NextInv
<1> QED
  BY <1>1, <1>2, PTL DEF Spec

LEMMA AllEqual ==
    ASSUME NEW S, \A a, b \in S : a = b
    PROVE  Cardinality(S) <= 1
<1>1. CASE S = {}
  BY <1>1, FS_EmptySet
<1>2. CASE S # {}
  <2>1. PICK a : a \in S
    BY <1>2
  <2>2. S = {a}
    BY <2>1
  <2> QED
    BY <2>2, FS_Singleton
<1> QED
  BY <1>1, <1>2

LEMMA ApartIsOneHolder ==
    ASSUME TypeOK, Unique, NEW n \in Names, Apart(n)
    PROVE  Cardinality(Holders(n)) <= 1
<1>1. ASSUME NEW h \in Holders(n)
      PROVE  \/ Signed(n) /\ \E u \in Users : login[u] = n /\ h = <<"login", u>>
             \/ Aliased(n) /\ \E u \in Users : alias[u] = n /\ h = <<"useralias", u>>
             \/ Redirected(n) /\ \E u \in Users : redirect[u] = n /\ h = <<"username_history", u>>
             \/ Waiting(n) /\ h = <<"logincreate", n>>
  BY DEF Holders, Signed, Aliased, Redirected, Waiting
<1>2. /\ \A u, v \in Users : login[u] = n /\ login[v] = n => u = v
      /\ \A u, v \in Users : alias[u] = n /\ alias[v] = n => u = v
      /\ \A u, v \in Users : redirect[u] = n /\ redirect[v] = n => u = v
  BY NoNameIsNone DEF Unique
<1>3. /\ Signed(n) => ~Aliased(n) /\ ~Redirected(n) /\ ~Waiting(n)
      /\ Aliased(n) => ~Redirected(n) /\ ~Waiting(n)
      /\ Redirected(n) => ~Waiting(n)
  BY DEF Apart
<1>4. \A g, h \in Holders(n) : g = h
  BY <1>1, <1>2, <1>3
<1> QED
  BY <1>4, AllEqual

\* OneHolder, for any accounts and calls: create() and verify(), a premium
\* alias, a change of name and its redirect never give out a name that somebody
\* has, unless another call claimed it between their check and their write.
THEOREM NamesHaveOneHolder == Spec => []OneHolder
<1>1. IInv => OneHolder
  <2> SUFFICES ASSUME IInv, NEW n \in Names \ raced PROVE Cardinality(Holders(n)) <= 1
    BY DEF OneHolder
  <2>1. TypeOK /\ Unique /\ Apart(n)
    BY DEF IInv, NamesApart
  <2> QED
    BY <2>1, ApartIsOneHolder
<1> QED
  BY <1>1, Invariant, PTL

\* DisplaysOwnName, for any accounts and calls: unless a user's changes
\* overlapped each other or the caching of the name, the account shows the name
\* it signs in with.
THEOREM OwnNamesAreShown == Spec => []DisplaysOwnName
<1>1. IInv => DisplaysOwnName
  BY DEF IInv, NamesKnown, KnownAs, DisplaysOwnName
<1> QED
  BY <1>1, Invariant, PTL

\* RedirectsFromOldName, for any accounts and calls: whatever was read from the
\* cache before the transaction, a rename leaves a redirect from the name that
\* the account had when it committed.
THEOREM RenamesLeaveRedirects == Spec => RedirectsFromOldName
<1>1. ASSUME IInv, [Next]_vars, NEW u \in Users, login[u] # NoName, login'[u] # login[u]
      PROVE  redirect'[u] = login[u]
  <2>1. TypeOK /\ OpenIsCurrent
    BY <1>1 DEF IInv
  <2>2. PICK r \in Requests : ChangeCommit(r) /\ Renames(r) /\ changing[r].user = u
    BY <1>1, <2>1, LoginStep
  <2>3. changing[r].stage = "open"
    BY <2>1, <2>2, CommitIs
  <2>4. ~Cosmetic(changing[r]) /\ redirect' = [redirect EXCEPT ![u] = Sysname(changing[r].from)]
    BY <2>2 DEF Renames, Renamed
  <2>5. login[u] = Sysname(changing[r].from)
    BY <2>1, <2>2, <2>3, <2>4 DEF OpenIsCurrent
  <2> QED
    BY <1>1, <2>1, <2>4, <2>5, TypeParts DEF TypeOfTables
<1>2. IInv /\ [Next]_vars =>
          [\A u \in Users : login[u] # NoName /\ login'[u] # login[u] => redirect'[u] = login[u]]_vars
  BY <1>1
<1> QED
  BY <1>2, Invariant, PTL DEF Spec, RedirectsFromOldName
=============================================================================
