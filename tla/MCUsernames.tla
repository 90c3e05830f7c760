----------------------------- MODULE MCUsernames -----------------------------
(***************************************************************************)
(* Usernames for TLC.  Every behaviour has a focus that bounds how much of *)
(* what else can happen happens in it; users, names, ways of writing them  *)
(* and calls are interchangeable.                                          *)
(***************************************************************************)
EXTENDS Usernames, TLC

VARIABLE focus

Calls == {r \in Requests : changing[r] # Idle}
Claimed == {n \in Names : creating[n] > 0 \/ verifying[n] # "idle"}
Accounts == {u \in Users : login[u] # NoName}
Spelled == {s \in Styles : \E u \in Users, n \in Names : profile[u] = <<n, s>>}
Wanted == {s \in Styles : \E r \in Calls, n \in Names : changing[r].to = <<n, s>>}
NamesInUse == {n \in Names : \/ Holders(n) # {} \/ HeldFree(n) # {}
                             \/ \E r \in Calls : Sysname(changing[r].to) = n}
NoAlias == \A u \in Users : alias[u] = NoName /\ aliasing[u] = Idle
\* One account, created and verified on its own, and changed without the limit
\* of one change in thirty days.
OneAccount ==
    /\ NoAlias
    /\ \A r \in Calls : changing[r].bypass
    /\ Cardinality(Accounts \cup Claimed \cup {n \in Names : pending[n] # "none"}) <= 1
\* At most one name is being claimed by create() or verify().
OneCreate == \A n \in Names : creating[n] <= 1
OneClaim == Cardinality(Claimed) <= 1
NoFilling == \A u \in Users : filling[u] = NoDisplay
Plain == Cardinality(Spelled \cup Wanted) <= 1

Bounds ==
    [\* two accounts and three names, claimed one by one
     accounts |-> Cardinality(Calls) <= 1 /\ OneClaim /\ OneCreate /\ Plain /\ NoAlias /\ NoFilling,
     \* two accounts, three names, aliases and no changes
     premium |-> Calls = {} /\ OneClaim /\ Plain /\ NoFilling,
     \* two accounts and two names, with aliases, and claims that overlap
     aliases |-> Cardinality(Calls) <= 1 /\ OneCreate /\ Plain /\ NoFilling
                   /\ Cardinality(NamesInUse) <= 2,
     \* one account whose changes and cached display names overlap
     spelling |-> OneAccount /\ Cardinality(NamesInUse) <= 2,
     \* the same over three names
     stale |-> OneAccount /\ Plain]

MCInit == Init /\ focus \in DOMAIN Bounds
MCNext == Next /\ UNCHANGED focus /\ Bounds'[focus]
MCSpec == MCInit /\ [][MCNext]_<<vars, focus>>

Symmetry ==
    Permutations(Users) \cup Permutations(Names)
        \cup Permutations(Styles) \cup Permutations(Requests)
==============================================================================
