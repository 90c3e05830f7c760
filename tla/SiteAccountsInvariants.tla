------------------------ MODULE SiteAccountsInvariants ------------------------
(***************************************************************************)
(* The inductive invariants of the parts of SiteAccounts, as in            *)
(* SiteContentInvariants.                                                  *)
(***************************************************************************)
EXTENDS SiteAccounts, Sequences, FiniteSets

-----------------------------------------------------------------------------
\* Sign-ins, passwords and addresses.

LoginsSigninCall == [at : {"create session"}, user : Members, password : SignIn!Passwords, late : BOOLEAN]
LoginsPasswordCall == [at : {"update", "revoke"}, user : Members, session : SignIn!SessionOrNone]
LoginsAddressCall == [at : {"email check", "email verify"}, user : Members, address : Emails]
LoginsUpdateCall == [at : {"email update"}, user : Members, address : Emails]
LoginsResetCall == [at : {"reset"}, user : Members, token : Tokens]

\* A session is of one user for ever, and so are those that a change of a
\* password starts from.
LoginsOwned ==
    /\ \A s \in Sessions : sessions[s] # None => s \in drawn
    /\ \A r \in Calls : (SignIn!At(r, "update") \/ SignIn!At(r, "revoke")) /\ call[r].session # None =>
               call[r].session \in drawn /\ sessions[call[r].session] \in {None, call[r].user}

\* What a sign-in has checked is the password, unless a change overtook it.
LoginsSigninsKnow ==
    \A r \in Calls : SignIn!At(r, "create session") /\ ~call[r].late =>
        call[r].password = authbcrypt[call[r].user]

\* A session that does not know the password will be ended by the change that
\* set it, or a later one, which is not the session's own.
LoginsWillEnd(s) == \E r \in Calls : SignIn!At(r, "revoke") /\ call[r].user = sessions[s] /\ call[r].session # s

LoginsSessionsKnow ==
    \A s \in Sessions \ excused :
        sessions[s] # None => knows[s] = authbcrypt[sessions[s]] \/ LoginsWillEnd(s)

\* A link is sent once.
LoginsLinksDrawn ==
    \A u \in Members : emailverify[u] # None =>
        emailverify[u].token \in drawn /\ mailed[emailverify[u].token] = emailverify[u].address

\* A reset token that is there has not been used, and is held by one call.
LoginsResetsOnce ==
    /\ \A t \in Tokens : forgotpassword[t] # None => t \in drawn /\ spent[t] = 0
    /\ \A t \in Tokens : spent[t] <= 1 /\ (t \notin drawn => spent[t] = 0)
    /\ \A r \in Calls : SignIn!At(r, "reset") => forgotpassword[call[r].token] # None
    /\ \A q, r \in Calls : SignIn!At(q, "reset") /\ SignIn!At(r, "reset") /\ call[q].token = call[r].token => q = r

LoginsIInv == SignIn!TypeOK /\ LoginsOwned /\ LoginsSigninsKnow /\ LoginsSessionsKnow /\ LoginsLinksDrawn /\ LoginsResetsOnce

\* The calls in progress.
LoginsRecord == {SignIn!Idle} \cup LoginsSigninCall \cup LoginsPasswordCall \cup LoginsAddressCall \cup LoginsUpdateCall \cup LoginsResetCall

LoginsElsewhere(r) == \A q \in Calls \ {r} : call'[q] = call[q]
LoginsBecame(r, q) == call' \in [Calls -> LoginsRecord] /\ call'[r] = q /\ LoginsElsewhere(r)

\* TypeOK, with the calls by their kind.
LoginsTables ==
    /\ email \in [Members -> Emails]
    /\ authbcrypt \in [Members -> SignIn!Passwords] /\ newest \in [Members -> SignIn!Passwords]
    /\ sessions \in [Sessions -> Members \cup {None}]
    /\ emailverify \in [Members -> {None} \cup [token : Tokens, address : Emails]]
    /\ forgotpassword \in [Tokens -> Emails \cup {None}]
    /\ drawn \subseteq Tokens \cup Sessions
    /\ knows \in [Sessions -> SignIn!Passwords]
    /\ mailed \in [Tokens -> Emails \cup {None}]
    /\ spent \in [Tokens -> Nat]
    /\ excused \subseteq Sessions

\* What leaves the sessions alone.
LoginsSessionless(q) == q.at \notin {"create session", "update", "revoke"}

-----------------------------------------------------------------------------
\* Bans, suspensions, ratings and the cached settings.

\* A value of the cache that says of bans and suspensions what the rows say.
ConfigFits(value) == value = None \/ (value.banned = permaban /\ value.suspended = (suspension # "none"))

ConfigFillsFit == \A u \in Calls : Accounts!At(u, "fill") => ConfigFits(call[u].seen)

\* While no change waits to be announced, memcached fits, and so does what is
\* on its way there, if it is not too late.
ConfigCacheFits ==
    (\A u \in Calls : ~Accounts!At(u, "invalidate")) =>
        /\ ~overtaken_config => ConfigFits(stored)
        /\ \A u \in Calls : Accounts!At(u, "fill") /\ ~call[u].late => ConfigFits(call[u].seen)

\* A request that has to be stopped, and is not the worse for later changes of
\* other settings: all that it may be shown fits, and it is not admitted.
ConfigOwing(q) == q \in Accounts!UserCalls /\ q.owed

ConfigStoppable(q) ==
    /\ Accounts!Barred /\ ConfigFits(stored) /\ ConfigFillsFit
    /\ q.at \in {"config", "fill", "decide", "suspension"}
    /\ q.at \in {"fill", "decide"} => q.seen # None
    /\ q.at = "decide" => ConfigFits(q.seen)
    /\ q.at = "suspension" => ~permaban

ConfigOwedHolds == \A t \in Calls : ConfigOwing(call[t]) => ConfigStoppable(call[t])

\* A thread begins with an empty cache.
ConfigLocalsEmpty == \A t \in Calls : call[t] = Accounts!Idle \/ Accounts!At(t, "config") => local[t] = None

\* An adult rating is saved by those who have asserted to be adults, and not by
\* minors.
ConfigAges ==
    /\ \A t \in Calls : Accounts!At(t, "prefer") => asserted_adult
    /\ Accounts!RatingIsAsserted
    /\ Accounts!Saving /\ birthday = "minor" => raced
    /\ Accounts!MinorsSeeGeneral

ConfigIInv == Accounts!TypeOK /\ ConfigCacheFits /\ ConfigOwedHolds /\ ConfigLocalsEmpty /\ ConfigAges
ConfigRecord == {Accounts!Idle} \cup Accounts!UserCalls \cup Accounts!ModCalls
ConfigElsewhere(t) == \A u \in Calls \ {t} : call'[u] = call[u]
ConfigBecame(t, q) == call' \in [Calls -> ConfigRecord] /\ call'[t] = q /\ ConfigElsewhere(t)

ConfigTables ==
    /\ permaban \in BOOLEAN /\ voucher \in BOOLEAN /\ asserted_adult \in BOOLEAN
    /\ suspension \in {"none", "running", "over"}
    /\ rating \in {"general", "adult"}
    /\ birthday \in {"none", "minor", "adult"}
    /\ stored \in Accounts!Configs \cup {None}
    /\ local \in [Calls -> Accounts!Configs \cup {None}]
    /\ overtaken_config \in BOOLEAN /\ raced \in BOOLEAN

ConfigGone(t, a) ==
    \E q \in Accounts!UserCalls : ConfigBecame(t, q) /\ q.at = a /\ q \in ConfigRecord /\ q.owed = call[t].owed

-----------------------------------------------------------------------------
\* Names that lead to accounts.

NamesInvalidating(n) == \E c \in Calls : Naming!At(c, "invalidate") /\ call[c].name = n

\* A lookup that is not too late will store a holder, or be invalidated.
NamesFillsFind ==
    \A c \in Calls : Naming!At(c, "fill") /\ ~call[c].late =>
        call[c].user \in Naming!Holders(call[c].name) \/ NamesInvalidating(call[c].name)

\* A change knows if the name that it gives up has been cached again.
NamesCommitsKnow ==
    \A c \in Calls : Naming!At(c, "commit") /\ call[c].released # None /\ cached_names[call[c].released] # None => call[c].again

NamesIInv == Naming!TypeOK /\ NamesFillsFind /\ NamesCommitsKnow /\ Naming!LookupsFindTheHolder

\* The calls in progress.
NamesRecord == {Naming!Idle} \cup Naming!LookupCall \cup Naming!ChangeCall \cup Naming!InvalidateCall \cup Naming!AliasCall

NamesElsewhere(c) == \A d \in Calls \ {c} : call'[d] = call[d]

NamesTables ==
    /\ login \in [Members -> Ids \cup {None}]
    /\ useralias \in [Members -> Ids \cup {None}]
    /\ redirect \in [Members -> Ids \cup {None}]
    /\ cached_names \in [Ids -> Members \cup {None}]
    /\ lingering \subseteq Ids

-----------------------------------------------------------------------------
\* Following and blocking.

\* Two requests of one pair, or of one streamer, have overlapped.
FollowOneSubject == \A x \in (Watching!Pairs \cup Watchers) \ mixed : \A c, d \in Calls : x \in Watching!Subject(c) /\ x \in Watching!Subject(d) => c = d

\* A block finds the watches there are, but for those that overtake it.
FollowFollows(q) == q.at \in {"check ignored", "insert watch", "insert clear", "insert notify", "remove clear"}

FollowBlocks(q) == q.at = "block commit"

FollowCatches(q) ==
    FollowBlocks(q) => \A v \in q.blocks :
        /\ <<q.user, v>> \in Watching!Pairs
        /\ watchuser[<<q.user, v>>] = "none" \/ <<q.user, v>> \in q.deletes \cup overtaken_blocks

\* Who is about to be told of a follower has that follower, and no notification.
FollowTells(q) ==
    /\ q.at \in {"insert clear", "insert notify"} /\ q.pair \notin severed \cup mixed => watchuser[q.pair] # "none"
    /\ q.at = "insert notify" /\ q.pair \notin mixed => follows[q.pair] = 0

\* How far an edit of the streaming settings has come.
FollowStreams(q) == q.at \in {"stream insert", "stream clear", "stream notify", "stream profile"}

FollowOf(u) == {p \in Watching!Pairs : p[1] = u}

FollowStage(q) ==
    FollowStreams(q) /\ q.user \notin mixed =>
        /\ q.at = "stream insert" => q.set = "start" /\ q.user \notin user_streams
        /\ q.at # "stream insert" => (q.user \in user_streams <=> q.set \in {"start", "still"})
        /\ q.at = "stream clear" => q.set # "still"
        /\ q.at = "stream notify" => q.set \in {"start", "later"}
        /\ q.at = "stream notify" => \A p \in FollowOf(q.user) : streams[<<p, "now">>] = 0 /\ streams[<<p, "later">>] = 0
        /\ q.at = "stream profile" => \A p \in FollowOf(q.user) :
              /\ streams[<<p, "now">>] = 0 \/ (streams[<<p, "now">>] = 1 /\ q.set \in {"start", "still"})
              /\ streams[<<p, "later">>] = 0 \/ (streams[<<p, "later">>] = 1 /\ q.set = "later")

\* A streamer none of whose edits is under way.
FollowQuiet(u) ==
    \A p \in FollowOf(u) :
        /\ streams[<<p, "now">>] = 0 \/ (streams[<<p, "now">>] = 1 /\ u \in user_streams)
        /\ streams[<<p, "later">>] = 0 \/ (streams[<<p, "later">>] = 1 /\ u \in streaming_later /\ u \notin user_streams)

FollowEdits(q, u) == FollowStreams(q) /\ q.user = u
FollowQuiets == \A u \in Watchers \ mixed : (\A c \in Calls : ~FollowEdits(call[c], u)) => FollowQuiet(u)
FollowCatching == \A c \in Calls : FollowCatches(call[c])
FollowTelling == \A c \in Calls : FollowTells(call[c])
FollowStaging == \A c \in Calls : FollowStage(call[c])

FollowIInv == /\ Watching!TypeOK /\ FollowOneSubject /\ FollowCatching /\ FollowTelling /\ FollowStaging /\ FollowQuiets
              /\ Watching!BlockEndsFollowing /\ Watching!FollowersTold

FollowRecord == {Watching!Idle} \cup Watching!FollowCalls \cup Watching!BlockCalls \cup Watching!StreamCalls
FollowElsewhere(c) == \A d \in Calls \ {c} : call'[d] = call[d]
FollowBecame(c, q) == call' \in [Calls -> FollowRecord] /\ call'[c] = q /\ FollowElsewhere(c)
FollowSubjects(q) == IF "pair" \in DOMAIN q THEN {q.pair} ELSE IF "set" \in DOMAIN q THEN {q.user} ELSE {}

FollowTables ==
    /\ watchuser \in [Watching!Pairs -> {"none", "", "t"}]
    /\ ignoreuser \subseteq Watching!Pairs
    /\ follows \in [Watching!Pairs -> Nat]
    /\ streams \in [Watching!Pairs \X Watching!Types -> Nat]
    /\ user_streams \subseteq Watchers /\ streaming_later \subseteq Watchers
    /\ severed \subseteq Watching!Pairs /\ overtaken_blocks \subseteq Watching!Pairs /\ mixed \subseteq Watching!Pairs \cup Watchers

FollowKept(u) ==
    /\ u \in user_streams' <=> u \in user_streams
    /\ \A p \in FollowOf(u) : \A t \in Watching!Types : /\ streams[<<p, t>>] = 0 => streams'[<<p, t>>] = 0
                                                        /\ streams[<<p, t>>] = 1 => streams'[<<p, t>>] \in {0, 1}

\* x is the subject of no other request.
FollowSole(c, x) == \A d \in Calls \ {c} : x \notin FollowSubjects(call[d])

FollowFew(n) == n <= 1
FollowEditStep(set) == IF set = "start" THEN "stream insert" ELSE IF set = "still" THEN "stream profile" ELSE "stream clear"

-----------------------------------------------------------------------------
\* Posts, their counts and followers.

\* What a call about p is still to invalidate: the count of u.  The collector's
\* is only of interest while the post is in their collection.
PostDues(q, u, p) ==
    \/ q.at \in {"invalidate", "find owners"} /\ q.post = p /\ u \in q.users
    \/ u = Owner /\ q.at \in {"notify", "remove clear"} /\ q.post = p
    \/ /\ u = Collector /\ p \in collection
       /\ (q.at = "invalidate" /\ q.then = "find owners") \/ q.at \in {"find owners", "remove clear"}
       /\ q.post = p

PostDue(u, p) == \E c \in Calls : PostDues(call[c], u, p)

\* A count is right about every post that no call is to invalidate it for.
PostOf(S, p) == {e \in S : e.post = p}

PostRight(u, S) == \A p \in PostIds : PostDue(u, p) \/ PostOf(S, p) = PostOf(Posting!Count(u), p)
PostCurrent == \A u \in Posting!Users : u \in uncounted \/ cached_posts[u] = None \/ PostRight(u, cached_posts[u])
PostFilling == \A c \in Calls : call[c].at = "fill" /\ ~call[c].late => PostRight(call[c].user, call[c].value)
PostCollected == \A p \in collection : post[p] # None /\ kind[p] = "submission"

\* What calls have checked.  A post that is restricted has lost its notification
\* before that, and none comes later.
PostRestricting(q) == q.at = "edit update" /\ q.friends_only /\ ~befriended

PostKnown(q) ==
    /\ q.at \in {"notify", "edit check", "edit clear", "edit update"} => post[q.post] # None
    /\ q.at = "notify" /\ q.post \notin untold => Posting!Visible(q.post) /\ post[q.post].friends_only = q.friends_only
    /\ PostRestricting(q) /\ q.post \notin untold => q.post \notin follower

PostAllKnown == \A c \in Calls : PostKnown(call[c])

PostQuiet ==
    \A c, d \in Calls :
        PostRestricting(call[c]) /\ call[d].at = "notify" /\ call[d].post = call[c].post => call[c].post \in untold

PostOpen(p) == Posting!Visible(p) /\ (post[p].friends_only => befriended)
PostRemoving(p) == \E c \in Calls : call[c].at = "remove clear" /\ call[c].post = p
PostWelcomed == \A p \in follower \ untold : PostOpen(p) \/ PostRemoving(p)
PostIInv == Posting!TypeOK /\ PostCollected /\ PostAllKnown /\ PostQuiet /\ PostWelcomed /\ PostCurrent /\ PostFilling

\* The calls in progress.
PostPostCall == [at : {"remove clear", "edit check"}, post : PostIds]

PostNotifyCall == [at : {"notify"}, post : PostIds, friends_only : BOOLEAN]
PostEditCall == [at : {"edit clear", "edit update"}, post : PostIds, rating : Ratings, friends_only : BOOLEAN]
PostFindCall == [at : {"find owners"}, post : PostIds, users : SUBSET Posting!Users]
PostInvalidateCall == [at : {"invalidate"}, users : SUBSET Posting!Users, then : {"done", "find owners"}, post : PostIds]
PostFillCall == [at : {"fill"}, user : Posting!Users, value : SUBSET Posting!Counted, late : BOOLEAN]
PostRecord == {Posting!Idle} \cup PostPostCall \cup PostNotifyCall \cup PostEditCall \cup PostFindCall \cup PostInvalidateCall \cup PostFillCall

PostTables ==
    /\ kind \in [PostIds -> Posting!PostKinds] /\ befriended \in BOOLEAN
    /\ post \in [PostIds -> Posting!Rows \cup {None}]
    /\ collection \subseteq PostIds

PostCaches ==
    /\ follower \subseteq PostIds
    /\ cached_posts \in [Posting!Users -> (SUBSET Posting!Counted) \cup {None}]
    /\ uncounted \subseteq Posting!Users /\ untold \subseteq PostIds

\* What a count says of a post.
PostEntry(t, p) == [type |-> t, post |-> p, rating |-> post[p].rating, friends_only |-> post[p].friends_only]

\* The calls of C go on, or end, or begin, as r; others stay as they are, but
\* that an invalidation can overtake them.
PostSame(d) == call'[d] = call[d] \/ (call[d].at = "fill" /\ call'[d].at = "fill" /\ call'[d].late)

PostGoing(C, r) ==
    /\ C \subseteq Calls /\ r \in PostRecord /\ call' \in [Calls -> PostRecord]
    /\ \A d \in C : call'[d] = r
    /\ \A d \in Calls \ C : PostSame(d)

\* A call of C is to invalidate u's count for p, or none was and it says the same.
PostSettled(C, r, u, p) ==
    \/ C # {} /\ PostDues(r, u, p)'
    \/ /\ u = Collector /\ p \in collection => p \in collection'
       /\ \A d \in C : ~PostDues(call[d], u, p)
       /\ PostOf(Posting!Count(u), p)' = PostOf(Posting!Count(u), p)

PostKept(C, r, u) == cached_posts'[u] = cached_posts[u] /\ (u \in uncounted => u \in uncounted') /\ \A p \in PostIds : PostSettled(C, r, u, p)

PostDropped(u) ==
    /\ cached_posts'[u] = None \/ u \in uncounted'
    /\ \A d \in Calls : call[d].at = "fill" /\ call[d].user = u => call'[d].at # "fill" \/ call'[d].late

PostAnew(p, e) == post' = [post EXCEPT ![p] = e] /\ e \in Posting!Rows /\ e # None

-----------------------------------------------------------------------------
\* Who sees which post.

\* A cache that no invalidation is due for holds what the rows say, and only
\* users and moderators ignore anyone.
ListsCachesFollow ==
    /\ "ignoring" \notin pending => cached_ignoring \subseteq {ignores}
    /\ "selected" \notin pending => selected \subseteq {blocks}
    /\ viewer.is \notin {"user", "mod"} => ~ignores

ListsIInv == Viewing!TypeOK /\ ListsCachesFollow

-----------------------------------------------------------------------------
\* Lists page by page.

ReadEnd(items) == items[Len(items)]
ReadDiffer(items) == \A a, b \in 1 .. Len(items) : items[a] = items[b] => a = b
ReadFalls(items) == \A a, b \in 1 .. Len(items) : a < b => key[items[a]] >= key[items[b]]
ReadOn(items) == {items[a] : a \in 1 .. Len(items)}

\* What a link holds is what the page shows at that end; links that are counted
\* are not there before.
ReadLinksHold ==
    /\ leaf.at # "read" => list \in Paginating!Counted /\ leaf.items # <<>> /\ leaf.next = None
    /\ leaf.next # None =>
           leaf.items # <<>> /\ (list \notin Paginating!ByTime => leaf.next = Paginating!Link(ReadEnd(leaf.items)))
    /\ leaf.back # None =>
           leaf.items # <<>> /\ (list \notin Paginating!ByTime => leaf.back = Paginating!Link(leaf.items[1]))

\* What the reader has not had is further on than the link, or than the page whose
\* link is yet to be counted.
ReadAhead(i) ==
    \/ leaf.next # None /\ Paginating!Place(leaf.next) # None /\ key[i] <= Paginating!Place(leaf.next)
    \/ leaf.at # "read" /\ key[ReadEnd(leaf.items)] # None /\ key[i] <= key[ReadEnd(leaf.items)]

ReadWalkGoesOn ==
    ~lost => \A i \in stayed \ (seen \cup tied) : i \in Paginating!Listed /\ ReadAhead(i)

\* Links as they are counted.
ReadLinksLead ==
    /\ Paginating!LinksLeadOn
    /\ leaf.at = "count next" /\ same /\ leaf.back # None => Paginating!Beyond("back", Paginating!Place(leaf.back)) # {}

\* A page is of rows next to one another, and is full unless it is at an end.
ReadWhole(items) ==
    /\ ReadOn(items) \subseteq Paginating!Listed
    /\ ReadDiffer(items) /\ ReadFalls(items)
    /\ \A i \in Paginating!Listed \ ReadOn(items) : key[i] >= key[items[1]] \/ key[i] <= key[ReadEnd(items)]
    /\ \/ Len(items) = limit
       \/ \A i \in Paginating!Listed : key[i] <= key[items[1]]
       \/ \A i \in Paginating!Listed : key[i] >= key[ReadEnd(items)]

ReadPageIsWhole == same /\ list \notin Paginating!ByTime /\ leaf.items # <<>> => ReadWhole(leaf.items)

\* The rows of B that a page back has.
ReadNearest(E, B) ==
    /\ E \subseteq B
    /\ \A i \in E, j \in B \ E : key[i] <= key[j]
    /\ Cardinality(E) = IF Cardinality(B) < limit THEN Cardinality(B) ELSE limit

ReadBackLeads ==
    expected # None /\ list \notin Paginating!ByTime =>
        /\ same /\ Paginating!Distinct
        /\ leaf.way = "next" /\ leaf.items # <<>> =>
               ReadNearest(expected, Paginating!Beyond("back", key[leaf.items[1]]))
        /\ leaf.way = "back" => Paginating!OnPage(leaf) = expected

ReadIInv == Paginating!TypeOK /\ Paginating!Placed(key) /\ ReadLinksHold /\ ReadWalkGoesOn /\ ReadLinksLead /\ ReadPageIsWhole /\ ReadBackLeads

\* What the list is, and what a page of it may have.
ReadTables ==
    /\ list \in Paginating!Lists /\ limit \in Limits
    /\ key \in [RowIds -> Keys \cup {None}] /\ listed \subseteq RowIds /\ Paginating!Placed(key)

\* What a query gives.
ReadFetched(way, S, n, r) ==
    /\ r \in Seq(S) /\ Len(r) <= n
    /\ ReadDiffer(r)
    /\ \A a, b \in 1 .. Len(r) : a < b => Paginating!Before(way, r[a], r[b])
    /\ \A i \in S \ ReadOn(r) : Len(r) = n /\ \A a \in 1 .. Len(r) : Paginating!Before(way, r[a], i)

\* What a page has of the rows that were asked for, and the links on it.
ReadOrdered(way, S, items) ==
    /\ items \in Seq(S) /\ Len(items) <= limit
    /\ ReadDiffer(items) /\ (list \notin Paginating!ByTime => ReadFalls(items))
    /\ \A i \in S \ ReadOn(items) :
           /\ items # <<>>
           /\ way # "back" => key[i] <= key[ReadEnd(items)]
           /\ way = "back" /\ list \notin Paginating!ByTime => key[i] >= key[items[1]]

ReadLeads(way, S, sheet) ==
    /\ sheet.at = IF list \in Paginating!Counted /\ sheet.items # <<>> THEN "count back" ELSE "read"
    /\ sheet.way = way
    /\ sheet.next # None =>
           sheet.items # <<>> /\ sheet.next = Paginating!Link(ReadEnd(sheet.items)) /\ list \notin Paginating!Counted
    /\ sheet.back # None =>
           sheet.items # <<>> /\ sheet.back = Paginating!Link(sheet.items[1]) /\ list \notin Paginating!Counted
    /\ list \notin Paginating!Counted /\ way # "back" /\ S \ ReadOn(sheet.items) # {} => sheet.next # None
    /\ list \in {"ids", "api"} /\ way # "back" /\ sheet.next # None => S \ ReadOn(sheet.items) # {}
    /\ list \in {"ids", "api"} /\ way # "next" /\ sheet.back # None =>
           \E i \in S \ ReadOn(sheet.items) : key[i] >= key[sheet.items[1]]

ReadFits(way, S, sheet) ==
    /\ sheet \in Paginating!Leaves
    /\ ReadOrdered(way, S, sheet.items)
    /\ list \notin Paginating!ByTime => Len(sheet.items) = limit \/ ReadOn(sheet.items) = S
    /\ ReadLeads(way, S, sheet)

\* The first of the results, as they come or turned round.
ReadTaken(S, r, items) ==
    /\ items \in Seq(S) /\ Len(items) <= limit /\ Len(items) <= Len(r)
    /\ Len(items) = Len(r) \/ Len(items) >= 1

ReadKept(S, r, items) == ReadTaken(S, r, items) /\ \A a \in 1 .. Len(items) : items[a] = r[a]

ReadTurned(S, r, items) ==
    ReadTaken(S, r, items) /\ \A a \in 1 .. Len(items) : items[a] = r[Len(items) + 1 - a]

ReadDrawn(way, items, back, next, sheet) ==
    /\ sheet \in Paginating!Leaves
    /\ sheet.items = items /\ sheet.way = way
    /\ sheet.at = IF list \in Paginating!Counted /\ items # <<>> THEN "count back" ELSE "read"
    /\ sheet.back = IF back /\ items # <<>> THEN Paginating!Link(items[1]) ELSE None
    /\ sheet.next = IF next /\ items # <<>> THEN Paginating!Link(ReadEnd(items)) ELSE None
    /\ items # <<>> => Paginating!Link(items[1]) # None /\ Paginating!Link(ReadEnd(items)) # None

ReadWays == {"first", "back", "next"}

\* A new page.
ReadListStays == UNCHANGED <<list, limit, key, listed>>
================================================================================
