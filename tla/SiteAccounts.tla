----------------------------- MODULE SiteAccounts -----------------------------
(***************************************************************************)
(* Who users are, whom they follow, what they post and what they see:      *)
(* accounts, credentials, names, following, posts, visibility, and lists   *)
(* page by page.                                                           *)
(***************************************************************************)
EXTENDS Site

CONSTANTS
    Collector,      \* who collects submissions
    Members, Watchers,      \* bounds: the users of a part
    WatchMods,              \* staff.MODS among them
    Ratings, Emails, PostIds,
    Tokens, Sessions, RowIds, Keys, Limits,
    MaxPassword             \* bound

VARIABLES
    permaban, suspension, voucher, rating, birthday, asserted_adult, stored,
    local, overtaken_config, raced,
    email, authbcrypt, sessions, emailverify, forgotpassword, drawn, newest,
    knows, mailed, spent, excused,
    login, useralias, redirect, cached_names, lingering,
    watchuser, ignoreuser, follows, streams, user_streams, streaming_later,
    severed, overtaken_blocks, mixed,
    kind, befriended, post, collection, follower, cached_posts, uncounted,
    untold,
    viewed, viewer, friend, ignores, blocks, front, cached_ignoring, selected,
    pending,
    list, limit, key, listed, leaf, seen, stayed, tied, lost, same, expected

Accounts == INSTANCE AccountConfig WITH
    Threads <- Calls, Missing <- None,
    overtaken <- overtaken_config
SignIn == INSTANCE Credentials WITH Users <- Members, Requests <- Calls
Naming == INSTANCE NameLookups WITH
    Users <- Members, Names <- Ids, cached <- cached_names
Watching == INSTANCE Following WITH
    Users <- Watchers, Mods <- WatchMods,
    overtaken <- overtaken_blocks
Posting == INSTANCE Posts WITH
    Posts <- PostIds, Missing <- None,
    welcome <- follower, cached <- cached_posts
Viewing == INSTANCE Visibility WITH
    post <- viewed, friends <- friend, ignoring <- cached_ignoring
Paginating == INSTANCE Paging WITH
    Rows <- RowIds,
    shown <- listed, excused <- tied

accounts_vars == <<
    permaban, suspension, voucher, rating, birthday, asserted_adult, stored,
    local, overtaken_config, raced>>
credentials_vars == <<
    email, authbcrypt, sessions, emailverify, forgotpassword, drawn, newest,
    knows, mailed, spent, excused>>
names_vars == <<login, useralias, redirect, cached_names, lingering>>
following_vars == <<
    watchuser, ignoreuser, follows, streams, user_streams, streaming_later,
    severed, overtaken_blocks, mixed>>
posts_vars == <<
    kind, befriended, post, collection, follower, cached_posts, uncounted,
    untold>>
visibility_vars == <<
    viewed, viewer, friend, ignores, blocks, front, cached_ignoring, selected,
    pending>>
paging_vars == <<
    list, limit, key, listed, leaf, seen, stayed, tied, lost, same, expected>>

all_accounts_vars == <<part, call, accounts_vars, credentials_vars, names_vars,
    following_vars, posts_vars, visibility_vars, paging_vars>>

AccountsParts == {"accounts", "credentials", "names", "following", "posts",
                  "visibility", "paging"}

\* What the definitions of the components need of the constants.
ASSUME AccountsAssumption ==
    /\ Accounts!ConstantsOK /\ SignIn!ConstantsOK /\ Naming!ConstantsOK
    /\ Posting!ConstantsOK /\ Paginating!ConstantsOK

AccountsInit ==
    /\ part \in AccountsParts
    /\ Accounts!Init /\ SignIn!Init /\ Naming!Init /\ Watching!Init
    /\ Posting!Init /\ Viewing!Init /\ Paginating!Init

\* Nothing of the other parts changes.
AccountsStill ==
    /\ IF part = "accounts" THEN TRUE ELSE UNCHANGED accounts_vars
    /\ IF part = "credentials" THEN TRUE ELSE UNCHANGED credentials_vars
    /\ IF part = "names" THEN TRUE ELSE UNCHANGED names_vars
    /\ IF part = "following" THEN TRUE ELSE UNCHANGED following_vars
    /\ IF part = "posts" THEN TRUE ELSE UNCHANGED posts_vars
    /\ IF part = "visibility" THEN TRUE ELSE UNCHANGED visibility_vars
    /\ IF part = "paging" THEN TRUE ELSE UNCHANGED paging_vars

AccountsNext ==
    /\ UNCHANGED part
    /\ \/ part = "accounts" /\ Accounts!Next
       \/ part = "credentials" /\ SignIn!Next
       \/ part = "names" /\ Naming!Next
       \/ part = "following" /\ Watching!Next
       \/ part = "posts" /\ Posting!Next
       \/ part = "visibility" /\ Viewing!Next /\ UNCHANGED call
       \/ part = "paging" /\ Paginating!Next /\ UNCHANGED call
    /\ AccountsStill

AccountsSpec == AccountsInit /\ [][AccountsNext]_all_accounts_vars

-----------------------------------------------------------------------------
\* The values of the variables of the part that moves.
AccountsTypeOK ==
    /\ part = "accounts" => Accounts!TypeOK
    /\ part = "credentials" => SignIn!TypeOK
    /\ part = "names" => Naming!TypeOK
    /\ part = "following" => Watching!TypeOK
    /\ part = "posts" => Posting!TypeOK
    /\ part = "visibility" => Viewing!TypeOK
    /\ part = "paging" => Paginating!TypeOK

\* Bans stop requests once announced, minors have the general rating, and who has
\* another asserted to be an adult; and a name leads to the account that has it,
\* whatever the caches hold (weasyl/define.py, moderation.py, profile.py, login.py).
AccountsAreKnown ==
    /\ part = "accounts" => Accounts!BarredAreRefused /\ Accounts!MinorsSeeGeneral /\ Accounts!RatingIsAsserted
    /\ part = "names" => Naming!LookupsFindTheHolder

\* A changed password ends the sessions that do not know it, a link resets a
\* password once, and an address is confirmed by a link sent to it
\* (weasyl/login.py, profile.py, resetpassword.py).
CredentialsHold ==
    part = "credentials" => SignIn!SessionsKnowPassword /\ SignIn!LinksWorkOnce /\ SignIn!LinksConfirmTheirAddress

\* A block ends following, and notifications of followers and of streams are
\* those of the rows there are (weasyl/followuser.py, ignoreuser.py, welcome.py).
FollowersAreTold ==
    part = "following" => Watching!BlockEndsFollowing /\ Watching!FollowersTold /\ Watching!StreamsTold

\* Cached numbers of posts are current, and followers are told of the posts they
\* may see (weasyl/submission.py, journal.py, character.py, moderation.py).
PostsAreCounted == part = "posts" => Posting!CountsAreCurrent /\ Posting!ToldOfWhatIsShown

\* What a list or the front page shows a visitor can be opened by them
\* (the queries of lists against the checks of pages).
ListedCanBeSeen ==
    part = "visibility" => Viewing!ListedCanBeOpened /\ Viewing!FrontPageCanBeOpened

\* Reading a list page by page misses nothing that stays in it, Back undoes
\* Next, and links lead to something (weasyl/pagination.py, controllers/api.py).
PagesAreWhole ==
    part = "paging" => Paginating!WalkMissesNothing /\ Paginating!BackReturns /\ Paginating!LinksLeadOn
===============================================================================
