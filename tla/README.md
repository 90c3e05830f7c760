# Weasyl: models, checks and proofs

Weasyl is a gallery site: a Python web application (`weasyl/`, `libweasyl/`) over PostgreSQL and a cache, run in containers with a small C init and image worker (`badgr/`) behind an outbound proxy (`netferret/`).
This directory holds TLA+ modules of the parts whose correctness depends on the order in which things happen, the TLC configurations that check them on small instances, and proofs, checked by TLAPS, of what holds for every instance.

Almost all of the program's state is in database tables, and almost all of its concurrency is requests that work on the same rows.
Three rules of the code decide what one step of a model is:

- A statement sent with `d.engine.execute` or `d.execute` commits by itself, so the statements of a function are separate steps with those of other requests in between.
- `d.serializable_retry` runs its function in a SERIALIZABLE transaction and repeats it when it conflicted, so what it reads and writes over its own connection is one step; what was read before it, or is read over another connection inside it, is not.
- A plain transaction is READ COMMITTED: each of its statements sees what has been committed when it runs, and others see its effects when it commits.

## Inventory

### What is modelled

| Component | Code | Modules | State | Hard parts |
| --- | --- | --- | --- | --- |
| Global rate limits | `weasyl/rate_limits.py` | `GlobalRateLimit`, `TokenBucket` | one row of `global_rate_limits` per limit, the clock | integer division, the boundary of a period |
| Friendships and blocking | `weasyl/frienduser.py`, `ignoreuser.py` | `FriendUser`, `Friendship` | `frienduser`, `ignoreuser`, the notifications 3080 and 3085 | both sides act at once; checks before a transaction; a block that overtakes a request |
| Usernames | `weasyl/login.py`, `useralias.py`, `users.py` | `Usernames`, `NameLookups` | `login`, `logincreate`, `useralias`, `username_history`, `profile.username`, the caches of display names and of `_get_userids` | one name space in four tables; checks and inserts in separate statements; caches filled from old reads |
| Two-factor sign-in | `weasyl/two_factor_auth.py`, `controllers/two_factor_auth.py`, `controllers/user.py` | `TwoFactor` | `login.twofa_secret`, `twofa_recovery_codes`, `sessions` | handlers of many statements, two sessions of one account, a request that ends in the middle |
| Favorites, collections and their notifications | `weasyl/favorite.py`, `collection.py`, `submission.py`, `welcome.py`, `message.py` | `Gallery` | `submission`, `favorite`, `collection`, `welcome`, the counter of favorites | counters beside rows, retried transactions, who agreed to what, notifications of what is gone |
| Container init | `badgr/init.c` | `ContainerInit`, `Supervision` | the process table, pending signals, two locals | signals that merge, orphans, process ids used again |
| Search tags, suggestions, restrictions | `weasyl/searchtag.py` | `SearchTags` | `searchmapsubmit`, `submission_tags`, feedback, undo tokens, two restriction lists and their cache | a copy for search that decisions leave behind; a list read through a cache before the transaction it filters |
| Bans, suspensions, ratings, ages | `weasyl/define.py`, `moderation.py`, `profile.py`, `login.py`, `libweasyl/cache.py` | `AccountConfig` | `permaban`, `suspension`, `login.voucher`, `profile.config`, `userinfo`, two levels of `_get_all_config` | a cache without expiry in every thread and in memcached, read by every request |
| Email, passwords, recovery | `weasyl/profile.py`, `resetpassword.py`, `login.py` | `Credentials` | `login.email`, `authbcrypt`, `sessions`, `emailverify`, `forgotpassword` | sessions that outlive a password, links used twice, calls cut short |
| Following and streams | `weasyl/followuser.py`, `ignoreuser.py`, `profile.py`, `welcome.py` | `Following` | `watchuser`, `ignoreuser`, `user_streams`, notifications 3010, 3070, 3075 | a block beside an insert, notifications replaced in two statements |
| Folders | `weasyl/folder.py` | `Folders` | `folder`, `submission.folderid` | a tree of two levels whose checks come before its updates |
| Comments and shouts | `weasyl/comment.py`, `shout.py`, `welcome.py` | `Comments` | the three comment tables and their notifications | replies made while what they reply to is hidden |
| Posting, editing, removing | `weasyl/submission.py`, `journal.py`, `character.py`, `moderation.py`, `define.py` | `Posts` | the posts, `welcome`, `cached_posts_count` | counts cached without an expiry, followers told while a post changes |
| Who sees which post | the `select_` functions of `submission.py`, `journal.py`, `character.py`, `favorite.py`, `collection.py`, `folder.py`, `search.py`, `index.py`, `blocktag.py` | `Visibility` | one post, one viewer, three caches | one condition, written anew in every query |
| Commission classes and prices | `weasyl/commishinfo.py` | `Commissions` | `commishclass`, `commishprice` | ids counted from the greatest, no foreign key |
| Private messages | `weasyl/note.py`, `define.py` | `Notes` | `message`, `permitted_senders`, the cached header | flags two users set on a row, a number cached apart from them |
| Reports | `weasyl/report.py` | `Reports` | `report` | rows read in one transaction and flushed in another |
| Notifications | `weasyl/welcome.py`, `message.py`, `define.py` | `Notices` | `welcome` and the posts it leads to | ids of a dozen tables in three columns, by type |
| Media files and links | `libweasyl/models/media.py`, `libweasyl/media.py`, `weasyl/media.py`, `avatar.py`, `banner.py`, `thumbnail.py` | `MediaFiles`, `MediaLinks` | files, `media`, the link tables, the cache of links | losing power, two uploads at once, read-then-write of links |
| Lists page by page | `weasyl/pagination.py` and the lists of `submission.py`, `note.py`, `favorite.py`, ... | `Paging` | a list, and the page its reader has | a list that changes between two pages |

How they interact:

- Requests share nothing but the database, memcached, and what a thread caches; `Requests` is the record of what each has read and has still to do, and every module with concurrent requests is built on it.
- Every component that tells a user something writes `welcome`. Each models the rows of its own types, with all code that writes or deletes them; `Notices` says what the rows of every type look like and who removes them.
- `SiteContent` and `SiteAccounts` put the components that do not call one another side by side, over the same requests. Where two of them read one table (`ignoreuser` by following, notes and comments; `frienduser` by posts, notes and what is visible; the posts by nearly all), each has a copy of its own that takes every change the code can make and the component can tell apart. So no promise of one rests on what another happens to do.
- Whether two users are friends is decided in `FriendUser`; elsewhere it can change at any step, or is a constant where only its value matters (`Gallery`).

What makes each correct, in a sentence:

- Rate limits: never more than `2 * capacity` events in one period and never more than one bucket above the average rate (the two bounds of the class's docstring).
- Friendships: one row between two users, pending or accepted exactly as the two have asked; a block leaves nothing.
- Usernames: a name belongs to one account at most, and a redirect or a display leads to the account whose name it was.
- Two-factor: a password alone does not sign in after activation, a code is spent by its use, and the owner is never left with neither.
- Gallery: the counter is the number of rows, nothing is collected without both sides, and a notification tells the truth to those who may see it.
- Init: it exits last, with the main program's status, and forwards signals to nothing else.
- Tags: search finds a submission by its tags, restricted tags are not suggested, credit stays with whoever gave or approved a tag.
- Accounts: an announced ban stops every later request, a minor has the general rating, an adult rating has been asserted.
- Credentials: a changed password ends the sessions that do not know it, a link works once and confirms the address it was sent to.
- Following: a block ends it; who is told of a follower or a stream has one.
- Folders: every folder is listed below its parent, submissions are filed where their owner's listing leads.
- Comments: notifications lead to comments that are shown, hidden comments have no visible replies, the ignored are not heard.
- Posts: a cached count is the count; followers are told of what they may see.
- Visibility: what a list shows can be opened.
- Commissions: a price has its class, and its own id.
- Notes: a note may be answered, is not unread once trashed, and is counted while unread.
- Reports: closed for a reason; complaints about a post meet in one open report.
- Notifications: the header counts what the pages show, a removed post takes its notifications along, and Remove All takes nothing that came after its page.
- Media: a row has its file whatever is lost, a content has one row, pages show the links there are.
- Lists: reading to the end misses nothing that stayed, Back undoes Next, links lead to something.

### Not modelled

| Component | Why |
| --- | --- |
| Moderation tools | What changes a post, an account, a list or a file is in the modules above; staff notes, the log and the listings append or read. |
| Caches as such | Part of the modules whose data they hold; what is left is serialization. |
| Request handling and transactions | Its three rules, above, are what the other modules are built on. |
| Image processing, sandboxed workers (`badgr/worker.c`, `weasyl/image.py`) | A worker reads one image, writes another and ends. |
| Outbound proxy (`netferret/`) | Connections share nothing but a count; the rest is what sockets do. |
| Other profile fields | Single rows overwritten by their owner. |
| Search queries, cards, embeds | Parsing and rendering. Who sees what a search finds is in `Visibility`, its order in `Paging`. |
| Text processing | A function of a string; nothing a model checker explores usefully. |
| Site updates | Two cached rows, invalidated on every change; comments on them are in `Comments`, notifications in `Notices`. |
| Email delivery, captchas, metrics | Input and output to other services; the limits they take from are in `GlobalRateLimit`. |
| Public API | Formats what other components keep; its paging is in `Paging`, what it shows in `Visibility`. |
| Schema and migrations, front-end build | Constraints are part of the modules that write the tables; the rest runs offline. |

In what is modelled, these are left out: email addresses that decide whether a pending account is valid (`Usernames`), the copies of looked-up names that a thread keeps for the rest of a request (`NameLookups`), commenting on a submission beside its collection (`Gallery`), journals' and characters' media, checks that only refuse a call before it has written anything, a request for a message that is cut short between inserting it and permitting its recipient to answer (`Notes`), and the cache of the header's numbers where they are not private messages (`Notices` says what is counted when it is filled).

`PROJECT.json` lists under "hazards" where each component is exposed to an order of events that no test reaches, with the properties that cover it.

## Modules

Each component has a module with one action per statement or transaction, and, where theorems are proved, a `Proofs` module that extends it; the proofs about parts of `SiteContent` and `SiteAccounts` are in `SiteContentProofs` and `SiteAccountsProofs`, the inductive invariants they are about in `SiteContentInvariants` and `SiteAccountsInvariants`. Six have an `MC` module of their own with what TLC needs; the others are parts of those two, with `MCSite`.
The map in `PROJECT.json` gives the lines of every definition.

### GlobalRateLimit and TokenBucket

`Take` is the UPDATE of `take_one`, with its integer arithmetic; `Tick` is the clock.
The observer (`opened`, `events`) counts the events since a second chosen nondeterministically, so an invariant speaks of every span at once.
`TokenBucket` is the abstract bucket: it holds at most `Capacity` and gains `Capacity` per `Period`, in units of one event over a period; the row implements it, with the level a function of the row and the clock.

### FriendUser and Friendship

`CheckIgnoredYou` and `CheckYouIgnored` are the two reads of `request`, `Request` its transaction with its branches (created, accepted, already there); `Ignore` and `IgnoreCommit` are the DELETE of a block and its commit, between which the deleted rows are locked (`Unlocked`).
`Friendship` is the transition table of `weasyl/test/test_frienduser.py`, with blocking added: the relation between two users as if every operation were atomic.
`FriendUser` implements it; the mapping reads off `frienduser` what the relation is.

### Usernames

`create` and `verify` are statements one by one, `change_username` a transaction started from names that were read before it, through the cache.
A name is a sysname with a way of writing it, so that a change can be cosmetic.
History variables mark the accounts for which calls overlapped in the way the code does not exclude (`raced`, `crossed`); the properties are stated for the others, and what happens to those is described at the variable.
One `useralias.set` per user and one `verify` per token run at a time, and email addresses are left out; the cache of name lookups is `NameLookups`.

### TwoFactor

One account, several sessions, handlers as sequences of steps; a request may end after any of them (`crashes`).
`EnableInit` and `EnableQrcode` are atomic with the checks of their decorators; the count of failed attempts is replaced by ending a pending session at any time.
Recovery codes are rows (a batch, a number and a copy, since a batch can be stored twice).

### Gallery

A call is a record of where it is, who calls, whom it is about and for which submission.
`PostInsert`, `HideUpdate`, `EditCheck` and so on are the statements of `submission.py`; `FavoriteOwners` and `FavoriteCommit` are the part of `favorite.insert` that is outside the snapshot and the transaction; `OfferInsert`, `RequestThrottle`, `AcceptUpdate` and the others are the statements of `collection.py`; `NoticesOf`, `collection_insert` and `collectrequest_remove` are the functions of `welcome.py`.
Notifications are a bag, since nothing in the table makes them unique.
User ids and submission ids are numbers that may coincide, because `pending_accept` passes one for the other and the model has to say what that does.
Followers and friends are fixed, a call names one pair of a submission and a collector, and checks that only refuse (ratings, blocks, settings) are left out.
History: who agreed to each row (`agreed`), which pairs were ever accepted (`collected`), and the submissions whose followers were told while they were becoming friends-only (`late`).

### ContainerInit and Supervision

`SigwaitForward`, `WaitpidReap` and so on are the branches of init's loop; processes that start, end, wait for children or abandon them are the environment.
`Supervision` promises only that init ends after all others with the main program's status.
System calls that fail for reasons other than a missing process, and what happens before the main program is started, are left out.

### Requests, Site, SiteContent, SiteAccounts and MCSite

`Requests` has the requests in progress (`call`): `Start`, `Goto`, `Check` (an error ends a request) and `End`.
A record of `call` holds what the request has read, so that a later step works with what may be out of date by then; this is where most of what can go wrong does.

`SiteContent` takes nine modules with `INSTANCE ... WITH`, `SiteAccounts` seven, all over `call`: what users put on the site (tags, folders, comments, commissions, notes, reports, notifications, files, links), and who they are, what they post and what they see (accounts, credentials, names, following, posts, visibility, lists page by page). `Site` is what the two share. A behaviour is of one of them, its `part`: they change no row of each other, so interleaving two would only multiply their states.
Each part has a promise, the conjunction of the properties its module states and explains. `MCSite` takes the two together and bounds each part in one or more scenes.

Variables that a comment calls history are not in the program. Most of them name the overlaps that the code leaves open (`overtaken`, `mixed`, `late`, `clash`, `doubled`, `split`, `twins`, ...): a promise is stated for everything else, and the comment at the variable or at the promise says what happens to the rest. Each is set only in the step where the overlap happens, so a promise that holds with it shows that nothing else can break it.

### SearchTags

One submission. `SuggestBegin`, `ReadCached`, `ReadList`, `FillCache` and `SuggestCommit` are `associate` by a visitor: the lists are read through the cache, filled when missing, and then the transaction runs; `Associate` is the same by the owner or a moderator, whom the lists do not stop. `Arbitrate`, `Approve`, `Reject`, `Undo` and `Expire` decide on suggestions; they write the map and not its copy in `submission_tags`, which search reads until the next `associate` (`drift`).
`EditRestrictions` and `Invalidate` are the edit of a list: a read from before it may be stored after it and then stays (`overtaken`).

### AccountConfig

One account, requests of its user and of moderators. Each begins with `_get_all_config` through the thread's cache and memcached. Writes and invalidations are separate steps; the thread's cache is emptied between requests, which is what makes a ban effective everywhere once memcached is invalidated.
`RatingIsAsserted` and `MinorsSeeGeneral` depend on the order of the statements of `do_manage` and of the preferences form, which checks the age it read at its start.

### Credentials

Two users, their passwords as numbers of the change that set them. `SessionsKnowPassword` is about sign-ins, changes and resets in every order, each of which may be cut short; two windows are open (a sign-in that had compared the old hash, and a change cut short before it ends the sessions).
`LinksWorkOnce` holds because `reset` deletes the token in the transaction that sets the password and goes on only if there was one to delete.

### Following

Pairs of users; the DELETE of a block locks the rows it finds until its commit, as in `FriendUser`. Notifications are counted, since `insert` removes and inserts them in two statements. The stream settings are three statements in a row, two of which depend on what the profile said before.

### Folders

`create`, `rename`, `move`, `remove` with its children, the settings and filing a submission. What `move` has checked (no children, a parent at the top) can be outdated when it updates (`mixed`); a folder can be moved into one that has been removed, whose id is not checked for that (`strayed`).

### Comments

One page of one of five kinds, with its thread: `Thread` is what one comes by from a comment by going to what it replies to, the least set closed under that. Removing a comment clears the notifications below it and hides it in a later statement. The exceptions are real: collectors' notifications and staff notes' are not cleared.
`IgnoredAreNotHeard` speaks of those who ignored a commenter from the beginning of the call to its end.

### Posts

Posting, editing, hiding, bulk edits and accepted collections against two things that lag behind: `cached_posts_count`, whose invalidations are steps of their own, and the notifications of a follower.

### Visibility

One post and one viewer, every combination of what either can be. `SubmissionPage`, `JournalPage`, `CharacterPage` are the checks of the pages; each list has the condition of its own query. Front pages filter a cached list by cached ignores and blocks, whose invalidations are pending until done.

### Commissions

Ids are one more than the greatest, read by a statement before the insert. `PricesHaveTheirClass` also looks at the two reads of the page that looks up a price's class, and fails where there is none.

### Notes

`Send`, `Insert`, `Announce`, `Permit`; `View`, `MarkRead`, `Seen`; `TrashSent`, `TrashReceived`; and the header's number, counted and stored by two steps. Trashing unread notes is not announced, so the number stays as it was until something else changes it (`outdated`).

### Reports

`Create` and `CreateFlush`, `Close`, `SelectAll` and `Flush`. The session writes the columns that differ from what it read, so a decision made on an old row writes part of it: two moderators at once can reopen a closed report or close one without a reason (`clash`), two complaints at once can open two reports (`doubled`).

### Notices

The layout of every type of notification, the queries that show each group, what the header counts, removal with a post, and Remove All by the time of the page.
A page of submissions has the newest `PageLimit` of them (66), before or after the time its link carries (`Select`, `Windows`). Remove All on any such page removes the submissions of all pages, as its text says ("all your submission notifications"); on the page of notifications, which has no limit, what is on it. `RemovedWasShown` says just that: what is removed was on the page, or is a submission that the page's limit or time leaves to others (`Elsewhere`; `page.stood` is what there was when the page was put together), or is one of the exceptions below, and never came after the page.
Submissions of one second that the end of a page divides are on no page until some before them are removed, since links go by time: nothing says otherwise, so no property does.
The exceptions are in the properties: characters take the rating of the submission with their number, 3035 outlives its submission, and what is inserted while the page is put together goes unseen.

### MediaFiles and MediaLinks

`MediaFiles`: directories and files that are seen before they are durable, and a loss of power that forgets what is not. An upload that finds the directory another has just made does not sync its parent (`hasty`); the table has no unique index (`twins`).
`MediaLinks`: link rows are replaced by reading and then writing, and the copy that pages read is computed and stored after that, without an expiry (`outdated`).

### Paging

A reader who follows Next and Back through one of seven lists that changes meanwhile. Found on the way, and excepted in the properties: rows in the same place as the last of a page are skipped by lists ordered by time or date, a page whose last row has left its list leads to an empty one where the row is looked up, and going back by time leads to the newest rows.

### NameLookups

The cache of `_get_userids`, which has no expiry, against names that are given up and taken by another account: by a change, a release or an alias. A name nobody has is not cached, so taking one announces nothing; `release_username` invalidates the one it gives up, by `change_username` before the commit. A lookup stored between the two stays (`lingering`), as does one read before an invalidation and stored after it, and one of an alias, which `useralias.set` deletes without a word. The promise is that every other lookup finds the account that has the name, except while its invalidation is still to come.
That a name is free when it is taken is the matter of `Usernames` and is assumed here. A change is its open transaction, its commit and the invalidation after it; a lookup reads and stores in two steps.

## Checks

`tlc -config X.cfg MCX.tla` runs one of them.

| Run | What it asks | Result |
| --- | --- | --- |
| `rate_limit` | both bounds of the docstring, the ledger behind them, and the refinement of `TokenBucket` | hold |
| `friends` | one row, consent, one notification per request, notifications that are true, blocks that part; the refinement of `Friendship` | hold |
| `friends_silent` | "nobody has a notification when there is no relation", the test's initial state, after a block | violated: `ignoreuser.insert` leaves the notifications |
| `usernames` | one holder per name, displays of one's own name, redirects from one's own old name | hold |
| `usernames_cosmetic` | a cosmetic change keeps the login name, as the schema's comment says | violated: what is cosmetic is decided before the transaction |
| `two_factor` | no account with 2FA and without a way in, a code accepted once unless two requests raced for it, no session past the second factor, one offer of codes | hold |
| `two_factor_one_time` | a recovery code is one-time use, as its page says | violated: two requests find it before either deletes it |
| `gallery` | counter, notifications of favorites, consent, throttle, friends-only | hold |
| `gallery_collected` | a collection notification names a user who collected the submission | violated: the arguments are swapped |
| `gallery_removed` | a removed submission's notifications are deleted | violated: type 3035 is not in the list |
| `site` | the promises of the sixteen parts of `SiteContent` and `SiteAccounts`, in the 35 scenes of `MCSite` | hold |
| `container_init` | no end overlooked, no signal astray, the refinement of `Supervision`, and exit in the end | hold |

### Bounds, and why they are enough

- `rate_limit`: capacity 3, period 4 and a clock to 12. Neither divides the other, so every rounding occurs; three periods contain every pair of adjacent ones.
- `friends`: two users, which is all a row is about; the proofs cover any number, and moderators.
- `usernames`: two accounts, three names, two ways of writing, two changes at a time. Everything together is out of reach, so each behaviour has a `focus`, chosen at its start and named in `MCUsernames`, which bounds the rest: accounts, aliases without changes, aliases with overlapping claims, one account's changes and cache, the same with three names.
- `two_factor`: two requests on two sessions with two batches of one code; either no request ends in the middle, or codes are drawn once.
- `gallery`: an owner, a friend and a follower whose id is that of a submission; two calls at a time; a limit of 0 for the throttle, so that it takes effect at once; and the focuses of `MCGallery` (favorites with edits, collections, everything one call at a time, requests for three submissions), each with at most four unread notifications.
- `container_init`: three process ids used any number of times, one signal, three ways to end.

- `site`: two requests at a time (one, in scenes that go deep instead), an owner, two visitors and a moderator, two of everything else or three where a third can make a difference: three folders for a tree with a removed one in it, three comments for a reply to a reply, three sessions for those of a sign-in, of a change and of the other user, four rows in a list for two pages and a half. A scene fixes what its question does not vary: `tree` has one request and three folders, `race` two requests and two folders. Every action of every part, and every disjunct of its next-state relation, happens in some scene. Serial numbers are given in order.

Interchangeable values are symmetry sets where no liveness is checked.
The bound on notifications and the focuses only cut behaviours short; they decide no outcome of an action.
Deadlock is not checked where the system may stop: init returns, every name may be taken, and a bounded gallery may be full.

### Fairness and liveness

Fairness is assumed of init's own steps only (`WF_vars(InitStep)`): the kernel schedules a runnable process, and init blocks nowhere but in `sigwait` (`waitpid` is called with WNOHANG), where `InitStep` is disabled unless a signal is pending.
`ExitsInTheEnd` says that init exits once every process has ended, if signals stop coming: `sigwait` may take those before SIGCHLD for ever. It assumes nothing of when processes end.
For the web application there is no liveness property: a request may end at any statement, nothing in the code promises that a user comes back, and no job of the application repeats what failed. What should be right in the end is stated as a safety property of the states in which no call that has still to set it right is under way (`Pending`, `Refreshing`, `Changing`, `Sending`).

## Proofs

`tlapm XProofs.tla` checks them; assumptions are those of the constants, named `...Assumption` in the module that declares them.

- `GlobalRateLimitProofs`: type correctness, the refinement of `TokenBucket`, and both bounds, for every capacity and period. The inductive invariant is `Ledger`: events let through, plus what the bucket holds, never exceed what it held when the span opened plus what accrued. The bounds follow by arithmetic on products and quotients, which the lemmas at the beginning isolate.
- `FriendUserProofs`: type correctness, one row, consent, the truth of notifications and blocks, for any users and moderators. The invariant adds what the locks and open transactions imply: a row that an open block deletes stays until its commit (`Locks`), a row between a user and those being blocked is going to be deleted unless its request was overtaken (`BlockCatches`), and what a request has checked still holds unless a block overtook it (`ChecksHold`). The refinement of `Friendship` reads a couple's relation off its one row; a statement then changes the relation of one couple by one line of the table, or of none, and an open block deletes rows only between its user and those being blocked (`DeletesItsOwn`).
- `ContainerInitProofs`: type correctness, no lost wakeup, no stray signal, and the refinement of `Supervision`, for any process ids and signals. The invariant adds that processes are waited for by init or by one that runs (`Table`), that in every set of processes one has its parent outside the set, so that none are left when init has no child (`Rooted`), and that the main program's id stays taken until init has waited for it (`Main`).
- `GalleryProofs`: all six properties that its run checks, for any users, submissions, followers and friends and any finite number of calls. Two are not inductive as they stand. For `KeptFromStrangers`, `FollowersTold` speaks of submissions from the deletion of notifications on, not from the update after it, and says that a call about to notify is the owner's. For `RequestsThrottled`, `AskedWithin` counts the requests that exist together with the calls that have passed the throttle. Frame lemmas say once which actions write which variables.
- `TwoFactorProofs`: type correctness and all four properties, for any requests, sessions, batches and codes. The invariant adds what handlers carry: a request that stores codes has drawn them and one that is to use one up has found it (`Equipped`), settings are changed from sessions that were signed in (`SettingsSignedIn`), whoever used the last code up is on the way to turning 2FA off (`CodesOrTurningOff`), what is stored or looked for has not been accepted yet (`UnusedWhileWanted`), and one session at most can be offered codes (`OffersAlone`). `OneUnpassed` is `SecondFactorPassed` without counting.
- `UsernamesProofs`: all its properties, for any accounts, names and number of calls. `Unique` is the three indexes. `NamesApart` says of a name that has not been raced for which of the tables and calls can hold it together; it is what the checks of `create`, `verify`, `change_username` and `useralias.set` keep between them. `OpenIsCurrent` and `NamesKnown` follow the name a change starts from, through the cache, to its transaction; `AccountsOnly` is that all this is of accounts.
- `SiteContentProofs` and `SiteAccountsProofs`: type correctness of `SiteContent` and of `SiteAccounts`, and the promises of all their parts, for any calls, users, tags, posts, tokens and whatever the other parts are. A behaviour is of one part, so each proof has an invariant of the component's own variables (`XIInv`, with a prefix for the component), shown to hold initially, to be kept by every action of the component, and to imply the promise; at the end `XHold` says that the part that moves has its invariant. `ContentAssumption` and `AccountsAssumption` are the only hypotheses.
  - Reports: what a decision has read was an open report (`ReadWasOpen`): a row no one else wrote since is as it was read, so the flush leaves closer, review and reason consistent. `Meets` is `OneOpenReport` without counting.
  - Notes: a call marks notes of its own user and trashes notes that exist (`MarksItsOwn`), and a number on its way to the cache is the right one, or late, or about to be announced (`FillsAreRight`). Unread notes are counted by cardinalities of finite sets, in lemmas of their own.
  - Tags: calls and undo tokens keep apart who suggests and who decides (`RolesKept`). `RestrictedStaysOut` needs the whole way of a restriction: the tags a call has to respect are on the list, in its cached value and in every value about to be cached (`BarsAreKnown`); a cached value is the list, unless an edit is still to be announced or a read overtook one (`CacheIsRight`); and a suggestion has dropped the tags of the lists it has been through (`ListsAreDropped`).
  - Prices: the class of a price on its way is there unless it was removed (`OnTheWay`), a page that no new class overtook knows the classes (`ClassesRead`), and an id that was chosen stays free until another price takes it (`IdsFree`). That the next id is new is a greatest element of a finite set of numbers.
  - Uploads (`MediaFiles`): how far an upload has come with its file, its directory and what is durable of them (`Steady`), for every place the power can be lost at; who writes a content that no other writes is the first to (`Alone`).
  - Shown (`MediaLinks`): what a request has still to do is one of the plans the code has (`Planned`), whoever replaces a type of link knows its row (`Singles`), how far an upload of a file with its cover has come (`Covers`), and what was read for the copy is current unless it was overtaken (`AllCurrent`).
  - Lists (`Visibility`): a cache that no invalidation is due for holds what the rows say, and only users and moderators ignore anyone (`CachesFollow`). With that, `ListedCanBeOpened` and `FrontPageCanBeOpened` are comparisons of two conditions, the one of the queries and the one of the page, by the kinds of viewer and of post.
  - File (`Folders`): two calls that touch the same folder have met (`Overlaps`), so what a call has checked stays true of folders that calls have not met on (`Sound`, and `Known` for what no call can undo); a folder is then at the top level or in one that is (`Placed`), of the same owner (`Owned`), and submissions in folders that are listed (`Filed`).
  - Talk (`Comments`): what a comment replies to is there, and nothing visible is under a hidden comment unless it came late (`RowsHold`, and `Childless` for a commenter's own). Below a hidden comment nobody was told, or is about to be, of anything that is not late (`Quiet`); what a removal found stays true until it hides (`RemovalHolds`). Who ignored the author all the while is still to be asked about, or will not be told (`InsertHolds`, `TellHolds`). What is above a comment only grows with the table (`Grows`), which takes no induction since a thread is a least closed set.
  - Told (`Notices`): the columns of a row lead to the post its type is about (`WellMade`), so a removal finds it by one of them (`Finds`) and a query joins it; what an open page would remove is on it, left to other pages by the limit or the window of submissions (`PagesAre`), above the user's rating, or came while it was put together (`Covered`), since rows that came later are not older than the page.
  - Logins (`Credentials`): a session that does not know its user's password is about to be ended by a change that is not its own (`SessionsKnow`, with `Owned` and `SigninsKnow`), a link was sent once (`LinksDrawn`), and a reset token that is there is unused and held by one call (`ResetsOnce`).
  - Config (`AccountConfig`): while nothing waits to be announced, memcached and what is on its way there say what the rows say (`CacheFits`); all that a request owed a refusal can still be shown says so (`OwedHolds`); threads begin with an empty cache (`LocalsEmpty`); and ages and ratings agree in the middle of a form (`Ages`).
  - Names (`NameLookups`): what a lookup is about to store is a holder, or will be invalidated (`FillsFind`), and a change knows if the name it gives up was cached again (`CommitsKnow`).
  - Follow (`Following`): requests of one pair have met (`OneSubject`), a block that is open has found all watches but those that overtook it (`Catching`), an insert or a removal is the only one to tell of its watch (`Telling`), and an edit of a stream has got as far as its notifications show (`Staging`, `Quiets`).
  - Post (`Posts`): a cached count, or one about to be cached, is right about every post that no call is still to invalidate it for (`Right` and `Due`, in `Current` and `Filling`). For `ToldOfWhatIsShown`, a call about to notify knows the row, one about to restrict a post leaves no notification of it behind (`Known`), and the two do not meet unnoticed (`Quiet`).
  - Read (`Paging`): what a page has of the rows asked for is said once for all ways to make one (`Fits`): they are the nearest, in order, all of them or a full page, and the links hold its ends. Rows the reader has not had yet are further on than the link (`WalkGoesOn`), also while links are counted (`LinksLead`). A page is of rows next to one another, whatever row it starts from (`PageIsWhole`), so the page that Next leaves is the nearest one above the new page, and Back leads to the nearest (`BackLeads`); of the nearest there is one set, by cardinalities.

Types are proved rather than checked again by TLC where a `Proofs` module has them (`friends`, `gallery`, `rate_limit`, `container_init`, the parts of `SiteAccounts` in `site`).

What is only model-checked is `ExitsInTheEnd`: liveness under fairness and ENABLED are beyond the installed provers.
So is induction over data; no proof needs it, and no module uses a RECURSIVE operator.

## Plan

What is left: abstract specifications of notes and reports (a mailbox; a docket), with the refinement their modules owe them where no call overlaps.
