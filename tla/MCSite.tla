-------------------------------- MODULE MCSite ---------------------------------
(***************************************************************************)
(* Each part in one or more scenes, that bound it in different directions. *)
(* The other parts rest in one of their initial states.  Serial numbers    *)
(* are given in order.                                                     *)
(***************************************************************************)
EXTENDS SiteContent, SiteAccounts, FiniteSets, TLC

CONSTANTS Fan, Stranger, Mod    \* the visitors there are

VARIABLE scene      \* one of those of the part

MCScenes == [
    tags        |-> {"restrictions", "suggestions", "decisions"},
    accounts    |-> {"bans", "ages"},
    credentials |-> {"passwords", "addresses"},
    following   |-> {"follows", "streams"},
    folders     |-> {"tree", "race", "filing", "owners"},
    comments    |-> {"threads", "deep", "ignores"},
    posts       |-> {"counts", "told"},
    visibility  |-> {"lists", "front"},
    commissions |-> {"prices", "titles"},
    notes       |-> {"trash", "permissions"},
    reports     |-> {"reports"},
    notices     |-> {"layout", "page"},
    files       |-> {"uploads"},
    links       |-> {"user links", "covers", "cover races"},
    paging      |-> {"lists by id", "other lists"},
    names       |-> {"renames", "aliases"}]

-----------------------------------------------------------------------------
Busy(steps) == \A c \in Calls : call[c].at \in steps \cup {"idle"}
Working == Cardinality({c \in Calls : call[c] # Idle})
InOrder(made) == \A i \in made : \A j \in 1 .. i : j \in made

\* One tag is enough to see restrictions at work, two to see whose they are.
Restrictions ==
    /\ Busy({"read", "fill", "suggest", "invalidate"})
    /\ Tagging!Present = {} /\ feedback = {}
    /\ \A l \in DOMAIN restricted : restricted[l] \subseteq {"fox"}
    /\ \A c \in Calls : At(c, "suggest") => call[c].tags # {}
Suggestions ==
    /\ Busy({"read", "suggest", "fill"})
    /\ tokens = {} /\ feedback = {}
    /\ Cardinality(Tagging!Present) <= 2
Decisions ==
    /\ Busy({"read", "suggest", "fill", "approve", "reject"})
    /\ \A c \in Calls : call[c] # Idle => call[c].user # Stranger
    /\ Cardinality(Tagging!Present) <= 1 /\ Cardinality(tokens) <= 1
    /\ feedback \subseteq {<<"fox", Owner>>}

Bans == /\ rating = "general" /\ birthday = "none" /\ ~asserted_adult
        /\ \A c \in Calls : call[c].at # "idle" => call[c].doing \notin {"preferences", "birthday", "manage"}
Ages == /\ ~permaban /\ suspension = "none" /\ ~voucher
        /\ \A c \in Calls : call[c].at # "idle" => call[c].doing \notin {"page", "signin", "profile", "x"}

Drawn == \A k \in drawn : (k = "s3" => "s2" \in drawn) /\ (k = "s2" => "s1" \in drawn) /\ (k = "k2" => "k1" \in drawn)
Passwords == /\ Drawn /\ ("s3" \in drawn => authbcrypt[Owner] < 2) /\ "k2" \notin drawn /\ forgotpassword["k1"] \in {"x", None}
             /\ emailverify[Owner] = None /\ emailverify[Fan] = None
             /\ email[Owner] = "x" /\ email[Fan] = "y" /\ authbcrypt[Fan] = 0
             /\ \A k \in Sessions : sessions[k] # Fan
             /\ \A c \in Calls : call[c] # Idle => call[c].user = Owner
Addresses == /\ Drawn /\ authbcrypt[Owner] = 0 /\ authbcrypt[Fan] = 0
             /\ \A k \in Tokens : forgotpassword[k] = None
             /\ sessions["s1"] \in {Owner, None} /\ sessions["s2"] \in {Fan, None} /\ sessions["s3"] = None

Follows == /\ Cardinality(ignoreuser) <= 1 /\ user_streams = {} /\ streaming_later = {} /\ \A n \in DOMAIN streams : streams[n] = 0
           /\ \A c \in Calls : "set" \notin DOMAIN call[c]
           /\ \A p \in DOMAIN watchuser : watchuser[p] # "t" /\ (p[1] = Stranger => watchuser[p] = "none")
           /\ \A c \in Calls : "pair" \in DOMAIN call[c] => call[c].pair[1] = Fan
Streams == /\ ignoreuser = {} /\ \A p \in DOMAIN follows : follows[p] = 0
           /\ ~\E c \in Calls : At(c, "insert notify") \/ At(c, "block commit")

Folders == {f \in Ids : Filing!Exists(f)}
FolderOwners ==
    {folder[f].userid : f \in Folders} \cup {call[c].user : c \in {c \in Calls : "user" \in DOMAIN call[c]}}
Tree == /\ InOrder(Folders) /\ FolderOwners \subseteq {Owner} /\ submission[Owner] = None /\ Working <= 1
        /\ \A f \in Folders : folder[f].title = <<"first", "second", "first">>[f]
Race == /\ InOrder(Folders) /\ FolderOwners \subseteq {Owner} /\ submission[Owner] = None
        /\ Cardinality(Folders) <= 2 /\ strayed = {} /\ Cardinality(mixed_folders) <= 1
        /\ \A f \in Folders : folder[f].title = <<"first", "second">>[f]
        /\ ~\E c \in Calls : At(c, "options") \/ At(c, "file")
File == /\ InOrder(Folders) /\ FolderOwners \subseteq {Owner} /\ Cardinality(Folders) <= 2 /\ strayed = {}
        /\ \A f \in Folders : folder[f].title = <<"first", "second">>[f]
        /\ ~\E c \in Calls : At(c, "move children")
FolderOwned == /\ InOrder(Folders) /\ Cardinality(Folders) <= 2 /\ mixed_folders \cup strayed = {} /\ Working <= 1
               /\ \A f \in Folders : folder[f].title = <<"first", "second">>[f]

Made == {m \in Ids : Talking!Made(m)}
Threads == /\ InOrder(Made) /\ ignored = {} /\ Cardinality(Made) <= 2 /\ page = "profile"
           /\ \A m \in Made : comment[m].userid = IF m = 1 THEN Fan ELSE Owner
           /\ Cardinality({c \in Calls : call[c].at \in {"insert checks", "insert", "tell", "tell whom"}}) <= 1
Deep == /\ InOrder(Made) /\ ignored = {} /\ Working <= 1 /\ page = "update"
        /\ \A m \in Made : comment[m].userid \in IF m # 2 THEN {Fan} ELSE {Owner}
Ignores == /\ \A m \in Made : m = 1 => comment[m].userid = Fan
           /\ InOrder(Made) /\ Working <= 1 /\ Cardinality(Made) <= 2 /\ Cardinality(ignored) <= 1
           /\ \A m \in Made : ~Talking!Hidden(m)

Counts == /\ ~befriended /\ ~\E c \in Calls : At(c, "edit clear")
          /\ \A p \in DOMAIN post : post[p] # None => ~post[p].friends_only
Told == /\ collection = {} /\ \A u \in DOMAIN cached_posts : cached_posts[u] = None
        /\ \A p \in DOMAIN post : post[p] # None => post[p].rating = "general"

Lists == front = {} /\ cached_ignoring = {} /\ selected = {}
Front == ~friend /\ ~viewed.friends_only /\ ~viewed.hidden

Prices == /\ Cardinality(commishprice) <= 2 /\ \A p \in commishprice : p.title = "first"
          /\ \A k \in 1 .. MaxId : commishclass[k] \in {None, "first"}
          /\ (\E c \in Calls : At(c, "select prices")) => twin = {}
          /\ \A c \in Calls : "title" \in DOMAIN call[c] => call[c].title # "second"
Names == Working <= 1

Trash == /\ \A n \in 1 .. 2 : message[n] # None => message[n].from = IF n = 1 THEN Owner ELSE Fan
         /\ InOrder({n \in 1 .. 2 : message[n] # None})
         /\ ignoring = {} /\ friends = {} /\ \A u \in DOMAIN accepts : accepts[u] = "anyone"
         /\ unread[Fan] = None /\ ~\E c \in Calls : At(c, "fill") /\ call[c].user = Fan
Permissions == Busy({"insert", "announce", "permit"})

Settle == clash = {} /\ InOrder({r \in 1 .. 2 : report[r] # None})
          /\ \A c \in Calls : "decision" \in DOMAIN call[c] => call[c].decision \in {"assign", "unassign", "invalid"}

Layout == /\ Cardinality(welcome) <= 1 /\ time = 0 /\ shown.at = "none"
          /\ \A k \in DOMAIN posts : ~posts[k][2].hidden
          /\ Cardinality({k \in DOMAIN posts : posts[k][1].hidden \/ posts[k][1].mature}) <= 1
Page == /\ \A n \in welcome : n.type \in {4020, 1010, 2010} /\ 2 \notin {n.referid, n.targetid}
        /\ Cardinality(welcome) <= 2
        /\ \A k \in DOMAIN posts, i \in 1 .. 2 : ~posts[k][i].hidden /\ (k # "journal" \/ i = 2 => ~posts[k][i].mature)

\* What the calls have still to do to links of type t.
Making(t) == UNION {{call[c].todo[n] : n \in {n \in DOMAIN call[c].todo : call[c].todo[n].type = t}}
                    : c \in {c \in Calls : call[c] # Idle}}
UserLinks == shows = "user" /\ \A t \in {"source", "avatar"} : \A s \in Making(t) : s.do = "make" => s.item = "fox"
Covers == /\ mixed_links = {} /\ Making("source") = {}
          /\ \A s \in Making("custom") : s.do = "clear"
CoverRaces == /\ shows = "visual" /\ Cardinality(mixed_links) <= 1 /\ ~split /\ Making("custom") = {}
              /\ \A s \in Making("source") : s.item = "fox"

ListsById == list \in Paginating!ById
OtherLists == /\ list \notin Paginating!ById /\ listed = 1 .. 4 /\ key[4] = None
              /\ \A i \in 1 .. 4 : key[i] # 4
              /\ list \in Paginating!LookedUp => limit = 1
              /\ list = "dates" => \A i \in 1 .. 4 : key[i] # 3

\* The owner changes names, and the other account can have one they gave up.
Renames == /\ (login[Owner] = None => login[Fan] = None) /\ login[Fan] \in {None, 1} /\ redirect[Fan] = None
           /\ \A u \in DOMAIN useralias : useralias[u] = None
           /\ \A c \in Calls : ~At(c, "alias") /\ (call[c].at \in {"release", "commit"} => call[c].user = Owner)
           /\ \A i \in {2, 3} : cached_names[i] = None
           /\ \A c \in Calls : At(c, "fill") => call[c].name = 1
Aliases == /\ Busy({"alias", "fill"})
           /\ login[Owner] \in {None, 2} /\ login[Fan] \in {None, 1} /\ useralias[Fan] = None
           /\ \A i \in {2, 3} : cached_names[i] = None

\* What a scene leaves as it is.
Fixed ==
    /\ scene = "lists" => /\ viewed' = [viewed EXCEPT !.hidden = viewed'.hidden]
                          /\ viewer' = [viewer EXCEPT !.rating = viewer'.rating]
    /\ scene = "layout" =>
           mature' = mature /\ \A k \in DOMAIN posts, i \in 1 .. 2 : posts'[k][i].mature = posts[k][i].mature

Bound ==
    CASE scene = "restrictions" -> Restrictions
      [] scene = "suggestions" -> Suggestions
      [] scene = "decisions" -> Decisions
      [] scene = "bans" -> Bans
      [] scene = "ages" -> Ages
      [] scene = "passwords" -> Passwords
      [] scene = "addresses" -> Addresses
      [] scene = "follows" -> Follows
      [] scene = "streams" -> Streams
      [] scene = "tree" -> Tree
      [] scene = "race" -> Race
      [] scene = "filing" -> File
      [] scene = "owners" -> FolderOwned
      [] scene = "threads" -> Threads
      [] scene = "deep" -> Deep
      [] scene = "ignores" -> Ignores
      [] scene = "counts" -> Counts
      [] scene = "told" -> Told
      [] scene = "lists" -> Lists
      [] scene = "front" -> Front
      [] scene = "prices" -> Prices
      [] scene = "titles" -> Names
      [] scene = "trash" -> Trash
      [] scene = "permissions" -> Permissions
      [] scene = "reports" -> Settle
      [] scene = "layout" -> Layout
      [] scene = "page" -> Page
      [] scene = "uploads" -> TRUE
      [] scene = "user links" -> UserLinks
      [] scene = "covers" -> Covers
      [] scene = "cover races" -> CoverRaces
      [] scene = "lists by id" -> ListsById
      [] scene = "other lists" -> OtherLists
      [] scene = "renames" -> Renames
      [] scene = "aliases" -> Aliases

MCInit ==
    /\ part \in ContentParts \cup AccountsParts /\ scene \in MCScenes[part]
    /\ call = AllIdle
    /\ Tagging!Init /\ Accounts!Init
    /\ SignIn!Init /\ (part # "credentials" => email = (Owner :> "x" @@ Fan :> "y"))
    /\ Watching!Init /\ Filing!Init
    /\ Talking!Init /\ (part # "comments" => page = "notes")
    /\ Posting!Init /\ (part # "posts" => ~befriended /\ kind["post"] = "journal")
    /\ Offering!Init /\ Writing!Init /\ Reporting!Init
    /\ Notifying!Init /\ Storing!Init /\ Linking!Init
    /\ (scene \notin {"covers", "cover races"} => shows = "user")
    /\ (scene = "covers" => shows # "user")
    /\ \A k \in DOMAIN posts : ~posts[k][2].mature /\ (scene # "layout" => ~posts[k][1].mature)
    /\ (scene # "layout" => subject[1] = 1 /\ subject[2] = 1 /\ ~mature)
    /\ (subject[1] = 2 => subject[2] = 1)
    /\ Viewing!Init
    /\ (part # "visibility" =>
           /\ viewed = [kind |-> "journal", rating |-> 10, hidden |-> FALSE, friends_only |-> FALSE,
                        browse_excluded |-> FALSE, tagged |-> FALSE]
           /\ viewer = [is |-> "guest", rating |-> 10, sfw |-> FALSE, collects |-> FALSE])
    /\ (viewed.kind # "submission" => ~viewed.browse_excluded /\ ~viewer.collects)
    /\ (scene = "front" => viewed.kind # "journal" /\ ~viewed.browse_excluded /\ ~viewer.collects
                           /\ ~viewer.sfw /\ viewer.is \in {"guest", "user"})
    /\ (part # "paging" => list = "ids" /\ limit = 1 /\ key = [i \in 1 .. 4 |-> i] /\ listed = {})
    /\ Paginating!Init /\ Naming!Init
    /\ Bound

MCNext ==
    /\ \/ ContentNext /\ AccountsStill
       \/ AccountsNext /\ ContentStill
    /\ UNCHANGED scene /\ Fixed /\ Bound'
MCSpec == MCInit /\ [][MCNext]_<<all_content_vars, all_accounts_vars, scene>>

Symmetry == Permutations(Calls)
================================================================================
