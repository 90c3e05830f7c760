-------------------------------- MODULE Paging ---------------------------------
(***************************************************************************)
(* Reading a list page by page, by Back and Next, while it changes.  A     *)
(* link holds a row of the page it is on, and the page it leads to starts  *)
(* beyond that row; nothing is kept between two pages.  There are seven    *)
(* such lists:                                                             *)
(*   ids      pagination.paginate, in the order of ids: search, browse and *)
(*            the galleries of the API                                     *)
(*   counts   pagination.PaginatedResult in the order of ids, with counts: *)
(*            submissions and characters of a user, notes                  *)
(*   dates    the same by the date of a row: favorites, collections        *)
(*   open     by date and without counts: other favorites, one's own       *)
(*            collections                                                  *)
(*   names    by name and without counts: friends, followers               *)
(*   times    new submissions, by time                                     *)
(*   api      new submissions in the API, by time                          *)
(* The list's own order is the one of falling keys (newest first; names    *)
(* are numbered from the end).                                             *)
(***************************************************************************)
EXTENDS Naturals, Sequences, FiniteSets, Functions

CONSTANTS
    Rows, Keys,     \* numbers
    Limits,         \* rows on a page
    None

VARIABLES
    list, limit,    \* which list, and how much of it makes a page
    key,            \* the place of each row, or None
    shown,          \* the rows that the reader may see
    leaf,           \* the page the reader has
    seen,           \* history: rows on the pages from the first on, when only
                    \* Next was followed
    stayed,         \* history: rows listed in their place all that time
    excused,        \* history: rows in the place of the last one of a page
    lost,           \* history: the last row of a page left its place, which
                    \* Next would have looked up
    same,           \* history: the list is what it was when the page was made
    expected        \* history: what Back must lead to, or None

\* What the definitions need of the constants.
ConstantsOK ==
    /\ IsFiniteSet(Rows) /\ Rows \subseteq Nat /\ Keys \subseteq Nat
    /\ Limits \subseteq Nat \ {0}
    /\ None \notin Rows \cup Keys

vars == <<list, limit, key, shown, leaf, seen, stayed, excused, lost, same, expected>>

ById == {"ids", "counts"}
ByTime == {"times", "api"}
LookedUp == {"dates", "open", "names"}
Lists == ById \cup ByTime \cup LookedUp
Counted == {"counts", "dates"}

\* A page, and what the links on it hold; blank when none was asked for.
Leaves == [at : {"count back", "count next", "read"}, way : {"blank", "first", "back", "next"},
           items : Seq(Rows), back : Rows \cup Keys \cup {None}, next : Rows \cup Keys \cup {None}]
Blank == [at |-> "read", way |-> "blank", items |-> <<>>, back |-> None, next |-> None]

TypeOK ==
    /\ list \in Lists /\ limit \in Limits
    /\ key \in [Rows -> Keys \cup {None}]
    /\ shown \subseteq Rows
    /\ leaf \in Leaves /\ Len(leaf.items) <= limit
    /\ seen \subseteq Rows /\ stayed \subseteq Rows /\ excused \subseteq Rows
    /\ lost \in BOOLEAN /\ same \in BOOLEAN
    /\ expected \in (SUBSET Rows) \cup {None}

\* Ids and names differ; notifications have their ids in the order of time.
Placed(places) ==
    /\ list \in ById => places = [i \in Rows |-> i]
    /\ list = "names" => \A i, j \in Rows : i # j /\ places[i] # None => places[i] # places[j]
    /\ list \in ByTime =>
           \A i, j \in Rows : i < j /\ places[i] # None /\ places[j] # None => places[i] <= places[j]

Init ==
    /\ list \in Lists /\ limit \in Limits
    /\ key \in [Rows -> Keys \cup {None}] /\ Placed(key)
    /\ shown \in SUBSET Rows
    /\ leaf = Blank
    /\ seen = {} /\ stayed = {} /\ excused = {} /\ lost = FALSE
    /\ same = TRUE /\ expected = None

-----------------------------------------------------------------------------
Listed == {i \in shown : key[i] # None}

\* A link holds an id or a time, or an id by which the date or the name is
\* looked up when it is followed.
Link(i) == IF list \in LookedUp THEN i ELSE key[i]
Place(link) == IF list \in LookedUp THEN key[link] ELSE link
Beyond(way, k) ==
    {i \in Listed : k # None /\ IF way = "back" THEN key[i] > k ELSE key[i] < k}

\* ORDER BY: towards the start of the list for a page back, except where it is by
\* time; where the places are equal, in any order.
Before(way, i, j) ==
    IF list \in ByTime THEN i > j ELSE IF way = "back" THEN key[i] <= key[j] ELSE key[i] >= key[j]

\* The results of a query for at most n rows of S.
Closest(way, S, n) ==
    LET m == IF Cardinality(S) < n THEN Cardinality(S) ELSE n
    IN  {s \in [1 .. m -> S] :
            /\ IsInjective(s)
            /\ \A a \in 1 .. m : /\ \A b \in a + 1 .. m : Before(way, s[a], s[b])
                                 /\ \A i \in S \ {s[b] : b \in 1 .. m} : Before(way, s[a], i)}

Reversed(s) == [a \in DOMAIN s |-> s[Len(s) + 1 - a]]
Shown(way, items, back, next) ==
    [at |-> IF list \in Counted /\ items # <<>> THEN "count back" ELSE "read", way |-> way, items |-> items,
     back |-> IF back /\ items # <<>> THEN Link(items[1]) ELSE None,
     next |-> IF next /\ items # <<>> THEN Link(items[Len(items)]) ELSE None]

\* Fault: the rows are reversed before the one too many is dropped.
PaginateReversed(way, results) ==
    LET more == Len(results) = limit + 1
        turned == IF way = "back" THEN Reversed(results) ELSE results
        items == IF more THEN SubSeq(turned, 1, limit) ELSE turned
    IN  Shown(way, items, way # "first" /\ (more \/ way # "back"), more \/ way = "back")

\* paginate: one row more than is shown tells whether there are more that way.
Paginate(way, results) ==
    LET more == Len(results) = limit + 1
        items == IF more THEN SubSeq(results, 1, limit) ELSE results
    IN  Shown(way, IF way = "back" THEN Reversed(items) ELSE items,
              way # "first" /\ (more \/ way # "back"), more \/ way = "back")

\* _paginate of the API keeps the end of the page towards the link.
PaginateApi(way, results) ==
    LET more == Len(results) > limit
        items == IF ~more THEN results
                 ELSE IF way = "back" THEN SubSeq(results, 2, limit + 1) ELSE SubSeq(results, 1, limit)
    IN  Shown(way, items, way # "first" /\ (more \/ way # "back"), more \/ way = "back")

\* The other lists have Back and Next on every page that has rows, or count.
Select(way, results) ==
    Shown(way, IF way = "back" /\ list # "times" THEN Reversed(results) ELSE results,
          list \notin Counted, list \notin Counted)

Pages(way, S) ==
    CASE list = "ids" -> {Paginate(way, r) : r \in Closest(way, S, limit + 1)}
      [] list = "api" -> {PaginateApi(way, r) : r \in Closest(way, S, limit + 1)}
      [] OTHER -> {Select(way, r) : r \in Closest(way, S, limit)}

-----------------------------------------------------------------------------
OnPage(page) == {page.items[a] : a \in DOMAIN page.items}
Tied(k) == {i \in Listed : key[i] = k}
Distinct == \A i, j \in Listed : i # j => key[i] # key[j]

\* Opening the list.
First ==
    /\ leaf.at = "read"
    /\ leaf' \in Pages("first", Listed)
    /\ seen' = OnPage(leaf') /\ stayed' = Listed
    /\ excused' = {} /\ lost' = FALSE
    /\ same' = TRUE /\ expected' = None
    /\ UNCHANGED <<list, limit, key, shown>>

FollowNext ==
    /\ leaf.at = "read" /\ leaf.next # None
    /\ leaf' \in Pages("next", Beyond("next", Place(leaf.next)))
    /\ seen' = seen \cup OnPage(leaf')
    /\ excused' = excused \cup Tied(Place(leaf.next))
    /\ same' = TRUE
    /\ expected' = IF same /\ Distinct THEN OnPage(leaf) ELSE None
    /\ UNCHANGED <<list, limit, key, shown, stayed, lost>>

FollowBack ==
    /\ leaf.at = "read" /\ leaf.back # None
    /\ leaf' \in Pages("back", Beyond("back", Place(leaf.back)))
    /\ seen' = {} /\ stayed' = {} /\ excused' = {}
    /\ same' = TRUE
    /\ expected' = IF leaf.way = "next" THEN expected ELSE None
    /\ UNCHANGED <<list, limit, key, shown, lost>>

\* PaginatedResult counts what is beyond each end of the page, by a query for
\* each, and the template leaves out a link to nothing.
CountBack ==
    /\ leaf.at = "count back"
    /\ LET link == Link(leaf.items[1])
       IN  leaf' = [leaf EXCEPT !.at = "count next",
                                !.back = IF Beyond("back", Place(link)) # {} THEN link ELSE None]
    /\ UNCHANGED <<list, limit, key, shown, seen, stayed, excused, lost, same, expected>>

CountNext ==
    /\ leaf.at = "count next"
    /\ LET link == Link(leaf.items[Len(leaf.items)])
       IN  /\ leaf' = [leaf EXCEPT !.at = "read",
                                   !.next = IF Beyond("next", Place(link)) # {} THEN link ELSE None]
           /\ excused' = excused \cup Tied(Place(link))
    /\ UNCHANGED <<list, limit, key, shown, seen, stayed, lost, same, expected>>

-----------------------------------------------------------------------------
\* A change of row i.
Changed(i) ==
    /\ stayed' = stayed \ {i}
    /\ same' = FALSE /\ expected' = None
    /\ UNCHANGED <<list, limit, leaf, seen, excused>>

\* A post is hidden, restored or rated, its author blocked, and so on.
Show(i) ==
    /\ shown' = IF i \in shown THEN shown \ {i} ELSE shown \cup {i}
    /\ Changed(i)
    /\ UNCHANGED <<key, lost>>

\* Leaving its place, which matters to a page that ends with the row.
Moved(i, place) ==
    /\ key' = [key EXCEPT ![i] = place]
    /\ lost' = (lost \/ (list \in LookedUp /\ leaf.items # <<>> /\ leaf.items[Len(leaf.items)] = i))
    /\ Changed(i)
    /\ UNCHANGED shown

\* A favorite, a collection or a notification of now; a new follower.
Insert(i, k) ==
    /\ list \notin ById /\ key[i] = None
    /\ list # "names" => \A j \in Rows : key[j] # None => key[j] <= k /\ (list \in ByTime => j < i)
    /\ Moved(i, k) /\ Placed(key')

Remove(i) == list \notin ById /\ key[i] # None /\ Moved(i, None)

\* login.change_username.
Rename(i, k) == list = "names" /\ key[i] \notin {k, None} /\ Moved(i, k) /\ Placed(key')

Next ==
    \/ First \/ FollowNext \/ FollowBack \/ CountBack \/ CountNext
    \/ \E i \in Rows : Show(i) \/ Remove(i) \/ \E k \in Keys : Insert(i, k) \/ Rename(i, k)

Spec == Init /\ [][Next]_vars

-----------------------------------------------------------------------------
\* Whoever reads to the end has had on some page every row that was in the list
\* all the time, except rows in the same place as the last one of a page, and
\* after a page whose last row has left the list or moved in it.
WalkMissesNothing ==
    leaf.at = "read" /\ leaf.way # "blank" /\ leaf.next = None /\ ~lost => stayed \ excused \subseteq seen

\* Back undoes Next in a list that has not changed, except by time, where it goes
\* to the newest rows.
BackReturns ==
    leaf.way = "back" /\ expected # None /\ list \notin ByTime => OnPage(leaf) = expected

\* A link that is not on every page leads to rows, if the list has not changed and
\* no two are in one place: both where they are counted, and the one in the
\* direction of the page elsewhere.
LinksLeadOn ==
    leaf.at = "read" /\ same /\ (list \in Counted \/ (list \in {"ids", "api"} /\ Distinct)) =>
        /\ leaf.next # None /\ (leaf.way # "back" \/ list \in Counted) => Beyond("next", Place(leaf.next)) # {}
        /\ leaf.back # None /\ (leaf.way # "next" \/ list \in Counted) => Beyond("back", Place(leaf.back)) # {}
================================================================================
