------------------------------ MODULE MediaLinks -------------------------------
(***************************************************************************)
(* Which media items a user or a submission shows: the rows of             *)
(* user_media_links or submission_media_links of one of them, and the copy *)
(* of them in memcached that every page reads (libweasyl/models/media.py,  *)
(* libweasyl/media.py), with the operations of avatar.py, banner.py,       *)
(* thumbnail.py and submission.py that replace and clear links.            *)
(*                                                                         *)
(* Every query and every flush commits by itself.  A link is replaced by   *)
(* reading a row of its type and then updating it or inserting one, which  *)
(* no unique index confines; then the copy is computed anew and stored.    *)
(* The items exist (MediaFiles).  A cover is identified with the file it   *)
(* was made from, and so are thumbnails.                                   *)
(***************************************************************************)
EXTENDS Naturals, FiniteSets, Sequences, Requests

CONSTANTS
    Items,
    MaxLinks,       \* bound: rows of one type
    None

VARIABLES
    kind,           \* whose links they are: a user, or a submission that is
                    \* visual or not
    links,          \* the item of each row of each type, or None
    cached,         \* the copy: the items of each type, or None
    outdated,       \* history: the copy misses a change that a request ended
                    \* without storing, or that overtook what it was made from
    mixed,          \* history: types two requests were replacing at once
    split           \* history: two uploads of the file overlapped, or one was
                    \* cut short

vars == <<kind, links, cached, call, outdated, mixed, split>>

ConstantsOK == None \notin Items /\ MaxLinks \in Nat \ {0}

Types == {"source", "avatar", "submission", "cover", "custom"}
Steps == [do : {"make"}, type : Types, item : Items] \cup [do : {"clear"}, type : Types]
Slots == 1 .. MaxLinks
Copies == [Types -> SUBSET Items]
\* What a request has still to do, the row it replaces (0 for a new one), and
\* what it has read for the copy; late when that was overtaken.
CallRecords ==
    [at : {"next", "write", "snapshot", "refresh", "fill"}, todo : Seq(Steps), slot : Slots \cup {0},
     gone : BOOLEAN, copy : Copies \cup {None}, late : BOOLEAN]

TypeOK ==
    /\ kind \in {"user", "visual", "other"}
    /\ links \in [Types -> [Slots -> Items \cup {None}]]
    /\ cached \in Copies \cup {None}
    /\ call \in [Calls -> {Idle} \cup CallRecords]
    /\ outdated \in BOOLEAN /\ split \in BOOLEAN
    /\ mixed \subseteq Types

Init ==
    /\ kind \in {"user", "visual", "other"}
    /\ links = [t \in Types |-> [n \in Slots |-> None]]
    /\ cached = None
    /\ call = AllIdle
    /\ outdated = FALSE /\ mixed = {} /\ split = FALSE

-----------------------------------------------------------------------------
\* bucket_links.
Bucket == [t \in Types |-> {links[t][n] : n \in Slots} \ {None}]
Make(t, i) == [do |-> "make", type |-> t, item |-> i]
Clear(t) == [do |-> "clear", type |-> t]
Doing(c) == Head(call[c].todo)
Uploads(c) == call[c] # Idle /\ \E n \in 1 .. Len(call[c].todo) : call[c].todo[n].type \in {"submission", "cover"}

Begin(c, step, todo, copy) ==
    Start(c, [at |-> step, todo |-> todo, slot |-> 0, gone |-> FALSE, copy |-> copy, late |-> FALSE])

\* avatar.upload and thumbnail.upload of a source (a banner, and the file of a
\* submission that is not visual, are replaced in the same way).
ReplaceSource(c, i) ==
    /\ Begin(c, "next", <<Make("source", i)>>, None)
    /\ UNCHANGED <<kind, links, cached, outdated, mixed, split>>

\* reupload_cover, with a file and without.
ReuploadCover(c, i) ==
    /\ kind = "other"
    /\ Begin(c, "next", <<IF i = None THEN Clear("cover") ELSE Make("cover", i)>>, None)
    /\ UNCHANGED <<kind, links, cached, outdated, mixed, split>>

\* removeavatar and removethumbnail.
Remove(c) ==
    /\ Begin(c, "next", <<Clear(IF kind = "user" THEN "avatar" ELSE "custom")>>, None)
    /\ UNCHANGED <<kind, links, cached, outdated, mixed, split>>

\* reupload, or creation, of a visual submission: the file is not one the user
\* has submitted (check_for_duplicate_media), and its cover is made from it.
Reupload(c, i) ==
    /\ kind = "visual" /\ i \notin Bucket["submission"]
    /\ Begin(c, "next", <<Make("submission", i), Make("cover", i)>>, None)
    /\ split' = (split \/ \E d \in Calls : Uploads(d))
    /\ UNCHANGED <<kind, links, cached, outdated, mixed>>

\* avatar_source and thumbnail_source.
HasSource(copy) == copy["source"] # {} \/ (kind # "user" /\ copy["cover"] # {})

\* What is cut out is cut out of the source that the copy shows, or the links when
\* there is no copy.
Crop(c, todo) ==
    /\ IF cached = None
         THEN Begin(c, "fill", todo, Bucket)
         ELSE HasSource(cached) /\ Begin(c, "next", todo, None)
    /\ UNCHANGED <<kind, links, cached, outdated, mixed, split>>

\* avatar.create and thumbnail.create.
CropAvatar(c, i) == kind = "user" /\ Crop(c, <<Make("avatar", i), Clear("source")>>)
CropThumbnail(c, i) == kind # "user" /\ Crop(c, <<Make("custom", i)>>)

\* Any page, without a copy: cache_multi_on_arguments.
Visit(c) ==
    /\ cached = None
    /\ Begin(c, "fill", <<>>, Bucket)
    /\ UNCHANGED <<kind, links, cached, outdated, mixed, split>>

-----------------------------------------------------------------------------
\* The copy is stored; what a crop has found decides whether it goes on.
Fill(c) ==
    /\ At(c, "fill")
    /\ cached' = call[c].copy
    /\ outdated' = call[c].late
    /\ call' = [call EXCEPT ![c] =
          IF @.todo = <<>> \/ ~HasSource(@.copy) THEN Idle ELSE [@ EXCEPT !.at = "next", !.copy = None, !.late = FALSE]]
    /\ UNCHANGED <<kind, links, mixed, split>>

\* make_or_replace_link reads a row of the type.
ReadLink(c) ==
    /\ At(c, "next") /\ Doing(c).do = "make"
    /\ LET t == Doing(c).type
           rows == {n \in Slots : links[t][n] # None}
       IN  /\ \E n \in IF rows = {} THEN {0} ELSE rows :
                  call' = [call EXCEPT ![c].at = "write", ![c].slot = n, ![c].gone = FALSE]
           /\ mixed' = IF \E d \in Calls : At(d, "write") /\ Doing(d).type = t THEN mixed \cup {t} ELSE mixed
    /\ UNCHANGED <<kind, links, cached, outdated, split>>

\* The links change under what others have read, and under the row they hold.
Change(c, next, t, gone) ==
    call' = [d \in Calls |->
        IF d = c THEN next
        ELSE IF call[d].at \in {"fill", "refresh"} THEN [call[d] EXCEPT !.late = TRUE]
        ELSE IF At(d, "write") /\ Doing(d).type = t /\ gone /\ call[d].slot # 0 THEN [call[d] EXCEPT !.gone = TRUE]
        ELSE call[d]]

\* The flush inserts or updates; a row deleted meanwhile is an error.
WriteLink(c) ==
    /\ At(c, "write")
    /\ LET t == Doing(c).type
           free == {n \in Slots : links[t][n] = None}
       IN  IF call[c].gone
             THEN End(c) /\ split' = (split \/ Uploads(c)) /\ UNCHANGED links
             ELSE /\ \E n \in IF call[c].slot # 0 THEN {call[c].slot}
                              ELSE {CHOOSE m \in free : \A l \in free : m <= l} :
                         links' = [links EXCEPT ![t][n] = Doing(c).item]
                  /\ Change(c, [call[c] EXCEPT !.at = "snapshot", !.slot = 0], t, FALSE)
                  /\ UNCHANGED split
    /\ UNCHANGED <<kind, cached, outdated, mixed>>

\* clear_link deletes every row of the type.
ClearLink(c) ==
    /\ At(c, "next") /\ Doing(c).do = "clear"
    /\ LET t == Doing(c).type
       IN  /\ links' = [links EXCEPT ![t] = [n \in Slots |-> None]]
           /\ Change(c, [call[c] EXCEPT !.at = "snapshot"], t, TRUE)
    /\ UNCHANGED <<kind, cached, outdated, mixed, split>>

\* refresh_cache reads all links again ...
Snapshot(c) ==
    /\ At(c, "snapshot")
    /\ call' = [call EXCEPT ![c].at = "refresh", ![c].copy = Bucket, ![c].late = FALSE]
    /\ UNCHANGED <<kind, links, cached, outdated, mixed, split>>

\* Going on to the next link.
Onward(c) ==
    call' = [call EXCEPT ![c] =
        IF Len(call[c].todo) = 1 THEN Idle
        ELSE [@ EXCEPT !.at = "next", !.todo = Tail(call[c].todo), !.copy = None, !.late = FALSE]]

\* Fault: the copy is stored only if there is none.
RefreshMissing(c) ==
    /\ At(c, "refresh")
    /\ cached' = IF cached = None THEN call[c].copy ELSE cached
    /\ outdated' = call[c].late
    /\ Onward(c)
    /\ UNCHANGED <<kind, links, mixed, split>>

\* ... and stores them over the copy.
Refresh(c) ==
    /\ At(c, "refresh")
    /\ cached' = call[c].copy
    /\ outdated' = call[c].late
    /\ Onward(c)
    /\ UNCHANGED <<kind, links, mixed, split>>

\* memcached forgets.
Evict ==
    /\ cached # None
    /\ cached' = None /\ outdated' = FALSE
    /\ UNCHANGED <<kind, links, call, mixed, split>>

\* The request or the worker ends.
CutShort(c) ==
    /\ call[c] # Idle
    /\ End(c)
    /\ outdated' = (outdated \/ (cached # None /\ call[c].at \in {"snapshot", "refresh"}))
    /\ split' = (split \/ Uploads(c))
    /\ UNCHANGED <<kind, links, cached, mixed>>

Next ==
    \/ Evict
    \/ \E c \in Calls :
        \/ Visit(c) \/ Fill(c) \/ CutShort(c)
        \/ Remove(c)
        \/ \E i \in Items : Reupload(c, i) \/ ReplaceSource(c, i) \/ CropAvatar(c, i) \/ CropThumbnail(c, i)
        \/ \E i \in Items \cup {None} : ReuploadCover(c, i)
        \/ ReadLink(c) \/ WriteLink(c) \/ ClearLink(c) \/ Snapshot(c) \/ Refresh(c)

Spec == Init /\ [][Next]_vars

-----------------------------------------------------------------------------
Refreshing == \E c \in Calls : call[c].at \in {"snapshot", "refresh"}

\* Pages show the links there are once those who changed them are done, except
\* a copy that a change has overtaken or that was never stored: it has no expiry.
PagesShowTheLinks == cached \in {None, Bucket} \/ outdated \/ Refreshing

\* One avatar, one cover: a type that is not replaced twice at once has a row.
LinksAreSingle == \A t \in Types \ mixed : Cardinality(Bucket[t]) <= 1

\* The cover of a visual submission is that of its file.
CoverIsOfTheFile ==
    kind = "visual" /\ ~split /\ ~(\E c \in Calls : Uploads(c)) => Bucket["cover"] = Bucket["submission"]
================================================================================
