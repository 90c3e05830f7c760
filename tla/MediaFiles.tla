------------------------------ MODULE MediaFiles -------------------------------
(***************************************************************************)
(* What an upload leaves on disk and in the table media                    *)
(* (libweasyl/models/media.py, MediaItem.fetch_or_create).  A file is      *)
(* named by the hash of its content; the first upload of a content writes  *)
(* the file, makes it durable, and only then inserts the row that all      *)
(* later uploads of it find.  No unique index keeps the rows apart.        *)
(*                                                                         *)
(* A file is written under a temporary name, synced and renamed, which is  *)
(* one step here.  What a rename or a mkdir does is seen at once and is    *)
(* durable when the directory it was done in has been synced; a loss of    *)
(* power keeps or forgets each of the rest.  The directories of a file are *)
(* one below the root, where all contents meet.  The database is durable.  *)
(***************************************************************************)
EXTENDS Naturals, Requests

CONSTANTS
    Contents,
    MaxItems        \* bound: rows for one content

VARIABLES
    directory,      \* where the files are: absent, fresh (made, and not yet
                    \* durable) or durable
    file,           \* the file of each content, likewise
    media,          \* how many rows there are for each content
    hasty,          \* history: contents with a row from an upload that found
                    \* the directory before it was durable
    twins           \* history: contents that were uploaded twice at once

vars == <<directory, file, media, call, hasty, twins>>

ConstantsOK == MaxItems \in Nat

Entry == {"absent", "fresh", "durable"}
CallRecords ==
    [at : {"process"}, content : Contents]
    \cup [at : {"open", "mkdir", "write", "sync", "sync parents", "insert"},
          content : Contents, made : BOOLEAN, early : BOOLEAN]

TypeOK ==
    /\ directory \in Entry
    /\ file \in [Contents -> Entry]
    /\ media \in [Contents -> 0 .. MaxItems]
    /\ call \in [Calls -> {Idle} \cup CallRecords]
    /\ hasty \subseteq Contents /\ twins \subseteq Contents

Init ==
    /\ directory = "absent"
    /\ file = [k \in Contents |-> "absent"]
    /\ media = [k \in Contents |-> 0]
    /\ hasty = {} /\ twins = {}
    /\ call = AllIdle

-----------------------------------------------------------------------------
Content(c) == call[c].content
Uploading(k) == {c \in Calls : call[c].at \notin {"idle", "process"} /\ Content(c) = k}
Opening(k) == [at |-> "open", content |-> k, made |-> FALSE, early |-> FALSE]

\* _upload_visual looks for the row first (one_or_none), and cannot go on if
\* there are several; without one it processes the image before it asks again.
UploadVisual(c, k) ==
    /\ media[k] = 0
    /\ Start(c, [at |-> "process", content |-> k])
    /\ UNCHANGED <<directory, file, media, hasty, twins>>

\* fetch_or_create finds no row.
FindNone(k) ==
    /\ media[k] = 0
    /\ twins' = IF Uploading(k) # {} THEN twins \cup {k} ELSE twins
    /\ UNCHANGED <<directory, file, media, hasty>>

\* Covers, thumbnails and the other files of an upload are not looked for before;
\* one that has a row changes nothing.
EnsureOutputMedia(c, k) == Start(c, Opening(k)) /\ FindNone(k)

FetchNone(c) ==
    /\ At(c, "process")
    /\ call' = [call EXCEPT ![c] = Opening(Content(c))]
    /\ FindNone(Content(c))

\* fetch_or_create has found what another upload inserted meanwhile.
FetchFound(c) ==
    /\ At(c, "process") /\ media[Content(c)] > 0
    /\ End(c)
    /\ UNCHANGED <<directory, file, media, hasty, twins>>

\* _makedirs_synced opens the deepest directory that exists ...
OpenDirectory(c) ==
    /\ At(c, "open")
    /\ call' = [call EXCEPT ![c].at = IF directory = "absent" THEN "mkdir" ELSE "write",
                            ![c].early = directory = "fresh"]
    /\ UNCHANGED <<directory, file, media, hasty, twins>>

\* ... and makes the others, which fails if one exists by now.
MakeDirectory(c) ==
    /\ At(c, "mkdir")
    /\ IF directory = "absent"
         THEN directory' = "fresh" /\ call' = [call EXCEPT ![c].at = "write", ![c].made = TRUE]
         ELSE End(c) /\ UNCHANGED directory
    /\ UNCHANGED <<file, media, hasty, twins>>

\* The temporary file is durable and takes its name; a durable file of that
\* name has the same content.
WriteFile(c) ==
    /\ At(c, "write")
    /\ file' = [file EXCEPT ![Content(c)] = IF @ = "durable" THEN @ ELSE "fresh"]
    /\ Goto(c, "sync")
    /\ UNCHANGED <<directory, media, hasty, twins>>

\* fsync of the directory makes every name in it durable.
SyncDirectory(c) ==
    /\ At(c, "sync")
    /\ file' = [k \in Contents |-> IF file[k] = "fresh" THEN "durable" ELSE file[k]]
    /\ Goto(c, "sync parents")
    /\ UNCHANGED <<directory, media, hasty, twins>>

\* Fault: only the directory of the file is synced.
SyncParentsNever(c) ==
    /\ At(c, "sync parents")
    /\ Goto(c, "insert")
    /\ UNCHANGED <<directory, file, media, hasty, twins>>

\* On leaving _makedirs_synced, the directories this upload has changed.
SyncParents(c) ==
    /\ At(c, "sync parents")
    /\ directory' = IF call[c].made THEN "durable" ELSE directory
    /\ Goto(c, "insert")
    /\ UNCHANGED <<file, media, hasty, twins>>

\* The row, written by the flush before the next query.
InsertMedia(c) ==
    /\ At(c, "insert")
    /\ media[Content(c)] < MaxItems
    /\ media' = [media EXCEPT ![Content(c)] = @ + 1]
    /\ hasty' = IF call[c].early THEN hasty \cup {Content(c)} ELSE hasty
    /\ End(c)
    /\ UNCHANGED <<directory, file, twins>>

\* The request or the worker ends; what is on disk stays.
CutShort(c) ==
    /\ call[c] # Idle
    /\ End(c)
    /\ UNCHANGED <<directory, file, media, hasty, twins>>

Kept(entry) == IF entry = "fresh" THEN {"absent", "durable"} ELSE {entry}
PowerLoss ==
    /\ directory' \in Kept(directory)
    /\ IF directory' = "absent"
         THEN file' = [k \in Contents |-> "absent"]
         ELSE file' \in [Contents -> Entry] /\ \A k \in Contents : file'[k] \in Kept(file[k])
    /\ call' = AllIdle
    /\ UNCHANGED <<media, hasty, twins>>

Next ==
    \/ PowerLoss
    \/ \E c \in Calls :
        \/ \E k \in Contents : UploadVisual(c, k) \/ EnsureOutputMedia(c, k)
        \/ FetchNone(c) \/ FetchFound(c) \/ OpenDirectory(c) \/ MakeDirectory(c) \/ WriteFile(c)
        \/ SyncDirectory(c) \/ SyncParents(c) \/ InsertMedia(c) \/ CutShort(c)

Spec == Init /\ [][Next]_vars

-----------------------------------------------------------------------------
\* A row that can be found has its file, whatever was lost: no later upload of
\* the content would write it again.  Except where an upload has taken another's
\* directory for durable.
FilesSurvive == \A k \in Contents \ hasty : media[k] > 0 => file[k] # "absent"

\* A content has one row, so that duplicates are noticed and the content can be
\* uploaded again, unless it was uploaded twice at once.
OneItemPerContent == \A k \in Contents \ twins : media[k] <= 1
================================================================================
