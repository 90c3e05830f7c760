------------------------ MODULE SiteContentInvariants -------------------------
(***************************************************************************)
(* The inductive invariants of the parts of SiteContent.  IInv of a part   *)
(* is what every step of it keeps, and what its promise follows from; the  *)
(* other definitions are what it is made of, or what the proofs that it is *)
(* kept speak of.                                                          *)
(***************************************************************************)
EXTENDS SiteContent, Sequences, FiniteSets

-----------------------------------------------------------------------------
\* Reports.

\* What a call that decides has read was an open report.
ReportsReadWasOpen ==
    \A c \in Calls : call[c].at \in {"select", "flush"} =>
        \A r \in Reports : call[c].read[r] # None => r \in Reporting!Opened /\ ~Reporting!IsClosed(call[c].read[r])

\* The open reports of a post, without counting them.
ReportsMeets ==
    \A t \in Targets : t \notin doubled /\ (\A r \in clash : report[r].target # t)
        => \A r, s \in Reporting!OpenOn(t) : r = s

ReportsIInv == Reporting!TypeOK /\ ReportsReadWasOpen /\ clash \subseteq Reporting!Opened /\ Reporting!ClosedForAReason /\ ReportsMeets

-----------------------------------------------------------------------------
\* Private messages.

\* A statement that changed the number of u's unread notes is still to be announced.
NotesAnnouncing(c, u) == (Writing!At(c, "announce") /\ call[c].to = u) \/ (Writing!At(c, "seen") /\ call[c].user = u)

NotesPending(u) == \E c \in Calls : NotesAnnouncing(c, u)

\* A note is marked as read by its recipient, and notes that are trashed are there.
NotesMarksItsOwn ==
    \A c \in Calls :
        /\ Writing!At(c, "mark") => call[c].note \in Writing!Sent /\ message[call[c].note].to = call[c].user
        /\ Writing!At(c, "trash") => call[c].notes \subseteq Writing!Sent

\* What is on its way to the cache is right, or was overtaken.
NotesFillsAreRight ==
    \A c \in Calls : Writing!At(c, "fill") /\ ~call[c].late => call[c].value = Writing!Unread(call[c].user) \/ NotesPending(call[c].user)

NotesIInv == Writing!TypeOK /\ NotesMarksItsOwn /\ Writing!ReplyIsPermitted /\ Writing!TrashedIsRead /\ Writing!UnreadIsCounted /\ NotesFillsAreRight
NotesCallSet == {Writing!Idle} \cup Writing!SendCall \cup Writing!ViewCall \cup Writing!RemoveCall \cup Writing!HeaderCall

\* UnreadIsCounted, said with Pending.
NotesCounted == \A u \in Writers : unread[u] # None /\ u \notin outdated => unread[u] = Writing!Unread(u) \/ NotesPending(u)

-----------------------------------------------------------------------------
\* Tags.

TagsSuggesting == {"read", "fill", "suggest"}
TagsEditing(l) == \E c \in Calls : Tagging!At(c, "invalidate") /\ call[c].list = l

\* Calls and tokens keep apart who suggests and who decides.
TagsRolesKept ==
    /\ \A c \in Calls : /\ call[c].at \in TagsSuggesting => call[c].user \notin Tagging!Deciders
                        /\ call[c].at \in {"approve", "reject"} =>
                               call[c].user \in Tagging!Deciders /\ call[c].by \notin Tagging!Deciders
    /\ \A k \in tokens : k.by \notin Tagging!Deciders

\* What a suggestion has to respect is in the table, in the cache, and in what
\* is on its way to the cache.
TagsBarsAreKnown ==
    \A c \in Calls : call[c].at \in TagsSuggesting => \A l \in Tagging!Lists :
        /\ call[c].barred[l] \subseteq restricted[l]
        /\ cached_tags[l] # Tagging!Missing => call[c].barred[l] \subseteq cached_tags[l]
        /\ \A d \in Calls : Tagging!At(d, "fill") /\ call[d].list = l => call[c].barred[l] \subseteq call[d].value

\* A suggestion has dropped the tags of the lists it has been through.
TagsListsAreDropped ==
    \A c \in Calls :
        /\ call[c].at \in {"read", "fill"} /\ call[c].list # "user" => call[c].tags \cap call[c].barred["user"] = {}
        /\ Tagging!At(c, "suggest") => \A l \in Tagging!Lists : call[c].tags \cap call[c].barred[l] = {}

\* A cached list is the one in the table, but while an edit of it is not
\* announced, or after it was stored too late; and so for one being stored.
TagsCacheIsRight ==
    /\ \A l \in Tagging!Lists : cached_tags[l] \in {Tagging!Missing, restricted[l]} \/ l \in overtaken_tags \/ TagsEditing(l)
    /\ \A d \in Calls : Tagging!At(d, "fill") /\ ~call[d].late =>
           call[d].value = restricted[call[d].list] \/ TagsEditing(call[d].list)

TagsIInv == /\ Tagging!TypeOK /\ Tagging!SearchFindsTags /\ TagsRolesKept /\ Tagging!Attributed
            /\ TagsBarsAreKnown /\ TagsListsAreDropped /\ TagsCacheIsRight

TagsCallSet == {Tagging!Idle} \cup Tagging!SuggestCall \cup Tagging!DecideCall \cup Tagging!EditCall

\* The part of the invariant about the tag map, and the part about the lists.
TagsTagInv == Tagging!SearchFindsTags /\ TagsRolesKept /\ Tagging!Attributed

TagsListInv == TagsBarsAreKnown /\ TagsListsAreDropped /\ TagsCacheIsRight

-----------------------------------------------------------------------------
\* Commission classes and prices.

PricesClassCall == [at : {"class insert"}, classid : Offering!Numbers, title : Titles, price : Titles \cup {None}]
PricesCheckCall == [at : {"price check"}, classid : Offering!Numbers, title : Titles \cup {None}, base : BOOLEAN]
PricesIdCall == [at : {"price id"}, classid : Offering!Numbers, title : Titles, late : BOOLEAN]
PricesInsertCall == [at : {"price insert"}, priceid : Offering!Numbers, classid : Offering!Numbers, title : Titles, late : BOOLEAN, beside : BOOLEAN]
PricesCleanupCall == [at : {"cleanup"}, classid : Offering!Numbers]
PricesSelectCall == [at : {"select prices"}, classes : SUBSET Offering!Numbers, late : BOOLEAN]

\* The class of a price that is being created is there, unless it was removed.
PricesOnTheWay ==
    \A c \in Calls : (Offering!At(c, "price id") \/ Offering!At(c, "price insert")) /\ ~call[c].late => call[c].classid \in Offering!Classes

\* A select that no new class has overtaken knows the classes.
PricesClassesRead == \A c \in Calls : Offering!At(c, "select prices") /\ ~call[c].late => Offering!Classes \subseteq call[c].classes

\* An id that has been chosen is free until another price with it is inserted.
PricesIdsFree ==
    \A c \in Calls : Offering!At(c, "price insert") /\ ~call[c].beside =>
        \A p \in commishprice : p.priceid # call[c].priceid

PricesIInv == Offering!TypeOK /\ PricesOnTheWay /\ PricesClassesRead /\ PricesIdsFree /\ Offering!PricesHaveTheirClass /\ Offering!PriceIdsDiffer

\* A nonempty set of numbers up to n has a greatest.
PricesBelow == {p \in Nat \X Nat : p[1] < p[2]}

\* The calls in progress.
PricesRecord == {Offering!Idle} \cup PricesClassCall \cup PricesCheckCall \cup PricesIdCall \cup PricesInsertCall \cup PricesCleanupCall \cup PricesSelectCall

PricesElsewhere(c) == \A d \in Calls \ {c} : call'[d] = call[d]
PricesBecame(c, q) == call' \in [Calls -> PricesRecord] /\ call'[c] = q /\ PricesElsewhere(c)

PricesTables ==
    /\ commishclass \in [Offering!Numbers -> Titles \cup {None}]
    /\ commishprice \subseteq Offering!Prices
    /\ failed \in {"no", "early", "stray", "yes"}
    /\ stray \subseteq Offering!Prices /\ twin \subseteq Offering!Numbers

-----------------------------------------------------------------------------
\* Media items.

UploadsProcessCall == [at : {"process"}, content : Tags]

UploadsFileCall == [at : {"open", "mkdir", "write", "sync", "sync parents", "insert"},
             content : Tags, made : BOOLEAN, early : BOOLEAN]

UploadsWriting(q) == q.at \in {"open", "mkdir", "write", "sync", "sync parents", "insert"}

\* How far an upload has come with its file and with the directory of it.
UploadsSteady(q) ==
    /\ q.at \in {"write", "sync", "sync parents", "insert"} => directory # "absent"
    /\ q.at = "mkdir" => ~q.early
    /\ q.at \in {"write", "sync", "sync parents"} /\ ~q.early /\ ~q.made => directory = "durable"
    /\ q.at = "insert" /\ ~q.early => directory = "durable"
    /\ q.at = "sync" => file[q.content] # "absent"
    /\ q.at \in {"sync parents", "insert"} => file[q.content] = "durable"

UploadsAllSteady == \A c \in Calls : UploadsSteady(call[c])

\* Without a directory there is no file, and a row has what no loss takes away.
UploadsFilesAreIn == directory = "absent" => \A k \in Tags : file[k] = "absent"

UploadsRowsAreDurable == \A k \in Tags \ hasty : media[k] > 0 => file[k] = "durable" /\ directory = "durable"

\* An upload of a content that no other is writing is the first.
UploadsAlone ==
    \A k \in Tags \ twins :
        /\ media[k] <= 1
        /\ \A c \in Calls : UploadsWriting(call[c]) /\ call[c].content = k =>
               /\ media[k] = 0
               /\ \A d \in Calls : UploadsWriting(call[d]) /\ call[d].content = k => d = c

UploadsIInv == Storing!TypeOK /\ UploadsAllSteady /\ UploadsFilesAreIn /\ UploadsRowsAreDurable /\ UploadsAlone

\* The calls in progress.
UploadsRecord == {Storing!Idle} \cup UploadsProcessCall \cup UploadsFileCall

UploadsElsewhere(c) == \A d \in Calls \ {c} : call'[d] = call[d]
UploadsBecame(c, q) == call' \in [Calls -> UploadsRecord] /\ call'[c] = q /\ UploadsElsewhere(c)

UploadsTables ==
    /\ directory \in Storing!Entry
    /\ file \in [Tags -> Storing!Entry]
    /\ media \in [Tags -> 0 .. MaxCopies]
    /\ hasty \subseteq Tags /\ twins \subseteq Tags

\* The directory and the files only become more durable.
UploadsFirmer ==
    /\ directory # "absent" => directory' # "absent"
    /\ directory = "durable" => directory' = "durable"
    /\ \A k \in Tags : /\ file[k] # "absent" => file'[k] # "absent"
                       /\ file[k] = "durable" => file'[k] = "durable"

-----------------------------------------------------------------------------
\* Links to media items.

\* What requests have to do: nothing of the file and its cover, or a new file
\* and then a cover, or a cover alone, or the removal of one.
ShownPlain ==
    {<<>>} \cup {<<Linking!Make("source", i)>> : i \in Tags} \cup {<<Linking!Make("custom", i)>> : i \in Tags}
    \cup {<<Linking!Clear(t)>> : t \in {"source", "avatar", "custom"}}
    \cup {<<Linking!Make("avatar", i), Linking!Clear("source")>> : i \in Tags}

ShownBoth(i) == <<Linking!Make("submission", i), Linking!Make("cover", i)>>
ShownSecond(i) == <<Linking!Make("cover", i)>>
ShownUncover == <<Linking!Clear("cover")>>
ShownPlans == ShownPlain \cup {ShownBoth(i) : i \in Tags} \cup {ShownSecond(i) : i \in Tags} \cup {ShownUncover}

ShownPlanned(q) ==
    q # Linking!Idle =>
        /\ q.todo \in ShownPlans
        /\ q.todo = <<>> => q.at = "fill"
        /\ q.at = "fill" => q.todo \in ShownPlain
        /\ q.at = "write" => Head(q.todo).do = "make"
        /\ shows = "visual" => q.todo # ShownUncover

ShownAllPlanned == \A c \in Calls : ShownPlanned(call[c])

\* A type that is not replaced twice at once has one row, and whoever replaces
\* it knows it, unless it was deleted.
ShownSingle(rows) == \A m, n \in Linking!Slots : rows[m] # None /\ rows[n] # None => m = n

ShownWrites(q, t) == q.at = "write" /\ Head(q.todo).type = t
ShownHolds(q, rows) == IF q.slot = 0 THEN \A n \in Linking!Slots : rows[n] = None ELSE q.slot \in Linking!Slots /\ rows[q.slot] # None

ShownSingles ==
    \A t \in Linking!Types \ mixed_links :
        /\ ShownSingle(links[t])
        /\ \A c, d \in Calls : ShownWrites(call[c], t) /\ ShownWrites(call[d], t) => c = d
        /\ \A c \in Calls : ShownWrites(call[c], t) /\ ~call[c].gone => ShownHolds(call[c], links[t])

\* How far an upload of a file has come.
ShownFiles(q) == q # Linking!Idle /\ q.todo \notin ShownPlain

ShownMatches(b) == b["cover"] = b["submission"]

ShownProgress(q, b) ==
    \A i \in Tags :
        /\ q.todo = ShownBoth(i) =>
              /\ q.at \in {"next", "write"} => ShownMatches(b)
              /\ q.at \in {"snapshot", "refresh"} => b["submission"] = {i}
        /\ q.todo = ShownSecond(i) =>
              /\ b["submission"] = {i}
              /\ q.at \in {"snapshot", "refresh"} => b["cover"] = {i}

ShownCovers ==
    shows = "visual" /\ ~split =>
        /\ "submission" \notin mixed_links /\ "cover" \notin mixed_links
        /\ \A c, d \in Calls : ShownFiles(call[c]) /\ ShownFiles(call[d]) => c = d
        /\ (\A c \in Calls : ~ShownFiles(call[c])) => ShownMatches(Linking!Bucket)
        /\ \A c \in Calls : ShownFiles(call[c]) => ShownProgress(call[c], Linking!Bucket)

\* What was read for the copy, and has not been overtaken, is what there is.
ShownCurrent(q) == q.at \in {"fill", "refresh"} /\ ~q.late => q.copy = Linking!Bucket

ShownAllCurrent == \A c \in Calls : ShownCurrent(call[c])
ShownIInv == Linking!TypeOK /\ ShownAllPlanned /\ ShownSingles /\ ShownCovers /\ ShownAllCurrent /\ Linking!PagesShowTheLinks
ShownRecord == {Linking!Idle} \cup Linking!CallRecords
ShownElsewhere(c) == \A d \in Calls \ {c} : call'[d] = call[d]
ShownBecame(c, q) == call' \in [Calls -> ShownRecord] /\ call'[c] = q /\ ShownElsewhere(c)

ShownTables ==
    /\ shows \in {"user", "visual", "other"}
    /\ links \in [Linking!Types -> [Linking!Slots -> Tags \cup {None}]]
    /\ cached_links \in Linking!Copies \cup {None}
    /\ outdated_links \in BOOLEAN /\ split \in BOOLEAN
    /\ mixed_links \subseteq Linking!Types

\* The links change under what others have read.
ShownOther(d, t, gone) ==
    IF call[d].at \in {"fill", "refresh"} THEN [call[d] EXCEPT !.late = TRUE]
    ELSE IF Linking!At(d, "write") /\ Linking!Doing(d).type = t /\ gone /\ call[d].slot # 0 THEN [call[d] EXCEPT !.gone = TRUE]
    ELSE call[d]

\* What a change of the rows of a type keeps, whatever the rows become: the copy is
\* announced by whoever made the change.
\* What is kept of the calls that did not make the change, and of everything else.
ShownKept(o, d, t, gone) ==
    /\ o.at = call[d].at
    /\ call[d] # Linking!Idle => o.todo = call[d].todo
    /\ call[d].at = "write" =>
           /\ o.slot = call[d].slot
           /\ ~o.gone => ~call[d].gone /\ ~(gone /\ Linking!Doing(d).type = t /\ call[d].slot # 0)

ShownChanged(c) ==
    /\ Linking!TypeOK' /\ ShownAllPlanned' /\ ShownAllCurrent' /\ Linking!PagesShowTheLinks'
    /\ \A d \in Calls : ShownFiles(call'[d]) <=> ShownFiles(call[d])
    /\ \A d \in Calls, u \in Linking!Types : ShownWrites(call'[d], u) <=> ShownWrites(call[d], u) /\ d # c

-----------------------------------------------------------------------------
\* Folders.

\* Two calls that touch the same have met.
FileOverlaps == \A c, d \in Calls : c # d => Filing!Touches(call[c]) \cap Filing!Touches(call[d]) \subseteq mixed_folders

\* A folder is in one of the same owner.
FileWithin(f, u) == Filing!Exists(f) /\ folder[f].userid = u

FileOwned == \A f \in Ids : Filing!Exists(f) => folder[f].parentid = Filing!Root \/ FileWithin(folder[f].parentid, folder[f].userid)

\* What calls have checked, and stays so: owners do not change.
FileCreating(q) == q.at \in {"create title", "create insert"}

FilePlacing(q) == q.at \in {"move titles", "move update"}
FileMoving(q) == q.at = "move parent" \/ FilePlacing(q)

FileKnown(q) ==
    /\ FileCreating(q) \/ FilePlacing(q) => q.parent = Filing!Root \/ FileWithin(q.parent, q.user)
    /\ q.at = "move children" \/ FileMoving(q) => FileWithin(q.folder, q.user) /\ q.folder # q.parent
    /\ q.at = "remove commit" => Filing!Exists(q.folder) /\ \A g \in q.hides : Filing!Exists(g)
    /\ q.at = "options" => Filing!Exists(q.folder)
    /\ q.at = "file" => q.folder = Filing!Root \/ Filing!Exists(q.folder)

FileAllKnown == \A c \in Calls : FileKnown(call[c])

\* What calls have checked, and stays so while no other call meets them.
FileAtTop(f) == Filing!Visible(f) /\ folder[f].parentid = Filing!Root

FileSound(q) ==
    /\ FileCreating(q) => q.parent \in mixed_folders \cup {Filing!Root} \/ FileAtTop(q.parent)
    /\ FilePlacing(q) => q.parent \in mixed_folders \cup {Filing!Root} \/ q.folder \in strayed \/ FileAtTop(q.parent)
    /\ FileMoving(q) => q.folder \in mixed_folders \/ \A g \in Ids \ mixed_folders : Filing!Visible(g) => folder[g].parentid # q.folder
    /\ q.at = "remove commit" =>
           /\ q.folder \in mixed_folders \/ \A g \in Ids \ mixed_folders : Filing!Visible(g) /\ folder[g].parentid = q.folder => g \in q.hides
           /\ \A g \in q.hides \ mixed_folders : g = q.folder \/ folder[g].parentid = q.folder
    /\ q.at = "options" => q.folder \in mixed_folders \/ Filing!Visible(q.folder)
    /\ q.at = "file" => q.folder \in mixed_folders \cup {Filing!Root} \/ (Filing!Visible(q.folder) /\ folder[q.folder].userid = q.user)

FileAllSound == \A c \in Calls : FileSound(call[c])

\* The tables.
FilePlaced ==
    \A f \in Ids \ (mixed_folders \cup strayed) :
        Filing!Visible(f) => folder[f].parentid \in mixed_folders \cup {Filing!Root} \/ FileAtTop(folder[f].parentid)

FileFiled ==
    \A s \in Submissions : submission[s] # Filing!Absent =>
        \/ submission[s].folderid \in mixed_folders \cup {Filing!Root}
        \/ Filing!Visible(submission[s].folderid) /\ folder[submission[s].folderid].userid = submission[s].userid

FileIInv == Filing!TypeOK /\ FileOverlaps /\ FileOwned /\ FileAllKnown /\ FileAllSound /\ FilePlaced /\ FileFiled

\* The calls in progress.
FileCreateCall == [at : {"create title", "create insert"}, user : Filers, parent : Ids \cup {Filing!Root}, title : Titles]

FileMoveCall ==
    [at : {"move children", "move parent", "move titles", "move update"}, user : Filers,
     folder : Ids, parent : Ids \cup {Filing!Root}, title : Titles]

FileRemoveCall == [at : {"remove commit"}, folder : Ids, hides : SUBSET Ids]
FileOptionsCall == [at : {"options"}, folder : Ids]
FileFileCall == [at : {"file"}, submission : Submissions, user : Filers, folder : Ids \cup {Filing!Root}]
FileRecord == {Filing!Idle} \cup FileCreateCall \cup FileMoveCall \cup FileRemoveCall \cup FileOptionsCall \cup FileFileCall
FileElsewhere(c) == \A d \in Calls \ {c} : call'[d] = call[d]

FileTables ==
    /\ folder \in [Ids -> Filing!Rows \cup {Filing!Absent}]
    /\ submission \in [Submissions -> [userid : Filers, folderid : Ids \cup {Filing!Root}] \cup {Filing!Absent}]
    /\ mixed_folders \subseteq Ids \cup Submissions
    /\ strayed \subseteq Ids

FileMoveGone(c, q, a) ==
    \E r \in FileMoveCall : /\ call' = [call EXCEPT ![c] = r] /\ r.at = a
                            /\ r.user = q.user /\ r.folder = q.folder /\ r.parent = q.parent

\* What calls know stays, as folders stay and have the same owners.
FileKeeps == \A f \in Ids : Filing!Exists(f) => folder'[f] # Filing!Absent /\ folder'[f].userid = folder[f].userid

\* A row is as it was, but for its title.
FileLike(g) ==
    /\ Filing!Exists(g)' = Filing!Exists(g)
    /\ Filing!Exists(g) => /\ folder'[g].parentid = folder[g].parentid
                           /\ folder'[g].userid = folder[g].userid /\ folder'[g].hidden = folder[g].hidden

-----------------------------------------------------------------------------
\* Notifications.

\* The columns that lead from a notification to its post, by its type.
ToldWellMade(n) ==
    /\ n.type \in Notifying!Posting => n.targetid \in NoticeIds
    /\ n.type \in Notifying!Favoriting => n.referid \in NoticeIds
    /\ n.type \in Notifying!Commenting => n.targetid \in NoticeIds /\ n.referid = subject[n.targetid]
    /\ n.type \in Notifying!Replying => n.targetid \in NoticeIds /\ n.referid \in NoticeIds /\ subject[n.referid] = subject[n.targetid]

ToldAllWellMade == \A n \in welcome : ToldWellMade(n)

ToldPageRow ==
    [at : {"selected", "rendered"}, of : {"notifications", "submissions"}, window : Notifying!Windows,
     stood : SUBSET Notifying!Row, shown : SUBSET Notifying!Row, above : SUBSET Notifying!Row, later : SUBSET Notifying!Row,
     before : 0..MaxTime]

ToldPageIs == shown = Notifying!NoPage \/ shown \in ToldPageRow

\* All that the page would remove was on it, or on other pages, or is excused.
ToldCovers(n) == n \in shown.shown \/ n \in shown.above \/ n \in shown.later \/ Notifying!Elsewhere(n)

ToldCovered ==
    /\ shown.at \in {"selected", "rendered"} => shown.before <= time
    /\ shown.at \in {"selected", "rendered"} =>
           \A n \in welcome : n.type \in Notifying!On(shown.of) /\ (shown.at = "rendered" => n.unixtime < shown.before) => ToldCovers(n)

ToldIInv == Notifying!TypeOK /\ ToldPageIs /\ ToldAllWellMade /\ ToldCovered /\ Notifying!RemovedWithThePost /\ Notifying!RemovedWasShown

\* Types and the kinds of post.
ToldSubjected == Notifying!Commenting \cup Notifying!Replying \cup Notifying!Shouting

\* Which posts are hidden.
ToldHid(k, i) == posts[k][i].hidden

ToldPostRow == [hidden : BOOLEAN, mature : BOOLEAN]
ToldHiding(sort, i, h) == posts' = [posts EXCEPT ![sort][i].hidden = h]

\* Whatever leads to a post that is hidden is excused.
ToldExcused(n) ==
    Notifying!About(n.type) \in Notifying!PostKinds /\ n.type # 3035 =>
        (ToldHid(Notifying!About(n.type), Notifying!Joined(n)) => <<Notifying!About(n.type), Notifying!Joined(n)>> \in bulk)

ToldOnSubject(i) == {c \in NoticeIds : subject[c] = i}

-----------------------------------------------------------------------------
\* Comments.

TalkTold == {"tell whom", "tell"}
TalkRemovals == {"remove read", "remove notices", "remove hide"}
TalkTelling(m) == \E b \in Calls : call[b].at \in TalkTold /\ call[b].comment = m
TalkAbove(u) == u \in TalkMods \/ (u = Owner /\ page # "update")
TalkAuthor(m) == comment[m].userid

\* Replies that are not hidden were made beside the removal.
TalkChildless(m) == \A r \in Talking!Replies(m) : Talking!Hidden(r) \/ r \in late

\* Nobody was told, or is about to be, of what is below a comment.
TalkQuiet(m) ==
    \A k \in Talking!Below(m) \ late :
        ~TalkTelling(k) /\ \A n \in told : n[3] = k => n[2] = "collected"

\* What insert asks nobody about: moderators' shouts, and what a site update's
\* owner is told.
TalkExempt(k, m) == (page \in Talking!Shouts /\ TalkAuthor(m) \in TalkMods) \/ (page = "update" /\ k = "own")

\* What is replied to is there; under what a commenter hid nothing is visible; and
\* below what is hidden all is quiet.
TalkRowsHold ==
    \A m \in Ids : Talking!Made(m) =>
        /\ comment[m].parent # None => Talking!Made(comment[m].parent)
        /\ Talking!Hidden(m) /\ ~TalkAbove(comment[m].hidden_by) => TalkChildless(m)
        /\ Talking!Hidden(m) /\ page # "notes" => TalkQuiet(m)

\* Nobody was told by someone they ignored all the while.
TalkNoticesHold == \A n \in told : Talking!Made(n[3]) /\ (n[1] \in shunned[n[3]] => TalkExempt(n[2], n[3]))

\* What a removal has found stays true until it hides the comment.
TalkRemovalHolds(r) ==
    r.at \in TalkRemovals \cup {"remove replies"} =>
        /\ Talking!Made(r.comment)
        /\ r.at # "remove replies" /\ ~TalkAbove(r.user) => TalkChildless(r.comment)
        /\ r.at = "remove notices" => Talking!Below(r.comment) \subseteq r.ids \cup late
        /\ r.at = "remove hide" /\ page # "notes" => TalkQuiet(r.comment)

\* insert asks ignoreuser.check whether v ignores u.
TalkAsks(u, p, v) ==
    /\ ~(page \in Talking!Shouts /\ u \in TalkMods)
    /\ (page # "update" /\ v = Owner) \/ (p # None /\ v = comment[p].userid)

\* Whoever ignores the author all the while has still to be asked about, or will
\* not be told.
TalkInsertHolds(r) ==
    r.at \in {"insert checks", "insert"} =>
        /\ r.parent # None => Talking!Made(r.parent)
        /\ r.at = "insert" => r.checks = <<>>
        /\ \A v \in r.shun :
               /\ <<v, r.user>> \in ignored
               /\ TalkAsks(r.user, r.parent, v) => \E i \in 1 .. Len(r.checks) : r.checks[i] = <<v, r.user>>

TalkTellHolds(r) ==
    r.at \in TalkTold =>
        /\ Talking!Made(r.comment)
        /\ \A v \in shunned[r.comment] : <<v, TalkAuthor(r.comment)>> \in ignored
        /\ \A t \in r.tell : t[1] \in shunned[r.comment] => TalkExempt(t[2], r.comment)

TalkIInv ==
    /\ Talking!TypeOK /\ TalkRowsHold /\ TalkNoticesHold
    /\ \A c \in Calls : TalkRemovalHolds(call[c]) /\ TalkInsertHolds(call[c]) /\ TalkTellHolds(call[c])

\* A step that takes nothing back: rows and what is known of them stay, and below
\* what is hidden or being removed nothing is new but what is marked late.
TalkGrows ==
    /\ page' = page /\ late \subseteq late'
    /\ \A m \in Ids : Talking!Made(m) =>
           /\ Talking!Made(m)' /\ comment'[m].parent = comment[m].parent /\ comment'[m].userid = comment[m].userid
           /\ Talking!Hidden(m) => Talking!Hidden(m)' /\ comment'[m].hidden_by = comment[m].hidden_by
           /\ TalkTelling(m)' => TalkTelling(m)
           /\ shunned'[m] \subseteq shunned[m]
           /\ Talking!Hidden(m) \/ Talking!Removing(m) => Talking!Below(m)' \subseteq Talking!Below(m) \cup late'
    /\ \A n \in told' : n \in told \/ n[2] = "collected" \/ TalkTelling(n[3])

\* The record of an insert without some who ignore its author.
TalkInsertRecords ==
    [at : {"insert checks", "insert"}, user : Talkers, parent : Ids \cup {None},
     checks : Seq(Talkers \X Talkers), shun : SUBSET Talkers]

TalkWithout(r, u) == [r EXCEPT !.shun = @ \ {u}]
================================================================================
