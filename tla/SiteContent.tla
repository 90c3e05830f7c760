----------------------------- MODULE SiteContent ------------------------------
(***************************************************************************)
(* What users put on the site, and what comes of it: tags, folders,        *)
(* comments, commissions, notes, reports, notifications, files and links.  *)
(***************************************************************************)
EXTENDS Site

CONSTANTS
    Taggers, Filers, Talkers, Collectors, Writers,          \* bounds: the users of a part
    TagMods, TalkMods, NoteMods, ReportMods,                \* staff.MODS among them
    Tags, Titles, Kinds, Submissions, Targets,
    NoticeIds, Messages, Reports,
    PageLimit,
    MaxId, MaxTime          \* bounds

VARIABLES
    searchmap, submission_tags, feedback, tokens, restricted, cached_tags,
    drift, overtaken_tags,
    folder, submission, mixed_folders, strayed,
    page, comment, told, ignored, late, shunned,
    commishclass, commishprice, failed, stray, twin,
    message, permitted, ignoring, accepts, friends, unread, outdated,
    report, clash, doubled,
    posts, subject, mature, welcome, time, shown, unseen, bulk,
    directory, file, media, hasty, twins,
    shows, links, cached_links, outdated_links, mixed_links, split

Tagging == INSTANCE SearchTags WITH
    Users <- Taggers, Mods <- TagMods, Nobody <- None,
    cached <- cached_tags, overtaken <- overtaken_tags
Filing == INSTANCE Folders WITH
    Users <- Filers, Folders <- Ids,
    mixed <- mixed_folders
Talking == INSTANCE Comments WITH
    Users <- Talkers, Mods <- TalkMods, Comments <- Ids,
    welcome <- told, ignoreuser <- ignored
Offering == INSTANCE Commissions
Writing == INSTANCE Notes WITH
    Users <- Writers, Mods <- NoteMods, Missing <- None
Reporting == INSTANCE Reports WITH Mods <- ReportMods
Notifying == INSTANCE Notices WITH Ids <- NoticeIds, post <- posts, page <- shown
Storing == INSTANCE MediaFiles WITH Contents <- Tags, MaxItems <- MaxCopies
Linking == INSTANCE MediaLinks WITH
    Items <- Tags, MaxLinks <- MaxCopies,
    kind <- shows, cached <- cached_links, outdated <- outdated_links, mixed <- mixed_links

tags_vars == <<
    searchmap, submission_tags, feedback, tokens, restricted, cached_tags,
    drift, overtaken_tags>>
folders_vars == <<folder, submission, mixed_folders, strayed>>
comments_vars == <<page, comment, told, ignored, late, shunned>>
commissions_vars == <<commishclass, commishprice, failed, stray, twin>>
notes_vars == <<
    message, permitted, ignoring, accepts, friends, unread, outdated>>
reports_vars == <<report, clash, doubled>>
notices_vars == <<posts, subject, mature, welcome, time, shown, unseen, bulk>>
files_vars == <<directory, file, media, hasty, twins>>
links_vars == <<shows, links, cached_links, outdated_links, mixed_links, split>>

all_content_vars == <<part, call, tags_vars, folders_vars, comments_vars, commissions_vars,
    notes_vars, reports_vars, notices_vars, files_vars, links_vars>>

ContentParts == {"tags", "folders", "comments", "commissions", "notes", "reports",
                 "notices", "files", "links"}

\* What the definitions of the components need of the constants.
ASSUME ContentAssumption ==
    /\ Tagging!ConstantsOK /\ Filing!ConstantsOK /\ Talking!ConstantsOK
    /\ Offering!ConstantsOK /\ Writing!ConstantsOK /\ Reporting!ConstantsOK
    /\ Notifying!ConstantsOK /\ Storing!ConstantsOK /\ Linking!ConstantsOK

ContentInit ==
    /\ part \in ContentParts
    /\ Tagging!Init /\ Filing!Init /\ Talking!Init /\ Offering!Init
    /\ Writing!Init /\ Reporting!Init /\ Notifying!Init /\ Storing!Init
    /\ Linking!Init

\* Nothing of the other parts changes.
ContentStill ==
    /\ IF part = "tags" THEN TRUE ELSE UNCHANGED tags_vars
    /\ IF part = "folders" THEN TRUE ELSE UNCHANGED folders_vars
    /\ IF part = "comments" THEN TRUE ELSE UNCHANGED comments_vars
    /\ IF part = "commissions" THEN TRUE ELSE UNCHANGED commissions_vars
    /\ IF part = "notes" THEN TRUE ELSE UNCHANGED notes_vars
    /\ IF part = "reports" THEN TRUE ELSE UNCHANGED reports_vars
    /\ IF part = "notices" THEN TRUE ELSE UNCHANGED notices_vars
    /\ IF part = "files" THEN TRUE ELSE UNCHANGED files_vars
    /\ IF part = "links" THEN TRUE ELSE UNCHANGED links_vars

ContentNext ==
    /\ UNCHANGED part
    /\ \/ part = "tags" /\ Tagging!Next
       \/ part = "folders" /\ Filing!Next
       \/ part = "comments" /\ Talking!Next
       \/ part = "commissions" /\ Offering!Next
       \/ part = "notes" /\ Writing!Next
       \/ part = "reports" /\ Reporting!Next
       \/ part = "notices" /\ Notifying!Next /\ UNCHANGED call
       \/ part = "files" /\ Storing!Next
       \/ part = "links" /\ Linking!Next
    /\ ContentStill

ContentSpec == ContentInit /\ [][ContentNext]_all_content_vars

-----------------------------------------------------------------------------
\* The values of the variables of the part that moves.
ContentTypeOK ==
    /\ part = "tags" => Tagging!TypeOK
    /\ part = "folders" => Filing!TypeOK
    /\ part = "comments" => Talking!TypeOK
    /\ part = "commissions" => Offering!TypeOK
    /\ part = "notes" => Writing!TypeOK
    /\ part = "reports" => Reporting!TypeOK
    /\ part = "notices" => Notifying!TypeOK
    /\ part = "files" => Storing!TypeOK
    /\ part = "links" => Linking!TypeOK

\* Search finds a submission by its tags, restricted tags are not suggested, and
\* tags stay with those who gave or approved them (weasyl/searchtag.py).
TagsAreKept ==
    part = "tags" => Tagging!SearchFindsTags /\ Tagging!RestrictedStaysOut /\ Tagging!Attributed

\* Every folder is listed under its parent, and submissions are filed where
\* their owner's folders are listed (weasyl/folder.py).
FoldersAreFound == part = "folders" => Filing!FoldersAreListed /\ Filing!FiledWhereListed

\* Notifications lead to comments that can be read, replies hang below comments
\* that can, and those who are ignored are not heard (weasyl/comment.py, shout.py).
ThreadsHoldTogether ==
    part = "comments" => Talking!NoticesLeadSomewhere /\ Talking!RepliesAreNotOrphaned /\ Talking!IgnoredAreNotHeard

\* A price has its class, and an id of its own (weasyl/commishinfo.py).
PricesAreSound ==
    part = "commissions" => Offering!PricesHaveTheirClass /\ Offering!PriceIdsDiffer

\* A note may be answered, is not unread once trashed, and is counted while it
\* is (weasyl/note.py).
NotesAreAnswered ==
    part = "notes" => Writing!ReplyIsPermitted /\ Writing!TrashedIsRead /\ Writing!UnreadIsCounted

\* A report is closed for a reason, and complaints meet in one open report
\* (weasyl/report.py).
ReportsAreSettled ==
    part = "reports" => Reporting!ClosedForAReason /\ Reporting!OneOpenReport

\* Notifications are counted as they are shown, go with their post, and are
\* removed together only when a page had them (weasyl/message.py, welcome.py, define.py).
NoticesAreShown ==
    part = "notices" => Notifying!HeaderCountsTheShown /\ Notifying!RemovedWithThePost /\ Notifying!RemovedWasShown

\* A media item has its file whatever is lost, a content has one item, and pages
\* show the items that are linked (libweasyl/models/media.py, libweasyl/media.py).
MediaIsKept ==
    /\ part = "files" => Storing!FilesSurvive /\ Storing!OneItemPerContent
    /\ part = "links" => Linking!PagesShowTheLinks /\ Linking!LinksAreSingle /\ Linking!CoverIsOfTheFile
===============================================================================
