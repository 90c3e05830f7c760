--------------------------------- MODULE Folders ---------------------------------
(***************************************************************************)
(* Folders of submissions (weasyl/folder.py): two levels, of which the     *)
(* listing shows the visible folders at the top and the visible children   *)
(* of those.  Every statement commits by itself, but for the two of remove,*)
(* which are one READ COMMITTED transaction.                               *)
(***************************************************************************)
EXTENDS Naturals, Requests

CONSTANTS
    Users,
    Folders,        \* bound: folders that are ever made
    Titles,
    Submissions,
    None            \* not a folder and not a row

VARIABLES
    folder,         \* the rows
    submission,     \* owner and folder of each, once there
    mixed,          \* history: folders and submissions of two overlapping calls
    strayed         \* history: folders moved into a removed one

vars == <<folder, submission, call, mixed, strayed>>

Root == None        \* no folder: parentid 0, folderid NULL
Absent == None

Rows == [parentid : Folders \cup {Root}, userid : Users, title : Titles, hidden : BOOLEAN]
\* None is neither a folder nor a row.
ConstantsOK == None \notin Folders /\ None \notin Rows

CallRecords ==
    [at : {"create title", "create insert"}, user : Users, parent : Folders \cup {Root}, title : Titles]
    \cup [at : {"move children", "move parent", "move titles", "move update"}, user : Users,
          folder : Folders, parent : Folders \cup {Root}, title : Titles]
    \cup [at : {"remove commit"}, folder : Folders, hides : SUBSET Folders]
    \cup [at : {"options"}, folder : Folders]
    \cup [at : {"file"}, submission : Submissions, user : Users, folder : Folders \cup {Root}]

TypeOK ==
    /\ folder \in [Folders -> Rows \cup {Absent}]
    /\ submission \in [Submissions -> [userid : Users, folderid : Folders \cup {Root}] \cup {Absent}]
    /\ call \in [Calls -> {Idle} \cup CallRecords]
    /\ mixed \subseteq Folders \cup Submissions
    /\ strayed \subseteq Folders

Init ==
    /\ folder = [f \in Folders |-> Absent]
    /\ submission = [s \in Submissions |-> Absent]
    /\ call = AllIdle
    /\ mixed = {} /\ strayed = {}

-----------------------------------------------------------------------------
Exists(f) == folder[f] # Absent
Visible(f) == Exists(f) /\ ~folder[f].hidden
Children(f) == {g \in Folders : Exists(g) /\ folder[g].parentid = f}

\* check: the folder is there, visible and the user's; at the top if need be.
CheckFolder(u, f) == f # Root => Visible(f) /\ folder[f].userid = u
CheckTop(u, f) == CheckFolder(u, f) /\ (f # Root => folder[f].parentid = Root)

\* The folders and submissions that a call reads or writes, by its record.
Touches(record) ==
    ({record[k] : k \in DOMAIN record \cap {"folder", "parent", "submission"}}
     \cup IF "hides" \in DOMAIN record THEN record.hides ELSE {}) \ {Root}
InUse == UNION {Touches(call[c]) : c \in Calls}
Begin(c, record) ==
    /\ Start(c, record)
    /\ mixed' = mixed \cup (Touches(record) \cap InUse)

Locked(f) == \E c \in Calls : At(c, "remove commit") /\ f \in call[c].hides

-----------------------------------------------------------------------------
\* create: the parent is at the top, no visible sibling has the title, insert.
CreateCheckParent(c, u, p, t) ==
    /\ CheckTop(u, p)
    /\ Begin(c, [at |-> "create title", user |-> u, parent |-> p, title |-> t])
    /\ UNCHANGED <<folder, submission, strayed>>

CreateCheckTitle(c) ==
    /\ At(c, "create title")
    /\ Check(c, ~\E f \in Children(call[c].parent) :
                    Visible(f) /\ folder[f].userid = call[c].user /\ folder[f].title = call[c].title,
             "create insert")
    /\ UNCHANGED <<folder, submission, mixed, strayed>>

CreateInsert(c, f) ==
    /\ At(c, "create insert")
    /\ ~Exists(f)
    /\ folder' = [folder EXCEPT ![f] = [parentid |-> call[c].parent, userid |-> call[c].user,
                                        title |-> call[c].title, hidden |-> FALSE]]
    /\ mixed' = mixed \cup IF call[c].parent \in mixed THEN {f} ELSE {}
    /\ End(c)
    /\ UNCHANGED <<submission, strayed>>

\* rename checks the owner, which never changes, and no other title.
Rename(u, f, t) ==
    /\ Exists(f) /\ folder[f].userid = u /\ ~Locked(f)
    /\ folder' = [folder EXCEPT ![f].title = t]
    /\ UNCHANGED <<submission, call, mixed, strayed>>

\* move: no visible child, the parent at the top and the user's (it may be
\* hidden), no sibling with the title, hidden ones and the folder itself
\* included.
MoveRead(c, u, f, p) ==
    /\ Exists(f) /\ f # p /\ folder[f].userid = u
    /\ Begin(c, [at |-> "move children", user |-> u, folder |-> f, parent |-> p, title |-> folder[f].title])
    /\ UNCHANGED <<folder, submission, strayed>>

MoveCheckChildren(c) ==
    /\ At(c, "move children")
    /\ Check(c, ~\E g \in Children(call[c].folder) : Visible(g),
             IF call[c].parent = Root THEN "move titles" ELSE "move parent")
    /\ UNCHANGED <<folder, submission, mixed, strayed>>

MoveCheckParent(c) ==
    /\ At(c, "move parent")
    /\ LET p == call[c].parent
       IN  /\ Check(c, /\ Exists(p) /\ folder[p].parentid = Root
                       /\ folder[p].userid = call[c].user /\ folder[p].title # call[c].title,
                    "move titles")
           /\ strayed' = IF Exists(p) /\ folder[p].hidden
                         THEN strayed \cup {call[c].folder} ELSE strayed
    /\ UNCHANGED <<folder, submission, mixed>>

MoveCheckTitles(c) ==
    /\ At(c, "move titles")
    /\ Check(c, ~\E f \in Children(call[c].parent) :
                    folder[f].userid = call[c].user /\ folder[f].title = call[c].title,
             "move update")
    /\ UNCHANGED <<folder, submission, mixed, strayed>>

MoveUpdate(c) ==
    /\ At(c, "move update")
    /\ ~Locked(call[c].folder)
    /\ folder' = [folder EXCEPT ![call[c].folder].parentid = call[c].parent]
    /\ End(c)
    /\ UNCHANGED <<submission, mixed, strayed>>

\* Fault: the folders in a removed folder stay.
RemoveHideAlone(c, u, f) ==
    /\ Visible(f) /\ folder[f].userid = u /\ ~Locked(f)
    /\ Begin(c, [at |-> "remove commit", folder |-> f, hides |-> {f}])
    /\ UNCHANGED <<folder, submission, strayed>>

\* remove hides the folder and its children ...
RemoveHide(c, u, f) ==
    /\ Exists(f) /\ folder[f].userid = u
    /\ LET hides == {g \in {f} \cup Children(f) : Visible(g)}
       IN  /\ ~\E g \in hides : Locked(g)
           /\ Begin(c, [at |-> "remove commit", folder |-> f, hides |-> hides])
    /\ UNCHANGED <<folder, submission, strayed>>

\* ... and takes the submissions out of them, and out of children it finds now.
RemoveCommit(c) ==
    /\ At(c, "remove commit")
    /\ folder' = [f \in Folders |-> IF f \in call[c].hides THEN [folder[f] EXCEPT !.hidden = TRUE] ELSE folder[f]]
    /\ submission' = [s \in Submissions |->
                        IF submission[s] # Absent /\ submission[s].folderid \in {call[c].folder} \cup Children(call[c].folder)
                        THEN [submission[s] EXCEPT !.folderid = Root] ELSE submission[s]]
    /\ End(c)
    /\ UNCHANGED <<mixed, strayed>>

\* control_editfolder_post_ checks the folder, and update_settings then writes
\* settings that never say that it is hidden.
OptionsCheck(c, u, f) ==
    /\ Visible(f) /\ folder[f].userid = u
    /\ Begin(c, [at |-> "options", folder |-> f])
    /\ UNCHANGED <<folder, submission, strayed>>

UpdateSettings(c) ==
    /\ At(c, "options")
    /\ ~Locked(call[c].folder)
    /\ folder' = [folder EXCEPT ![call[c].folder].hidden = FALSE]
    /\ End(c)
    /\ UNCHANGED <<submission, mixed, strayed>>

\* A submission is made or edited: the folder is checked, and written later.
FileCheck(c, s, u, f) ==
    /\ submission[s] # Absent => submission[s].userid = u
    /\ CheckFolder(u, f)
    /\ Begin(c, [at |-> "file", submission |-> s, user |-> u, folder |-> f])
    /\ UNCHANGED <<folder, submission, strayed>>

FileWrite(c) ==
    /\ At(c, "file")
    /\ LET s == call[c].submission
       IN  /\ submission[s] # Absent => submission[s].userid = call[c].user
           /\ submission' = [submission EXCEPT ![s] = [userid |-> call[c].user, folderid |-> call[c].folder]]
    /\ End(c)
    /\ UNCHANGED <<folder, mixed, strayed>>

Next ==
    \E c \in Calls, u \in Users :
        \/ \E p \in Folders \cup {Root}, t \in Titles : CreateCheckParent(c, u, p, t)
        \/ CreateCheckTitle(c)
        \/ \E f \in Folders :
            \/ CreateInsert(c, f)
            \/ \E t \in Titles : Rename(u, f, t)
            \/ \E p \in Folders \cup {Root} : MoveRead(c, u, f, p)
            \/ RemoveHide(c, u, f) \/ OptionsCheck(c, u, f)
        \/ MoveCheckChildren(c) \/ MoveCheckParent(c) \/ MoveCheckTitles(c) \/ MoveUpdate(c)
        \/ RemoveCommit(c) \/ UpdateSettings(c)
        \/ \E s \in Submissions, f \in Folders \cup {Root} : FileCheck(c, s, u, f)
        \/ FileWrite(c)

Spec == Init /\ [][Next]_vars

-----------------------------------------------------------------------------
\* select_list: the visible folders at the top, and their visible children.
Listed(u) ==
    LET own == {f \in Folders : Visible(f) /\ folder[f].userid = u}
        top == {f \in own : folder[f].parentid = Root}
    IN  top \cup {f \in own : folder[f].parentid \in top}

\* An owner's listing has every folder of theirs that has not been removed, but
\* for one moved into a removed folder, and those that calls overlapped on.
FoldersAreListed ==
    \A f \in Folders \ (mixed \cup strayed) :
        Visible(f) /\ folder[f].parentid \notin mixed \cup strayed => f \in Listed(folder[f].userid)

\* A submission is in a folder that its owner's listing can reach, unless calls
\* overlapped on either.
FiledWhereListed ==
    \A s \in Submissions \ mixed :
        submission[s] # Absent /\ submission[s].folderid \notin mixed \cup {Root}
            => Visible(submission[s].folderid) /\ folder[submission[s].folderid].userid = submission[s].userid
==================================================================================
