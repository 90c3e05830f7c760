------------------------------- MODULE Reports --------------------------------
(***************************************************************************)
(* Reports of posts and what the moderators do with them                   *)
(* (weasyl/report.py): a complaint joins the open report of its post or    *)
(* opens one, and a moderator assigns, gives up or closes a report, or all *)
(* open reports of the user whose post it is.                              *)
(*                                                                         *)
(* The rows are read by one transaction and flushed by another, and the    *)
(* flush writes the columns whose value differs from what was read.  The   *)
(* complaints of a report, checks that only refuse a call and the wording  *)
(* are left out, and so is the note to the user that follows a closing     *)
(* with action taken (Notes).  The posts are all of one user.              *)
(***************************************************************************)
EXTENDS Requests, Naturals, FiniteSets

CONSTANTS
    Reports,        \* bound: reports that can be opened
    Targets,        \* the posts of the user
    Mods,           \* staff.MODS
    None

VARIABLES
    report,         \* the rows of report, or None
    clash,          \* history: reports written over a decision not read
    doubled         \* history: posts reported while an open report was not seen

vars == <<report, call, clash, doubled>>

Actions == {"action_taken", "no_action_taken", "invalid"}
Decisions == Actions \cup {"assign", "unassign"}    \* an action closes
Row == [target : Targets, closerid : Mods \cup {None}, under_review : BOOLEAN,
        closure_reason : Actions \cup {None}]
\* None is the absence of a row, of a moderator and of a reason.
ConstantsOK == None \notin Mods /\ None \notin Actions /\ None \notin Row

Opened == {r \in Reports : report[r] # None}

ReportCall == [at : {"open"}, target : Targets]
CloseCall == [at : {"select", "flush"}, mod : Mods, root : Reports,
              decision : Decisions, read : [Reports -> Row \cup {None}]]

TypeOK ==
    /\ report \in [Reports -> Row \cup {None}]
    /\ call \in [Calls -> {Idle} \cup ReportCall \cup CloseCall]
    /\ clash \subseteq Reports /\ doubled \subseteq Targets

Init ==
    /\ report = [r \in Reports |-> None]
    /\ call = AllIdle
    /\ clash = {} /\ doubled = {}

-----------------------------------------------------------------------------
\* Report.is_closed and its SQL expression.
IsClosed(row) == row.closerid # None /\ ~row.under_review
Open == {r \in Opened : ~IsClosed(report[r])}
OpenOn(t) == {r \in Open : report[r].target = t}

\* create: an open report of the post gets the complaint; if none is found ...
Create(c, t) ==
    /\ OpenOn(t) = {}
    /\ Start(c, [at |-> "open", target |-> t])
    /\ UNCHANGED <<report, clash, doubled>>

\* ... one is opened.
CreateFlush(c, r) ==
    /\ At(c, "open")
    /\ report[r] = None
    /\ LET t == call[c].target
       IN  /\ report' = [report EXCEPT ![r] =
                 [target |-> t, closerid |-> None, under_review |-> FALSE, closure_reason |-> None]]
           /\ doubled' = IF OpenOn(t) = {} THEN doubled ELSE doubled \cup {t}
    /\ End(c)
    /\ UNCHANGED clash

\* close: nothing is done about a report that is closed.
Close(c, m, r, all, decision) ==
    /\ call[c] = Idle
    /\ r \in Open
    /\ Start(c, [at |-> IF all THEN "select" ELSE "flush", mod |-> m, root |-> r, decision |-> decision,
                 read |-> [x \in Reports |-> IF x = r THEN report[r] ELSE None]])
    /\ UNCHANGED <<report, clash, doubled>>

\* The reports of the user that are open; the session keeps what it has read.
\* (So the check that none of them is closed, a RuntimeError, finds none.)
SelectAll(c) ==
    /\ At(c, "select")
    /\ call' = [call EXCEPT ![c].at = "flush",
                            ![c].read = [r \in Reports |->
                                IF r \notin Open THEN None ELSE IF r = call[c].root THEN @[r] ELSE report[r]]]
    /\ UNCHANGED <<report, clash, doubled>>

\* Fault: who gives a report up stays its closer.
DecidedStillMine(c, r) ==
    LET q == call[c]
    IN  [report[r] EXCEPT
            !.closerid = IF q.mod # q.read[r].closerid THEN q.mod ELSE @,
            !.under_review = q.decision = "assign",
            !.closure_reason = IF q.decision \in Actions THEN q.decision ELSE @]

\* The row after a decision: the closer is written if it differs from the one
\* read, the settings always, the reason when the report is closed.
Decided(c, r) ==
    LET q == call[c]
        closer == IF q.decision = "unassign" THEN None ELSE q.mod
    IN  [report[r] EXCEPT
            !.closerid = IF closer # q.read[r].closerid THEN closer ELSE @,
            !.under_review = q.decision = "assign",
            !.closure_reason = IF q.decision \in Actions THEN q.decision ELSE @]

Flush(c) ==
    /\ At(c, "flush")
    /\ LET rs == {r \in Reports : call[c].read[r] # None}
       IN  /\ report' = [r \in Reports |-> IF r \in rs THEN Decided(c, r) ELSE report[r]]
           /\ clash' = clash \cup {r \in rs : call[c].read[r] # report[r]}
    /\ End(c)
    /\ UNCHANGED doubled

Next ==
    \E c \in Calls :
        \/ \E t \in Targets : Create(c, t)
        \/ \E r \in Reports : CreateFlush(c, r)
        \/ \E m \in Mods, r \in Reports, all \in BOOLEAN, decision \in Decisions : Close(c, m, r, all, decision)
        \/ SelectAll(c) \/ Flush(c)

Spec == Init /\ [][Next]_vars

-----------------------------------------------------------------------------
\* A report is closed exactly if it says why, unless two moderators decided on
\* it at once: an assignment that had read the report before it was closed
\* opens it again with its reason left, and one given up twice can be closed
\* without any.
ClosedForAReason ==
    \A r \in Opened \ clash : IsClosed(report[r]) <=> report[r].closure_reason # None

\* Complaints about a post meet in one open report, unless two of them opened
\* one at the same time or a closed report was opened again.
OneOpenReport ==
    \A t \in Targets : doubled \cap {t} = {} /\ (\A r \in clash : report[r].target # t)
        => Cardinality(OpenOn(t)) <= 1
================================================================================
