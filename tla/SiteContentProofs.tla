-------------------------- MODULE SiteContentProofs ---------------------------
(***************************************************************************)
(* Proofs about the reports, the notes, the tags, the prices, the media    *)
(* items and the links to them, the folders, the notifications and the     *)
(* comments, as parts of SiteContent, for any calls, users, posts,         *)
(* reports, tags, titles, contents, items, folders, ids and any finite set *)
(* of notes: for each, that a step of the component keeps its invariant,   *)
(* and at the end that the steps of all are steps of the part that moves.  *)
(***************************************************************************)
EXTENDS SiteContentInvariants, FiniteSetTheorems, TLAPS
-----------------------------------------------------------------------------
\* A set whose elements are all equal has at most one.
LEMMA AllEqual ==
    ASSUME NEW S, \A s, t \in S : s = t
    PROVE  Cardinality(S) <= 1
<1>1. CASE S = {}
  BY <1>1, FS_EmptySet
<1>2. CASE S # {}
  <2>1. PICK s \in S : S = {s}
    BY <1>2
  <2>2. Cardinality({s}) = 1
    BY FS_Singleton
  <2> QED
    BY <2>1, <2>2
<1> QED
  BY <1>1, <1>2

\* A behaviour is of one part.
LEMMA PartStays == [ContentNext]_all_content_vars => part' = part
  BY DEF ContentNext, all_content_vars
-----------------------------------------------------------------------------
\* A call at one of its steps is of that kind.
LEMMA ReportsRunningCall ==
    ASSUME Reporting!TypeOK, NEW c \in Calls
    PROVE  /\ Reporting!At(c, "open") => call[c] \in Reporting!ReportCall
           /\ call[c].at \in {"select", "flush"} => call[c] \in Reporting!CloseCall
<1>1. call[c] \in {Reporting!Idle} \cup Reporting!ReportCall \cup Reporting!CloseCall
  BY DEF Reporting!TypeOK
<1>2. Reporting!Idle.at = "idle"
  BY DEF Reporting!Idle
<1>3. \A q \in Reporting!ReportCall : q.at = "open"
  BY DEF Reporting!ReportCall
<1>4. \A q \in Reporting!CloseCall : q.at \in {"select", "flush"}
  BY DEF Reporting!CloseCall
<1> QED
  BY <1>1, <1>2, <1>3, <1>4 DEF Reporting!At

\* What a decision makes of a row.
LEMMA ReportsDecidedRow ==
    ASSUME Reporting!ConstantsOK, Reporting!TypeOK, NEW c \in Calls, call[c] \in Reporting!CloseCall,
           NEW r \in Reporting!Opened
    PROVE  Reporting!Decided(c, r) \in Reporting!Row /\ Reporting!Decided(c, r).target = report[r].target
<1>1. report[r] \in Reporting!Row
  BY DEF Reporting!TypeOK, Reporting!Opened
<1>2. call[c].decision \in Reporting!Decisions /\ call[c].mod \in ReportMods
  BY DEF Reporting!CloseCall
<1> DEFINE closer == IF call[c].decision = "unassign" THEN None ELSE call[c].mod
           x == IF closer # call[c].read[r].closerid THEN closer ELSE report[r].closerid
           y == call[c].decision = "assign"
           z == IF call[c].decision \in Reporting!Actions THEN call[c].decision ELSE report[r].closure_reason
<1>3. closer \in ReportMods \cup {None}
  BY <1>2
<1>4. Reporting!Decided(c, r) = [report[r] EXCEPT !.closerid = x, !.under_review = y, !.closure_reason = z]
  BY DEF Reporting!Decided
<1> HIDE DEF closer
<1>5. x \in ReportMods \cup {None} /\ y \in BOOLEAN /\ z \in Reporting!Actions \cup {None}
  BY <1>1, <1>3 DEF Reporting!Row
<1> HIDE DEF x, y, z
<1> QED
  BY <1>1, <1>4, <1>5 DEF Reporting!Row

\* A decision on a report that is as it was read closes it for a reason, or
\* leaves it open.
LEMMA ReportsDecidedReason ==
    ASSUME Reporting!ConstantsOK, Reporting!TypeOK, NEW c \in Calls, call[c] \in Reporting!CloseCall,
           NEW r \in Reporting!Opened,
           call[c].read[r] = report[r], ~Reporting!IsClosed(report[r]), report[r].closure_reason = None
    PROVE  Reporting!IsClosed(Reporting!Decided(c, r)) <=> Reporting!Decided(c, r).closure_reason # None
<1>1. report[r] \in Reporting!Row
  BY DEF Reporting!TypeOK, Reporting!Opened
<1>2. call[c].decision \in Reporting!Decisions /\ call[c].mod \in ReportMods
  BY DEF Reporting!CloseCall
<1>3. CASE call[c].decision \in Reporting!Actions
  <2>1. /\ Reporting!Decided(c, r).closerid = call[c].mod
        /\ Reporting!Decided(c, r).under_review = FALSE
        /\ Reporting!Decided(c, r).closure_reason = call[c].decision
    BY <1>1, <1>3 DEF Reporting!Decided, Reporting!Row, Reporting!Actions
  <2> QED
    BY <2>1, <1>2, <1>3 DEF Reporting!IsClosed, Reporting!ConstantsOK
<1>4. CASE call[c].decision = "assign"
  <2>1. Reporting!Decided(c, r).under_review = TRUE /\ Reporting!Decided(c, r).closure_reason = None
    BY <1>1, <1>4 DEF Reporting!Decided, Reporting!Row, Reporting!Actions
  <2> QED
    BY <2>1 DEF Reporting!IsClosed
<1>5. CASE call[c].decision = "unassign"
  <2>1. Reporting!Decided(c, r).closerid = None /\ Reporting!Decided(c, r).closure_reason = None
    BY <1>1, <1>5 DEF Reporting!Decided, Reporting!Row, Reporting!Actions
  <2> QED
    BY <2>1 DEF Reporting!IsClosed
<1> QED
  BY <1>2, <1>3, <1>4, <1>5 DEF Reporting!Decisions
-----------------------------------------------------------------------------
LEMMA ReportsInitInv == Reporting!ConstantsOK /\ Reporting!Init => ReportsIInv
  BY DEF Reporting!Init, ReportsIInv, Reporting!TypeOK, Reporting!AllIdle, Reporting!Idle,
     ReportsReadWasOpen, Reporting!Opened, Reporting!ClosedForAReason, ReportsMeets, Reporting!OpenOn,
     Reporting!Open, Reporting!ConstantsOK
-----------------------------------------------------------------------------
\* A call that begins, or goes on, leaves the rows as they are.
LEMMA ReportsUnwritten ==
    ASSUME ReportsIInv, UNCHANGED <<report, clash, doubled>>,
           NEW c \in Calls, NEW q, q \in {Reporting!Idle} \cup Reporting!ReportCall \cup Reporting!CloseCall,
           q.at \in {"select", "flush"} =>
               \A r \in Reports : q.read[r] # None => r \in Reporting!Opened /\ ~Reporting!IsClosed(q.read[r]),
           call' = [call EXCEPT ![c] = q]
    PROVE  ReportsIInv'
<1>1. Reporting!TypeOK'
  BY DEF ReportsIInv, Reporting!TypeOK
<1>2. Reporting!Opened' = Reporting!Opened
  BY DEF Reporting!Opened
<1>3. ReportsReadWasOpen'
  BY <1>2 DEF ReportsIInv, ReportsReadWasOpen, Reporting!TypeOK
<1>4. clash' \subseteq Reporting!Opened' /\ Reporting!ClosedForAReason' /\ ReportsMeets'
  BY <1>2 DEF ReportsIInv, Reporting!ClosedForAReason, ReportsMeets, Reporting!OpenOn, Reporting!Open
<1> QED
  BY <1>1, <1>3, <1>4 DEF ReportsIInv

LEMMA ReportsCreateFlushInv ==
    ASSUME Reporting!ConstantsOK, ReportsIInv, NEW c \in Calls, NEW r \in Reports, Reporting!CreateFlush(c, r)
    PROVE  ReportsIInv'
<1> DEFINE t == call[c].target
           row == [target |-> t, closerid |-> None, under_review |-> FALSE, closure_reason |-> None]
<1>1. Reporting!TypeOK
  BY DEF ReportsIInv
<1>2. call[c] \in Reporting!ReportCall
  BY <1>1, ReportsRunningCall DEF Reporting!CreateFlush
<1>3. t \in Targets
  BY <1>2 DEF Reporting!ReportCall
<1>4. row \in Reporting!Row /\ row # None
  <2>1. row \in Reporting!Row
    BY <1>3 DEF Reporting!Row
  <2> QED
    BY <2>1 DEF Reporting!ConstantsOK
<1>5. report[r] = None /\ report' = [report EXCEPT ![r] = row]
  BY DEF Reporting!CreateFlush
<1>6. call' = [call EXCEPT ![c] = Reporting!Idle]
  BY DEF Reporting!CreateFlush, Reporting!End
<1>7. clash' = clash /\ doubled' = (IF Reporting!OpenOn(t) = {} THEN doubled ELSE doubled \cup {t})
  BY DEF Reporting!CreateFlush
<1>8. row.target = t /\ ~Reporting!IsClosed(row) /\ row.closure_reason = None
  BY DEF Reporting!IsClosed
<1> HIDE DEF row, t
<1>9. report'[r] = row /\ \A s \in Reports : s # r => report'[s] = report[s]
  BY <1>1, <1>5 DEF Reporting!TypeOK
<1>10. Reporting!Opened' = Reporting!Opened \cup {r} /\ r \notin Reporting!Opened
  BY <1>4, <1>5, <1>9 DEF Reporting!Opened
<1>11. Reporting!Open' = Reporting!Open \cup {r}
  BY <1>8, <1>9, <1>10 DEF Reporting!Open, Reporting!Opened
<1>12. Reporting!TypeOK'
  BY <1>1, <1>3, <1>4, <1>5, <1>6, <1>7 DEF Reporting!TypeOK
<1>13. ReportsReadWasOpen'
  <2>1. \A d \in Calls : call'[d].at \in {"select", "flush"} => call'[d] = call[d]
    BY <1>1, <1>6 DEF Reporting!TypeOK, Reporting!Idle
  <2> QED
    BY <2>1, <1>10 DEF ReportsReadWasOpen, ReportsIInv
<1>14. clash' \subseteq Reporting!Opened' /\ r \notin clash
  BY <1>7, <1>10 DEF ReportsIInv
<1>15. Reporting!ClosedForAReason'
  BY <1>7, <1>8, <1>9, <1>10 DEF Reporting!ClosedForAReason, ReportsIInv, Reporting!Opened
<1>16. ReportsMeets'
  <2> SUFFICES ASSUME NEW u \in Targets, u \notin doubled', \A x \in clash' : report'[x].target # u,
                      NEW x \in Reporting!OpenOn(u)', NEW y \in Reporting!OpenOn(u)'
               PROVE  x = y
    BY DEF ReportsMeets
  <2>1. u \notin doubled /\ \A s \in clash : report[s].target # u
    BY <1>7, <1>9, <1>14, <1>1 DEF Reporting!TypeOK
  <2>2. \A v, w \in Reporting!OpenOn(u) : v = w
    BY <2>1 DEF ReportsIInv, ReportsMeets
  <2>3. Reporting!OpenOn(u)' = Reporting!OpenOn(u) \cup (IF u = t THEN {r} ELSE {})
    BY <1>8, <1>9, <1>10, <1>11 DEF Reporting!OpenOn, Reporting!Open, Reporting!Opened
  <2>4. u = t => Reporting!OpenOn(u) = {}
    BY <1>7
  <2> QED
    BY <2>2, <2>3, <2>4
<1> QED
  BY <1>12, <1>13, <1>14, <1>15, <1>16 DEF ReportsIInv

LEMMA ReportsFlushInv ==
    ASSUME Reporting!ConstantsOK, ReportsIInv, NEW c \in Calls, Reporting!Flush(c)
    PROVE  ReportsIInv'
<1> DEFINE read == call[c].read
           rs == {r \in Reports : read[r] # None}
<1>1. Reporting!TypeOK
  BY DEF ReportsIInv
<1>2. call[c] \in Reporting!CloseCall
  BY <1>1, ReportsRunningCall DEF Reporting!Flush, Reporting!At
<1>3. /\ report' = [r \in Reports |-> IF r \in rs THEN Reporting!Decided(c, r) ELSE report[r]]
      /\ clash' = clash \cup {r \in rs : read[r] # report[r]}
      /\ call' = [call EXCEPT ![c] = Reporting!Idle]
      /\ doubled' = doubled
  BY DEF Reporting!Flush, Reporting!End
<1>4. rs \subseteq Reporting!Opened /\ \A r \in rs : ~Reporting!IsClosed(read[r])
  BY DEF ReportsIInv, ReportsReadWasOpen, Reporting!Flush, Reporting!At
<1> HIDE DEF rs, read
<1>5. \A r \in rs : Reporting!Decided(c, r) \in Reporting!Row /\ Reporting!Decided(c, r).target = report[r].target
  BY <1>1, <1>2, <1>4, ReportsDecidedRow
<1>6. \A r \in Reports : report'[r] = IF r \in rs THEN Reporting!Decided(c, r) ELSE report[r]
  BY <1>3
<1>7. Reporting!Opened' = Reporting!Opened /\ \A r \in Reporting!Opened : report'[r].target = report[r].target
  BY <1>4, <1>5, <1>6 DEF Reporting!Opened, Reporting!ConstantsOK
<1>8. Reporting!TypeOK'
  <2>1. report' \in [Reports -> Reporting!Row \cup {None}]
    BY <1>1, <1>3, <1>5 DEF Reporting!TypeOK
  <2>2. clash' \subseteq Reports
    BY <1>1, <1>3, <1>4 DEF Reporting!TypeOK, Reporting!Opened
  <2> QED
    BY <1>1, <1>3, <2>1, <2>2 DEF Reporting!TypeOK
<1>9. ReportsReadWasOpen'
  <2>1. \A d \in Calls : call'[d].at \in {"select", "flush"} => call'[d] = call[d]
    BY <1>1, <1>3 DEF Reporting!TypeOK, Reporting!Idle
  <2> QED
    BY <2>1, <1>7 DEF ReportsReadWasOpen, ReportsIInv
<1>10. clash' \subseteq Reporting!Opened'
  BY <1>3, <1>4, <1>7 DEF ReportsIInv
<1>11. \A r \in rs \ clash' : read[r] = report[r] /\ ~Reporting!IsClosed(report[r]) /\ report[r].closure_reason = None
  BY <1>3, <1>4 DEF ReportsIInv, Reporting!ClosedForAReason
<1>12. Reporting!ClosedForAReason'
  <2> SUFFICES ASSUME NEW r \in Reporting!Opened \ clash'
               PROVE  Reporting!IsClosed(report'[r]) <=> report'[r].closure_reason # None
    BY <1>7 DEF Reporting!ClosedForAReason, Reporting!IsClosed
  <2>1. r \in Reports /\ r \notin clash
    BY <1>3 DEF Reporting!Opened
  <2>2. CASE r \in rs
    BY <2>1, <2>2, <1>1, <1>2, <1>4, <1>6, <1>11, ReportsDecidedReason DEF read
  <2>3. CASE r \notin rs
    BY <2>1, <2>3, <1>6 DEF ReportsIInv, Reporting!ClosedForAReason
  <2> QED
    BY <2>2, <2>3
<1>13. ReportsMeets'
  <2> SUFFICES ASSUME NEW t \in Targets, t \notin doubled', \A r \in clash' : report'[r].target # t
               PROVE  \A r, s \in Reporting!OpenOn(t)' : r = s
    BY DEF ReportsMeets
  <2>1. \A r \in clash : report[r].target # t
    BY <1>3, <1>7 DEF ReportsIInv
  <2>2. \A r, s \in Reporting!OpenOn(t) : r = s
    BY <2>1, <1>3 DEF ReportsIInv, ReportsMeets
  <2>3. Reporting!OpenOn(t)' \subseteq Reporting!OpenOn(t)
    <3> SUFFICES ASSUME NEW r \in Reporting!Opened, report'[r].target = t, ~Reporting!IsClosed(report'[r])
                 PROVE  ~Reporting!IsClosed(report[r])
      BY <1>7 DEF Reporting!OpenOn, Reporting!Open, Reporting!IsClosed
    <3>1. r \notin clash' /\ r \in Reports
      BY DEF Reporting!Opened
    <3> QED
      BY <3>1, <1>6, <1>11
  <2> QED
    BY <2>2, <2>3
<1> QED
  BY <1>8, <1>9, <1>10, <1>12, <1>13 DEF ReportsIInv

\* Every step keeps the invariant.
LEMMA ReportsNextInv == Reporting!ConstantsOK /\ ReportsIInv /\ [Reporting!Next]_Reporting!vars => ReportsIInv'
<1> SUFFICES ASSUME Reporting!ConstantsOK, ReportsIInv, [Reporting!Next]_Reporting!vars PROVE ReportsIInv'
  OBVIOUS
<1>1. ASSUME NEW c \in Calls, NEW t \in Targets, Reporting!Create(c, t)
      PROVE  ReportsIInv'
  <2> DEFINE q == [at |-> "open", target |-> t]
  <2>1. q \in Reporting!ReportCall /\ q.at = "open"
    BY DEF Reporting!ReportCall
  <2>2. call' = [call EXCEPT ![c] = q] /\ UNCHANGED <<report, clash, doubled>>
    BY <1>1 DEF Reporting!Create, Reporting!Start
  <2> HIDE DEF q
  <2> QED
    BY <2>1, <2>2, ReportsUnwritten
<1>2. ASSUME NEW c \in Calls, NEW m \in ReportMods, NEW r \in Reports, NEW all \in BOOLEAN,
             NEW decision \in Reporting!Decisions, Reporting!Close(c, m, r, all, decision)
      PROVE  ReportsIInv'
  <2> DEFINE read == [x \in Reports |-> IF x = r THEN report[r] ELSE None]
             q == [at |-> IF all THEN "select" ELSE "flush", mod |-> m, root |-> r, decision |-> decision,
                   read |-> read]
  <2>1. call' = [call EXCEPT ![c] = q] /\ UNCHANGED <<report, clash, doubled>> /\ r \in Reporting!Open
    BY <1>2 DEF Reporting!Close, Reporting!Start
  <2>2. read \in [Reports -> Reporting!Row \cup {None}]
    BY DEF ReportsIInv, Reporting!TypeOK
  <2>3. \A x \in Reports : read[x] # None => x \in Reporting!Opened /\ ~Reporting!IsClosed(read[x])
    BY <2>1 DEF Reporting!Open
  <2> HIDE DEF read
  <2>4. q \in Reporting!CloseCall /\ q.read = read
    BY <2>2 DEF Reporting!CloseCall
  <2> HIDE DEF q
  <2> QED
    BY <2>1, <2>3, <2>4, ReportsUnwritten
<1>3. ASSUME NEW c \in Calls, Reporting!SelectAll(c)
      PROVE  ReportsIInv'
  <2> DEFINE read == [r \in Reports |->
                 IF r \notin Reporting!Open THEN None ELSE IF r = call[c].root THEN call[c].read[r] ELSE report[r]]
             q == [call[c] EXCEPT !.at = "flush", !.read = read]
  <2>1. call[c] \in Reporting!CloseCall /\ call[c].at = "select"
    BY <1>3, ReportsRunningCall DEF Reporting!SelectAll, Reporting!At, ReportsIInv
  <2>2. call' = [call EXCEPT ![c] = q] /\ UNCHANGED <<report, clash, doubled>>
    BY <1>3 DEF Reporting!SelectAll
  <2>3. read \in [Reports -> Reporting!Row \cup {None}]
    BY <2>1 DEF ReportsIInv, Reporting!TypeOK, Reporting!CloseCall
  <2>4. \A r \in Reports : read[r] # None => r \in Reporting!Opened /\ ~Reporting!IsClosed(read[r])
    BY <2>1 DEF Reporting!Open, ReportsIInv, ReportsReadWasOpen
  <2> HIDE DEF read
  <2>5. q \in Reporting!CloseCall /\ q.read = read
    BY <2>1, <2>3 DEF Reporting!CloseCall
  <2> HIDE DEF q
  <2> QED
    BY <2>2, <2>4, <2>5, ReportsUnwritten
<1>4. CASE UNCHANGED Reporting!vars
  <2>1. UNCHANGED <<report, call, clash, doubled>>
    BY <1>4 DEF Reporting!vars
  <2> QED
    BY <2>1 DEF ReportsIInv, Reporting!TypeOK, ReportsReadWasOpen, Reporting!Opened,
       Reporting!ClosedForAReason, ReportsMeets, Reporting!OpenOn, Reporting!Open
<1> QED
  BY <1>1, <1>2, <1>3, <1>4, ReportsCreateFlushInv, ReportsFlushInv DEF Reporting!Next

LEMMA ReportsCounting == \A S : Reporting!Cardinality(S) = Cardinality(S)
  BY DEF Reporting!Cardinality, Cardinality

\* One open report, counted.
LEMMA ReportsMeetsIsOne == Reporting!TypeOK /\ ReportsMeets => Reporting!OneOpenReport
<1> SUFFICES ASSUME Reporting!TypeOK, ReportsMeets,
                    NEW t \in Targets, doubled \cap {t} = {}, \A r \in clash : report[r].target # t
             PROVE  Cardinality(Reporting!OpenOn(t)) <= 1
  BY ReportsCounting DEF Reporting!OneOpenReport
<1>1. \A r, s \in Reporting!OpenOn(t) : r = s
  BY DEF ReportsMeets
<1> QED
  BY <1>1, AllEqual
-----------------------------------------------------------------------------
\* While the part moves it has its invariant; and so it has in every state.
ReportsHold == part = "reports" => ReportsIInv

LEMMA ReportsAreHeld == ContentSpec => []ReportsHold
<1>1. ContentInit => ReportsHold
  BY ReportsInitInv, ContentAssumption DEF ContentInit, ReportsHold
<1>2. ReportsHold /\ [ContentNext]_all_content_vars => ReportsHold'
  <2> SUFFICES ASSUME ReportsHold, [ContentNext]_all_content_vars, part' = "reports" PROVE ReportsIInv'
    BY DEF ReportsHold
  <2>1. part = "reports" /\ ReportsIInv
    BY PartStays DEF ReportsHold
  <2>2. Reporting!Next \/ UNCHANGED <<reports_vars, call>>
    BY <2>1 DEF ContentNext, all_content_vars
  <2>3. UNCHANGED <<reports_vars, call>> => UNCHANGED Reporting!vars
    BY DEF reports_vars, Reporting!vars
  <2> QED
    BY <2>1, <2>2, <2>3, ReportsNextInv, ContentAssumption
<1> QED
  BY <1>1, <1>2, PTL DEF ContentSpec

\* create and close (weasyl/report.py): a report is closed exactly if it says why,
\* where no two moderators decided on it at once, and complaints about a post meet
\* in one open report.
THEOREM ReportsSettle == ContentSpec => []ReportsAreSettled
<1>1. ReportsHold => ReportsAreSettled
  BY ReportsMeetsIsOne DEF ReportsHold, ReportsIInv, ReportsAreSettled
<1> QED
  BY <1>1, ReportsAreHeld, PTL
-----------------------------------------------------------------------------
\* The record of a call, by the step it is at.
LEMMA NotesKinds ==
    ASSUME Writing!TypeOK, NEW c \in Calls
    PROVE  /\ call[c].at \in {"insert", "announce", "permit"} => call[c] \in Writing!SendCall
           /\ call[c].at \in {"mark", "seen"} => call[c] \in Writing!ViewCall
           /\ call[c].at = "trash" => call[c] \in Writing!RemoveCall
           /\ call[c].at = "fill" => call[c] \in Writing!HeaderCall
<1>1. call[c] \in {Writing!Idle} \cup Writing!SendCall \cup Writing!ViewCall \cup Writing!RemoveCall \cup Writing!HeaderCall
  BY DEF Writing!TypeOK
<1>2. Writing!Idle.at = "idle"
  BY DEF Writing!Idle
<1>3. \A q \in Writing!SendCall : q.at \in {"insert", "announce", "permit"}
  BY DEF Writing!SendCall
<1>4. \A q \in Writing!ViewCall : q.at \in {"mark", "seen"}
  BY DEF Writing!ViewCall
<1>5. \A q \in Writing!RemoveCall : q.at = "trash"
  BY DEF Writing!RemoveCall
<1>6. \A q \in Writing!HeaderCall : q.at = "fill"
  BY DEF Writing!HeaderCall
<1> QED
  BY <1>1, <1>2, <1>3, <1>4, <1>5, <1>6

\* Unread notes are counted by a natural number.
LEMMA NotesCounting == \A S : Writing!Cardinality(S) = Cardinality(S) /\ Writing!IsFiniteSet(S) = IsFiniteSet(S)
  BY DEF Writing!Cardinality, Cardinality, Writing!IsFiniteSet, IsFiniteSet

LEMMA NotesCountable == ASSUME Writing!ConstantsOK, NEW u PROVE Writing!Unread(u) \in Nat
<1>1. {n \in Writing!Sent : message[n].to = u /\ "u" \in message[n].flags} \subseteq Messages
  BY DEF Writing!Sent
<1> QED
  BY <1>1, NotesCounting, FS_Subset, FS_CardinalityType DEF Writing!Unread, Writing!ConstantsOK

\* A read that is overtaken stays what it is.
LEMMA NotesOvertaken ==
    ASSUME NEW calls \in [Calls -> NotesCallSet], NEW u
    PROVE  /\ Writing!Overtake(calls, u) \in [Calls -> NotesCallSet]
           /\ \A c \in Calls : calls[c].at # "fill" => Writing!Overtake(calls, u)[c] = calls[c]
           /\ \A c \in Calls : calls[c].at = "fill" =>
                 LET q == Writing!Overtake(calls, u)[c]
                 IN  /\ q.at = "fill" /\ q.user = calls[c].user /\ q.value = calls[c].value
                     /\ q.late = (calls[c].user = u \/ calls[c].late)
<1> DEFINE marked(q) == [q EXCEPT !.late = TRUE]
<1>1. \A q \in Writing!HeaderCall : /\ marked(q) \in Writing!HeaderCall
                                    /\ marked(q).at = q.at /\ marked(q).user = q.user /\ marked(q).value = q.value
                                    /\ marked(q).late = TRUE
  BY DEF Writing!HeaderCall
<1>2. \A c \in Calls : Writing!Overtake(calls, u)[c] =
          IF calls[c].at = "fill" /\ calls[c].user = u THEN marked(calls[c]) ELSE calls[c]
  BY DEF Writing!Overtake
<1>3. \A q \in NotesCallSet : q.at = "fill" => q \in Writing!HeaderCall
  BY DEF NotesCallSet, Writing!Idle, Writing!SendCall, Writing!ViewCall, Writing!RemoveCall
<1>4. Writing!Overtake(calls, u) = [c \in Calls |->
          IF calls[c].at = "fill" /\ calls[c].user = u THEN marked(calls[c]) ELSE calls[c]]
  BY DEF Writing!Overtake
<1>5. \A q \in Writing!HeaderCall : q \in NotesCallSet /\ q.late \in BOOLEAN
  BY DEF NotesCallSet, Writing!HeaderCall
<1> HIDE DEF marked
<1> QED
  BY <1>1, <1>2, <1>3, <1>4, <1>5
-----------------------------------------------------------------------------
LEMMA NotesInitInv == Writing!ConstantsOK /\ Writing!Init => NotesIInv
<1> SUFFICES ASSUME Writing!ConstantsOK, Writing!Init PROVE NotesIInv
  OBVIOUS
<1>1. Writing!Sent = {} /\ \A c \in Calls : call[c].at = "idle"
  BY DEF Writing!Init, Writing!Sent, Writing!AllIdle, Writing!Idle
<1>2. Writing!TypeOK
  BY DEF Writing!Init, Writing!TypeOK, Writing!AllIdle
<1> QED
  BY <1>1, <1>2 DEF Writing!Init, NotesIInv, NotesMarksItsOwn, Writing!ReplyIsPermitted,
     Writing!TrashedIsRead, Writing!UnreadIsCounted, NotesFillsAreRight, Writing!At

\* Changes of preferences, blocks and friendships are none of these calls' business.
LEMMA NotesElsewhere ==
    ASSUME NotesIInv, UNCHANGED <<message, permitted, unread, call, outdated>>, Writing!TypeOK'
    PROVE  NotesIInv'
<1>1. Writing!Sent' = Writing!Sent
  BY DEF Writing!Sent
<1>2. \A u : Writing!Unread(u)' = Writing!Unread(u)
  BY <1>1 DEF Writing!Unread
<1>3. \A u : NotesPending(u)' <=> NotesPending(u)
  BY DEF NotesPending, NotesAnnouncing, Writing!At
<1>4. NotesMarksItsOwn' /\ Writing!TrashedIsRead'
  BY <1>1 DEF NotesIInv, NotesMarksItsOwn, Writing!TrashedIsRead, Writing!At
<1>5. Writing!ReplyIsPermitted'
  BY <1>1 DEF NotesIInv, Writing!ReplyIsPermitted, Writing!Sending
<1>6. Writing!UnreadIsCounted'
  BY <1>1, <1>2 DEF NotesIInv, Writing!UnreadIsCounted, Writing!At
<1>7. NotesFillsAreRight'
  BY <1>2, <1>3 DEF NotesIInv, NotesFillsAreRight, Writing!At
<1> QED
  BY <1>4, <1>5, <1>6, <1>7 DEF NotesIInv

\* A call that begins has read what is there.
LEMMA NotesBegins ==
    ASSUME NotesIInv, UNCHANGED <<message, Writing!settings, unread, outdated>>,
           NEW c \in Calls, NEW q \in NotesCallSet, call[c] = Writing!Idle, call' = [call EXCEPT ![c] = q],
           q.at \in {"insert", "mark", "trash", "fill"},
           q.at = "mark" => q.note \in Writing!Sent /\ message[q.note].to = q.user,
           q.at = "trash" => q.notes \subseteq Writing!Sent,
           q.at = "fill" => q.value = Writing!Unread(q.user)
    PROVE  NotesIInv'
<1>1. Writing!Sent' = Writing!Sent /\ \A u : Writing!Unread(u)' = Writing!Unread(u)
  BY DEF Writing!Sent, Writing!Unread
<1>2. Writing!TypeOK
  BY DEF NotesIInv
<1>3. call'[c] = q /\ call[c].at = "idle" /\ \A d \in Calls \ {c} : call'[d] = call[d]
  BY <1>2 DEF Writing!TypeOK, Writing!Idle
<1>4. Writing!TypeOK'
  BY <1>2 DEF Writing!TypeOK, NotesCallSet, Writing!settings
<1>5. \A u : NotesPending(u)' <=> NotesPending(u)
  BY <1>3 DEF NotesPending, NotesAnnouncing, Writing!At
<1>6. NotesMarksItsOwn' /\ Writing!TrashedIsRead'
  BY <1>1, <1>3 DEF NotesIInv, NotesMarksItsOwn, Writing!TrashedIsRead, Writing!At
<1>7. Writing!ReplyIsPermitted'
  BY <1>1, <1>3 DEF NotesIInv, Writing!ReplyIsPermitted, Writing!Sending, Writing!settings
<1>8. Writing!UnreadIsCounted'
  BY <1>1, <1>5 DEF NotesIInv, Writing!UnreadIsCounted, NotesPending, NotesAnnouncing
<1>9. NotesFillsAreRight'
  BY <1>1, <1>3, <1>5 DEF NotesIInv, NotesFillsAreRight, Writing!At
<1> QED
  BY <1>4, <1>6, <1>7, <1>8, <1>9 DEF NotesIInv

\* A call that invalidates u's header goes on to a step that announces nothing.
LEMMA NotesInvalidates ==
    ASSUME NotesIInv, NEW c \in Calls, NEW u \in Writers, NEW q \in NotesCallSet, Writing!Invalidate(c, u, q),
           UNCHANGED <<message, Writing!settings>>,
           \A v : NotesAnnouncing(c, v) => v = u,
           \/ call[c].at = "announce" /\ q = [call[c] EXCEPT !.at = "permit"]
           \/ call[c].at = "seen" /\ q = Writing!Idle
    PROVE  NotesIInv'
<1> DEFINE calls == [call EXCEPT ![c] = q]
<1>1. Writing!TypeOK
  BY DEF NotesIInv
<1>2. calls \in [Calls -> NotesCallSet] /\ calls[c] = q /\ \A d \in Calls \ {c} : calls[d] = call[d]
  BY <1>1 DEF Writing!TypeOK, NotesCallSet
<1>3. unread' = [unread EXCEPT ![u] = None] /\ outdated' = outdated \ {u} /\ call' = Writing!Overtake(calls, u)
  BY DEF Writing!Invalidate
<1>4. q.at \in {"permit", "idle"}
      /\ (q.at = "permit" => call[c].at = "announce" /\ q.from = call[c].from /\ q.to = call[c].to)
      /\ (q.at = "idle" => call[c].at = "seen")
  BY <1>1, NotesKinds DEF Writing!Idle, Writing!SendCall
<1> HIDE DEF calls
<1>5. /\ call' \in [Calls -> NotesCallSet]
      /\ call'[c] = q
      /\ \A d \in Calls \ {c} : call[d].at # "fill" => call'[d] = call[d]
      /\ \A d \in Calls \ {c} : call[d].at = "fill" =>
             /\ call'[d].at = "fill" /\ call'[d].user = call[d].user /\ call'[d].value = call[d].value
             /\ call'[d].late = (call[d].user = u \/ call[d].late)
  BY <1>2, <1>3, <1>4, NotesOvertaken
<1>6. Writing!TypeOK'
  BY <1>1, <1>3, <1>5 DEF Writing!TypeOK, NotesCallSet, Writing!settings
<1>7. Writing!Sent' = Writing!Sent /\ \A v : Writing!Unread(v)' = Writing!Unread(v)
  BY DEF Writing!Sent, Writing!Unread
<1>8. \A v : v # u => (NotesPending(v)' <=> NotesPending(v))
  BY <1>4, <1>5 DEF NotesPending, NotesAnnouncing, Writing!At
<1>9. NotesMarksItsOwn' /\ Writing!TrashedIsRead'
  BY <1>4, <1>5, <1>7 DEF NotesIInv, NotesMarksItsOwn, Writing!TrashedIsRead, Writing!At
<1>10. Writing!ReplyIsPermitted'
  BY <1>4, <1>5, <1>7 DEF NotesIInv, Writing!ReplyIsPermitted, Writing!Sending, Writing!settings
<1>11. Writing!UnreadIsCounted'
  <2> SUFFICES ASSUME NEW v \in Writers, unread'[v] # None, v \notin outdated'
               PROVE  unread'[v] = Writing!Unread(v)' \/ NotesPending(v)'
    BY DEF Writing!UnreadIsCounted, NotesPending, NotesAnnouncing
  <2>1. v # u
    BY <1>1, <1>3 DEF Writing!TypeOK
  <2> QED
    BY <2>1, <1>1, <1>3, <1>7, <1>8 DEF NotesIInv, Writing!UnreadIsCounted, NotesPending, NotesAnnouncing,
       Writing!TypeOK
<1>12. NotesFillsAreRight'
  BY <1>4, <1>5, <1>7, <1>8 DEF NotesIInv, NotesFillsAreRight, Writing!At
<1> QED
  BY <1>6, <1>9, <1>10, <1>11, <1>12 DEF NotesIInv

\* What a call that goes on leaves of the others.
LEMMA NotesGoesOn ==
    ASSUME Writing!TypeOK, NEW c \in Calls, NEW q, call' = [call EXCEPT ![c] = q]
    PROVE  call'[c] = q /\ \A d \in Calls \ {c} : call'[d] = call[d]
  BY DEF Writing!TypeOK

LEMMA NotesCountedPending == (Writing!UnreadIsCounted <=> NotesCounted) /\ (Writing!UnreadIsCounted' <=> NotesCounted')
  BY DEF Writing!UnreadIsCounted, NotesCounted, NotesPending, NotesAnnouncing

LEMMA NotesInsertInv ==
    ASSUME Writing!ConstantsOK, NotesIInv, NEW c \in Calls, NEW n \in Messages, Writing!Insert(c, n)
    PROVE  NotesIInv'
<1> DEFINE q == [call[c] EXCEPT !.at = "announce"]
           row == [from |-> call[c].from, to |-> call[c].to, flags |-> {"u"}]
<1>1. Writing!TypeOK
  BY DEF NotesIInv
<1>2. call[c] \in Writing!SendCall /\ call[c].at = "insert"
  BY <1>1, NotesKinds DEF Writing!Insert, Writing!At
<1>3. q \in Writing!SendCall /\ q.at = "announce" /\ q.from = call[c].from /\ q.to = call[c].to
  BY <1>2 DEF Writing!SendCall
<1>4. row \in Writing!Row /\ row.from = call[c].from /\ row.to = call[c].to /\ row.flags = {"u"}
  BY <1>2 DEF Writing!SendCall, Writing!Row
<1>5. /\ message[n] = None /\ message' = [message EXCEPT ![n] = row]
      /\ call' = [call EXCEPT ![c] = q]
      /\ UNCHANGED <<Writing!settings, unread, outdated>>
  BY DEF Writing!Insert, Writing!Goto
<1> HIDE DEF row, q
<1>6. row # None
  BY <1>4 DEF Writing!ConstantsOK
<1>7. message'[n] = row /\ \A m \in Messages \ {n} : message'[m] = message[m]
  BY <1>1, <1>5 DEF Writing!TypeOK
<1>8. Writing!Sent' = Writing!Sent \cup {n} /\ n \notin Writing!Sent
  BY <1>5, <1>6, <1>7 DEF Writing!Sent
<1>9. call'[c] = q /\ \A d \in Calls \ {c} : call'[d] = call[d]
  BY <1>1, <1>5, NotesGoesOn
<1>10. Writing!TypeOK'
  BY <1>1, <1>3, <1>4, <1>5 DEF Writing!TypeOK, Writing!settings
<1>11. \A u : u # call[c].to => Writing!Unread(u)' = Writing!Unread(u)
  BY <1>4, <1>7, <1>8 DEF Writing!Unread, Writing!Sent
<1>12. (\A u : u = call[c].to => NotesPending(u)') /\ \A u : NotesPending(u) => NotesPending(u)'
  BY <1>2, <1>3, <1>9 DEF NotesPending, NotesAnnouncing, Writing!At
<1>13. NotesMarksItsOwn'
  BY <1>3, <1>7, <1>8, <1>9 DEF NotesIInv, NotesMarksItsOwn, Writing!At, Writing!Sent
<1>14. Writing!ReplyIsPermitted'
  <2> SUFFICES ASSUME NEW m \in Writing!Sent'
               PROVE  <<message'[m].from, message'[m].to>> \in permitted' \/ Writing!Sending(m)'
    BY DEF Writing!ReplyIsPermitted
  <2>1. CASE m = n
    BY <2>1, <1>3, <1>4, <1>7, <1>9 DEF Writing!Sending
  <2>2. CASE m # n
    BY <2>2, <1>2, <1>5, <1>7, <1>8, <1>9 DEF Writing!Sending, NotesIInv, Writing!ReplyIsPermitted,
       Writing!settings, Writing!Sent
  <2> QED
    BY <2>1, <2>2
<1>15. Writing!TrashedIsRead'
  BY <1>4, <1>7, <1>8 DEF NotesIInv, Writing!TrashedIsRead, Writing!Sent
<1>16. Writing!UnreadIsCounted'
  BY <1>5, <1>11, <1>12, NotesCountedPending DEF NotesIInv, NotesCounted
<1>17. NotesFillsAreRight'
  BY <1>3, <1>9, <1>11, <1>12 DEF NotesIInv, NotesFillsAreRight, Writing!At
<1> QED
  BY <1>10, <1>13, <1>14, <1>15, <1>16, <1>17 DEF NotesIInv

LEMMA NotesPermitInv ==
    ASSUME NotesIInv, NEW c \in Calls, Writing!Permit(c)
    PROVE  NotesIInv'
<1>1. Writing!TypeOK
  BY DEF NotesIInv
<1>2. call[c] \in Writing!SendCall /\ call[c].at = "permit"
  BY <1>1, NotesKinds DEF Writing!Permit, Writing!At
<1>3. /\ permitted' = permitted \cup {<<call[c].from, call[c].to>>}
      /\ call' = [call EXCEPT ![c] = Writing!Idle]
      /\ UNCHANGED <<message, ignoring, accepts, friends, unread, outdated>>
  BY DEF Writing!Permit, Writing!End
<1>4. call'[c] = Writing!Idle /\ Writing!Idle.at = "idle" /\ \A d \in Calls \ {c} : call'[d] = call[d]
  BY <1>1, <1>3, NotesGoesOn DEF Writing!Idle
<1>5. Writing!Sent' = Writing!Sent /\ \A u : Writing!Unread(u)' = Writing!Unread(u)
  BY <1>3 DEF Writing!Sent, Writing!Unread
<1>6. \A u : NotesPending(u)' <=> NotesPending(u)
  BY <1>2, <1>4 DEF NotesPending, NotesAnnouncing, Writing!At
<1>7. Writing!TypeOK'
  BY <1>1, <1>2, <1>3 DEF Writing!TypeOK, Writing!SendCall
<1>8. NotesMarksItsOwn' /\ Writing!TrashedIsRead'
  BY <1>3, <1>4, <1>5 DEF NotesIInv, NotesMarksItsOwn, Writing!TrashedIsRead, Writing!At
<1>9. Writing!ReplyIsPermitted'
  BY <1>3, <1>4, <1>5 DEF NotesIInv, Writing!ReplyIsPermitted, Writing!Sending
<1>10. Writing!UnreadIsCounted'
  BY <1>3, <1>5, <1>6 DEF NotesIInv, Writing!UnreadIsCounted, NotesPending, NotesAnnouncing
<1>11. NotesFillsAreRight'
  BY <1>4, <1>5, <1>6 DEF NotesIInv, NotesFillsAreRight, Writing!At
<1> QED
  BY <1>7, <1>8, <1>9, <1>10, <1>11 DEF NotesIInv

LEMMA NotesMarkReadInv ==
    ASSUME Writing!ConstantsOK, NotesIInv, NEW c \in Calls, Writing!MarkRead(c)
    PROVE  NotesIInv'
<1> DEFINE n == call[c].note
           q == [call[c] EXCEPT !.at = "seen"]
           row == [message[n] EXCEPT !.flags = @ \ {"u"}]
<1>1. Writing!TypeOK
  BY DEF NotesIInv
<1>2. call[c] \in Writing!ViewCall /\ call[c].at = "mark"
  BY <1>1, NotesKinds DEF Writing!MarkRead, Writing!At
<1>3. q \in Writing!ViewCall /\ q.at = "seen" /\ q.user = call[c].user
  BY <1>2 DEF Writing!ViewCall
<1>4. n \in Writing!Sent /\ message[n].to = call[c].user
  BY <1>2 DEF NotesIInv, NotesMarksItsOwn, Writing!At
<1>5. message[n] \in Writing!Row /\ n \in Messages
  BY <1>1, <1>4 DEF Writing!Sent, Writing!TypeOK
<1>6. row \in Writing!Row /\ row.from = message[n].from /\ row.to = message[n].to /\ row.flags = message[n].flags \ {"u"}
  BY <1>5 DEF Writing!Row
<1>7. message' = [message EXCEPT ![n] = row] /\ call' = [call EXCEPT ![c] = q]
      /\ UNCHANGED <<Writing!settings, unread, outdated>>
  BY DEF Writing!MarkRead, Writing!Goto
<1> HIDE DEF row, q, n
<1>8. message'[n] = row /\ \A m \in Messages \ {n} : message'[m] = message[m]
  BY <1>1, <1>5, <1>7 DEF Writing!TypeOK
<1>9. call'[c] = q /\ \A d \in Calls \ {c} : call'[d] = call[d]
  BY <1>1, <1>7, NotesGoesOn
<1>10. Writing!TypeOK'
  BY <1>1, <1>3, <1>5, <1>6, <1>7 DEF Writing!TypeOK, Writing!settings
<1>11. Writing!Sent' = Writing!Sent /\ Writing!Sent \subseteq Messages
  BY <1>4, <1>6, <1>8 DEF Writing!Sent, Writing!ConstantsOK
<1>12. \A m \in Writing!Sent' : message'[m].from = message[m].from /\ message'[m].to = message[m].to
                         /\ message'[m].flags \subseteq message[m].flags
  BY <1>6, <1>8, <1>11 DEF Writing!Sent
<1>13. \A u : u # call[c].user => Writing!Unread(u)' = Writing!Unread(u)
  BY <1>4, <1>6, <1>8, <1>11 DEF Writing!Unread
<1>14. (\A u : u = call[c].user => NotesPending(u)') /\ \A u : NotesPending(u) => NotesPending(u)'
  BY <1>2, <1>3, <1>9 DEF NotesPending, NotesAnnouncing, Writing!At
<1>15. NotesMarksItsOwn'
  BY <1>3, <1>9, <1>11, <1>12 DEF NotesIInv, NotesMarksItsOwn, Writing!At
<1>16. Writing!TrashedIsRead'
  BY <1>6, <1>8, <1>11, <1>12 DEF NotesIInv, Writing!TrashedIsRead, Writing!Sent
<1>17. Writing!ReplyIsPermitted'
  BY <1>2, <1>7, <1>9, <1>11, <1>12 DEF NotesIInv, Writing!ReplyIsPermitted, Writing!Sending,
     Writing!settings
<1>18. Writing!UnreadIsCounted'
  BY <1>7, <1>13, <1>14, NotesCountedPending DEF NotesIInv, NotesCounted
<1>19. NotesFillsAreRight'
  BY <1>3, <1>9, <1>13, <1>14 DEF NotesIInv, NotesFillsAreRight, Writing!At
<1> QED
  BY <1>10, <1>15, <1>16, <1>17, <1>18, <1>19 DEF NotesIInv

\* Rows that keep their sender, their recipient and what is unread.
LEMMA NotesUntouched ==
    ASSUME Writing!ConstantsOK, Writing!TypeOK, message' \in [Messages -> Writing!Row \cup {None}],
           \A n \in Messages : message[n] = None => message'[n] = None,
           \A n \in Writing!Sent : /\ message'[n] \in Writing!Row
                                   /\ message'[n].from = message[n].from /\ message'[n].to = message[n].to
    PROVE  /\ Writing!Sent' = Writing!Sent
           /\ \A u : (\A n \in Writing!Sent : message[n].to = u => ("u" \in message'[n].flags <=> "u" \in message[n].flags))
                 => Writing!Unread(u)' = Writing!Unread(u)
<1>1. Writing!Sent' = Writing!Sent
  BY DEF Writing!Sent, Writing!ConstantsOK
<1> QED
  BY <1>1 DEF Writing!Unread

LEMMA NotesTrashSentInv ==
    ASSUME Writing!ConstantsOK, NotesIInv, NEW c \in Calls, NEW u \in Writers, NEW ns \in SUBSET Messages,
           Writing!TrashSent(c, u, ns)
    PROVE  NotesIInv'
<1> DEFINE q == [at |-> "trash", user |-> u, notes |-> ns]
           trashed(row) == [row EXCEPT !.flags = @ \cup {"s"}]
<1>1. Writing!TypeOK /\ ns \subseteq Writing!Sent
  BY DEF NotesIInv, Writing!TrashSent
<1>2. q \in Writing!RemoveCall /\ q.at = "trash" /\ q.notes = ns
  BY DEF Writing!RemoveCall
<1>3. \A row \in Writing!Row : /\ trashed(row) \in Writing!Row
                               /\ trashed(row).from = row.from /\ trashed(row).to = row.to
                               /\ trashed(row).flags = row.flags \cup {"s"}
  BY DEF Writing!Row
<1>4. /\ message' = [n \in Messages |-> IF n \in ns /\ message[n].from = u THEN trashed(message[n]) ELSE message[n]]
      /\ call[c] = Writing!Idle /\ call' = [call EXCEPT ![c] = q]
      /\ UNCHANGED <<Writing!settings, unread, outdated>>
  BY DEF Writing!TrashSent, Writing!Start
<1> HIDE DEF q, trashed
<1>5. \A n \in Messages : message'[n] = IF n \in ns /\ message[n].from = u THEN trashed(message[n]) ELSE message[n]
  BY <1>4
<1>6. \A n \in Writing!Sent : message[n] \in Writing!Row /\ n \in Messages
  BY <1>1 DEF Writing!Sent, Writing!TypeOK
<1>7. message' \in [Messages -> Writing!Row \cup {None}]
  BY <1>1, <1>3, <1>4, <1>6 DEF Writing!TypeOK
<1>8. \A n \in Messages : message[n] = None => message'[n] = None
  BY <1>1, <1>5 DEF Writing!Sent
<1>9. \A n \in Writing!Sent : /\ message'[n] \in Writing!Row
                              /\ message'[n].from = message[n].from /\ message'[n].to = message[n].to
                              /\ \A x \in {"u", "r"} : x \in message'[n].flags <=> x \in message[n].flags
  BY <1>3, <1>5, <1>6
<1>10. Writing!Sent' = Writing!Sent /\ \A v : Writing!Unread(v)' = Writing!Unread(v)
  BY <1>1, <1>7, <1>8, <1>9, NotesUntouched
<1>11. call'[c] = q /\ call[c].at = "idle" /\ \A d \in Calls \ {c} : call'[d] = call[d]
  <2>1. call[c].at = "idle"
    BY <1>4 DEF Writing!Idle
  <2> QED
    BY <2>1, <1>1, <1>4, NotesGoesOn
<1>12. \A v : NotesPending(v)' <=> NotesPending(v)
  BY <1>2, <1>11 DEF NotesPending, NotesAnnouncing, Writing!At
<1>13. Writing!TypeOK'
  BY <1>1, <1>2, <1>4, <1>7 DEF Writing!TypeOK, Writing!settings
<1>14. NotesMarksItsOwn'
  BY <1>1, <1>2, <1>9, <1>10, <1>11 DEF NotesIInv, NotesMarksItsOwn, Writing!At
<1>15. Writing!ReplyIsPermitted'
  <2>1. \A n \in Writing!Sent : Writing!Sending(n) => Writing!Sending(n)'
    BY <1>2, <1>9, <1>11 DEF Writing!Sending
  <2> QED
    BY <2>1, <1>4, <1>9, <1>10 DEF NotesIInv, Writing!ReplyIsPermitted, Writing!settings
<1>16. Writing!TrashedIsRead'
  BY <1>9, <1>10 DEF NotesIInv, Writing!TrashedIsRead
<1>17. Writing!UnreadIsCounted'
  BY <1>4, <1>10, <1>12, NotesCountedPending DEF NotesIInv, NotesCounted
<1>18. NotesFillsAreRight'
  BY <1>2, <1>10, <1>11, <1>12 DEF NotesIInv, NotesFillsAreRight, Writing!At
<1> QED
  BY <1>13, <1>14, <1>15, <1>16, <1>17, <1>18 DEF NotesIInv

LEMMA NotesTrashReceivedInv ==
    ASSUME Writing!ConstantsOK, NotesIInv, NEW c \in Calls, Writing!TrashReceived(c)
    PROVE  NotesIInv'
<1>1. Writing!TypeOK
  BY DEF NotesIInv
<1>2. call[c] \in Writing!RemoveCall /\ call[c].at = "trash"
  BY <1>1, NotesKinds DEF Writing!TrashReceived, Writing!At
<1>3. PICK u \in Writers, received \in SUBSET Messages :
          u = call[c].user /\ received = {n \in call[c].notes : message[n].to = u}
  BY <1>2 DEF Writing!RemoveCall
<1> DEFINE trashed(row) == [row EXCEPT !.flags = (@ \ {"u"}) \cup {"r"}]
           calls == [call EXCEPT ![c] = Writing!Idle]
           some == \E n \in received : "u" \in message[n].flags
<1>4. \A row \in Writing!Row : /\ trashed(row) \in Writing!Row
                               /\ trashed(row).from = row.from /\ trashed(row).to = row.to
                               /\ trashed(row).flags = (row.flags \ {"u"}) \cup {"r"}
  BY DEF Writing!Row
<1>5. /\ message' = [n \in Messages |-> IF n \in received THEN trashed(message[n]) ELSE message[n]]
      /\ some => outdated' = outdated \cup {u} /\ call' = Writing!Overtake(calls, u)
      /\ ~some => outdated' = outdated /\ call' = calls
      /\ UNCHANGED <<Writing!settings, unread>>
  BY <1>3 DEF Writing!TrashReceived, Writing!End
<1>6. received \subseteq Writing!Sent /\ \A n \in received : message[n].to = u
  BY <1>2, <1>3 DEF NotesIInv, NotesMarksItsOwn, Writing!At
<1> HIDE DEF trashed
<1>7. \A n \in Messages : message'[n] = IF n \in received THEN trashed(message[n]) ELSE message[n]
  BY <1>5
<1>8. \A n \in Writing!Sent : message[n] \in Writing!Row /\ n \in Messages
  BY <1>1 DEF Writing!Sent, Writing!TypeOK
<1>9. message' \in [Messages -> Writing!Row \cup {None}]
  BY <1>1, <1>4, <1>5, <1>6, <1>8 DEF Writing!TypeOK
<1>10. \A n \in Messages : message[n] = None => message'[n] = None
  BY <1>6, <1>7 DEF Writing!Sent
<1>11. \A n \in Writing!Sent : /\ message'[n] \in Writing!Row
                               /\ message'[n].from = message[n].from /\ message'[n].to = message[n].to
                               /\ n \in received => "u" \notin message'[n].flags
                               /\ n \notin received => message'[n] = message[n]
  BY <1>4, <1>7, <1>8
<1>12. Writing!Sent' = Writing!Sent /\ \A v : v # u => Writing!Unread(v)' = Writing!Unread(v)
  BY <1>1, <1>6, <1>9, <1>10, <1>11, NotesUntouched
<1>13. ~some => Writing!Unread(u)' = Writing!Unread(u)
  BY <1>1, <1>6, <1>9, <1>10, <1>11, NotesUntouched
<1>14. calls \in [Calls -> NotesCallSet] /\ calls[c] = Writing!Idle /\ \A d \in Calls \ {c} : calls[d] = call[d]
  BY <1>1 DEF Writing!TypeOK, NotesCallSet
<1>15. Writing!Idle.at = "idle"
  BY DEF Writing!Idle
<1> HIDE DEF calls, some
<1>16. /\ call' \in [Calls -> NotesCallSet]
       /\ call'[c] = Writing!Idle
       /\ \A d \in Calls \ {c} : call[d].at # "fill" => call'[d] = call[d]
       /\ \A d \in Calls \ {c} : call[d].at = "fill" =>
             /\ call'[d].at = "fill" /\ call'[d].user = call[d].user /\ call'[d].value = call[d].value
             /\ ~call'[d].late => ~call[d].late /\ ~(some /\ call[d].user = u)
  <2>1. CASE some
    <3>1. call' = Writing!Overtake(calls, u)
      BY <2>1, <1>5
    <3>2. \A d \in Calls : calls[d].at = "fill" =>
             /\ call'[d].at = "fill" /\ call'[d].user = calls[d].user /\ call'[d].value = calls[d].value
             /\ call'[d].late = (calls[d].user = u \/ calls[d].late)
      BY <3>1, <1>14, NotesOvertaken
    <3>3. call' \in [Calls -> NotesCallSet] /\ \A d \in Calls : calls[d].at # "fill" => call'[d] = calls[d]
      BY <3>1, <1>14, NotesOvertaken
    <3> QED
      BY <3>2, <3>3, <1>14, <1>15
  <2>2. CASE ~some
    BY <2>2, <1>5, <1>14
  <2> QED
    BY <2>1, <2>2
<1>17. \A v : NotesPending(v)' <=> NotesPending(v)
  BY <1>2, <1>15, <1>16 DEF NotesPending, NotesAnnouncing, Writing!At
<1>18. outdated' \subseteq Writers /\ \A v : v \notin outdated' => v \notin outdated /\ ~(some /\ v = u)
  BY <1>1, <1>5 DEF Writing!TypeOK
<1>19. Writing!TypeOK'
  BY <1>1, <1>5, <1>9, <1>16, <1>18 DEF Writing!TypeOK, Writing!settings, NotesCallSet
<1>20. NotesMarksItsOwn'
  BY <1>11, <1>12, <1>15, <1>16 DEF NotesIInv, NotesMarksItsOwn, Writing!At
<1>21. Writing!ReplyIsPermitted'
  <2>1. \A n \in Writing!Sent : Writing!Sending(n) => Writing!Sending(n)'
    BY <1>2, <1>11, <1>16 DEF Writing!Sending
  <2> QED
    BY <2>1, <1>5, <1>11, <1>12 DEF NotesIInv, Writing!ReplyIsPermitted, Writing!settings
<1>22. Writing!TrashedIsRead'
  BY <1>11, <1>12 DEF NotesIInv, Writing!TrashedIsRead
<1>23. Writing!UnreadIsCounted'
  BY <1>5, <1>12, <1>13, <1>17, <1>18, NotesCountedPending DEF NotesIInv, NotesCounted
<1>24. NotesFillsAreRight'
  BY <1>12, <1>13, <1>15, <1>16, <1>17 DEF NotesIInv, NotesFillsAreRight, Writing!At
<1> QED
  BY <1>19, <1>20, <1>21, <1>22, <1>23, <1>24 DEF NotesIInv

LEMMA NotesFillHeaderInv ==
    ASSUME NotesIInv, NEW c \in Calls, Writing!FillHeader(c)
    PROVE  NotesIInv'
<1>1. Writing!TypeOK
  BY DEF NotesIInv
<1>2. call[c] \in Writing!HeaderCall /\ call[c].at = "fill"
  BY <1>1, NotesKinds DEF Writing!FillHeader, Writing!At
<1>3. PICK u \in Writers : u = call[c].user
  BY <1>2 DEF Writing!HeaderCall
<1>4. /\ unread' = [unread EXCEPT ![u] = call[c].value]
      /\ call[c].late => outdated' = outdated \cup {u}
      /\ ~call[c].late => outdated' = outdated \ {u}
      /\ call' = [call EXCEPT ![c] = Writing!Idle]
      /\ UNCHANGED <<message, Writing!settings>>
  BY <1>3 DEF Writing!FillHeader, Writing!End
<1>5. call'[c] = Writing!Idle /\ \A d \in Calls \ {c} : call'[d] = call[d]
  BY <1>1, <1>4, NotesGoesOn
<1>6. Writing!Idle.at = "idle"
  BY DEF Writing!Idle
<1>7. Writing!Sent' = Writing!Sent /\ \A v : Writing!Unread(v)' = Writing!Unread(v)
  BY <1>4 DEF Writing!Sent, Writing!Unread
<1>8. \A v : NotesPending(v)' <=> NotesPending(v)
  BY <1>2, <1>5, <1>6 DEF NotesPending, NotesAnnouncing, Writing!At
<1>9. Writing!TypeOK'
  <2>1. call[c].value \in Nat
    BY <1>2 DEF Writing!HeaderCall
  <2> QED
    BY <2>1, <1>1, <1>4 DEF Writing!TypeOK, Writing!settings
<1>10. NotesMarksItsOwn' /\ Writing!TrashedIsRead'
  BY <1>4, <1>5, <1>6, <1>7 DEF NotesIInv, NotesMarksItsOwn, Writing!TrashedIsRead, Writing!At
<1>11. Writing!ReplyIsPermitted'
  <2>1. \A n \in Writing!Sent : Writing!Sending(n) => Writing!Sending(n)'
    BY <1>2, <1>4, <1>5 DEF Writing!Sending
  <2> QED
    BY <2>1, <1>4, <1>7 DEF NotesIInv, Writing!ReplyIsPermitted, Writing!settings
<1>12. Writing!UnreadIsCounted'
  <2> SUFFICES ASSUME NEW v \in Writers, unread'[v] # None, v \notin outdated'
               PROVE  unread'[v] = Writing!Unread(v)' \/ NotesPending(v)'
    BY NotesCountedPending DEF NotesCounted
  <2>1. CASE v = u
    <3>1. ~call[c].late /\ unread'[v] = call[c].value
      BY <2>1, <1>1, <1>4 DEF Writing!TypeOK
    <3>2. call[c].value = Writing!Unread(u) \/ NotesPending(u)
      BY <3>1, <1>2, <1>3 DEF NotesIInv, NotesFillsAreRight, Writing!At
    <3> QED
      BY <2>1, <3>1, <3>2, <1>7, <1>8
  <2>2. CASE v # u
    <3>1. unread'[v] = unread[v] /\ v \notin outdated
      BY <2>2, <1>1, <1>4 DEF Writing!TypeOK
    <3> QED
      BY <3>1, <1>7, <1>8, NotesCountedPending DEF NotesIInv, NotesCounted
  <2> QED
    BY <2>1, <2>2
<1>13. NotesFillsAreRight'
  BY <1>5, <1>6, <1>7, <1>8 DEF NotesIInv, NotesFillsAreRight, Writing!At
<1> QED
  BY <1>9, <1>10, <1>11, <1>12, <1>13 DEF NotesIInv

LEMMA NotesExpireHeaderInv ==
    ASSUME NotesIInv, NEW u \in Writers, Writing!ExpireHeader(u)
    PROVE  NotesIInv'
<1>1. unread' = [unread EXCEPT ![u] = None] /\ outdated' = outdated \ {u} /\ UNCHANGED <<message, Writing!settings, call>>
  BY DEF Writing!ExpireHeader
<1>2. Writing!Sent' = Writing!Sent /\ \A v : Writing!Unread(v)' = Writing!Unread(v)
  BY <1>1 DEF Writing!Sent, Writing!Unread
<1>3. \A v : NotesPending(v)' <=> NotesPending(v)
  BY <1>1 DEF NotesPending, NotesAnnouncing, Writing!At
<1>4. Writing!TypeOK'
  BY <1>1 DEF NotesIInv, Writing!TypeOK, Writing!settings
<1>5. NotesMarksItsOwn' /\ Writing!TrashedIsRead'
  BY <1>1, <1>2 DEF NotesIInv, NotesMarksItsOwn, Writing!TrashedIsRead, Writing!At
<1>6. Writing!ReplyIsPermitted'
  BY <1>1, <1>2 DEF NotesIInv, Writing!ReplyIsPermitted, Writing!Sending, Writing!settings
<1>7. Writing!UnreadIsCounted'
  BY <1>1, <1>2, <1>3, NotesCountedPending DEF NotesIInv, NotesCounted, Writing!TypeOK
<1>8. NotesFillsAreRight'
  BY <1>1, <1>2, <1>3 DEF NotesIInv, NotesFillsAreRight, Writing!At
<1> QED
  BY <1>4, <1>5, <1>6, <1>7, <1>8 DEF NotesIInv

\* Every step keeps the invariant.
LEMMA NotesNextInv == Writing!ConstantsOK /\ NotesIInv /\ [Writing!Next]_Writing!vars => NotesIInv'
<1> SUFFICES ASSUME Writing!ConstantsOK, NotesIInv, [Writing!Next]_Writing!vars PROVE NotesIInv'
  OBVIOUS
<1>1. ASSUME NEW c \in Calls, NEW u \in Writers, NEW v \in Writers, Writing!Send(c, u, v)
      PROVE  NotesIInv'
  <2> DEFINE q == [at |-> "insert", from |-> u, to |-> v]
  <2>1. q \in NotesCallSet /\ q.at = "insert"
    BY DEF NotesCallSet, Writing!SendCall
  <2>2. call[c] = Writing!Idle /\ call' = [call EXCEPT ![c] = q] /\ UNCHANGED <<message, Writing!settings, unread, outdated>>
    BY <1>1 DEF Writing!Send, Writing!Start
  <2> HIDE DEF q
  <2> QED
    BY <2>1, <2>2, NotesBegins
<1>2. ASSUME NEW c \in Calls, NEW u \in Writers, NEW n \in Messages, Writing!View(c, u, n)
      PROVE  NotesIInv'
  <2> DEFINE q == [at |-> "mark", user |-> u, note |-> n]
  <2>1. q \in NotesCallSet /\ q.at = "mark" /\ q.note = n /\ q.user = u
    BY DEF NotesCallSet, Writing!ViewCall
  <2>2. /\ call[c] = Writing!Idle /\ call' = [call EXCEPT ![c] = q] /\ UNCHANGED <<message, Writing!settings, unread, outdated>>
        /\ n \in Writing!Sent /\ message[n].to = u
    BY <1>2 DEF Writing!View, Writing!Start
  <2> HIDE DEF q
  <2> QED
    BY <2>1, <2>2, NotesBegins
<1>3. ASSUME NEW c \in Calls, NEW u \in Writers, Writing!CountHeader(c, u)
      PROVE  NotesIInv'
  <2> DEFINE q == [at |-> "fill", user |-> u, value |-> Writing!Unread(u), late |-> FALSE]
  <2>1. q \in NotesCallSet /\ q.at = "fill" /\ q.value = Writing!Unread(q.user)
    <3>1. Writing!Unread(u) \in Nat
      BY NotesCountable
    <3> QED
      BY <3>1 DEF NotesCallSet, Writing!HeaderCall
  <2>2. call[c] = Writing!Idle /\ call' = [call EXCEPT ![c] = q] /\ UNCHANGED <<message, Writing!settings, unread, outdated>>
    BY <1>3 DEF Writing!CountHeader, Writing!Start
  <2> HIDE DEF q
  <2> QED
    BY <2>1, <2>2, NotesBegins
<1>4. ASSUME NEW c \in Calls, Writing!Announce(c) PROVE NotesIInv'
  <2> DEFINE q == [call[c] EXCEPT !.at = "permit"]
  <2>1. call[c] \in Writing!SendCall /\ call[c].at = "announce"
    BY <1>4, NotesKinds DEF NotesIInv, Writing!Announce, Writing!At
  <2>2. call[c].to \in Writers /\ q \in NotesCallSet /\ \A v : NotesAnnouncing(c, v) => v = call[c].to
    BY <2>1 DEF Writing!SendCall, NotesCallSet, NotesAnnouncing, Writing!At
  <2>3. Writing!Invalidate(c, call[c].to, q) /\ UNCHANGED <<message, Writing!settings>>
    BY <1>4 DEF Writing!Announce
  <2> QED
    BY <2>1, <2>2, <2>3, NotesInvalidates
<1>5. ASSUME NEW c \in Calls, Writing!Seen(c) PROVE NotesIInv'
  <2>1. call[c] \in Writing!ViewCall /\ call[c].at = "seen"
    BY <1>5, NotesKinds DEF NotesIInv, Writing!Seen, Writing!At
  <2>2. call[c].user \in Writers /\ Writing!Idle \in NotesCallSet /\ \A v : NotesAnnouncing(c, v) => v = call[c].user
    BY <2>1 DEF Writing!ViewCall, NotesCallSet, NotesAnnouncing, Writing!At
  <2>3. Writing!Invalidate(c, call[c].user, Writing!Idle) /\ UNCHANGED <<message, Writing!settings>>
    BY <1>5 DEF Writing!Seen
  <2> QED
    BY <2>1, <2>2, <2>3, NotesInvalidates
<1>6. ASSUME NEW u \in Writers, NEW v \in Writers, Writing!Ignore(u, v) \/ Writing!Befriend(u,
             v) PROVE NotesIInv'
  <2>1. UNCHANGED <<message, permitted, unread, call, outdated>> /\ Writing!TypeOK'
    BY <1>6 DEF Writing!Ignore, Writing!Befriend, NotesIInv, Writing!TypeOK
  <2> QED
    BY <2>1, NotesElsewhere
<1>7. ASSUME NEW u \in Writers, NEW whose \in {"anyone", "friends", "staff"}, Writing!Accept(u,
             whose) PROVE NotesIInv'
  <2>1. UNCHANGED <<message, permitted, unread, call, outdated>> /\ Writing!TypeOK'
    BY <1>7 DEF Writing!Accept, NotesIInv, Writing!TypeOK
  <2> QED
    BY <2>1, NotesElsewhere
<1>8. CASE UNCHANGED Writing!vars
  <2>1. UNCHANGED <<message, permitted, unread, call, outdated>> /\ Writing!TypeOK'
    BY <1>8 DEF Writing!vars, Writing!settings, NotesIInv, Writing!TypeOK
  <2> QED
    BY <2>1, NotesElsewhere
<1> QED
  BY <1>1, <1>2, <1>3, <1>4, <1>5, <1>6, <1>7, <1>8, NotesInsertInv, NotesPermitInv, NotesMarkReadInv,
     NotesTrashSentInv, NotesTrashReceivedInv, NotesFillHeaderInv, NotesExpireHeaderInv DEF Writing!Next
-----------------------------------------------------------------------------
\* While the part moves it has its invariant; and so it has in every state.
NotesHold == part = "notes" => NotesIInv

LEMMA NotesAreHeld == ContentSpec => []NotesHold
<1>1. ContentInit => NotesHold
  BY NotesInitInv, ContentAssumption DEF ContentInit, NotesHold
<1>2. NotesHold /\ [ContentNext]_all_content_vars => NotesHold'
  <2> SUFFICES ASSUME NotesHold, [ContentNext]_all_content_vars, part' = "notes" PROVE NotesIInv'
    BY DEF NotesHold
  <2>1. part = "notes" /\ NotesIInv
    BY PartStays DEF NotesHold
  <2>2. Writing!Next \/ UNCHANGED <<notes_vars, call>>
    BY <2>1 DEF ContentNext, all_content_vars
  <2>3. UNCHANGED <<notes_vars, call>> => UNCHANGED Writing!vars
    BY DEF notes_vars, Writing!vars, Writing!settings
  <2> QED
    BY <2>1, <2>2, <2>3, NotesNextInv, ContentAssumption
<1> QED
  BY <1>1, <1>2, PTL DEF ContentSpec

\* send, select_view, remove_list and the header (weasyl/note.py): whoever has
\* received a note may answer it, no order of calls leaves a note that is trashed
\* and unread, and the cached header counts the unread notes, but for the excuses
\* that UnreadIsCounted names.
THEOREM NotesAnswer == ContentSpec => []NotesAreAnswered
<1>1. NotesHold => NotesAreAnswered
  BY DEF NotesHold, NotesIInv, NotesAreAnswered
<1> QED
  BY <1>1, NotesAreHeld, PTL
-----------------------------------------------------------------------------
\* The record of a call, by the step it is at.
LEMMA TagsKinds ==
    ASSUME Tagging!TypeOK, NEW c \in Calls
    PROVE  /\ call[c].at \in TagsSuggesting => call[c] \in Tagging!SuggestCall
           /\ call[c].at \in {"approve", "reject"} => call[c] \in Tagging!DecideCall
           /\ call[c].at = "invalidate" => call[c] \in Tagging!EditCall
           /\ call[c] \in TagsCallSet
<1>1. call[c] \in TagsCallSet
  BY DEF Tagging!TypeOK, TagsCallSet
<1>2. Tagging!Idle.at = "idle"
  BY DEF Tagging!Idle
<1>3. \A q \in Tagging!SuggestCall : q.at \in TagsSuggesting
  BY DEF Tagging!SuggestCall, TagsSuggesting
<1>4. \A q \in Tagging!DecideCall : q.at \in {"approve", "reject"}
  BY DEF Tagging!DecideCall
<1>5. \A q \in Tagging!EditCall : q.at = "invalidate"
  BY DEF Tagging!EditCall
<1>6. call[c] = Tagging!Idle \/ call[c] \in Tagging!SuggestCall \/ call[c] \in Tagging!DecideCall \/ call[c] \in Tagging!EditCall
  BY <1>1 DEF TagsCallSet
<1> QED
  BY <1>1, <1>2, <1>3, <1>4, <1>5, <1>6 DEF TagsSuggesting

\* What a call that goes on leaves of the others.
LEMMA TagsGoesOn ==
    ASSUME Tagging!TypeOK, NEW c \in Calls, NEW q, call' = [call EXCEPT ![c] = q]
    PROVE  call'[c] = q /\ \A d \in Calls \ {c} : call'[d] = call[d]
  BY DEF Tagging!TypeOK

\* No one who suggests is unknown, nor does Nobody decide.
LEMMA TagsNobodyDecides == Tagging!ConstantsOK => None \notin Tagging!Deciders
  BY DEF Tagging!ConstantsOK, Tagging!Deciders

LEMMA TagsInitInv == Tagging!ConstantsOK /\ Tagging!Init => TagsIInv
<1> SUFFICES ASSUME Tagging!ConstantsOK, Tagging!Init PROVE TagsIInv
  OBVIOUS
<1>1. Tagging!Present = {} /\ \A c \in Calls : call[c].at = "idle"
  BY DEF Tagging!Init, Tagging!Present, Tagging!AllIdle, Tagging!Idle
<1>2. Tagging!TypeOK
  <2>1. call \in [Calls -> TagsCallSet]
    BY DEF Tagging!Init, Tagging!AllIdle, TagsCallSet
  <2>2. searchmap \in [Tags -> Tagging!Rows \cup {Tagging!Absent}]
    BY DEF Tagging!Init
  <2>3. cached_tags \in [Tagging!Lists -> (SUBSET Tags) \cup {Tagging!Missing}] /\ restricted \in [Tagging!Lists -> SUBSET Tags]
    BY DEF Tagging!Init
  <2>4. /\ submission_tags \subseteq Tags /\ feedback \subseteq Tags \X Tagging!Deciders /\ tokens \subseteq Tagging!UndoTokens
        /\ drift \subseteq Tags /\ overtaken_tags \subseteq Tagging!Lists
    BY DEF Tagging!Init
  <2> QED
    BY <2>1, <2>2, <2>3, <2>4 DEF Tagging!TypeOK, TagsCallSet
<1>3. Tagging!SearchFindsTags /\ Tagging!Attributed
  BY <1>1 DEF Tagging!Init, Tagging!SearchFindsTags, Tagging!Attributed
<1>4. TagsRolesKept /\ TagsBarsAreKnown /\ TagsListsAreDropped
  BY <1>1 DEF Tagging!Init, TagsRolesKept, TagsBarsAreKnown, TagsListsAreDropped, Tagging!At,
     TagsSuggesting
<1>5. TagsCacheIsRight
  BY <1>1 DEF Tagging!Init, TagsCacheIsRight, Tagging!At
<1> QED
  BY <1>2, <1>3, <1>4, <1>5 DEF TagsIInv
-----------------------------------------------------------------------------
\* Steps that leave the tag map.
LEMMA TagsTagsStay ==
    ASSUME Tagging!TypeOK, TagsTagInv, UNCHANGED <<searchmap, submission_tags, drift>>, TagsRolesKept'
    PROVE  TagsTagInv'
<1>1. Tagging!Present' = Tagging!Present
  BY DEF Tagging!Present
<1> QED
  BY <1>1 DEF TagsTagInv, Tagging!SearchFindsTags, Tagging!Attributed

\* Steps after which the lists and the suggestions on their way are the same.
LEMMA TagsListsStay ==
    ASSUME Tagging!TypeOK, TagsListInv, UNCHANGED <<restricted, cached_tags, overtaken_tags>>, NEW c \in Calls,
           \A d \in Calls \ {c} : call'[d] = call[d],
           call[c].at \notin {"invalidate"},
           call'[c].at \notin TagsSuggesting \cup {"invalidate"}
    PROVE  TagsListInv'
<1>1. \A l : TagsEditing(l)' <=> TagsEditing(l)
  BY DEF TagsEditing, Tagging!At, TagsSuggesting
<1>2. \A d \in Calls : call'[d].at \in TagsSuggesting => call'[d] = call[d] /\ call[d].at \in TagsSuggesting
  BY DEF TagsSuggesting
<1>3. \A d \in Calls : call'[d].at \in {"read", "fill"} => call'[d].at \in TagsSuggesting
  BY DEF TagsSuggesting
<1>4. TagsBarsAreKnown'
  BY <1>2, <1>3 DEF TagsListInv, TagsBarsAreKnown, Tagging!At
<1>5. TagsListsAreDropped'
  BY <1>2, <1>3 DEF TagsListInv, TagsListsAreDropped, Tagging!At, TagsSuggesting
<1>6. TagsCacheIsRight'
  BY <1>1, <1>2, <1>3 DEF TagsListInv, TagsCacheIsRight, Tagging!At
<1> QED
  BY <1>4, <1>5, <1>6 DEF TagsListInv

LEMMA TagsListsSame ==
    ASSUME TagsListInv, UNCHANGED <<restricted, cached_tags, overtaken_tags, call>>
    PROVE  TagsListInv'
<1>1. \A l : TagsEditing(l)' <=> TagsEditing(l)
  BY DEF TagsEditing, Tagging!At
<1> QED
  BY <1>1 DEF TagsListInv, TagsBarsAreKnown, TagsListsAreDropped, TagsCacheIsRight, Tagging!At

\* associate's transactions write the copy that search reads.
LEMMA TagsUpdated ==
    ASSUME Tagging!UpdateSubmissionTags
    PROVE  Tagging!SearchFindsTags'
  BY DEF Tagging!UpdateSubmissionTags, Tagging!SearchFindsTags, Tagging!Present

LEMMA TagsAssociateInv ==
    ASSUME Tagging!ConstantsOK, TagsIInv, NEW u \in Taggers, NEW tags \in SUBSET Tags, Tagging!Associate(u,
           tags)
    PROVE  TagsIInv'
<1> DEFINE row(t) == IF t \in tags
                       THEN IF searchmap[t].artist THEN searchmap[t] ELSE [artist |-> TRUE, by |-> u]
                       ELSE IF searchmap[t].artist THEN Tagging!Absent ELSE searchmap[t]
<1>1. Tagging!TypeOK
  BY DEF TagsIInv
<1>2. /\ u \in Tagging!Deciders /\ Tagging!UpdateSubmissionTags /\ searchmap' = [t \in Tags |-> row(t)]
      /\ UNCHANGED <<feedback, tokens, restricted, cached_tags, call, overtaken_tags>>
  BY DEF Tagging!Associate
<1>3. \A t \in Tags : row(t) \in Tagging!Rows \cup {Tagging!Absent}
  BY <1>1 DEF Tagging!TypeOK, Tagging!Rows, Tagging!Absent
<1>4. Tagging!TypeOK'
  BY <1>1, <1>2, <1>3 DEF Tagging!TypeOK, Tagging!UpdateSubmissionTags
<1>5. TagsRolesKept'
  BY <1>2 DEF TagsIInv, TagsRolesKept
<1>6. Tagging!Attributed'
  <2> SUFFICES ASSUME NEW t \in Tags, row(t) # Tagging!Absent, row(t).by # None
               PROVE  row(t).artist <=> row(t).by \in Tagging!Deciders
    BY <1>2 DEF Tagging!Attributed, Tagging!Present
  <2>1. searchmap[t] # Tagging!Absent => t \in Tagging!Present
    BY DEF Tagging!Present
  <2>2. CASE t \in tags /\ ~searchmap[t].artist
    BY <2>2, <1>2
  <2>3. CASE ~(t \in tags /\ ~searchmap[t].artist)
    <3>1. row(t) = searchmap[t]
      BY <2>3
    <3> QED
      BY <3>1, <2>1 DEF TagsIInv, Tagging!Attributed
  <2> QED
    BY <2>2, <2>3
<1>7. TagsListInv'
  BY <1>2, TagsListsSame DEF TagsIInv, TagsListInv
<1> QED
  BY <1>2, <1>4, <1>5, <1>6, <1>7, TagsUpdated DEF TagsIInv, TagsListInv

LEMMA TagsSuggestCommitInv ==
    ASSUME Tagging!ConstantsOK, TagsIInv, NEW c \in Calls, Tagging!SuggestCommit(c)
    PROVE  TagsIInv'
<1> DEFINE u == call[c].user
           own == {t \in Tagging!Present : ~searchmap[t].artist /\ searchmap[t].by = u}
           row(t) == IF t \in own \ call[c].tags THEN Tagging!Absent
                     ELSE IF t \in call[c].tags \ Tagging!Present THEN [artist |-> FALSE, by |-> u]
                     ELSE searchmap[t]
<1>1. Tagging!TypeOK
  BY DEF TagsIInv
<1>2. call[c] \in Tagging!SuggestCall /\ call[c].at = "suggest" /\ u \in Taggers /\ u \notin Tagging!Deciders
  <2>1. call[c].at = "suggest" /\ call[c].at \in TagsSuggesting
    BY DEF Tagging!SuggestCommit, Tagging!At, TagsSuggesting
  <2> QED
    BY <2>1, <1>1, TagsKinds DEF Tagging!SuggestCall, TagsIInv, TagsRolesKept
<1>3. /\ searchmap' = [t \in Tags |-> row(t)] /\ Tagging!UpdateSubmissionTags
      /\ call' = [call EXCEPT ![c] = Tagging!Idle]
      /\ UNCHANGED <<feedback, tokens, restricted, cached_tags, overtaken_tags>>
  BY DEF Tagging!SuggestCommit, Tagging!End
<1>4. call'[c] = Tagging!Idle /\ Tagging!Idle.at = "idle" /\ \A d \in Calls \ {c} : call'[d] = call[d]
  BY <1>1, <1>3, TagsGoesOn DEF Tagging!Idle
<1>5. \A t \in Tags : row(t) \in Tagging!Rows \cup {Tagging!Absent}
  BY <1>1, <1>2 DEF Tagging!TypeOK, Tagging!Rows
<1>6. Tagging!TypeOK'
  BY <1>1, <1>3, <1>5 DEF Tagging!TypeOK, Tagging!UpdateSubmissionTags
<1>7. TagsRolesKept'
  BY <1>3, <1>4 DEF TagsIInv, TagsRolesKept, TagsSuggesting
<1>8. Tagging!Attributed'
  <2> SUFFICES ASSUME NEW t \in Tags, row(t) # Tagging!Absent, row(t).by # None
               PROVE  row(t).artist <=> row(t).by \in Tagging!Deciders
    BY <1>3 DEF Tagging!Attributed, Tagging!Present
  <2>1. CASE t \in call[c].tags \ Tagging!Present
    <3>1. row(t) = [artist |-> FALSE, by |-> u]
      BY <2>1
    <3> QED
      BY <3>1, <1>2
  <2>2. CASE t \notin call[c].tags \ Tagging!Present
    <3>1. row(t) = searchmap[t]
      BY <2>2
    <3>2. t \in Tagging!Present
      BY <3>1 DEF Tagging!Present
    <3> QED
      BY <3>1, <3>2 DEF TagsIInv, Tagging!Attributed
  <2> QED
    BY <2>1, <2>2
<1>9. TagsListInv'
  BY <1>1, <1>2, <1>3, <1>4, TagsListsStay DEF TagsIInv, TagsListInv, TagsSuggesting
<1> QED
  BY <1>3, <1>6, <1>7, <1>8, <1>9, TagsUpdated DEF TagsIInv, TagsListInv

LEMMA TagsArbitrateInv ==
    ASSUME Tagging!ConstantsOK, TagsIInv, NEW c \in Calls, NEW u \in Taggers, NEW t \in Tags,
           NEW action \in {"approve", "reject"}, Tagging!Arbitrate(c, u, t, action)
    PROVE  TagsIInv'
<1> DEFINE q == [at |-> action, user |-> u, tag |-> t, by |-> searchmap[t].by]
<1>1. Tagging!TypeOK
  BY DEF TagsIInv
<1>2. /\ call[c] = Tagging!Idle /\ u \in Tagging!Deciders /\ t \in Tagging!Present /\ ~searchmap[t].artist
      /\ call' = [call EXCEPT ![c] = q]
      /\ UNCHANGED <<searchmap, submission_tags, feedback, tokens, restricted, cached_tags, drift, overtaken_tags>>
  BY DEF Tagging!Arbitrate, Tagging!tables
<1>3. searchmap[t] \in Tagging!Rows
  BY <1>1, <1>2 DEF Tagging!TypeOK, Tagging!Present
<1>4. searchmap[t].by \notin Tagging!Deciders
  BY <1>2, TagsNobodyDecides DEF TagsIInv, Tagging!Attributed
<1>5. q \in Tagging!DecideCall /\ q.at = action /\ q.user = u /\ q.by = searchmap[t].by
  BY <1>3 DEF Tagging!DecideCall, Tagging!Rows
<1> HIDE DEF q
<1>6. call'[c] = q /\ \A d \in Calls \ {c} : call'[d] = call[d]
  BY <1>1, <1>2, TagsGoesOn
<1>7. Tagging!TypeOK'
  BY <1>1, <1>2, <1>5 DEF Tagging!TypeOK
<1>8. TagsRolesKept'
  BY <1>2, <1>4, <1>5, <1>6 DEF TagsIInv, TagsRolesKept, TagsSuggesting
<1>9. TagsTagInv'
  BY <1>1, <1>2, <1>8, TagsTagsStay DEF TagsIInv, TagsTagInv
<1>10. TagsListInv'
  <2>1. call[c].at = "idle"
    BY <1>2 DEF Tagging!Idle
  <2> QED
    BY <2>1, <1>1, <1>2, <1>5, <1>6, TagsListsStay DEF TagsIInv, TagsListInv, TagsSuggesting
<1> QED
  BY <1>7, <1>9, <1>10 DEF TagsIInv, TagsTagInv, TagsListInv

\* The end of a decision, whatever it writes.
LEMMA TagsDecides ==
    ASSUME Tagging!ConstantsOK, TagsIInv, NEW c \in Calls, call[c].at \in {"approve", "reject"},
           call' = [call EXCEPT ![c] = Tagging!Idle], tokens' = tokens \cup Tagging!Token(c),
           UNCHANGED <<restricted, cached_tags, overtaken_tags>>
    PROVE  /\ call[c].tag \in Tags /\ call[c].user \in Tagging!Deciders /\ call[c].user \in Taggers
           /\ call' \in [Calls -> TagsCallSet]
           /\ tokens' \subseteq Tagging!UndoTokens
           /\ TagsRolesKept' /\ TagsListInv'
<1>1. Tagging!TypeOK
  BY DEF TagsIInv
<1>2. call[c] \in Tagging!DecideCall /\ call[c].user \in Tagging!Deciders /\ call[c].by \notin Tagging!Deciders
  BY <1>1, TagsKinds DEF TagsIInv, TagsRolesKept
<1>3. call[c].tag \in Tags /\ call[c].user \in Taggers /\ call[c].by \in Taggers \cup {None}
  BY <1>2 DEF Tagging!DecideCall
<1>4. call'[c] = Tagging!Idle /\ \A d \in Calls \ {c} : call'[d] = call[d]
  BY <1>1, TagsGoesOn
<1>5. Tagging!Idle.at = "idle"
  BY DEF Tagging!Idle
<1>6. call' \in [Calls -> TagsCallSet]
  BY <1>1 DEF Tagging!TypeOK, TagsCallSet
<1>7. Tagging!Token(c) \subseteq Tagging!UndoTokens /\ \A k \in Tagging!Token(c) : k.by \notin Tagging!Deciders
  BY <1>2, <1>3 DEF Tagging!Token, Tagging!UndoTokens
<1>8. tokens' \subseteq Tagging!UndoTokens
  BY <1>1, <1>7 DEF Tagging!TypeOK
<1>9. TagsRolesKept'
  BY <1>4, <1>5, <1>7 DEF TagsIInv, TagsRolesKept, TagsSuggesting
<1>10. TagsListInv'
  BY <1>1, <1>4, <1>5, TagsListsStay DEF TagsIInv, TagsListInv, TagsSuggesting
<1> QED
  BY <1>2, <1>3, <1>6, <1>8, <1>9, <1>10

LEMMA TagsApproveInv ==
    ASSUME Tagging!ConstantsOK, TagsIInv, NEW c \in Calls, Tagging!Approve(c)
    PROVE  TagsIInv'
<1> DEFINE row == [artist |-> TRUE, by |-> call[c].user]
<1>1. Tagging!TypeOK
  BY DEF TagsIInv
<1>2. PICK t : t = call[c].tag
  OBVIOUS
<1>3. /\ call[c].at = "approve" /\ call' = [call EXCEPT ![c] = Tagging!Idle] /\ tokens' = tokens \cup Tagging!Token(c)
      /\ searchmap' = IF t \in Tagging!Present /\ ~searchmap[t].artist THEN [searchmap EXCEPT ![t] = row] ELSE searchmap
      /\ UNCHANGED <<submission_tags, feedback, restricted, cached_tags, drift, overtaken_tags>>
  BY <1>2 DEF Tagging!Approve, Tagging!End, Tagging!At
<1>4. /\ t \in Tags /\ call[c].user \in Tagging!Deciders /\ call[c].user \in Taggers
      /\ call' \in [Calls -> TagsCallSet] /\ tokens' \subseteq Tagging!UndoTokens /\ TagsRolesKept' /\ TagsListInv'
  BY <1>2, <1>3, TagsDecides
<1>5. row \in Tagging!Rows /\ row # Tagging!Absent /\ row.artist = TRUE /\ row.by \in Tagging!Deciders
  BY <1>4 DEF Tagging!Rows, Tagging!Absent
<1> HIDE DEF row
<1>6. /\ searchmap' \in [Tags -> Tagging!Rows \cup {Tagging!Absent}]
      /\ \A s \in Tags : searchmap'[s] \in {row, searchmap[s]} /\ (searchmap'[s] = row => s \in Tagging!Present \/ searchmap[s] = row)
  BY <1>1, <1>3, <1>4, <1>5 DEF Tagging!TypeOK
<1>7. Tagging!Present' = Tagging!Present
  BY <1>5, <1>6 DEF Tagging!Present
<1>8. Tagging!TypeOK'
  BY <1>1, <1>3, <1>4, <1>6 DEF Tagging!TypeOK, TagsCallSet
<1>9. Tagging!SearchFindsTags'
  BY <1>3, <1>7 DEF TagsIInv, Tagging!SearchFindsTags
<1>10. Tagging!Attributed'
  <2> SUFFICES ASSUME NEW s \in Tagging!Present, searchmap'[s].by # None
               PROVE  searchmap'[s].artist <=> searchmap'[s].by \in Tagging!Deciders
    BY <1>7 DEF Tagging!Attributed
  <2>1. s \in Tags
    BY DEF Tagging!Present
  <2>2. CASE searchmap'[s] = row
    BY <2>2, <1>5
  <2>3. CASE searchmap'[s] = searchmap[s]
    BY <2>3 DEF TagsIInv, Tagging!Attributed
  <2> QED
    BY <2>1, <2>2, <2>3, <1>6
<1> QED
  BY <1>4, <1>8, <1>9, <1>10 DEF TagsIInv, TagsListInv

\* One tag is taken away, or restored as a suggestion.
LEMMA TagsOneTagChanges ==
    ASSUME Tagging!ConstantsOK, TagsIInv, NEW t \in Tags, NEW row \in Tagging!Rows \cup {Tagging!Absent},
           row = Tagging!Absent \/ (~row.artist /\ row.by \notin Tagging!Deciders),
           searchmap' = [searchmap EXCEPT ![t] = row],
           drift' = drift \cup {t}, UNCHANGED submission_tags
    PROVE  Tagging!SearchFindsTags' /\ Tagging!Attributed' /\ searchmap' \in [Tags -> Tagging!Rows \cup {Tagging!Absent}] /\ drift' \subseteq Tags
<1>1. Tagging!TypeOK
  BY DEF TagsIInv
<1>2. searchmap'[t] = row /\ \A s \in Tags \ {t} : searchmap'[s] = searchmap[s]
  BY <1>1 DEF Tagging!TypeOK
<1>3. \A s \in Tags \ {t} : s \in Tagging!Present' <=> s \in Tagging!Present
  BY <1>2 DEF Tagging!Present
<1>4. Tagging!SearchFindsTags'
  <2>1. Tagging!Present' \subseteq Tags /\ Tagging!Present \subseteq Tags /\ submission_tags \subseteq Tags
    BY <1>1 DEF Tagging!Present, Tagging!TypeOK
  <2> QED
    BY <2>1, <1>3 DEF TagsIInv, Tagging!SearchFindsTags
<1>5. Tagging!Attributed'
  <2> SUFFICES ASSUME NEW s \in Tags, searchmap'[s] # Tagging!Absent, searchmap'[s].by # None
               PROVE  searchmap'[s].artist <=> searchmap'[s].by \in Tagging!Deciders
    BY DEF Tagging!Attributed, Tagging!Present
  <2>1. CASE s = t
    BY <2>1, <1>2
  <2>2. CASE s # t
    BY <2>2, <1>2 DEF TagsIInv, Tagging!Attributed, Tagging!Present
  <2> QED
    BY <2>1, <2>2
<1> QED
  BY <1>1, <1>4, <1>5 DEF Tagging!TypeOK

LEMMA TagsRejectInv ==
    ASSUME Tagging!ConstantsOK, TagsIInv, NEW c \in Calls, Tagging!Reject(c)
    PROVE  TagsIInv'
<1>1. Tagging!TypeOK
  BY DEF TagsIInv
<1>2. PICK t : t = call[c].tag
  OBVIOUS
<1>3. /\ call[c].at = "reject" /\ call' = [call EXCEPT ![c] = Tagging!Idle] /\ tokens' = tokens \cup Tagging!Token(c)
      /\ searchmap' = [searchmap EXCEPT ![t] = Tagging!Absent] /\ drift' = drift \cup {t}
      /\ feedback' = feedback \cup {<<t, call[c].user>>}
      /\ UNCHANGED <<submission_tags, restricted, cached_tags, overtaken_tags>>
  BY <1>2 DEF Tagging!Reject, Tagging!End, Tagging!At
<1>4. /\ t \in Tags /\ call[c].user \in Tagging!Deciders
      /\ call' \in [Calls -> TagsCallSet] /\ tokens' \subseteq Tagging!UndoTokens /\ TagsRolesKept' /\ TagsListInv'
  BY <1>2, <1>3, TagsDecides
<1>5. Tagging!SearchFindsTags' /\ Tagging!Attributed' /\ searchmap' \in [Tags -> Tagging!Rows \cup {Tagging!Absent}] /\ drift' \subseteq Tags
  BY <1>3, <1>4, TagsOneTagChanges
<1>6. Tagging!TypeOK'
  BY <1>1, <1>3, <1>4, <1>5 DEF Tagging!TypeOK, TagsCallSet
<1> QED
  BY <1>4, <1>5, <1>6 DEF TagsIInv, TagsListInv

LEMMA TagsUndoInv ==
    ASSUME Tagging!ConstantsOK, TagsIInv, NEW token \in tokens, Tagging!Undo(token)
    PROVE  TagsIInv'
<1> DEFINE row == [artist |-> FALSE, by |-> token.by]
<1>1. Tagging!TypeOK
  BY DEF TagsIInv
<1>2. /\ searchmap' = [searchmap EXCEPT ![token.tag] = row] /\ drift' = drift \cup {token.tag}
      /\ feedback' = feedback \ {<<token.tag, token.to>>}
      /\ UNCHANGED <<submission_tags, tokens, restricted, cached_tags, call, overtaken_tags>>
  BY DEF Tagging!Undo
<1>3. token.tag \in Tags /\ token.by \in Taggers /\ token.by \notin Tagging!Deciders
  BY <1>1 DEF Tagging!TypeOK, Tagging!UndoTokens, TagsIInv, TagsRolesKept
<1>4. row \in Tagging!Rows /\ ~row.artist /\ row.by \notin Tagging!Deciders
  BY <1>3 DEF Tagging!Rows
<1> HIDE DEF row
<1>5. Tagging!SearchFindsTags' /\ Tagging!Attributed' /\ searchmap' \in [Tags -> Tagging!Rows \cup {Tagging!Absent}] /\ drift' \subseteq Tags
  BY <1>2, <1>3, <1>4, TagsOneTagChanges
<1>6. Tagging!TypeOK'
  BY <1>1, <1>2, <1>5 DEF Tagging!TypeOK
<1>7. TagsRolesKept'
  BY <1>2 DEF TagsIInv, TagsRolesKept
<1>8. TagsListInv'
  BY <1>2, TagsListsSame DEF TagsIInv, TagsListInv
<1> QED
  BY <1>5, <1>6, <1>7, <1>8 DEF TagsIInv, TagsListInv
-----------------------------------------------------------------------------
\* What is left of a suggestion that has been through a list.
LEMMA TagsFilteredCall ==
    ASSUME Tagging!TypeOK, NEW c \in Calls, call[c].at \in {"read", "fill"}, NEW value,
           call' = Tagging!Filtered(c, value)
    PROVE  /\ call' \in [Calls -> TagsCallSet]
           /\ \A d \in Calls \ {c} : call'[d] = call[d]
           /\ call'[c].at = (IF call[c].list = "user" THEN "read" ELSE "suggest")
           /\ call'[c].list = "global"
           /\ call'[c].user = call[c].user
           /\ call'[c].tags = call[c].tags \ value
           /\ call'[c].barred = call[c].barred
           /\ call[c].list \in Tagging!Lists /\ call[c].value \subseteq Tags
<1>1. call[c] \in Tagging!SuggestCall
  BY TagsKinds DEF TagsSuggesting
<1> DEFINE q == [call[c] EXCEPT !.tags = @ \ value, !.value = {}, !.late = FALSE,
                                !.at = IF call[c].list = "user" THEN "read" ELSE "suggest",
                                !.list = "global"]
<1>2. call' = [call EXCEPT ![c] = q]
  BY DEF Tagging!Filtered
<1>3. q \in Tagging!SuggestCall
  BY <1>1 DEF Tagging!SuggestCall, Tagging!Lists
<1>4. /\ q.at = (IF call[c].list = "user" THEN "read" ELSE "suggest")
      /\ q.list = "global" /\ q.user = call[c].user
      /\ q.tags = call[c].tags \ value /\ q.barred = call[c].barred
  BY <1>1 DEF Tagging!SuggestCall
<1> HIDE DEF q
<1>5. call'[c] = q /\ \A d \in Calls \ {c} : call'[d] = call[d]
  BY <1>2, TagsGoesOn
<1>6. call' \in [Calls -> TagsCallSet]
  BY <1>2, <1>3 DEF Tagging!TypeOK, TagsCallSet
<1>7. call[c].list \in Tagging!Lists /\ call[c].value \subseteq Tags
  BY <1>1 DEF Tagging!SuggestCall
<1> QED
  BY <1>4, <1>5, <1>6, <1>7

\* It has dropped what the list bars, if it has gone by a value that holds it.
LEMMA TagsFilteredInv ==
    ASSUME TagsIInv, NEW c \in Calls, call[c].at \in {"read", "fill"}, NEW value,
           call' = Tagging!Filtered(c, value), call[c].barred[call[c].list] \subseteq value,
           UNCHANGED <<Tagging!tables, restricted, drift>>
    PROVE  /\ TagsRolesKept' /\ TagsTagInv' /\ TagsListsAreDropped'
           /\ \A d \in Calls : call'[d].at \in TagsSuggesting =>
                  call[d].at \in TagsSuggesting /\ call'[d].barred = call[d].barred
           /\ \A d \in Calls : call'[d].at = "fill" => call[d].at = "fill" /\ call'[d] = call[d] /\ d # c
           /\ \A l : TagsEditing(l)' <=> TagsEditing(l)
<1>1. Tagging!TypeOK
  BY DEF TagsIInv
<1>2. /\ \A d \in Calls \ {c} : call'[d] = call[d]
      /\ call'[c].at = (IF call[c].list = "user" THEN "read" ELSE "suggest")
      /\ call'[c].list = "global"
      /\ call'[c].user = call[c].user
      /\ call'[c].tags = call[c].tags \ value
      /\ call'[c].barred = call[c].barred
      /\ call[c].list \in Tagging!Lists
  BY <1>1, TagsFilteredCall
<1>3. call'[c].at \in {"read", "suggest"}
  BY <1>2
<1>4. TagsRolesKept'
  BY <1>2, <1>3 DEF TagsIInv, TagsRolesKept, TagsSuggesting, Tagging!tables
<1>5. TagsTagInv'
  BY <1>1, <1>4, TagsTagsStay DEF TagsIInv, TagsTagInv, Tagging!tables
<1>6. TagsListsAreDropped'
  <2>1. CASE call[c].list = "user"
    <3>1. call'[c].tags \cap call'[c].barred["user"] = {} /\ call'[c].at = "read"
      BY <2>1, <1>2
    <3> QED
      BY <3>1, <1>2 DEF TagsIInv, TagsListsAreDropped, Tagging!At
  <2>2. CASE call[c].list # "user"
    <3>1. call[c].list = "global" /\ call'[c].at = "suggest"
      BY <2>2, <1>2 DEF Tagging!Lists
    <3>2. call[c].tags \cap call[c].barred["user"] = {}
      BY <2>2 DEF TagsIInv, TagsListsAreDropped
    <3>3. \A l \in Tagging!Lists : call'[c].tags \cap call'[c].barred[l] = {}
      BY <3>1, <3>2, <1>2 DEF Tagging!Lists
    <3> QED
      BY <3>1, <3>3, <1>2 DEF TagsIInv, TagsListsAreDropped, Tagging!At
  <2> QED
    BY <2>1, <2>2
<1>7. /\ \A d \in Calls : call'[d].at \in TagsSuggesting =>
             call[d].at \in TagsSuggesting /\ call'[d].barred = call[d].barred
      /\ \A d \in Calls : call'[d].at = "fill" => call[d].at = "fill" /\ call'[d] = call[d] /\ d # c
  BY <1>2, <1>3 DEF TagsSuggesting, Tagging!At
<1>8. \A l : TagsEditing(l)' <=> TagsEditing(l)
  BY <1>2, <1>3 DEF TagsEditing, Tagging!At
<1> QED
  BY <1>4, <1>5, <1>6, <1>7, <1>8

\* Values on their way to the cache are as right as they were.
LEMMA TagsFillsStay ==
    ASSUME TagsCacheIsRight, restricted' = restricted,
           \A d \in Calls : call'[d].at = "fill" => call[d].at = "fill" /\ call'[d] = call[d],
           \A l : TagsEditing(l)' <=> TagsEditing(l)
    PROVE  \A d \in Calls : Tagging!At(d, "fill")' /\ ~call'[d].late =>
               call'[d].value = restricted'[call'[d].list] \/ TagsEditing(call[d].list)'
<1> SUFFICES ASSUME NEW d \in Calls, call'[d].at = "fill", ~call'[d].late
             PROVE  call'[d].value = restricted'[call'[d].list] \/ TagsEditing(call[d].list)'
  BY DEF Tagging!At
<1>1. call[d].at = "fill" /\ call'[d] = call[d]
  OBVIOUS
<1>2. PICK l : l = call[d].list
  OBVIOUS
<1>3. call[d].value = restricted[l] \/ TagsEditing(l)
  BY <1>1, <1>2 DEF TagsCacheIsRight, Tagging!At
<1>4. call'[d].list = l
  BY <1>1, <1>2
<1> QED
  BY <1>1, <1>3, <1>4

\* What suggestions have to respect is in them.
LEMMA TagsBarsInFills ==
    ASSUME TagsBarsAreKnown,
           \A d \in Calls : call'[d].at \in TagsSuggesting =>
               call[d].at \in TagsSuggesting /\ call'[d].barred = call[d].barred,
           \A d \in Calls : call'[d].at = "fill" => call[d].at = "fill" /\ call'[d] = call[d]
    PROVE  \A c, d \in Calls, l \in Tagging!Lists : call'[c].at \in TagsSuggesting /\ call'[d].at = "fill" /\ call'[d].list = l
               => call'[c].barred[l] \subseteq call'[d].value
<1> SUFFICES ASSUME NEW c \in Calls, NEW d \in Calls, NEW l \in Tagging!Lists,
                    call'[c].at \in TagsSuggesting, call'[d].at = "fill", call'[d].list = l
             PROVE  call'[c].barred[l] \subseteq call'[d].value
  OBVIOUS
<1>1. call[c].at \in TagsSuggesting /\ call'[c].barred = call[c].barred
  OBVIOUS
<1>2. call[d].at = "fill" /\ call'[d] = call[d]
  OBVIOUS
<1>3. call[c].barred[l] \subseteq call[d].value
  BY <1>1, <1>2 DEF TagsBarsAreKnown, Tagging!At
<1> QED
  BY <1>1, <1>2, <1>3

LEMMA TagsReadCachedInv ==
    ASSUME TagsIInv, NEW c \in Calls, Tagging!ReadCached(c)
    PROVE  TagsIInv'
<1> DEFINE value == cached_tags[call[c].list]
<1>1. Tagging!TypeOK
  BY DEF TagsIInv
<1>2. call[c].at = "read" /\ value # Tagging!Missing /\ call' = Tagging!Filtered(c, value)
      /\ UNCHANGED <<Tagging!tables, restricted, cached_tags, drift, overtaken_tags>>
  BY DEF Tagging!ReadCached, Tagging!At
<1>3. /\ call' \in [Calls -> TagsCallSet] /\ call[c].list \in Tagging!Lists
  BY <1>1, <1>2, TagsFilteredCall
<1>4. call[c].barred[call[c].list] \subseteq value
  BY <1>2, <1>3 DEF TagsIInv, TagsBarsAreKnown, TagsSuggesting
<1>5. /\ TagsRolesKept' /\ TagsTagInv' /\ TagsListsAreDropped'
      /\ \A d \in Calls : call'[d].at \in TagsSuggesting =>
             call[d].at \in TagsSuggesting /\ call'[d].barred = call[d].barred
      /\ \A d \in Calls : call'[d].at = "fill" => call[d].at = "fill" /\ call'[d] = call[d] /\ d # c
      /\ \A l : TagsEditing(l)' <=> TagsEditing(l)
  BY <1>2, <1>4, TagsFilteredInv
<1>6. Tagging!TypeOK'
  BY <1>1, <1>2, <1>3 DEF Tagging!TypeOK, TagsCallSet, Tagging!tables
<1>7. TagsBarsAreKnown'
  <2>1. \A d \in Calls : call'[d].at \in TagsSuggesting => \A l \in Tagging!Lists :
           /\ call'[d].barred[l] \subseteq restricted[l]
           /\ cached_tags[l] # Tagging!Missing => call'[d].barred[l] \subseteq cached_tags[l]
    BY <1>5 DEF TagsIInv, TagsBarsAreKnown
  <2> QED
    BY <2>1, <1>2, <1>5, TagsBarsInFills DEF TagsIInv, TagsBarsAreKnown, Tagging!At
<1>8. TagsCacheIsRight'
  <2>1. \A l \in Tagging!Lists : cached_tags'[l] \in {Tagging!Missing, restricted'[l]} \/ l \in overtaken_tags' \/ TagsEditing(l)'
    BY <1>2, <1>5 DEF TagsIInv, TagsCacheIsRight
  <2> QED
    BY <2>1, <1>2, <1>5, TagsFillsStay DEF TagsIInv, TagsCacheIsRight
<1> QED
  BY <1>5, <1>6, <1>7, <1>8 DEF TagsIInv, TagsTagInv

LEMMA TagsFillCacheInv ==
    ASSUME TagsIInv, NEW c \in Calls, Tagging!FillCache(c)
    PROVE  TagsIInv'
<1>1. Tagging!TypeOK
  BY DEF TagsIInv
<1>2. PICK l, value : l = call[c].list /\ value = call[c].value
  OBVIOUS
<1>3. /\ call[c].at = "fill" /\ call' = Tagging!Filtered(c, value)
      /\ cached_tags' = [cached_tags EXCEPT ![l] = value]
      /\ call[c].late => overtaken_tags' = overtaken_tags \cup {l}
      /\ ~call[c].late => overtaken_tags' = overtaken_tags
      /\ UNCHANGED <<Tagging!tables, restricted, drift>>
  BY <1>2 DEF Tagging!FillCache, Tagging!At
<1>4. call' \in [Calls -> TagsCallSet] /\ l \in Tagging!Lists /\ value \subseteq Tags
  BY <1>1, <1>2, <1>3, TagsFilteredCall
<1>5. \A d \in Calls : call[d].at \in TagsSuggesting => call[d].barred[l] \subseteq value
  BY <1>2, <1>3, <1>4 DEF TagsIInv, TagsBarsAreKnown, Tagging!At
<1>6. /\ TagsRolesKept' /\ TagsTagInv' /\ TagsListsAreDropped'
      /\ \A d \in Calls : call'[d].at \in TagsSuggesting =>
             call[d].at \in TagsSuggesting /\ call'[d].barred = call[d].barred
      /\ \A d \in Calls : call'[d].at = "fill" => call[d].at = "fill" /\ call'[d] = call[d] /\ d # c
      /\ \A k : TagsEditing(k)' <=> TagsEditing(k)
  BY <1>2, <1>3, <1>5, TagsFilteredInv DEF TagsSuggesting
<1>7. Tagging!TypeOK'
  BY <1>1, <1>3, <1>4 DEF Tagging!TypeOK, TagsCallSet, Tagging!tables
<1>8. cached_tags'[l] = value /\ \A k \in Tagging!Lists \ {l} : cached_tags'[k] = cached_tags[k]
  BY <1>1, <1>3, <1>4 DEF Tagging!TypeOK
<1>9. TagsBarsAreKnown'
  <2>1. \A d \in Calls : call'[d].at \in TagsSuggesting => \A k \in Tagging!Lists :
           /\ call'[d].barred[k] \subseteq restricted[k]
           /\ cached_tags'[k] # Tagging!Missing => call'[d].barred[k] \subseteq cached_tags'[k]
    BY <1>5, <1>6, <1>8 DEF TagsIInv, TagsBarsAreKnown
  <2> QED
    BY <2>1, <1>3, <1>6, TagsBarsInFills DEF TagsIInv, TagsBarsAreKnown, Tagging!At
<1>10. TagsCacheIsRight'
  <2>1. value = restricted[l] \/ call[c].late \/ TagsEditing(l)
    BY <1>2, <1>3 DEF TagsIInv, TagsCacheIsRight, Tagging!At
  <2>2. \A k \in Tagging!Lists : cached_tags'[k] \in {Tagging!Missing, restricted'[k]} \/ k \in overtaken_tags' \/ TagsEditing(k)'
    BY <2>1, <1>3, <1>6, <1>8 DEF TagsIInv, TagsCacheIsRight
  <2> QED
    BY <2>2, <1>3, <1>6, TagsFillsStay DEF TagsIInv, TagsCacheIsRight
<1> QED
  BY <1>6, <1>7, <1>9, <1>10 DEF TagsIInv, TagsTagInv

LEMMA TagsSuggestBeginInv ==
    ASSUME TagsIInv, NEW c \in Calls, NEW u \in Taggers, NEW tags \in SUBSET Tags, Tagging!SuggestBegin(c, u,
           tags)
    PROVE  TagsIInv'
<1> DEFINE barred == [l \in Tagging!Lists |-> IF Tagging!Settled(l) THEN restricted[l] ELSE {}]
           q == [at |-> "read", user |-> u, tags |-> tags, list |-> "user", value |-> {}, late |-> FALSE,
                 barred |-> barred]
<1>1. Tagging!TypeOK
  BY DEF TagsIInv
<1>2. /\ call[c] = Tagging!Idle /\ u \notin Tagging!Deciders /\ call' = [call EXCEPT ![c] = q]
      /\ UNCHANGED <<searchmap, submission_tags, feedback, tokens, restricted, cached_tags, drift, overtaken_tags>>
  BY DEF Tagging!SuggestBegin, Tagging!tables
<1>3. barred \in [Tagging!Lists -> SUBSET Tags]
  BY <1>1 DEF Tagging!TypeOK
<1>4. \A l \in Tagging!Lists : barred[l] \subseteq restricted[l] /\ (~Tagging!Settled(l) => barred[l] = {})
  OBVIOUS
<1> HIDE DEF barred
<1>5. q \in Tagging!SuggestCall /\ q.at = "read" /\ q.user = u /\ q.list = "user" /\ q.barred = barred
  BY <1>3 DEF Tagging!SuggestCall, Tagging!Lists
<1> HIDE DEF q
<1>6. call'[c] = q /\ call[c].at = "idle" /\ \A d \in Calls \ {c} : call'[d] = call[d]
  <2>1. call[c].at = "idle"
    BY <1>2 DEF Tagging!Idle
  <2> QED
    BY <2>1, <1>1, <1>2, TagsGoesOn
<1>7. Tagging!TypeOK'
  BY <1>1, <1>2, <1>5 DEF Tagging!TypeOK
<1>8. TagsRolesKept'
  BY <1>2, <1>5, <1>6 DEF TagsIInv, TagsRolesKept, TagsSuggesting
<1>9. TagsTagInv'
  BY <1>1, <1>2, <1>8, TagsTagsStay DEF TagsIInv, TagsTagInv
<1>10. \A l : TagsEditing(l)' <=> TagsEditing(l)
  BY <1>5, <1>6 DEF TagsEditing, Tagging!At
<1>11. \A d \in Calls : call'[d].at = "fill" => call[d].at = "fill" /\ call'[d] = call[d]
  BY <1>5, <1>6
<1>12. \A l \in Tagging!Lists : /\ cached_tags[l] # Tagging!Missing => barred[l] \subseteq cached_tags[l]
                                /\ \A d \in Calls : call[d].at = "fill" /\ call[d].list = l => barred[l] \subseteq call[d].value
  BY <1>4 DEF TagsIInv, TagsCacheIsRight, Tagging!Settled, TagsEditing, Tagging!At
<1>13. TagsBarsAreKnown'
  <2> SUFFICES ASSUME NEW d \in Calls, call'[d].at \in TagsSuggesting, NEW l \in Tagging!Lists
               PROVE  /\ call'[d].barred[l] \subseteq restricted[l]
                      /\ cached_tags[l] # Tagging!Missing => call'[d].barred[l] \subseteq cached_tags[l]
                      /\ \A e \in Calls : call'[e].at = "fill" /\ call'[e].list = l =>
                             call'[d].barred[l] \subseteq call'[e].value
    BY <1>2 DEF TagsBarsAreKnown, Tagging!At
  <2>1. CASE d = c
    BY <2>1, <1>4, <1>5, <1>6, <1>11, <1>12
  <2>2. CASE d # c
    BY <2>2, <1>6, <1>11 DEF TagsIInv, TagsBarsAreKnown, Tagging!At
  <2> QED
    BY <2>1, <2>2
<1>14. TagsListsAreDropped'
  BY <1>5, <1>6 DEF TagsIInv, TagsListsAreDropped, Tagging!At
<1>15. TagsCacheIsRight'
  <2>1. \A l \in Tagging!Lists : cached_tags'[l] \in {Tagging!Missing, restricted'[l]} \/ l \in overtaken_tags' \/ TagsEditing(l)'
    BY <1>2, <1>10 DEF TagsIInv, TagsCacheIsRight
  <2> QED
    BY <2>1, <1>2, <1>10, <1>11, TagsFillsStay DEF TagsIInv, TagsCacheIsRight
<1> QED
  BY <1>7, <1>8, <1>9, <1>13, <1>14, <1>15 DEF TagsIInv, TagsTagInv

LEMMA TagsReadListInv ==
    ASSUME TagsIInv, NEW c \in Calls, Tagging!ReadList(c)
    PROVE  TagsIInv'
<1>1. Tagging!TypeOK
  BY DEF TagsIInv
<1>2. PICK l, value : l = call[c].list /\ value = restricted[call[c].list]
  OBVIOUS
<1> DEFINE q == [call[c] EXCEPT !.at = "fill", !.value = value]
<1>3. /\ call[c].at = "read" /\ cached_tags[l] = Tagging!Missing /\ call' = [call EXCEPT ![c] = q]
      /\ UNCHANGED <<searchmap, submission_tags, feedback, tokens, restricted, cached_tags, drift, overtaken_tags>>
  BY <1>2 DEF Tagging!ReadList, Tagging!At, Tagging!tables
<1>4. call[c] \in Tagging!SuggestCall /\ l \in Tagging!Lists
  BY <1>1, <1>2, <1>3, TagsKinds DEF TagsSuggesting, Tagging!SuggestCall
<1>5. value \subseteq Tags
  BY <1>1, <1>2, <1>4 DEF Tagging!TypeOK
<1>6. /\ q \in Tagging!SuggestCall /\ q.at = "fill" /\ q.user = call[c].user /\ q.list = l
      /\ q.tags = call[c].tags /\ q.barred = call[c].barred /\ q.value = value
  BY <1>2, <1>4, <1>5 DEF Tagging!SuggestCall
<1> HIDE DEF q
<1>7. call'[c] = q /\ \A d \in Calls \ {c} : call'[d] = call[d]
  BY <1>1, <1>3, TagsGoesOn
<1>8. Tagging!TypeOK'
  BY <1>1, <1>3, <1>6 DEF Tagging!TypeOK
<1>9. TagsRolesKept'
  BY <1>3, <1>6, <1>7 DEF TagsIInv, TagsRolesKept, TagsSuggesting
<1>10. TagsTagInv'
  BY <1>1, <1>3, <1>9, TagsTagsStay DEF TagsIInv, TagsTagInv
<1>11. \A k : TagsEditing(k)' <=> TagsEditing(k)
  BY <1>3, <1>6, <1>7 DEF TagsEditing, Tagging!At
<1>12. TagsBarsAreKnown'
  <2> SUFFICES ASSUME NEW d \in Calls, call'[d].at \in TagsSuggesting, NEW k \in Tagging!Lists
               PROVE  /\ call'[d].barred[k] \subseteq restricted[k]
                      /\ cached_tags[k] # Tagging!Missing => call'[d].barred[k] \subseteq cached_tags[k]
                      /\ \A e \in Calls : call'[e].at = "fill" /\ call'[e].list = k =>
                             call'[d].barred[k] \subseteq call'[e].value
    BY <1>3 DEF TagsBarsAreKnown, Tagging!At
  <2>1. call[d].at \in TagsSuggesting /\ call'[d].barred = call[d].barred
    BY <1>3, <1>6, <1>7 DEF TagsSuggesting
  <2>2. /\ call[d].barred[k] \subseteq restricted[k]
        /\ cached_tags[k] # Tagging!Missing => call[d].barred[k] \subseteq cached_tags[k]
        /\ \A e \in Calls : call[e].at = "fill" /\ call[e].list = k => call[d].barred[k] \subseteq call[e].value
    BY <2>1 DEF TagsIInv, TagsBarsAreKnown, Tagging!At
  <2> QED
    BY <2>1, <2>2, <1>2, <1>6, <1>7
<1>13. TagsListsAreDropped'
  BY <1>2, <1>3, <1>6, <1>7 DEF TagsIInv, TagsListsAreDropped, Tagging!At
<1>14. TagsCacheIsRight'
  <2>1. \A k \in Tagging!Lists : cached_tags'[k] \in {Tagging!Missing, restricted'[k]} \/ k \in overtaken_tags' \/ TagsEditing(k)'
    BY <1>3, <1>11 DEF TagsIInv, TagsCacheIsRight
  <2>2. ASSUME NEW d \in Calls, call'[d].at = "fill", ~call'[d].late
        PROVE  call'[d].value = restricted'[call'[d].list] \/ TagsEditing(call[d].list)'
    <3>1. CASE d = c
      BY <3>1, <1>2, <1>3, <1>6, <1>7
    <3>2. CASE d # c
      <4>1. call'[d] = call[d]
        BY <3>2, <1>7
      <4>2. PICK k : k = call[d].list
        OBVIOUS
      <4>3. call[d].value = restricted[k] \/ TagsEditing(k)
        BY <2>2, <4>1, <4>2 DEF TagsIInv, TagsCacheIsRight, Tagging!At
      <4>4. call'[d].list = k
        BY <4>1, <4>2
      <4> QED
        BY <4>1, <4>3, <4>4, <1>3, <1>11
    <3> QED
      BY <3>1, <3>2
  <2> QED
    BY <2>1, <2>2 DEF TagsCacheIsRight, Tagging!At
<1> QED
  BY <1>8, <1>9, <1>10, <1>12, <1>13, <1>14 DEF TagsIInv, TagsTagInv

LEMMA TagsEditRestrictionsInv ==
    ASSUME TagsIInv, NEW c \in Calls, NEW l \in Tagging!Lists, NEW tags \in SUBSET Tags,
           Tagging!EditRestrictions(c, l, tags)
    PROVE  TagsIInv'
<1> DEFINE edit == [at |-> "invalidate", list |-> l]
           kept(q) == [q EXCEPT !.barred[l] = @ \cap tags]
<1>1. Tagging!TypeOK
  BY DEF TagsIInv
<1>2. /\ call[c] = Tagging!Idle /\ restricted' = [restricted EXCEPT ![l] = tags]
      /\ call' = [d \in Calls |-> IF d = c THEN edit
                                 ELSE IF call[d].at \in {"read", "fill", "suggest"} THEN kept(call[d])
                                 ELSE call[d]]
      /\ UNCHANGED <<searchmap, submission_tags, feedback, tokens, cached_tags, drift, overtaken_tags>>
  BY DEF Tagging!EditRestrictions, Tagging!tables
<1>3. edit \in TagsCallSet /\ edit.at = "invalidate" /\ edit.list = l
  BY DEF TagsCallSet, Tagging!EditCall
<1>4. \A q \in Tagging!SuggestCall :
         /\ kept(q) \in Tagging!SuggestCall
         /\ kept(q).at = q.at /\ kept(q).user = q.user /\ kept(q).tags = q.tags /\ kept(q).list = q.list
         /\ kept(q).value = q.value /\ kept(q).late = q.late
         /\ kept(q).barred[l] = q.barred[l] \cap tags
         /\ \A k \in Tagging!Lists \ {l} : kept(q).barred[k] = q.barred[k]
  BY DEF Tagging!SuggestCall
<1> HIDE DEF edit, kept
<1>5. call'[c] = edit /\ call[c].at = "idle"
  BY <1>2 DEF Tagging!Idle
<1>6. \A d \in Calls \ {c} : call[d].at \notin TagsSuggesting => call'[d] = call[d]
  BY <1>2 DEF TagsSuggesting
<1>7. \A d \in Calls \ {c} : call[d].at \in TagsSuggesting =>
         /\ call'[d] \in Tagging!SuggestCall
         /\ call'[d].at = call[d].at /\ call'[d].user = call[d].user /\ call'[d].tags = call[d].tags
         /\ call'[d].list = call[d].list /\ call'[d].value = call[d].value /\ call'[d].late = call[d].late
         /\ call'[d].barred[l] = call[d].barred[l] \cap tags
         /\ \A k \in Tagging!Lists \ {l} : call'[d].barred[k] = call[d].barred[k]
  <2> SUFFICES ASSUME NEW d \in Calls \ {c}, call[d].at \in TagsSuggesting
               PROVE  call[d] \in Tagging!SuggestCall /\ call'[d] = kept(call[d])
    BY <1>4
  <2> QED
    BY <1>1, <1>2, TagsKinds DEF TagsSuggesting
<1>8. \A d \in Calls : call'[d].at \in TagsSuggesting => d # c /\ call[d].at \in TagsSuggesting
  BY <1>3, <1>5, <1>6 DEF TagsSuggesting
<1>9. Tagging!TypeOK'
  <2>1. \A d \in Calls : call'[d] \in TagsCallSet
    BY <1>1, <1>3, <1>5, <1>6, <1>7, TagsKinds DEF TagsCallSet
  <2>2. call' \in [Calls -> TagsCallSet]
    BY <2>1, <1>2
  <2> QED
    BY <2>2, <1>1, <1>2 DEF Tagging!TypeOK, TagsCallSet
<1>10. TagsRolesKept'
  <2>1. \A d \in Calls : call'[d].at \in {"approve", "reject"} => call'[d] = call[d]
    BY <1>3, <1>5, <1>6, <1>7 DEF TagsSuggesting
  <2> QED
    BY <2>1, <1>2, <1>7, <1>8 DEF TagsIInv, TagsRolesKept
<1>11. TagsTagInv'
  BY <1>1, <1>2, <1>10, TagsTagsStay DEF TagsIInv, TagsTagInv
<1>12. restricted'[l] = tags /\ \A k \in Tagging!Lists \ {l} : restricted'[k] = restricted[k]
  BY <1>1, <1>2 DEF Tagging!TypeOK
<1>13. TagsEditing(l)' /\ \A k : TagsEditing(k) => TagsEditing(k)'
  <2>1. TagsEditing(l)'
    BY <1>3, <1>5 DEF TagsEditing, Tagging!At
  <2>2. ASSUME NEW k, TagsEditing(k) PROVE TagsEditing(k)'
    <3>1. PICK d \in Calls : call[d].at = "invalidate" /\ call[d].list = k
      BY <2>2 DEF TagsEditing, Tagging!At
    <3>2. call'[d] = call[d]
      BY <3>1, <1>5, <1>6 DEF TagsSuggesting
    <3> QED
      BY <3>1, <3>2 DEF TagsEditing, Tagging!At
  <2> QED
    BY <2>1, <2>2
<1>14. TagsBarsAreKnown'
  <2> SUFFICES ASSUME NEW d \in Calls, call'[d].at \in TagsSuggesting, NEW k \in Tagging!Lists
               PROVE  /\ call'[d].barred[k] \subseteq restricted'[k]
                      /\ cached_tags[k] # Tagging!Missing => call'[d].barred[k] \subseteq cached_tags[k]
                      /\ \A e \in Calls : call'[e].at = "fill" /\ call'[e].list = k =>
                             call'[d].barred[k] \subseteq call'[e].value
    BY <1>2 DEF TagsBarsAreKnown, Tagging!At
  <2>1. d # c /\ call[d].at \in TagsSuggesting
    BY <1>8
  <2>2. /\ call[d].barred[k] \subseteq restricted[k]
        /\ cached_tags[k] # Tagging!Missing => call[d].barred[k] \subseteq cached_tags[k]
        /\ \A e \in Calls : call[e].at = "fill" /\ call[e].list = k => call[d].barred[k] \subseteq call[e].value
    BY <2>1 DEF TagsIInv, TagsBarsAreKnown, Tagging!At
  <2>3. call'[d].barred[k] \subseteq call[d].barred[k] /\ (k = l => call'[d].barred[k] \subseteq tags)
    BY <2>1, <1>7
  <2>4. ASSUME NEW e \in Calls, call'[e].at = "fill", call'[e].list = k
        PROVE  call'[d].barred[k] \subseteq call'[e].value
    <3>1. e # c /\ call[e].at \in TagsSuggesting
      BY <2>4, <1>8 DEF TagsSuggesting
    <3>2. call[e].at = "fill" /\ call[e].list = k /\ call'[e].value = call[e].value
      BY <2>4, <3>1, <1>7
    <3> QED
      BY <3>2, <2>2, <2>3
  <2> QED
    BY <2>2, <2>3, <2>4, <1>12
<1>15. TagsListsAreDropped'
  <2> SUFFICES ASSUME NEW d \in Calls, call'[d].at \in TagsSuggesting
               PROVE  /\ call'[d].at \in {"read", "fill"} /\ call'[d].list # "user" =>
                             call'[d].tags \cap call'[d].barred["user"] = {}
                      /\ call'[d].at = "suggest" => \A k \in Tagging!Lists : call'[d].tags \cap call'[d].barred[k] = {}
    BY DEF TagsListsAreDropped, Tagging!At, TagsSuggesting
  <2>1. d # c /\ call[d].at \in TagsSuggesting
    BY <1>8
  <2>2. /\ call'[d].at = call[d].at /\ call'[d].list = call[d].list /\ call'[d].tags = call[d].tags
        /\ \A k \in Tagging!Lists : call'[d].barred[k] \subseteq call[d].barred[k]
    BY <2>1, <1>7
  <2>3. "user" \in Tagging!Lists
    BY DEF Tagging!Lists
  <2> QED
    BY <2>2, <2>3 DEF TagsIInv, TagsListsAreDropped, Tagging!At
<1>16. TagsCacheIsRight'
  <2>1. \A k \in Tagging!Lists : cached_tags'[k] \in {Tagging!Missing, restricted'[k]} \/ k \in overtaken_tags' \/ TagsEditing(k)'
    BY <1>2, <1>12, <1>13 DEF TagsIInv, TagsCacheIsRight
  <2>2. ASSUME NEW d \in Calls, call'[d].at = "fill", ~call'[d].late
        PROVE  call'[d].value = restricted'[call'[d].list] \/ TagsEditing(call[d].list)'
    <3>1. d # c /\ call[d].at \in TagsSuggesting
      BY <2>2, <1>8 DEF TagsSuggesting
    <3>2. PICK k \in Tagging!Lists : k = call[d].list
      BY <3>1, <1>1, TagsKinds DEF Tagging!SuggestCall
    <3>3. /\ call[d].at = "fill" /\ ~call[d].late /\ call'[d].list = k /\ call'[d].value = call[d].value
      BY <2>2, <3>1, <3>2, <1>7
    <3>4. call[d].value = restricted[k] \/ TagsEditing(k)
      BY <3>2, <3>3 DEF TagsIInv, TagsCacheIsRight, Tagging!At
    <3> QED
      BY <3>3, <3>4, <1>12, <1>13
  <2> QED
    BY <2>1, <2>2 DEF TagsCacheIsRight, Tagging!At
<1> QED
  BY <1>9, <1>10, <1>11, <1>14, <1>15, <1>16 DEF TagsIInv, TagsTagInv

LEMMA TagsInvalidateInv ==
    ASSUME TagsIInv, NEW c \in Calls, Tagging!Invalidate(c)
    PROVE  TagsIInv'
<1> DEFINE marked(q) == [q EXCEPT !.late = TRUE]
<1>1. Tagging!TypeOK
  BY DEF TagsIInv
<1>2. call[c] \in Tagging!EditCall /\ call[c].at = "invalidate"
  BY <1>1, TagsKinds DEF Tagging!Invalidate, Tagging!At
<1>3. PICK l \in Tagging!Lists : l = call[c].list
  BY <1>2 DEF Tagging!EditCall
<1>4. /\ cached_tags' = [cached_tags EXCEPT ![l] = Tagging!Missing] /\ overtaken_tags' = overtaken_tags \ {l}
      /\ call' = [d \in Calls |-> IF d = c THEN Tagging!Idle
                                 ELSE IF call[d].at = "fill" /\ call[d].list = l THEN marked(call[d])
                                 ELSE call[d]]
      /\ UNCHANGED <<searchmap, submission_tags, feedback, tokens, restricted, drift>>
  BY <1>3 DEF Tagging!Invalidate, Tagging!At, Tagging!tables
<1>5. \A q \in Tagging!SuggestCall :
         /\ marked(q) \in Tagging!SuggestCall
         /\ marked(q).at = q.at /\ marked(q).user = q.user /\ marked(q).tags = q.tags /\ marked(q).list = q.list
         /\ marked(q).value = q.value /\ marked(q).barred = q.barred /\ marked(q).late = TRUE
  BY DEF Tagging!SuggestCall
<1> HIDE DEF marked
<1>6. call'[c] = Tagging!Idle /\ Tagging!Idle.at = "idle"
  BY <1>4 DEF Tagging!Idle
<1>7. \A d \in Calls \ {c} : ~(call[d].at = "fill" /\ call[d].list = l) => call'[d] = call[d]
  BY <1>4
<1>8. \A d \in Calls \ {c} : call[d].at = "fill" /\ call[d].list = l =>
         /\ call[d] \in Tagging!SuggestCall /\ call'[d] \in Tagging!SuggestCall
         /\ call'[d].at = call[d].at /\ call'[d].user = call[d].user /\ call'[d].tags = call[d].tags
         /\ call'[d].list = call[d].list /\ call'[d].value = call[d].value /\ call'[d].barred = call[d].barred
         /\ call'[d].late = TRUE
  <2> SUFFICES ASSUME NEW d \in Calls \ {c}, call[d].at = "fill", call[d].list = l
               PROVE  call[d] \in Tagging!SuggestCall /\ call'[d] = marked(call[d])
    BY <1>5
  <2> QED
    BY <1>1, <1>4, TagsKinds DEF TagsSuggesting
<1>9. \A d \in Calls : call'[d].at \in TagsSuggesting \cup {"approve", "reject", "invalidate"} =>
         /\ d # c /\ call'[d].at = call[d].at /\ call'[d].user = call[d].user /\ call'[d].tags = call[d].tags
         /\ call'[d].list = call[d].list /\ call'[d].value = call[d].value /\ call'[d].barred = call[d].barred
  BY <1>6, <1>7, <1>8 DEF TagsSuggesting
<1>10. Tagging!TypeOK'
  <2>1. \A d \in Calls : call'[d] \in TagsCallSet
    BY <1>1, <1>6, <1>7, <1>8, TagsKinds DEF TagsCallSet
  <2>2. call' \in [Calls -> TagsCallSet]
    BY <2>1, <1>4
  <2>3. cached_tags' \in [Tagging!Lists -> (SUBSET Tags) \cup {Tagging!Missing}]
    BY <1>1, <1>4 DEF Tagging!TypeOK
  <2>4. overtaken_tags' \subseteq Tagging!Lists
    BY <1>1, <1>4 DEF Tagging!TypeOK
  <2> QED
    BY <2>2, <2>3, <2>4, <1>1, <1>4 DEF Tagging!TypeOK, TagsCallSet
<1>11. TagsRolesKept'
  <2>1. \A d \in Calls : call'[d].at \in {"approve", "reject"} => call'[d] = call[d]
    BY <1>6, <1>7, <1>8
  <2> QED
    BY <2>1, <1>4, <1>9 DEF TagsIInv, TagsRolesKept, TagsSuggesting
<1>12. TagsTagInv'
  BY <1>1, <1>4, <1>11, TagsTagsStay DEF TagsIInv, TagsTagInv
<1>13. cached_tags'[l] = Tagging!Missing /\ \A k \in Tagging!Lists \ {l} : cached_tags'[k] = cached_tags[k]
  BY <1>1, <1>4 DEF Tagging!TypeOK
<1>14. \A k : k # l /\ TagsEditing(k) => TagsEditing(k)'
  <2> SUFFICES ASSUME NEW k, k # l, TagsEditing(k) PROVE TagsEditing(k)'
    OBVIOUS
  <2>1. PICK d \in Calls : call[d].at = "invalidate" /\ call[d].list = k
    BY DEF TagsEditing, Tagging!At
  <2>2. call'[d] = call[d]
    BY <2>1, <1>3, <1>7
  <2> QED
    BY <2>1, <2>2 DEF TagsEditing, Tagging!At
<1>15. TagsBarsAreKnown'
  <2> SUFFICES ASSUME NEW d \in Calls, call'[d].at \in TagsSuggesting, NEW k \in Tagging!Lists
               PROVE  /\ call'[d].barred[k] \subseteq restricted[k]
                      /\ cached_tags'[k] # Tagging!Missing => call'[d].barred[k] \subseteq cached_tags'[k]
                      /\ \A e \in Calls : call'[e].at = "fill" /\ call'[e].list = k =>
                             call'[d].barred[k] \subseteq call'[e].value
    BY <1>4 DEF TagsBarsAreKnown, Tagging!At
  <2>1. call[d].at \in TagsSuggesting /\ call'[d].barred = call[d].barred
    BY <1>9
  <2>2. /\ call[d].barred[k] \subseteq restricted[k]
        /\ cached_tags[k] # Tagging!Missing => call[d].barred[k] \subseteq cached_tags[k]
        /\ \A e \in Calls : call[e].at = "fill" /\ call[e].list = k => call[d].barred[k] \subseteq call[e].value
    BY <2>1 DEF TagsIInv, TagsBarsAreKnown, Tagging!At
  <2>3. ASSUME NEW e \in Calls, call'[e].at = "fill", call'[e].list = k
        PROVE  call'[d].barred[k] \subseteq call'[e].value
    <3>1. call[e].at = "fill" /\ call[e].list = k /\ call'[e].value = call[e].value
      BY <2>3, <1>9 DEF TagsSuggesting
    <3> QED
      BY <3>1, <2>1, <2>2
  <2> QED
    BY <2>1, <2>2, <2>3, <1>13
<1>16. TagsListsAreDropped'
  BY <1>9 DEF TagsIInv, TagsListsAreDropped, Tagging!At, TagsSuggesting
<1>17. TagsCacheIsRight'
  <2>1. \A k \in Tagging!Lists : cached_tags'[k] \in {Tagging!Missing, restricted'[k]} \/ k \in overtaken_tags' \/ TagsEditing(k)'
    BY <1>4, <1>13, <1>14 DEF TagsIInv, TagsCacheIsRight
  <2>2. ASSUME NEW d \in Calls, call'[d].at = "fill", ~call'[d].late
        PROVE  call'[d].value = restricted'[call'[d].list] \/ TagsEditing(call[d].list)'
    <3>1. d # c /\ call[d].at = "fill" /\ call[d].list # l
      BY <2>2, <1>8, <1>9 DEF TagsSuggesting
    <3>2. call'[d] = call[d]
      BY <3>1, <1>7
    <3>3. PICK k : k = call[d].list
      OBVIOUS
    <3>4. call[d].value = restricted[k] \/ TagsEditing(k)
      BY <2>2, <3>1, <3>2, <3>3 DEF TagsIInv, TagsCacheIsRight, Tagging!At
    <3>5. call'[d].list = k /\ call'[d].value = call[d].value /\ k # l
      BY <3>1, <3>2, <3>3
    <3> QED
      BY <3>4, <3>5, <1>4, <1>14
  <2> QED
    BY <2>1, <2>2 DEF TagsCacheIsRight, Tagging!At
<1> QED
  BY <1>10, <1>11, <1>12, <1>15, <1>16, <1>17 DEF TagsIInv, TagsTagInv

LEMMA TagsExpireInv ==
    ASSUME TagsIInv, NEW token \in tokens, Tagging!Expire(token)
    PROVE  TagsIInv'
<1>1. Tagging!TypeOK /\ tokens' \subseteq tokens
      /\ UNCHANGED <<searchmap, submission_tags, feedback, restricted, cached_tags, call, drift, overtaken_tags>>
  BY DEF TagsIInv, Tagging!Expire
<1>2. Tagging!TypeOK'
  BY <1>1 DEF Tagging!TypeOK
<1>3. TagsRolesKept'
  BY <1>1 DEF TagsIInv, TagsRolesKept
<1>4. TagsTagInv' /\ TagsListInv'
  BY <1>1, <1>3, TagsTagsStay, TagsListsSame DEF TagsIInv, TagsTagInv, TagsListInv
<1> QED
  BY <1>2, <1>4 DEF TagsIInv, TagsTagInv, TagsListInv

\* Steps that change nothing but feedback.
LEMMA TagsFeedbackInv ==
    ASSUME TagsIInv, Tagging!TypeOK',
           UNCHANGED <<searchmap, submission_tags, tokens, restricted, cached_tags, call, drift, overtaken_tags>>
    PROVE  TagsIInv'
<1>1. TagsRolesKept'
  BY DEF TagsIInv, TagsRolesKept
<1>2. TagsTagInv' /\ TagsListInv'
  BY <1>1, TagsTagsStay, TagsListsSame DEF TagsIInv, TagsTagInv, TagsListInv
<1> QED
  BY <1>2 DEF TagsIInv, TagsTagInv, TagsListInv
-----------------------------------------------------------------------------
\* Every step keeps the invariant.
LEMMA TagsNextInv == Tagging!ConstantsOK /\ TagsIInv /\ [Tagging!Next]_Tagging!vars => TagsIInv'
<1> SUFFICES ASSUME Tagging!ConstantsOK, TagsIInv, [Tagging!Next]_Tagging!vars PROVE TagsIInv'
  OBVIOUS
<1>1. ASSUME NEW u \in Taggers, NEW t \in Tags, Tagging!SetTagFeedback(u, t) PROVE TagsIInv'
  <2>1. Tagging!TypeOK'
    BY <1>1 DEF Tagging!SetTagFeedback, TagsIInv, Tagging!TypeOK
  <2> QED
    BY <1>1, <2>1, TagsFeedbackInv DEF Tagging!SetTagFeedback
<1>2. CASE UNCHANGED Tagging!vars
  <2>1. Tagging!TypeOK'
    BY <1>2 DEF Tagging!vars, Tagging!tables, TagsIInv, Tagging!TypeOK
  <2> QED
    BY <1>2, <2>1, TagsFeedbackInv DEF Tagging!vars, Tagging!tables
<1>3. ASSUME NEW c \in Calls, NEW u \in Taggers, NEW tags \in SUBSET Tags, Tagging!SuggestBegin(c, u, tags)
      PROVE  TagsIInv'
  BY <1>3, TagsSuggestBeginInv
<1>4. ASSUME NEW c \in Calls,
             Tagging!ReadCached(c) \/ Tagging!ReadList(c) \/ Tagging!FillCache(c) \/ Tagging!SuggestCommit(c)
      PROVE  TagsIInv'
  BY <1>4, TagsReadCachedInv, TagsReadListInv, TagsFillCacheInv, TagsSuggestCommitInv
<1>5. ASSUME NEW c \in Calls, Tagging!Approve(c) \/ Tagging!Reject(c) \/ Tagging!Invalidate(c)
      PROVE  TagsIInv'
  BY <1>5, TagsApproveInv, TagsRejectInv, TagsInvalidateInv
<1>6. ASSUME NEW c \in Calls, NEW u \in Taggers, NEW t \in Tags, NEW action \in {"approve", "reject"},
             Tagging!Arbitrate(c, u, t, action)
      PROVE  TagsIInv'
  BY <1>6, TagsArbitrateInv
<1>7. ASSUME NEW c \in Calls, NEW l \in Tagging!Lists, NEW tags \in SUBSET Tags, Tagging!EditRestrictions(c, l,
             tags)
      PROVE  TagsIInv'
  BY <1>7, TagsEditRestrictionsInv
<1>8. ASSUME NEW u \in Taggers, NEW tags \in SUBSET Tags, Tagging!Associate(u, tags)
      PROVE  TagsIInv'
  BY <1>8, TagsAssociateInv
<1>9. ASSUME NEW token \in tokens, Tagging!Undo(token) \/ Tagging!Expire(token)
      PROVE  TagsIInv'
  BY <1>9, TagsUndoInv, TagsExpireInv
<1> QED
  BY <1>1, <1>2, <1>3, <1>4, <1>5, <1>6, <1>7, <1>8, <1>9 DEF Tagging!Next
-----------------------------------------------------------------------------
\* While the part moves it has its invariant; and so it has in every state.
TagsHold == part = "tags" => TagsIInv

LEMMA TagsAreHeld == ContentSpec => []TagsHold
<1>1. ContentInit => TagsHold
  BY TagsInitInv, ContentAssumption DEF ContentInit, TagsHold
<1>2. TagsHold /\ [ContentNext]_all_content_vars => TagsHold'
  <2> SUFFICES ASSUME TagsHold, [ContentNext]_all_content_vars, part' = "tags" PROVE TagsIInv'
    BY DEF TagsHold
  <2>1. part = "tags" /\ TagsIInv
    BY PartStays DEF TagsHold
  <2>2. Tagging!Next \/ UNCHANGED <<tags_vars, call>>
    BY <2>1 DEF ContentNext, all_content_vars
  <2>3. UNCHANGED <<tags_vars, call>> => UNCHANGED Tagging!vars
    BY DEF tags_vars, Tagging!vars, Tagging!tables
  <2> QED
    BY <2>1, <2>2, <2>3, TagsNextInv, ContentAssumption
<1> QED
  BY <1>1, <1>2, PTL DEF ContentSpec

\* associate, arbitrate and the restriction lists (weasyl/searchtag.py): search finds
\* a submission by its tags, restricted tags are not suggested, and tags stay with
\* those who gave or approved them, whatever calls and edits of the lists meet.
THEOREM TagsKeep == ContentSpec => []TagsAreKept
<1>1. TagsHold => TagsAreKept
  BY DEF TagsHold, TagsIInv, TagsAreKept, TagsListsAreDropped, Tagging!RestrictedStaysOut
<1> QED
  BY <1>1, TagsAreHeld, PTL
-----------------------------------------------------------------------------
LEMMA PricesBelowIsWellFounded == IsWellFoundedOn(PricesBelow, Nat)
  BY NatLessThanWellFounded, Zenon DEF OpToRel, PricesBelow

LEMMA PricesGreatestExists ==
    ASSUME NEW n \in Nat, NEW S \in SUBSET (1 .. n), S # {}
    PROVE  \E i \in S : \A j \in S : j <= i
<1> DEFINE T == {k \in Nat : \E i \in S : k + i = n}
<1>1. \A s \in S : s \in Nat /\ s <= n
  OBVIOUS
<1>2. PICK s \in S : s \in Nat /\ s <= n
  BY <1>1
<1>3. n - s \in T
  BY <1>2
<1>4. PICK x \in T : \A y \in T : <<y, x>> \notin PricesBelow
  BY <1>3, PricesBelowIsWellFounded, WFMin
<1>5. PICK i \in S : x + i = n
  BY <1>4
<1>6. ASSUME NEW j \in S PROVE j <= i
  <2>1. j \in Nat /\ j <= n /\ i \in Nat /\ i <= n /\ x \in Nat
    OBVIOUS
  <2>2. n - j \in T
    BY <2>1
  <2>3. ~(n - j < x)
    BY <1>4, <2>1, <2>2 DEF PricesBelow
  <2> QED
    BY <1>5, <2>1, <2>3
<1> QED
  BY <1>6

\* The next id is a new one.
LEMMA PricesNextIdIsNew ==
    ASSUME MaxId \in Nat, NEW ids \in SUBSET Offering!Numbers
    PROVE  Offering!NextId(ids) \in Nat \ ids
<1>1. CASE ids = {}
  BY <1>1 DEF Offering!NextId
<1>2. CASE ids # {}
  <2> DEFINE top == CHOOSE i \in ids : \A j \in ids : j <= i
  <2>1. \E i \in ids : \A j \in ids : j <= i
    BY <1>2, PricesGreatestExists DEF Offering!Numbers
  <2>2. top \in ids /\ \A j \in ids : j <= top
    BY <2>1
  <2>3. Offering!NextId(ids) = 1 + top
    BY <1>2, Zenon DEF Offering!NextId
  <2> HIDE DEF top
  <2>4. top \in Nat
    BY <2>2 DEF Offering!Numbers
  <2>5. \A j \in ids : j \in Nat /\ j # 1 + top
    BY <2>2, <2>4 DEF Offering!Numbers
  <2> QED
    BY <2>3, <2>4, <2>5
<1> QED
  BY <1>1, <1>2
-----------------------------------------------------------------------------
LEMMA PricesTypeParts ==
    /\ Offering!TypeOK <=> PricesTables /\ call \in [Calls -> PricesRecord]
    /\ Offering!TypeOK' <=> PricesTables' /\ call' \in [Calls -> PricesRecord]
  BY DEF Offering!TypeOK, PricesTables, Offering!CallRecords, PricesRecord, PricesClassCall,
     PricesCheckCall, PricesIdCall, PricesInsertCall, PricesCleanupCall, PricesSelectCall

LEMMA PricesIdleIs == Offering!Idle \in PricesRecord /\ Offering!Idle.at = "idle"
  BY DEF Offering!Idle, PricesRecord

LEMMA PricesKinds ==
    ASSUME NEW q \in PricesRecord
    PROVE  /\ q.at = "class insert" => q \in PricesClassCall /\ q.classid \in Offering!Numbers /\ q.title \in Titles /\ q.price \in Titles \cup {None}
           /\ q.at = "price check" => q \in PricesCheckCall /\ q.classid \in Offering!Numbers /\ q.title \in Titles \cup {None} /\ q.base \in BOOLEAN
           /\ q.at = "price id" => q \in PricesIdCall /\ q.classid \in Offering!Numbers /\ q.title \in Titles /\ q.late \in BOOLEAN
           /\ q.at = "price insert" =>
                  /\ q \in PricesInsertCall /\ q.priceid \in Offering!Numbers /\ q.classid \in Offering!Numbers /\ q.title \in Titles
                  /\ q.late \in BOOLEAN /\ q.beside \in BOOLEAN
           /\ q.at = "cleanup" => q \in PricesCleanupCall /\ q.classid \in Offering!Numbers
           /\ q.at = "select prices" => q \in PricesSelectCall /\ q.classes \in SUBSET Offering!Numbers /\ q.late \in BOOLEAN
<1>1. q \in PricesClassCall => q.at = "class insert" /\ q.classid \in Offering!Numbers /\ q.title \in Titles /\ q.price \in Titles \cup {None}
  BY DEF PricesClassCall
<1>2. q \in PricesCheckCall => q.at = "price check" /\ q.classid \in Offering!Numbers /\ q.title \in Titles \cup {None} /\ q.base \in BOOLEAN
  BY DEF PricesCheckCall
<1>3. q \in PricesIdCall => q.at = "price id" /\ q.classid \in Offering!Numbers /\ q.title \in Titles /\ q.late \in BOOLEAN
  BY DEF PricesIdCall
<1>4. q \in PricesInsertCall =>
          /\ q.at = "price insert" /\ q.priceid \in Offering!Numbers /\ q.classid \in Offering!Numbers /\ q.title \in Titles
          /\ q.late \in BOOLEAN /\ q.beside \in BOOLEAN
  BY DEF PricesInsertCall
<1>5. q \in PricesCleanupCall => q.at = "cleanup" /\ q.classid \in Offering!Numbers
  BY DEF PricesCleanupCall
<1>6. q \in PricesSelectCall => q.at = "select prices" /\ q.classes \in SUBSET Offering!Numbers /\ q.late \in BOOLEAN
  BY DEF PricesSelectCall
<1> QED
  BY <1>1, <1>2, <1>3, <1>4, <1>5, <1>6, PricesIdleIs DEF PricesRecord

LEMMA PricesBecomes ==
    ASSUME Offering!TypeOK, NEW c \in Calls, NEW q \in PricesRecord, call' = [call EXCEPT ![c] = q]
    PROVE  PricesBecame(c, q)
  BY PricesTypeParts DEF PricesBecame, PricesElsewhere

LEMMA PricesEnds == ASSUME Offering!TypeOK, NEW c \in Calls, Offering!End(c) PROVE PricesBecame(c, Offering!Idle)
  BY PricesBecomes, PricesIdleIs DEF Offering!End

LEMMA PricesStarts ==
    ASSUME Offering!TypeOK, NEW c \in Calls, NEW q \in PricesRecord, Offering!Start(c, q)
    PROVE  PricesBecame(c, q)
  BY PricesBecomes DEF Offering!Start

\* A record that is told that it is late, or not alone.
LEMMA PricesTold ==
    ASSUME NEW q \in PricesRecord
    PROVE  /\ q.at = "select prices" =>
                  LET w == [q EXCEPT !.late = TRUE] IN w \in PricesRecord /\ w.at = q.at /\ w.late
           /\ q.at \in {"price id", "price insert"} =>
                  LET w == [q EXCEPT !.late = TRUE]
                  IN  /\ w \in PricesRecord /\ w.at = q.at /\ w.late
                      /\ q.at = "price insert" => w.priceid = q.priceid /\ w.beside = q.beside
           /\ q.at = "price insert" =>
                  LET w == [q EXCEPT !.beside = TRUE]
                  IN  w \in PricesRecord /\ w.at = q.at /\ w.beside /\ w.classid = q.classid /\ w.late = q.late
<1>1. CASE q.at = "select prices"
  <2>1. q \in PricesSelectCall
    BY <1>1, PricesKinds
  <2> QED
    BY <1>1, <2>1 DEF PricesSelectCall, PricesRecord
<1>2. CASE q.at = "price id"
  <2>1. q \in PricesIdCall
    BY <1>2, PricesKinds
  <2> QED
    BY <1>2, <2>1 DEF PricesIdCall, PricesRecord
<1>3. CASE q.at = "price insert"
  <2>1. q \in PricesInsertCall
    BY <1>3, PricesKinds
  <2> QED
    BY <1>3, <2>1 DEF PricesInsertCall, PricesRecord
<1> QED
  BY <1>1, <1>2, <1>3
-----------------------------------------------------------------------------
LEMMA PricesInitInv == Offering!ConstantsOK /\ Offering!Init => PricesIInv
<1> SUFFICES ASSUME Offering!ConstantsOK, Offering!Init PROVE PricesIInv
  OBVIOUS
<1>1. \A c \in Calls : call[c] = Offering!Idle /\ call[c].at = "idle"
  BY PricesIdleIs DEF Offering!Init, Offering!AllIdle
<1>2. Offering!TypeOK
  BY <1>1 DEF Offering!Init, Offering!TypeOK, Offering!AllIdle
<1> QED
  BY <1>1, <1>2 DEF Offering!Init, PricesIInv, PricesOnTheWay, PricesClassesRead, PricesIdsFree,
     Offering!PricesHaveTheirClass, Offering!PriceIdsDiffer, Offering!At

\* One call moves, and no row changes.
LEMMA PricesMoves ==
    ASSUME PricesIInv, UNCHANGED <<commishclass, commishprice, stray, twin>>,
           failed' \in {"no", "early", "stray"} \/ failed' = failed,
           NEW c \in Calls, NEW q \in PricesRecord, PricesBecame(c, q),
           q.at \in {"price id", "price insert"} => q.late \/ q.classid \in Offering!Classes,
           q.at = "select prices" => q.late \/ Offering!Classes \subseteq q.classes,
           q.at = "price insert" => q.beside \/ \A p \in commishprice : p.priceid # q.priceid
    PROVE  PricesIInv'
<1>1. Offering!TypeOK'
  BY PricesTypeParts DEF PricesIInv, PricesTables, PricesBecame
<1>2. Offering!Classes' = Offering!Classes
  BY DEF Offering!Classes
<1>3. PricesOnTheWay'
  BY <1>2 DEF PricesIInv, PricesOnTheWay, Offering!At, PricesBecame, PricesElsewhere
<1>4. PricesClassesRead'
  BY <1>2 DEF PricesIInv, PricesClassesRead, Offering!At, PricesBecame, PricesElsewhere
<1>5. PricesIdsFree'
  BY DEF PricesIInv, PricesIdsFree, Offering!At, PricesBecame, PricesElsewhere
<1>6. Offering!PricesHaveTheirClass' /\ Offering!PriceIdsDiffer'
  BY <1>2 DEF PricesIInv, Offering!PricesHaveTheirClass, Offering!PriceIdsDiffer
<1> QED
  BY <1>1, <1>3, <1>4, <1>5, <1>6 DEF PricesIInv

LEMMA PricesCreateClassInv ==
    ASSUME Offering!ConstantsOK, PricesIInv, NEW c \in Calls, NEW title \in Titles,
           NEW price \in Titles \cup {None},
           Offering!CreateClass(c, title, price)
    PROVE  PricesIInv'
<1> DEFINE q == [at |-> "class insert", classid |-> Offering!NextId(Offering!Classes), title |-> title, price |-> price]
<1>1. q \in PricesRecord /\ q.at = "class insert"
  BY DEF Offering!CreateClass, PricesRecord, PricesClassCall
<1>2. Offering!Start(c, q) /\ UNCHANGED <<commishclass, commishprice, failed, stray, twin>>
  BY DEF Offering!CreateClass
<1> HIDE DEF q
<1> QED
  BY <1>1, <1>2, PricesStarts, PricesMoves DEF PricesIInv

LEMMA PricesCreatePriceInv ==
    ASSUME Offering!ConstantsOK, PricesIInv, NEW c \in Calls, NEW k \in Offering!Numbers, NEW title \in Titles,
           Offering!CreatePrice(c, k, title)
    PROVE  PricesIInv'
<1> DEFINE q == [at |-> "price check", classid |-> k, title |-> title, base |-> FALSE]
<1>1. q \in PricesRecord /\ q.at = "price check"
  BY DEF PricesRecord, PricesCheckCall
<1>2. Offering!Start(c, q) /\ UNCHANGED <<commishclass, commishprice, failed, stray, twin>>
  BY DEF Offering!CreatePrice
<1> HIDE DEF q
<1> QED
  BY <1>1, <1>2, PricesStarts, PricesMoves DEF PricesIInv

LEMMA PricesPriceCheckInv ==
    ASSUME Offering!ConstantsOK, PricesIInv, NEW c \in Calls, Offering!PriceCheck(c)
    PROVE  PricesIInv'
<1> DEFINE valid == call[c].title # None /\ call[c].classid \in Offering!Classes
           next == [at |-> "price id", classid |-> call[c].classid, title |-> call[c].title, late |-> FALSE]
           clean == [at |-> "cleanup", classid |-> call[c].classid]
<1>1. Offering!At(c, "price check") /\ UNCHANGED <<commishclass, commishprice, failed, stray, twin>>
  BY DEF Offering!PriceCheck
<1>2. \/ valid /\ call' = [call EXCEPT ![c] = next]
      \/ call' = [call EXCEPT ![c] = clean]
      \/ call' = [call EXCEPT ![c] = Offering!Idle]
  BY DEF Offering!PriceCheck
<1>3. call[c].classid \in Offering!Numbers /\ call[c].title \in Titles \cup {None}
  BY <1>1, PricesKinds, PricesTypeParts DEF Offering!At, PricesIInv
<1>4. valid => next \in PricesRecord /\ next.at = "price id" /\ next.classid = call[c].classid
  BY <1>3 DEF PricesRecord, PricesIdCall
<1>5. clean \in PricesRecord /\ clean.at = "cleanup"
  BY <1>3 DEF PricesRecord, PricesCleanupCall
<1> HIDE DEF next, clean
<1>6. CASE valid /\ call' = [call EXCEPT ![c] = next]
  <2>1. PricesBecame(c, next) /\ next.classid \in Offering!Classes
    BY <1>4, <1>6, PricesBecomes DEF PricesIInv
  <2> QED
    BY <1>1, <1>4, <1>6, <2>1, PricesMoves
<1>7. CASE call' = [call EXCEPT ![c] = clean]
  BY <1>1, <1>5, <1>7, PricesBecomes, PricesMoves DEF PricesIInv
<1>8. CASE call' = [call EXCEPT ![c] = Offering!Idle]
  BY <1>1, <1>8, PricesIdleIs, PricesBecomes, PricesMoves DEF PricesIInv
<1> QED
  BY <1>2, <1>6, <1>7, <1>8

LEMMA PricesPriceIdInv ==
    ASSUME Offering!ConstantsOK, PricesIInv, NEW c \in Calls, Offering!PriceId(c)
    PROVE  PricesIInv'
<1> DEFINE ids == {p.priceid : p \in commishprice}
           id == Offering!NextId(ids)
           q == [at |-> "price insert", priceid |-> id, classid |-> call[c].classid,
                 title |-> call[c].title, late |-> call[c].late, beside |-> FALSE]
<1>1. /\ Offering!At(c, "price id") /\ id \in Offering!Numbers /\ call' = [call EXCEPT ![c] = q]
      /\ UNCHANGED <<commishclass, commishprice, failed, stray, twin>>
  BY DEF Offering!PriceId
<1>2. call[c].classid \in Offering!Numbers /\ call[c].title \in Titles /\ call[c].late \in BOOLEAN
  BY <1>1, PricesKinds, PricesTypeParts DEF Offering!At, PricesIInv
<1>3. ids \in SUBSET Offering!Numbers
  BY PricesTypeParts DEF PricesIInv, PricesTables, Offering!Prices
<1>4. id \notin ids
  BY <1>3, PricesNextIdIsNew DEF Offering!ConstantsOK
<1>5. \A p \in commishprice : p.priceid # id
  BY <1>4
<1>6. /\ q \in PricesRecord /\ q.at = "price insert" /\ q.priceid = id
      /\ q.classid = call[c].classid /\ q.late = call[c].late
  BY <1>1, <1>2 DEF PricesRecord, PricesInsertCall
<1>7. call[c].late \/ call[c].classid \in Offering!Classes
  BY <1>1 DEF PricesIInv, PricesOnTheWay
<1> HIDE DEF q, id, ids
<1>8. PricesBecame(c, q)
  BY <1>1, <1>6, PricesBecomes DEF PricesIInv
<1> QED
  BY <1>1, <1>5, <1>6, <1>7, <1>8, PricesMoves

LEMMA PricesSelectClassesInv ==
    ASSUME Offering!ConstantsOK, PricesIInv, NEW c \in Calls, Offering!SelectClasses(c)
    PROVE  PricesIInv'
<1> DEFINE q == [at |-> "select prices", classes |-> Offering!Classes, late |-> FALSE]
<1>1. q \in PricesRecord /\ q.at = "select prices" /\ q.classes = Offering!Classes
  BY DEF PricesRecord, PricesSelectCall, Offering!Classes
<1>2. Offering!Start(c, q) /\ failed' = "no" /\ UNCHANGED <<commishclass, commishprice, stray, twin>>
  BY DEF Offering!SelectClasses
<1> HIDE DEF q
<1> QED
  BY <1>1, <1>2, PricesStarts, PricesMoves DEF PricesIInv

LEMMA PricesSelectPricesInv ==
    ASSUME Offering!ConstantsOK, PricesIInv, NEW c \in Calls, Offering!SelectPrices(c)
    PROVE  PricesIInv'
<1> DEFINE unlisted == {p \in commishprice : p.classid \notin call[c].classes}
<1>1. /\ Offering!At(c, "select prices") /\ Offering!End(c)
      /\ failed' = IF unlisted = {} THEN "no"
                   ELSE IF call[c].late THEN "early"
                   ELSE IF unlisted \subseteq stray THEN "stray" ELSE "yes"
      /\ UNCHANGED <<commishclass, commishprice, stray, twin>>
  BY DEF Offering!SelectPrices
<1>2. call[c].late \/ unlisted \subseteq stray
  BY <1>1 DEF PricesIInv, PricesClassesRead, Offering!PricesHaveTheirClass
<1>3. failed' \in {"no", "early", "stray"}
  BY <1>1, <1>2
<1> QED
  BY <1>1, <1>3, PricesEnds, PricesIdleIs, PricesMoves DEF PricesIInv
-----------------------------------------------------------------------------
LEMMA PricesClassInsertInv ==
    ASSUME Offering!ConstantsOK, PricesIInv, NEW c \in Calls, Offering!ClassInsert(c)
    PROVE  PricesIInv'
<1> DEFINE k == call[c].classid
           free == k \notin Offering!Classes /\ \A j \in Offering!Classes : commishclass[j] # call[c].title
           q == IF free THEN [at |-> "price check", classid |-> k, title |-> call[c].price, base |-> TRUE] ELSE Offering!Idle
<1>1. /\ Offering!At(c, "class insert")
      /\ commishclass' = IF free THEN [commishclass EXCEPT ![k] = call[c].title] ELSE commishclass
      /\ call' = [d \in Calls |->
            IF d = c THEN q
            ELSE IF Offering!At(d, "select prices") THEN [call[d] EXCEPT !.late = TRUE]
            ELSE call[d]]
      /\ UNCHANGED <<commishprice, failed, stray, twin>>
  BY DEF Offering!ClassInsert
<1>2. k \in Offering!Numbers /\ call[c].title \in Titles /\ call[c].price \in Titles \cup {None}
  BY <1>1, PricesKinds, PricesTypeParts DEF Offering!At, PricesIInv
<1>3. q \in PricesRecord /\ q.at \in {"idle", "price check"}
  BY <1>2, PricesIdleIs DEF PricesRecord, PricesCheckCall
<1> HIDE DEF q, free
<1>4. Offering!Classes \subseteq Offering!Classes'
  BY <1>1, <1>2, PricesTypeParts DEF Offering!Classes, Offering!ConstantsOK, PricesIInv, PricesTables
<1>5. \A d \in Calls : /\ call'[d] \in PricesRecord
                       /\ \/ call'[d] = call[d] /\ ~Offering!At(d, "select prices")
                          \/ call'[d].at \in {"idle", "price check"}
                          \/ call'[d].at = "select prices" /\ call'[d].late
  BY <1>1, <1>3, PricesTold, PricesTypeParts DEF Offering!At, PricesIInv
<1>6. Offering!TypeOK'
  <2>1. call' \in [Calls -> PricesRecord]
    BY <1>1, <1>5
  <2> QED
    BY <1>1, <1>2, <2>1, PricesTypeParts DEF PricesIInv, PricesTables
<1>7. PricesOnTheWay'
  BY <1>4, <1>5 DEF PricesIInv, PricesOnTheWay, Offering!At
<1>8. PricesClassesRead'
  BY <1>5 DEF PricesClassesRead, Offering!At
<1>9. PricesIdsFree'
  BY <1>1, <1>5 DEF PricesIInv, PricesIdsFree, Offering!At
<1>10. Offering!PricesHaveTheirClass' /\ Offering!PriceIdsDiffer'
  BY <1>1, <1>4 DEF PricesIInv, Offering!PricesHaveTheirClass, Offering!PriceIdsDiffer
<1> QED
  BY <1>6, <1>7, <1>8, <1>9, <1>10 DEF PricesIInv

LEMMA PricesPriceInsertInv ==
    ASSUME Offering!ConstantsOK, PricesIInv, NEW c \in Calls, Offering!PriceInsert(c)
    PROVE  PricesIInv'
<1> DEFINE row == [priceid |-> call[c].priceid, classid |-> call[c].classid, title |-> call[c].title]
           taken == \E p \in commishprice : p.classid = row.classid /\ (p.priceid = row.priceid \/ p.title = row.title)
<1>1. /\ Offering!At(c, "price insert")
      /\ commishprice' = IF taken THEN commishprice ELSE commishprice \cup {row}
      /\ stray' = IF call[c].late /\ ~taken THEN stray \cup {row} ELSE stray
      /\ twin' = IF call[c].beside /\ ~taken THEN twin \cup {row.priceid} ELSE twin
      /\ call' = [d \in Calls |->
            IF d = c THEN Offering!Idle
            ELSE IF Offering!At(d, "price insert") /\ call[d].priceid = row.priceid /\ ~taken
              THEN [call[d] EXCEPT !.beside = TRUE]
            ELSE call[d]]
      /\ UNCHANGED <<commishclass, failed>>
  BY DEF Offering!PriceInsert
<1>2. /\ call[c].priceid \in Offering!Numbers /\ call[c].classid \in Offering!Numbers /\ call[c].title \in Titles
      /\ call[c].late \in BOOLEAN /\ call[c].beside \in BOOLEAN
  BY <1>1, PricesKinds, PricesTypeParts DEF Offering!At, PricesIInv
<1>3. row \in Offering!Prices /\ row.priceid = call[c].priceid /\ row.classid = call[c].classid
  BY <1>2 DEF Offering!Prices
<1> HIDE DEF row, taken
<1>4. Offering!Classes' = Offering!Classes
  BY <1>1 DEF Offering!Classes
<1>5. \A d \in Calls : /\ call'[d] \in PricesRecord
                       /\ \/ call'[d] = call[d] /\ (Offering!At(d, "price insert") => call[d].priceid # row.priceid \/ taken)
                          \/ call'[d].at = "idle"
                          \/ /\ call'[d].at = "price insert" /\ Offering!At(d, "price insert") /\ call'[d].beside
                             /\ call'[d].classid = call[d].classid /\ call'[d].late = call[d].late
  BY <1>1, PricesIdleIs, PricesTold, PricesTypeParts DEF Offering!At, PricesIInv
<1>6. Offering!TypeOK'
  <2>1. call' \in [Calls -> PricesRecord]
    BY <1>1, <1>5
  <2> QED
    BY <1>1, <1>2, <1>3, <2>1, PricesTypeParts DEF PricesIInv, PricesTables
<1>7. PricesOnTheWay'
  BY <1>4, <1>5 DEF PricesIInv, PricesOnTheWay, Offering!At
<1>8. PricesClassesRead'
  BY <1>4, <1>5 DEF PricesIInv, PricesClassesRead, Offering!At
<1>9. PricesIdsFree'
  <2> SUFFICES ASSUME NEW d \in Calls, Offering!At(d, "price insert")', ~call'[d].beside,
                      NEW p \in commishprice'
               PROVE  p.priceid # call'[d].priceid
    BY DEF PricesIdsFree, Offering!At
  <2>1. /\ call'[d] = call[d] /\ Offering!At(d, "price insert") /\ (call[d].priceid # row.priceid \/ taken)
    BY <1>5 DEF Offering!At
  <2>2. p \in commishprice \/ (~taken /\ p = row)
    BY <1>1
  <2> QED
    BY <2>1, <2>2 DEF PricesIInv, PricesIdsFree
<1>10. call[c].late \/ row.classid \in Offering!Classes
  BY <1>1, <1>3 DEF PricesIInv, PricesOnTheWay
<1>11. Offering!PricesHaveTheirClass'
  BY <1>1, <1>4, <1>10 DEF PricesIInv, Offering!PricesHaveTheirClass
<1>12. call[c].beside \/ \A p \in commishprice : p.priceid # row.priceid
  BY <1>1, <1>3 DEF PricesIInv, PricesIdsFree
<1>13. Offering!PriceIdsDiffer'
  BY <1>1, <1>12 DEF PricesIInv, Offering!PriceIdsDiffer
<1> QED
  BY <1>6, <1>7, <1>8, <1>9, <1>11, <1>13 DEF PricesIInv

\* The class goes with its prices, and its calls are late.
LEMMA PricesClassGoes ==
    ASSUME Offering!ConstantsOK, PricesIInv, NEW k \in Offering!Numbers, NEW calls \in [Calls -> PricesRecord],
           \A d \in Calls : calls[d] = call[d] \/ calls[d] = Offering!Idle,
           Offering!DeleteClass(k, calls), UNCHANGED <<failed, twin>>
    PROVE  PricesIInv'
<1>1. /\ commishclass' = [commishclass EXCEPT ![k] = None]
      /\ commishprice' = IF k \in Offering!Classes THEN {p \in commishprice : p.classid # k} ELSE commishprice
      /\ stray' = IF k \in Offering!Classes THEN {p \in stray : p.classid # k} ELSE stray
      /\ call' = [d \in Calls |->
            IF calls[d].at \in {"price id", "price insert"} /\ calls[d].classid = k
            THEN [calls[d] EXCEPT !.late = TRUE] ELSE calls[d]]
  BY DEF Offering!DeleteClass
<1>2. Offering!Classes' = Offering!Classes \ {k}
  BY <1>1, PricesTypeParts DEF Offering!Classes, PricesIInv, PricesTables
<1>3. \A d \in Calls :
          /\ call'[d] \in PricesRecord
          /\ \/ call'[d] = call[d] /\ (Offering!At(d, "price id") \/ Offering!At(d, "price insert") => call[d].classid # k)
             \/ call'[d].at = "idle"
             \/ call'[d].at = "price id" /\ call'[d].late
             \/ /\ call'[d].at = "price insert" /\ Offering!At(d, "price insert") /\ call'[d].late
                /\ call'[d].priceid = call[d].priceid /\ call'[d].beside = call[d].beside
  <2> SUFFICES ASSUME NEW d \in Calls
               PROVE  /\ call'[d] \in PricesRecord
                      /\ \/ call'[d] = call[d] /\ (Offering!At(d, "price id") \/ Offering!At(d, "price insert") => call[d].classid # k)
                         \/ call'[d].at = "idle"
                         \/ call'[d].at = "price id" /\ call'[d].late
                         \/ /\ call'[d].at = "price insert" /\ Offering!At(d, "price insert") /\ call'[d].late
                            /\ call'[d].priceid = call[d].priceid /\ call'[d].beside = call[d].beside
    OBVIOUS
  <2>1. CASE calls[d] = Offering!Idle
    BY <1>1, <2>1, PricesIdleIs DEF Offering!At
  <2>2. CASE calls[d] = call[d] /\ ~(call[d].at \in {"price id", "price insert"} /\ call[d].classid = k)
    BY <1>1, <2>2, PricesTypeParts DEF Offering!At, PricesIInv
  <2>3. CASE calls[d] = call[d] /\ call[d].at \in {"price id", "price insert"} /\ call[d].classid = k
    <3>1. call'[d] = [call[d] EXCEPT !.late = TRUE] /\ call[d] \in PricesRecord
      BY <1>1, <2>3, PricesTypeParts DEF PricesIInv
    <3> QED
      BY <2>3, <3>1, PricesTold DEF Offering!At
  <2> QED
    BY <2>1, <2>2, <2>3
<1>4. Offering!TypeOK'
  <2>1. call' \in [Calls -> PricesRecord]
    BY <1>1, <1>3
  <2> QED
    BY <1>1, <2>1, PricesTypeParts DEF PricesIInv, PricesTables
<1>5. PricesOnTheWay'
  BY <1>2, <1>3 DEF PricesIInv, PricesOnTheWay, Offering!At
<1>6. PricesClassesRead'
  BY <1>2, <1>3 DEF PricesIInv, PricesClassesRead, Offering!At
<1>7. PricesIdsFree'
  <2>1. commishprice' \subseteq commishprice
    BY <1>1
  <2> QED
    BY <1>3, <2>1 DEF PricesIInv, PricesIdsFree, Offering!At
<1>8. Offering!PricesHaveTheirClass'
  BY <1>1, <1>2 DEF PricesIInv, Offering!PricesHaveTheirClass
<1>9. Offering!PriceIdsDiffer'
  BY <1>1 DEF PricesIInv, Offering!PriceIdsDiffer
<1> QED
  BY <1>4, <1>5, <1>6, <1>7, <1>8, <1>9 DEF PricesIInv

LEMMA PricesRemoveClassInv ==
    ASSUME Offering!ConstantsOK, PricesIInv, NEW k \in Offering!Numbers, Offering!RemoveClass(k)
    PROVE  PricesIInv'
<1>1. Offering!DeleteClass(k, call) /\ UNCHANGED <<failed, twin>>
  BY DEF Offering!RemoveClass
<1>2. call \in [Calls -> PricesRecord]
  BY PricesTypeParts DEF PricesIInv
<1> QED
  BY <1>1, <1>2, PricesClassGoes

LEMMA PricesCleanupInv ==
    ASSUME Offering!ConstantsOK, PricesIInv, NEW c \in Calls, Offering!Cleanup(c)
    PROVE  PricesIInv'
<1> DEFINE calls == [call EXCEPT ![c] = Offering!Idle]
<1>1. Offering!At(c, "cleanup") /\ Offering!DeleteClass(call[c].classid, calls) /\ UNCHANGED <<failed, twin>>
  BY DEF Offering!Cleanup
<1>2. call[c].classid \in Offering!Numbers
  BY <1>1, PricesKinds, PricesTypeParts DEF Offering!At, PricesIInv
<1>3. calls \in [Calls -> PricesRecord] /\ \A d \in Calls : calls[d] = call[d] \/ calls[d] = Offering!Idle
  BY PricesIdleIs, PricesTypeParts DEF PricesIInv
<1> HIDE DEF calls
<1> QED
  BY <1>1, <1>2, <1>3, PricesClassGoes

LEMMA PricesEditClassInv ==
    ASSUME Offering!ConstantsOK, PricesIInv, NEW k \in Offering!Numbers, NEW title \in Titles,
           Offering!EditClass(k, title)
    PROVE  PricesIInv'
<1>1. /\ k \in Offering!Classes /\ commishclass' = [commishclass EXCEPT ![k] = title]
      /\ UNCHANGED <<commishprice, call, failed, stray, twin>>
  BY DEF Offering!EditClass
<1>2. Offering!Classes' = Offering!Classes
  BY <1>1, PricesTypeParts DEF Offering!Classes, Offering!ConstantsOK, PricesIInv, PricesTables
<1>3. Offering!TypeOK'
  BY <1>1, PricesTypeParts DEF PricesIInv, PricesTables
<1> QED
  BY <1>1, <1>2, <1>3 DEF PricesIInv, PricesOnTheWay, PricesClassesRead, PricesIdsFree,
     Offering!PricesHaveTheirClass, Offering!PriceIdsDiffer, Offering!At

LEMMA PricesEditPriceInv ==
    ASSUME Offering!ConstantsOK, PricesIInv, NEW id \in Offering!Numbers, NEW title \in Titles,
           Offering!EditPrice(id, title)
    PROVE  PricesIInv'
<1> DEFINE edited(p) == [p EXCEPT !.title = IF p.priceid = id THEN title ELSE @]
<1>1. /\ commishprice' = {edited(p) : p \in commishprice} /\ stray' = {edited(p) : p \in stray}
      /\ UNCHANGED <<commishclass, call, failed, twin>>
  BY DEF Offering!EditPrice
<1>2. \A p \in Offering!Prices : edited(p) \in Offering!Prices /\ edited(p).priceid = p.priceid /\ edited(p).classid = p.classid
  BY DEF Offering!Prices
<1> HIDE DEF edited
<1>3. commishprice \subseteq Offering!Prices /\ stray \subseteq Offering!Prices
  BY PricesTypeParts DEF PricesIInv, PricesTables
<1>4. Offering!TypeOK'
  BY <1>1, <1>2, PricesTypeParts DEF PricesIInv, PricesTables
<1>5. Offering!Classes' = Offering!Classes
  BY <1>1 DEF Offering!Classes
<1>6. PricesOnTheWay' /\ PricesClassesRead'
  BY <1>1, <1>5 DEF PricesIInv, PricesOnTheWay, PricesClassesRead, Offering!At
<1>7. \A r \in commishprice' : \E p \in commishprice :
          /\ r = edited(p) /\ r.priceid = p.priceid /\ r.classid = p.classid
          /\ p \in stray => r \in stray'
  BY <1>1, <1>2, <1>3
<1>8. PricesIdsFree'
  BY <1>1, <1>7 DEF PricesIInv, PricesIdsFree, Offering!At
<1>9. Offering!PricesHaveTheirClass'
  BY <1>1, <1>5, <1>7 DEF PricesIInv, Offering!PricesHaveTheirClass
<1>10. Offering!PriceIdsDiffer'
  BY <1>1, <1>7 DEF PricesIInv, Offering!PriceIdsDiffer
<1> QED
  BY <1>4, <1>6, <1>8, <1>9, <1>10 DEF PricesIInv

LEMMA PricesRemovePriceInv ==
    ASSUME Offering!ConstantsOK, PricesIInv, NEW id \in Offering!Numbers, Offering!RemovePrice(id)
    PROVE  PricesIInv'
<1>1. /\ commishprice' = {p \in commishprice : p.priceid # id} /\ stray' = {p \in stray : p.priceid # id}
      /\ twin' = twin \ {id} /\ UNCHANGED <<commishclass, call, failed>>
  BY DEF Offering!RemovePrice
<1>2. Offering!Classes' = Offering!Classes
  BY <1>1 DEF Offering!Classes
<1>3. Offering!TypeOK'
  BY <1>1, PricesTypeParts DEF PricesIInv, PricesTables
<1>4. PricesOnTheWay' /\ PricesClassesRead' /\ PricesIdsFree'
  BY <1>1, <1>2 DEF PricesIInv, PricesOnTheWay, PricesClassesRead, PricesIdsFree, Offering!At
<1>5. Offering!PricesHaveTheirClass' /\ Offering!PriceIdsDiffer'
  BY <1>1, <1>2 DEF PricesIInv, Offering!PricesHaveTheirClass, Offering!PriceIdsDiffer
<1> QED
  BY <1>3, <1>4, <1>5 DEF PricesIInv
-----------------------------------------------------------------------------
LEMMA PricesStepInv ==
    ASSUME Offering!ConstantsOK, PricesIInv, Offering!Next
    PROVE  PricesIInv'
<1>1. CASE \E c \in Calls : \E title \in Titles, price \in Titles \cup {None} : Offering!CreateClass(c, title, price)
  BY <1>1, PricesCreateClassInv
<1>2. CASE \E c \in Calls : \E k \in Offering!Numbers, title \in Titles : Offering!CreatePrice(c, k, title)
  BY <1>2, PricesCreatePriceInv
<1>3. CASE \E c \in Calls : Offering!ClassInsert(c) \/ Offering!PriceCheck(c) \/ Offering!PriceId(c) \/ Offering!PriceInsert(c) \/ Offering!Cleanup(c)
  BY <1>3, PricesClassInsertInv, PricesPriceCheckInv, PricesPriceIdInv, PricesPriceInsertInv,
     PricesCleanupInv
<1>4. CASE \E c \in Calls : Offering!SelectClasses(c) \/ Offering!SelectPrices(c)
  BY <1>4, PricesSelectClassesInv, PricesSelectPricesInv
<1>5. CASE \E k \in Offering!Numbers : Offering!RemoveClass(k) \/ Offering!RemovePrice(k)
  BY <1>5, PricesRemoveClassInv, PricesRemovePriceInv
<1>6. CASE \E k \in Offering!Numbers : \E title \in Titles : Offering!EditClass(k, title) \/ Offering!EditPrice(k, title)
  BY <1>6, PricesEditClassInv, PricesEditPriceInv
<1> QED
  BY <1>1, <1>2, <1>3, <1>4, <1>5, <1>6 DEF Offering!Next

LEMMA PricesStillInv ==
    ASSUME PricesIInv, UNCHANGED Offering!vars
    PROVE  PricesIInv'
<1>1. UNCHANGED <<commishclass, commishprice, call, failed, stray, twin>>
  BY DEF Offering!vars
<1>2. Offering!TypeOK' /\ Offering!Classes' = Offering!Classes
  BY <1>1, PricesTypeParts DEF PricesIInv, PricesTables, Offering!Classes
<1> QED
  BY <1>1, <1>2 DEF PricesIInv, PricesOnTheWay, PricesClassesRead, PricesIdsFree,
     Offering!PricesHaveTheirClass, Offering!PriceIdsDiffer, Offering!At

LEMMA PricesNextInv == Offering!ConstantsOK /\ PricesIInv /\ [Offering!Next]_Offering!vars => PricesIInv'
  BY PricesStepInv, PricesStillInv
-----------------------------------------------------------------------------
\* While the part moves it has its invariant; and so it has in every state.
PricesHold == part = "commissions" => PricesIInv

LEMMA PricesAreHeld == ContentSpec => []PricesHold
<1>1. ContentInit => PricesHold
  BY PricesInitInv, ContentAssumption DEF ContentInit, PricesHold
<1>2. PricesHold /\ [ContentNext]_all_content_vars => PricesHold'
  <2> SUFFICES ASSUME PricesHold, [ContentNext]_all_content_vars, part' = "commissions" PROVE PricesIInv'
    BY DEF PricesHold
  <2>1. part = "commissions" /\ PricesIInv
    BY PartStays DEF PricesHold
  <2>2. Offering!Next \/ UNCHANGED <<commissions_vars, call>>
    BY <2>1 DEF ContentNext, all_content_vars
  <2>3. UNCHANGED <<commissions_vars, call>> => UNCHANGED Offering!vars
    BY DEF commissions_vars, Offering!vars
  <2> QED
    BY <2>1, <2>2, <2>3, PricesNextInv, ContentAssumption
<1> QED
  BY <1>1, <1>2, PTL DEF ContentSpec

\* create_commission_class, create_price and the others (weasyl/commishinfo.py): a
\* price has its class, unless the class was removed while the price was being
\* created, so a page that lists prices fails only after that or if a class is created
\* between its reads; and no two prices have one id, unless both were being created.
THEOREM PricesStaySound == ContentSpec => []PricesAreSound
<1>1. PricesHold => PricesAreSound
  BY DEF PricesHold, PricesIInv, PricesAreSound
<1> QED
  BY <1>1, PricesAreHeld, PTL
-----------------------------------------------------------------------------
LEMMA UploadsTypeParts ==
    /\ Storing!TypeOK <=> UploadsTables /\ call \in [Calls -> UploadsRecord]
    /\ Storing!TypeOK' <=> UploadsTables' /\ call' \in [Calls -> UploadsRecord]
  BY DEF Storing!TypeOK, UploadsTables, Storing!CallRecords, UploadsRecord, UploadsProcessCall,
     UploadsFileCall

LEMMA UploadsIdleIs == Storing!Idle \in UploadsRecord /\ Storing!Idle.at = "idle" /\ ~UploadsWriting(Storing!Idle) /\ UploadsSteady(Storing!Idle)
  BY DEF Storing!Idle, UploadsRecord, UploadsWriting, UploadsSteady

LEMMA UploadsIdleStaysSteady == UploadsSteady(Storing!Idle)'
  BY DEF Storing!Idle, UploadsSteady

LEMMA UploadsKinds ==
    ASSUME NEW q \in UploadsRecord
    PROVE  /\ q.at = "process" => q \in UploadsProcessCall /\ q.content \in Tags
           /\ UploadsWriting(q) => q \in UploadsFileCall /\ q.content \in Tags /\ q.made \in BOOLEAN /\ q.early \in BOOLEAN
           /\ q # Storing!Idle => q.content \in Tags /\ q.at # "idle"
           /\ UploadsWriting(q) <=> q.at \notin {"idle", "process"}
<1>1. q \in UploadsProcessCall => q.at = "process" /\ q.content \in Tags
  BY DEF UploadsProcessCall
<1>2. q \in UploadsFileCall => UploadsWriting(q) /\ q.content \in Tags /\ q.made \in BOOLEAN /\ q.early \in BOOLEAN
  BY DEF UploadsFileCall, UploadsWriting
<1> QED
  BY <1>1, <1>2, UploadsIdleIs DEF UploadsRecord, UploadsWriting

LEMMA UploadsBecomes ==
    ASSUME Storing!TypeOK, NEW c \in Calls, NEW q \in UploadsRecord, call' = [call EXCEPT ![c] = q]
    PROVE  UploadsBecame(c, q)
  BY UploadsTypeParts DEF UploadsBecame, UploadsElsewhere

LEMMA UploadsEnds == ASSUME Storing!TypeOK, NEW c \in Calls, Storing!End(c) PROVE UploadsBecame(c, Storing!Idle)
  BY UploadsBecomes, UploadsIdleIs DEF Storing!End

LEMMA UploadsInitInv == Storing!ConstantsOK /\ Storing!Init => UploadsIInv
<1> SUFFICES ASSUME Storing!ConstantsOK, Storing!Init PROVE UploadsIInv
  OBVIOUS
<1>1. \A c \in Calls : call[c] = Storing!Idle
  BY DEF Storing!Init, Storing!AllIdle
<1>2. Storing!TypeOK
  BY DEF Storing!ConstantsOK, Storing!Init, Storing!AllIdle, Storing!TypeOK, Storing!Entry
<1>3. UploadsAllSteady
  BY <1>1, UploadsIdleIs DEF UploadsAllSteady
<1>4. UploadsFilesAreIn /\ UploadsRowsAreDurable
  BY DEF Storing!Init, UploadsFilesAreIn, UploadsRowsAreDurable
<1>5. UploadsAlone
  BY <1>1, UploadsIdleIs DEF Storing!Init, UploadsAlone
<1> QED
  BY <1>2, <1>3, <1>4, <1>5 DEF UploadsIInv
-----------------------------------------------------------------------------
LEMMA UploadsStaysSteady ==
    ASSUME UploadsFirmer, NEW q \in UploadsRecord, UploadsSteady(q)
    PROVE  UploadsSteady(q)'
<1>1. q.at \in {"sync", "sync parents", "insert"} => q.content \in Tags
  BY UploadsKinds DEF UploadsWriting
<1>2. /\ q.at \in {"write", "sync", "sync parents", "insert"} => directory' # "absent"
      /\ q.at \in {"write", "sync", "sync parents"} /\ ~q.early /\ ~q.made => directory' = "durable"
      /\ q.at = "insert" /\ ~q.early => directory' = "durable"
  BY DEF UploadsFirmer, UploadsSteady
<1>3. /\ q.at = "sync" => file'[q.content] # "absent"
      /\ q.at \in {"sync parents", "insert"} => file'[q.content] = "durable"
  BY <1>1 DEF UploadsFirmer, UploadsSteady
<1> QED
  BY <1>2, <1>3 DEF UploadsSteady

\* One upload moves, and no row comes.
LEMMA UploadsMoves ==
    ASSUME UploadsIInv, UploadsTables', UploadsFirmer, UploadsFilesAreIn', UNCHANGED <<media, hasty, twins>>,
           NEW c \in Calls, NEW q \in UploadsRecord, UploadsBecame(c, q), UploadsSteady(q)',
           UploadsWriting(q) => UploadsWriting(call[c]) /\ q.content = call[c].content
    PROVE  UploadsIInv'
<1>1. Storing!TypeOK'
  BY UploadsTypeParts DEF UploadsBecame
<1>2. UploadsAllSteady'
  BY UploadsStaysSteady, UploadsTypeParts DEF UploadsIInv, UploadsAllSteady, UploadsBecame,
     UploadsElsewhere, UploadsSteady
<1>3. UploadsRowsAreDurable'
  BY DEF UploadsIInv, UploadsRowsAreDurable, UploadsFirmer
<1>4. UploadsAlone'
  <2>1. \A d \in Calls : UploadsWriting(call'[d]) => UploadsWriting(call[d]) /\ call'[d].content = call[d].content
    BY DEF UploadsBecame, UploadsElsewhere
  <2>2. \A k \in Tags \ twins :
            /\ media[k] <= 1
            /\ \A d \in Calls : UploadsWriting(call'[d]) /\ call'[d].content = k =>
                   /\ media[k] = 0
                   /\ \A e \in Calls : UploadsWriting(call'[e]) /\ call'[e].content = k => e = d
    BY <2>1 DEF UploadsIInv, UploadsAlone
  <2> QED
    BY <2>2 DEF UploadsAlone, UploadsWriting
<1> QED
  BY <1>1, <1>2, <1>3, <1>4 DEF UploadsIInv

LEMMA UploadsSameIsFirmer ==
    ASSUME UploadsIInv, UNCHANGED <<directory, file>>
    PROVE  UploadsFirmer /\ UploadsFilesAreIn' /\ \A q : UploadsSteady(q)' <=> UploadsSteady(q)
  BY DEF UploadsFirmer, UploadsIInv, UploadsFilesAreIn, UploadsSteady
-----------------------------------------------------------------------------
LEMMA UploadsUploadVisualInv ==
    ASSUME UploadsIInv, NEW c \in Calls, NEW k \in Tags, Storing!UploadVisual(c, k)
    PROVE  UploadsIInv'
<1> DEFINE q == [at |-> "process", content |-> k]
<1>1. call' = [call EXCEPT ![c] = q] /\ UNCHANGED <<directory, file, media, hasty, twins>>
  BY DEF Storing!UploadVisual, Storing!Start
<1>2. q \in UploadsRecord /\ q.at = "process"
  BY DEF UploadsRecord, UploadsProcessCall
<1> HIDE DEF q
<1>3. UploadsBecame(c, q) /\ ~UploadsWriting(q) /\ UploadsSteady(q)
  BY <1>1, <1>2, UploadsBecomes DEF UploadsIInv, UploadsWriting, UploadsSteady
<1>4. UploadsTables'
  BY <1>1, UploadsTypeParts DEF UploadsIInv, UploadsTables
<1> QED
  BY <1>1, <1>2, <1>3, <1>4, UploadsSameIsFirmer, UploadsMoves

\* An upload that has found no row writes the file, maybe as another does.
LEMMA UploadsFindNoneInv ==
    ASSUME UploadsIInv, NEW c \in Calls, NEW k \in Tags, ~UploadsWriting(call[c]), Storing!FindNone(k),
           call' = [call EXCEPT ![c] = Storing!Opening(k)]
    PROVE  UploadsIInv'
<1>1. /\ media[k] = 0 /\ twins' = (IF Storing!Uploading(k) # {} THEN twins \cup {k} ELSE twins)
      /\ UNCHANGED <<directory, file, media, hasty>>
  BY DEF Storing!FindNone
<1>2. /\ Storing!Opening(k) \in UploadsRecord /\ Storing!Opening(k).at = "open" /\ Storing!Opening(k).content = k
      /\ UploadsWriting(Storing!Opening(k)) /\ UploadsSteady(Storing!Opening(k))
  BY DEF Storing!Opening, UploadsRecord, UploadsFileCall, UploadsWriting, UploadsSteady
<1>3. UploadsBecame(c, Storing!Opening(k))
  BY <1>2, UploadsBecomes DEF UploadsIInv
<1>4. Storing!TypeOK'
  BY <1>1, <1>3, UploadsTypeParts DEF UploadsIInv, UploadsTables, UploadsBecame
<1>5. UploadsAllSteady'
  BY <1>1, <1>2, <1>3, UploadsSameIsFirmer DEF UploadsIInv, UploadsAllSteady, UploadsBecame,
     UploadsElsewhere, UploadsSteady
<1>6. UploadsFilesAreIn' /\ UploadsRowsAreDurable'
  BY <1>1 DEF UploadsIInv, UploadsFilesAreIn, UploadsRowsAreDurable
<1>7. \A d \in Calls : UploadsWriting(call[d]) /\ call[d].content = k => k \in twins'
  BY <1>1, UploadsKinds, UploadsTypeParts DEF UploadsIInv, Storing!Uploading, Storing!Content
<1>8. UploadsAlone'
  BY <1>1, <1>2, <1>3, <1>7 DEF UploadsIInv, UploadsAlone, UploadsBecame, UploadsElsewhere
<1> QED
  BY <1>4, <1>5, <1>6, <1>8 DEF UploadsIInv

LEMMA UploadsEnsureInv ==
    ASSUME UploadsIInv, NEW c \in Calls, NEW k \in Tags, Storing!EnsureOutputMedia(c, k)
    PROVE  UploadsIInv'
  BY UploadsIdleIs, UploadsFindNoneInv DEF Storing!EnsureOutputMedia, Storing!Start

LEMMA UploadsFetchNoneInv ==
    ASSUME UploadsIInv, NEW c \in Calls, Storing!FetchNone(c)
    PROVE  UploadsIInv'
<1>1. Storing!At(c, "process") /\ call' = [call EXCEPT ![c] = Storing!Opening(Storing!Content(c))] /\ Storing!FindNone(Storing!Content(c))
  BY DEF Storing!FetchNone
<1>2. ~UploadsWriting(call[c]) /\ Storing!Content(c) \in Tags
  BY <1>1, UploadsKinds, UploadsTypeParts DEF UploadsIInv, Storing!At, UploadsWriting, Storing!Content
<1> QED
  BY <1>1, <1>2, UploadsFindNoneInv

LEMMA UploadsEndsInv ==
    ASSUME UploadsIInv, NEW c \in Calls, Storing!FetchFound(c) \/ Storing!CutShort(c)
    PROVE  UploadsIInv'
<1>1. Storing!End(c) /\ UNCHANGED <<directory, file, media, hasty, twins>>
  BY DEF Storing!FetchFound, Storing!CutShort
<1>2. UploadsBecame(c, Storing!Idle)
  BY <1>1, UploadsEnds DEF UploadsIInv
<1>3. UploadsTables'
  BY <1>1, UploadsTypeParts DEF UploadsIInv, UploadsTables
<1> QED
  BY <1>1, <1>2, <1>3, UploadsIdleIs, UploadsIdleStaysSteady, UploadsSameIsFirmer, UploadsMoves

LEMMA UploadsOpenDirectoryInv ==
    ASSUME UploadsIInv, NEW c \in Calls, Storing!OpenDirectory(c)
    PROVE  UploadsIInv'
<1> DEFINE a == IF directory = "absent" THEN "mkdir" ELSE "write"
           e == directory = "fresh"
           q == [call[c] EXCEPT !.at = a, !.early = e]
<1>1. /\ Storing!At(c, "open") /\ call' = [call EXCEPT ![c].at = a, ![c].early = e]
      /\ UNCHANGED <<directory, file, media, hasty, twins>>
  BY DEF Storing!OpenDirectory
<1>2. call[c] \in UploadsFileCall /\ call[c].made \in BOOLEAN /\ UploadsWriting(call[c])
  BY <1>1, UploadsKinds, UploadsTypeParts DEF UploadsIInv, Storing!At, UploadsWriting
<1>3. /\ q \in UploadsFileCall /\ q.at = a /\ q.content = call[c].content /\ q.made = call[c].made /\ q.early = e
  BY <1>2 DEF UploadsFileCall
<1>4. call' = [call EXCEPT ![c] = q]
  BY <1>1, UploadsTypeParts DEF UploadsIInv
<1> HIDE DEF q
<1>5. q \in UploadsRecord /\ UploadsBecame(c, q)
  BY <1>3, <1>4, UploadsBecomes DEF UploadsIInv, UploadsRecord
<1>6. UploadsSteady(q)
  BY <1>3, UploadsTypeParts DEF UploadsSteady, UploadsIInv, UploadsTables, Storing!Entry
<1>7. UploadsTables'
  BY <1>1, UploadsTypeParts DEF UploadsIInv, UploadsTables
<1> QED
  BY <1>1, <1>2, <1>3, <1>5, <1>6, <1>7, UploadsSameIsFirmer, UploadsMoves

LEMMA UploadsMakeDirectoryInv ==
    ASSUME UploadsIInv, NEW c \in Calls, Storing!MakeDirectory(c)
    PROVE  UploadsIInv'
<1>1. Storing!At(c, "mkdir") /\ UNCHANGED <<file, media, hasty, twins>>
  BY DEF Storing!MakeDirectory
<1>2. call[c] \in UploadsFileCall /\ UploadsWriting(call[c]) /\ ~call[c].early /\ call[c].made \in BOOLEAN
  BY <1>1, UploadsKinds, UploadsTypeParts DEF UploadsIInv, UploadsAllSteady, UploadsSteady, Storing!At,
     UploadsWriting
<1>3. CASE directory = "absent"
  <2> DEFINE p == [call[c] EXCEPT !.at = "write", !.made = TRUE]
  <2>1. directory' = "fresh" /\ call' = [call EXCEPT ![c].at = "write", ![c].made = TRUE]
    BY <1>3 DEF Storing!MakeDirectory
  <2>a1. p \in UploadsFileCall /\ p.at = "write" /\ p.content = call[c].content /\ p.made /\ p.early = call[c].early
    BY <1>2 DEF UploadsFileCall
  <2>b1. call' = [call EXCEPT ![c] = p]
    BY <2>1, UploadsTypeParts DEF UploadsIInv
  <2> HIDE DEF p
  <2>2. PICK q \in UploadsFileCall :
            /\ q = p /\ q.at = "write" /\ q.content = call[c].content /\ q.made /\ q.early = call[c].early
    BY <2>a1
  <2>3. call' = [call EXCEPT ![c] = q]
    BY <2>b1, <2>2
  <2>4. q \in UploadsRecord /\ UploadsBecame(c, q)
    BY <2>2, <2>3, UploadsBecomes DEF UploadsIInv, UploadsRecord
  <2>5. UploadsFirmer /\ UploadsFilesAreIn'
    BY <1>1, <1>3, <2>1 DEF UploadsFirmer, UploadsFilesAreIn
  <2>6. UploadsSteady(q)'
    BY <2>1, <2>2 DEF UploadsSteady
  <2>7. UploadsTables'
    BY <1>1, <2>1, UploadsTypeParts DEF UploadsIInv, UploadsTables, Storing!Entry
  <2>8. UploadsWriting(q) => UploadsWriting(call[c]) /\ q.content = call[c].content
    BY <1>2, <2>2
  <2> QED
    BY <1>1, <2>4, <2>5, <2>6, <2>7, <2>8, UploadsMoves
<1>4. CASE directory # "absent"
  <2>1. Storing!End(c) /\ directory' = directory
    BY <1>4 DEF Storing!MakeDirectory
  <2>2. UploadsBecame(c, Storing!Idle)
    BY <2>1, UploadsEnds DEF UploadsIInv
  <2>3. UploadsTables'
    BY <1>1, <2>1, UploadsTypeParts DEF UploadsIInv, UploadsTables
  <2> QED
    BY <1>1, <2>1, <2>2, <2>3, UploadsIdleIs, UploadsIdleStaysSteady, UploadsSameIsFirmer, UploadsMoves
<1> QED
  BY <1>3, <1>4

\* A step of an upload that has its directory.
LEMMA UploadsGoes ==
    ASSUME UploadsIInv, NEW c \in Calls, UploadsWriting(call[c]),
           NEW a \in {"open", "mkdir", "write", "sync", "sync parents", "insert"}, Storing!Goto(c, a)
    PROVE  \E q \in UploadsRecord : /\ UploadsBecame(c, q) /\ UploadsWriting(q) /\ q.at = a /\ q.content = call[c].content
                                    /\ q.made = call[c].made /\ q.early = call[c].early
<1> DEFINE q == [call[c] EXCEPT !.at = a]
<1>1. call[c] \in UploadsFileCall
  BY UploadsKinds, UploadsTypeParts DEF UploadsIInv
<1>2. q \in UploadsFileCall /\ q.at = a /\ q.content = call[c].content /\ q.made = call[c].made /\ q.early = call[c].early
  BY <1>1 DEF UploadsFileCall
<1>3. call' = [call EXCEPT ![c] = q]
  BY DEF Storing!Goto
<1> HIDE DEF q
<1>4. q \in UploadsRecord /\ UploadsBecame(c, q)
  BY <1>2, <1>3, UploadsBecomes DEF UploadsIInv, UploadsRecord
<1> QED
  BY <1>2, <1>4 DEF UploadsWriting

LEMMA UploadsWriteFileInv ==
    ASSUME UploadsIInv, NEW c \in Calls, Storing!WriteFile(c)
    PROVE  UploadsIInv'
<1>1. /\ Storing!At(c, "write") /\ Storing!Goto(c, "sync") /\ UNCHANGED <<directory, media, hasty, twins>>
      /\ file' = [file EXCEPT ![Storing!Content(c)] = IF @ = "durable" THEN @ ELSE "fresh"]
  BY DEF Storing!WriteFile
<1>2. UploadsWriting(call[c]) /\ Storing!Content(c) \in Tags /\ directory # "absent" /\ UploadsSteady(call[c])
  BY <1>1, UploadsKinds, UploadsTypeParts DEF UploadsIInv, UploadsAllSteady, UploadsSteady, Storing!At,
     UploadsWriting, Storing!Content
<1>3. PICK q \in UploadsRecord : /\ UploadsBecame(c, q) /\ UploadsWriting(q) /\ q.at = "sync" /\ q.content = call[c].content
                                 /\ q.made = call[c].made /\ q.early = call[c].early
  BY <1>1, <1>2, UploadsGoes
<1>4. UploadsTables'
  BY <1>1, <1>2, UploadsTypeParts DEF UploadsIInv, UploadsTables, Storing!Entry
<1>5. UploadsFirmer /\ UploadsFilesAreIn' /\ file'[Storing!Content(c)] # "absent"
  BY <1>1, <1>2, UploadsTypeParts DEF UploadsIInv, UploadsTables, UploadsFirmer, UploadsFilesAreIn
<1>6. UploadsSteady(q)'
  BY <1>1, <1>2, <1>3, <1>5 DEF UploadsSteady, Storing!Content, Storing!At
<1> QED
  BY <1>1, <1>2, <1>3, <1>4, <1>5, <1>6, UploadsMoves

LEMMA UploadsSyncDirectoryInv ==
    ASSUME UploadsIInv, NEW c \in Calls, Storing!SyncDirectory(c)
    PROVE  UploadsIInv'
<1>1. /\ Storing!At(c, "sync") /\ Storing!Goto(c, "sync parents") /\ UNCHANGED <<directory, media, hasty, twins>>
      /\ file' = [k \in Tags |-> IF file[k] = "fresh" THEN "durable" ELSE file[k]]
  BY DEF Storing!SyncDirectory
<1>2. UploadsWriting(call[c]) /\ Storing!Content(c) \in Tags /\ directory # "absent" /\ UploadsSteady(call[c]) /\ file[Storing!Content(c)] # "absent"
  BY <1>1, UploadsKinds, UploadsTypeParts DEF UploadsIInv, UploadsAllSteady, UploadsSteady, Storing!At,
     UploadsWriting, Storing!Content
<1>3. PICK q \in UploadsRecord : /\ UploadsBecame(c, q) /\ UploadsWriting(q) /\ q.at = "sync parents" /\ q.content = call[c].content
                                 /\ q.made = call[c].made /\ q.early = call[c].early
  BY <1>1, <1>2, UploadsGoes
<1>4. UploadsTables'
  BY <1>1, UploadsTypeParts DEF UploadsIInv, UploadsTables, Storing!Entry
<1>5. UploadsFirmer /\ UploadsFilesAreIn' /\ file'[Storing!Content(c)] = "durable"
  BY <1>1, <1>2, UploadsTypeParts DEF UploadsIInv, UploadsTables, Storing!Entry, UploadsFirmer,
     UploadsFilesAreIn
<1>6. UploadsSteady(q)'
  BY <1>1, <1>2, <1>3, <1>5 DEF UploadsSteady, Storing!Content, Storing!At
<1> QED
  BY <1>1, <1>2, <1>3, <1>4, <1>5, <1>6, UploadsMoves

LEMMA UploadsSyncParentsInv ==
    ASSUME UploadsIInv, NEW c \in Calls, Storing!SyncParents(c)
    PROVE  UploadsIInv'
<1>1. /\ Storing!At(c, "sync parents") /\ Storing!Goto(c, "insert") /\ UNCHANGED <<file, media, hasty, twins>>
      /\ directory' = IF call[c].made THEN "durable" ELSE directory
  BY DEF Storing!SyncParents
<1>2. UploadsWriting(call[c]) /\ Storing!Content(c) \in Tags /\ directory # "absent" /\ UploadsSteady(call[c]) /\ file[Storing!Content(c)] = "durable"
  BY <1>1, UploadsKinds, UploadsTypeParts DEF UploadsIInv, UploadsAllSteady, UploadsSteady, Storing!At,
     UploadsWriting, Storing!Content
<1>3. PICK q \in UploadsRecord : /\ UploadsBecame(c, q) /\ UploadsWriting(q) /\ q.at = "insert" /\ q.content = call[c].content
                                 /\ q.made = call[c].made /\ q.early = call[c].early
  BY <1>1, <1>2, UploadsGoes
<1>4. UploadsTables'
  BY <1>1, UploadsTypeParts DEF UploadsIInv, UploadsTables, Storing!Entry
<1>5. UploadsFirmer /\ UploadsFilesAreIn'
  BY <1>1, <1>2 DEF UploadsFirmer, UploadsFilesAreIn
<1>6. UploadsSteady(q)'
  BY <1>1, <1>2, <1>3 DEF UploadsSteady, Storing!Content, Storing!At
<1> QED
  BY <1>1, <1>2, <1>3, <1>4, <1>5, <1>6, UploadsMoves

LEMMA UploadsInsertMediaInv ==
    ASSUME UploadsIInv, NEW c \in Calls, Storing!InsertMedia(c), Storing!ConstantsOK
    PROVE  UploadsIInv'
<1> DEFINE k == call[c].content
<1>1. /\ Storing!At(c, "insert") /\ media[k] < MaxCopies /\ media' = [media EXCEPT ![k] = @ + 1]
      /\ hasty' = (IF call[c].early THEN hasty \cup {k} ELSE hasty)
      /\ Storing!End(c) /\ UNCHANGED <<directory, file, twins>>
  BY DEF Storing!InsertMedia, Storing!Content
<1>2. /\ UploadsWriting(call[c]) /\ k \in Tags /\ file[k] = "durable"
      /\ ~call[c].early => directory = "durable"
  BY <1>1, UploadsKinds, UploadsTypeParts DEF UploadsIInv, UploadsAllSteady, UploadsSteady, Storing!At,
     UploadsWriting
<1>3. UploadsBecame(c, Storing!Idle)
  BY <1>1, UploadsEnds DEF UploadsIInv
<1>4. media \in [Tags -> 0 .. MaxCopies] /\ MaxCopies \in Nat
  BY UploadsTypeParts DEF UploadsIInv, UploadsTables, Storing!ConstantsOK
<1>5. media' \in [Tags -> 0 .. MaxCopies] /\ media'[k] = media[k] + 1 /\ \A l \in Tags \ {k} : media'[l] = media[l]
  BY <1>1, <1>2, <1>4
<1>6. Storing!TypeOK'
  BY <1>1, <1>2, <1>3, <1>5, UploadsTypeParts DEF UploadsIInv, UploadsTables, UploadsBecame
<1>7. UploadsAllSteady'
  BY <1>1, <1>3, UploadsIdleIs, UploadsSameIsFirmer DEF UploadsIInv, UploadsAllSteady, UploadsBecame,
     UploadsElsewhere, UploadsSteady
<1>8. UploadsFilesAreIn'
  BY <1>1 DEF UploadsIInv, UploadsFilesAreIn
<1>9. UploadsRowsAreDurable'
  BY <1>1, <1>2, <1>5 DEF UploadsIInv, UploadsRowsAreDurable
<1>10. UploadsAlone'
  <2> SUFFICES ASSUME NEW l \in Tags \ twins
               PROVE  /\ media'[l] <= 1
                      /\ \A d \in Calls : UploadsWriting(call'[d]) /\ call'[d].content = l =>
                             /\ media'[l] = 0
                             /\ \A e \in Calls : UploadsWriting(call'[e]) /\ call'[e].content = l => e = d
    BY <1>1 DEF UploadsAlone, UploadsWriting
  <2>1. \A d \in Calls : UploadsWriting(call'[d]) => d # c /\ call'[d] = call[d]
    BY <1>3, UploadsIdleIs DEF UploadsBecame, UploadsElsewhere
  <2>2. CASE l = k
    BY <1>2, <1>4, <1>5, <2>1, <2>2 DEF UploadsIInv, UploadsAlone
  <2>3. CASE l # k
    BY <1>5, <2>1, <2>3 DEF UploadsIInv, UploadsAlone
  <2> QED
    BY <2>2, <2>3
<1> QED
  BY <1>6, <1>7, <1>8, <1>9, <1>10 DEF UploadsIInv

LEMMA UploadsPowerLossInv ==
    ASSUME UploadsIInv, Storing!PowerLoss
    PROVE  UploadsIInv'
<1>1. /\ directory' \in Storing!Kept(directory) /\ call' = Storing!AllIdle /\ UNCHANGED <<media, hasty, twins>>
      /\ file' \in [Tags -> Storing!Entry]
      /\ \A k \in Tags : directory' = "absent" => file'[k] = "absent"
      /\ \A k \in Tags : directory' # "absent" => file'[k] \in Storing!Kept(file[k])
  BY DEF Storing!PowerLoss, Storing!Entry
<1>2. \A c \in Calls : call'[c] = Storing!Idle
  BY <1>1 DEF Storing!AllIdle
<1>3. Storing!TypeOK'
  BY <1>1, <1>2, UploadsIdleIs, UploadsTypeParts DEF UploadsIInv, UploadsTables, Storing!Kept,
     Storing!Entry, Storing!AllIdle
<1>4. UploadsAllSteady'
  BY <1>2, UploadsIdleStaysSteady DEF UploadsAllSteady, UploadsSteady
<1>5. UploadsFilesAreIn'
  BY <1>1 DEF UploadsFilesAreIn
<1>6. UploadsRowsAreDurable'
  BY <1>1 DEF UploadsIInv, UploadsRowsAreDurable, Storing!Kept
<1>7. UploadsAlone'
  BY <1>1, <1>2, UploadsIdleIs DEF UploadsIInv, UploadsAlone, UploadsWriting
<1> QED
  BY <1>3, <1>4, <1>5, <1>6, <1>7 DEF UploadsIInv
-----------------------------------------------------------------------------
LEMMA UploadsStepInv ==
    ASSUME Storing!ConstantsOK, UploadsIInv, Storing!Next
    PROVE  UploadsIInv'
<1>1. CASE Storing!PowerLoss
  BY <1>1, UploadsPowerLossInv
<1>2. CASE \E c \in Calls : \E k \in Tags : Storing!UploadVisual(c, k) \/ Storing!EnsureOutputMedia(c, k)
  BY <1>2, UploadsUploadVisualInv, UploadsEnsureInv
<1>3. CASE \E c \in Calls : Storing!FetchNone(c) \/ Storing!FetchFound(c) \/ Storing!OpenDirectory(c) \/ Storing!MakeDirectory(c) \/ Storing!WriteFile(c)
  BY <1>3, UploadsFetchNoneInv, UploadsEndsInv, UploadsOpenDirectoryInv, UploadsMakeDirectoryInv,
     UploadsWriteFileInv
<1>4. CASE \E c \in Calls : Storing!SyncDirectory(c) \/ Storing!SyncParents(c) \/ Storing!InsertMedia(c) \/ Storing!CutShort(c)
  BY <1>4, UploadsSyncDirectoryInv, UploadsSyncParentsInv, UploadsInsertMediaInv, UploadsEndsInv
<1> QED
  BY <1>1, <1>2, <1>3, <1>4 DEF Storing!Next

LEMMA UploadsStillInv ==
    ASSUME UploadsIInv, UNCHANGED Storing!vars
    PROVE  UploadsIInv'
<1>1. UNCHANGED <<directory, file, media, call, hasty, twins>>
  BY DEF Storing!vars
<1>2. Storing!TypeOK' /\ UploadsAllSteady'
  BY <1>1 DEF UploadsIInv, Storing!TypeOK, UploadsAllSteady, UploadsSteady
<1>3. UploadsFilesAreIn' /\ UploadsRowsAreDurable'
  BY <1>1 DEF UploadsIInv, UploadsFilesAreIn, UploadsRowsAreDurable
<1>4. UploadsAlone'
  BY <1>1 DEF UploadsIInv, UploadsAlone, UploadsWriting
<1> QED
  BY <1>2, <1>3, <1>4 DEF UploadsIInv

LEMMA UploadsNextInv == Storing!ConstantsOK /\ UploadsIInv /\ [Storing!Next]_Storing!vars => UploadsIInv'
  BY UploadsStepInv, UploadsStillInv

LEMMA UploadsPromises == UploadsIInv => Storing!FilesSurvive /\ Storing!OneItemPerContent
  BY DEF UploadsIInv, UploadsRowsAreDurable, UploadsAlone, Storing!FilesSurvive, Storing!OneItemPerContent
-----------------------------------------------------------------------------
\* While the part moves it has its invariant; and so it has in every state.
UploadsHold == part = "files" => UploadsIInv

LEMMA UploadsAreHeld == ContentSpec => []UploadsHold
<1>1. ContentInit => UploadsHold
  BY UploadsInitInv, ContentAssumption DEF ContentInit, UploadsHold
<1>2. UploadsHold /\ [ContentNext]_all_content_vars => UploadsHold'
  <2> SUFFICES ASSUME UploadsHold, [ContentNext]_all_content_vars, part' = "files" PROVE UploadsIInv'
    BY DEF UploadsHold
  <2>1. part = "files" /\ UploadsIInv
    BY PartStays DEF UploadsHold
  <2>2. Storing!Next \/ UNCHANGED <<files_vars, call>>
    BY <2>1 DEF ContentNext, all_content_vars
  <2>3. UNCHANGED <<files_vars, call>> => UNCHANGED Storing!vars
    BY DEF files_vars, Storing!vars
  <2> QED
    BY <2>1, <2>2, <2>3, UploadsNextInv, ContentAssumption
<1> QED
  BY <1>1, <1>2, PTL DEF ContentSpec
-----------------------------------------------------------------------------
LEMMA ShownTypeParts ==
    /\ Linking!TypeOK <=> ShownTables /\ call \in [Calls -> ShownRecord]
    /\ Linking!TypeOK' <=> ShownTables' /\ call' \in [Calls -> ShownRecord]
  BY DEF Linking!TypeOK, ShownTables, ShownRecord

LEMMA ShownIdleIs == Linking!Idle \in ShownRecord /\ Linking!Idle.at = "idle" /\ Linking!Idle \notin Linking!CallRecords
  BY DEF Linking!Idle, ShownRecord, Linking!CallRecords

LEMMA ShownFields ==
    ASSUME NEW q \in ShownRecord, q # Linking!Idle
    PROVE  /\ q \in Linking!CallRecords
           /\ q.at \in {"next", "write", "snapshot", "refresh", "fill"} /\ q.todo \in Seq(Linking!Steps)
           /\ q.slot \in Linking!Slots \cup {0} /\ q.gone \in BOOLEAN /\ q.copy \in Linking!Copies \cup {None} /\ q.late \in BOOLEAN
  BY DEF ShownRecord, Linking!CallRecords

LEMMA ShownStepsAre ==
    /\ \A t \in Linking!Types, i \in Tags :
          Linking!Make(t, i) \in Linking!Steps /\ Linking!Make(t, i).do = "make" /\ Linking!Make(t, i).type = t /\ Linking!Make(t, i).item = i
    /\ \A t \in Linking!Types : Linking!Clear(t) \in Linking!Steps /\ Linking!Clear(t).do = "clear" /\ Linking!Clear(t).type = t
    /\ \A s \in Linking!Steps : s.type \in Linking!Types /\ s.do \in {"make", "clear"} /\ (s.do = "make" => s.item \in Tags)
  BY DEF Linking!Steps, Linking!Make, Linking!Clear, Linking!Types

LEMMA ShownSequences ==
    ASSUME NEW s \in Linking!Steps, NEW r \in Linking!Steps
    PROVE  /\ <<>> \in Seq(Linking!Steps) /\ Len(<<>>) = 0 /\ <<s>> # <<>>
           /\ <<s>> \in Seq(Linking!Steps) /\ Len(<<s>>) = 1 /\ Head(<<s>>) = s /\ <<s>>[1] = s
           /\ <<s, r>> \in Seq(Linking!Steps) /\ Len(<<s, r>>) = 2 /\ Head(<<s, r>>) = s /\ Tail(<<s, r>>) = <<r>>
           /\ <<s, r>>[1] = s /\ <<s, r>>[2] = r /\ <<s, r>> # <<>>
  OBVIOUS

\* Facts about the plans, after which they are not opened again.
LEMMA ShownPlainIs ==
    ASSUME NEW p \in ShownPlain
    PROVE  /\ p \in Seq(Linking!Steps) /\ p \in ShownPlans
           /\ p # <<>> => Head(p) \in Linking!Steps /\ Head(p).type \notin {"submission", "cover"} /\ Len(p) \in {1, 2}
           /\ Len(p) = 2 => Tail(p) \in ShownPlain /\ Tail(p) # <<>>
           /\ \A n \in 1 .. Len(p) : p[n].type \notin {"submission", "cover"}
<1>1. CASE p = <<>>
  BY <1>1 DEF ShownPlans
<1>2. ASSUME NEW s \in Linking!Steps, p = <<s>>, s.type \notin {"submission", "cover"}
      PROVE  /\ p \in Seq(Linking!Steps) /\ p \in ShownPlans
             /\ p # <<>> => Head(p) \in Linking!Steps /\ Head(p).type \notin {"submission", "cover"} /\ Len(p) \in {1, 2}
             /\ Len(p) = 2 => Tail(p) \in ShownPlain /\ Tail(p) # <<>>
             /\ \A n \in 1 .. Len(p) : p[n].type \notin {"submission", "cover"}
  BY <1>2, ShownSequences DEF ShownPlans
<1>3. CASE p \in {<<Linking!Make("source", i)>> : i \in Tags} \cup {<<Linking!Make("custom", i)>> : i \in Tags}
  <2>1. PICK i \in Tags : p = <<Linking!Make("source", i)>> \/ p = <<Linking!Make("custom", i)>>
    BY <1>3
  <2> QED
    BY <1>2, <2>1, ShownStepsAre DEF Linking!Types
<1>4. CASE p \in {<<Linking!Clear(t)>> : t \in {"source", "avatar", "custom"}}
  <2>1. PICK t \in {"source", "avatar", "custom"} : p = <<Linking!Clear(t)>>
    BY <1>4
  <2>2. Linking!Clear(t) \in Linking!Steps /\ Linking!Clear(t).type = t
    BY ShownStepsAre DEF Linking!Types
  <2> QED
    BY <1>2, <2>1, <2>2
<1>5. CASE p \in {<<Linking!Make("avatar", i), Linking!Clear("source")>> : i \in Tags}
  <2>1. PICK i \in Tags : p = <<Linking!Make("avatar", i), Linking!Clear("source")>>
    BY <1>5
  <2>2. /\ Linking!Make("avatar", i) \in Linking!Steps /\ Linking!Make("avatar", i).type = "avatar"
        /\ Linking!Clear("source") \in Linking!Steps /\ Linking!Clear("source").type = "source"
    BY ShownStepsAre DEF Linking!Types
  <2>3. /\ p \in Seq(Linking!Steps) /\ Len(p) = 2 /\ Head(p) = Linking!Make("avatar", i) /\ Tail(p) = <<Linking!Clear("source")>>
        /\ p[1] = Linking!Make("avatar", i) /\ p[2] = Linking!Clear("source") /\ Tail(p) # <<>>
    BY <2>1, <2>2, ShownSequences
  <2>4. Tail(p) \in ShownPlain
    BY <2>3 DEF ShownPlain
  <2>5. p \in ShownPlans
    BY DEF ShownPlans
  <2> QED
    BY <2>2, <2>3, <2>4, <2>5
<1> QED
  BY <1>1, <1>3, <1>4, <1>5 DEF ShownPlain

LEMMA ShownBothIs ==
    ASSUME NEW i \in Tags
    PROVE  /\ ShownBoth(i) \in Seq(Linking!Steps) /\ ShownBoth(i) \in ShownPlans /\ ShownBoth(i) # <<>> /\ Len(ShownBoth(i)) = 2
           /\ Head(ShownBoth(i)) \in Linking!Steps /\ Head(ShownBoth(i)).do = "make" /\ Head(ShownBoth(i)).type = "submission" /\ Head(ShownBoth(i)).item = i
           /\ Tail(ShownBoth(i)) = ShownSecond(i) /\ ShownBoth(i) \notin ShownPlain /\ ShownBoth(i) # ShownUncover
           /\ \E n \in 1 .. Len(ShownBoth(i)) : ShownBoth(i)[n].type \in {"submission", "cover"}
<1>1. /\ Linking!Make("submission", i) \in Linking!Steps /\ Linking!Make("submission", i).do = "make"
      /\ Linking!Make("submission", i).type = "submission" /\ Linking!Make("submission", i).item = i
      /\ Linking!Make("cover", i) \in Linking!Steps /\ Linking!Clear("cover") \in Linking!Steps
  BY ShownStepsAre DEF Linking!Types
<1>2. /\ ShownBoth(i) \in Seq(Linking!Steps) /\ ShownBoth(i) # <<>> /\ Len(ShownBoth(i)) = 2 /\ Head(ShownBoth(i)) = Linking!Make("submission", i)
      /\ Tail(ShownBoth(i)) = ShownSecond(i) /\ Len(ShownUncover) = 1
  BY <1>1, ShownSequences DEF ShownBoth, ShownSecond, ShownUncover
<1>3. \E n \in 1 .. Len(ShownBoth(i)) : ShownBoth(i)[n].type \in {"submission", "cover"}
  <2>1. ShownBoth(i)[1] = Linking!Make("submission", i)
    BY <1>1, ShownSequences DEF ShownBoth
  <2> QED
    BY <1>1, <1>2, <2>1
<1>4. ShownBoth(i) \notin ShownPlain /\ ShownBoth(i) # ShownUncover
  BY <1>2, <1>3, ShownPlainIs
<1>5. ShownBoth(i) \in ShownPlans
  BY DEF ShownPlans
<1> QED
  BY <1>1, <1>2, <1>3, <1>4, <1>5

LEMMA ShownSecondIs ==
    ASSUME NEW i \in Tags
    PROVE  /\ ShownSecond(i) \in Seq(Linking!Steps) /\ ShownSecond(i) \in ShownPlans /\ ShownSecond(i) # <<>> /\ Len(ShownSecond(i)) = 1
           /\ Head(ShownSecond(i)) \in Linking!Steps /\ Head(ShownSecond(i)).do = "make" /\ Head(ShownSecond(i)).type = "cover"
           /\ Head(ShownSecond(i)).item = i /\ ShownSecond(i) \notin ShownPlain /\ ShownSecond(i) # ShownUncover
           /\ \E n \in 1 .. Len(ShownSecond(i)) : ShownSecond(i)[n].type \in {"submission", "cover"}
<1>1. /\ Linking!Make("cover", i) \in Linking!Steps /\ Linking!Make("cover", i).do = "make"
      /\ Linking!Make("cover", i).type = "cover" /\ Linking!Make("cover", i).item = i
      /\ Linking!Clear("cover") \in Linking!Steps /\ Linking!Clear("cover").do = "clear"
  BY ShownStepsAre DEF Linking!Types
<1>2. /\ ShownSecond(i) \in Seq(Linking!Steps) /\ ShownSecond(i) # <<>> /\ Len(ShownSecond(i)) = 1 /\ Head(ShownSecond(i)) = Linking!Make("cover", i)
      /\ Head(ShownUncover) = Linking!Clear("cover")
  BY <1>1, ShownSequences DEF ShownSecond, ShownUncover
<1>3. \E n \in 1 .. Len(ShownSecond(i)) : ShownSecond(i)[n].type \in {"submission", "cover"}
  <2>1. ShownSecond(i)[1] = Linking!Make("cover", i)
    BY <1>1, ShownSequences DEF ShownSecond
  <2> QED
    BY <1>1, <1>2, <2>1
<1>4. ShownSecond(i) \notin ShownPlain
  BY <1>3, ShownPlainIs
<1> QED
  BY <1>1, <1>2, <1>3, <1>4 DEF ShownPlans

LEMMA ShownUncoverIs ==
    /\ ShownUncover \in Seq(Linking!Steps) /\ ShownUncover \in ShownPlans /\ ShownUncover # <<>> /\ Len(ShownUncover) = 1
    /\ Head(ShownUncover) \in Linking!Steps /\ Head(ShownUncover).do = "clear" /\ Head(ShownUncover).type = "cover" /\ ShownUncover \notin ShownPlain
    /\ \E n \in 1 .. Len(ShownUncover) : ShownUncover[n].type \in {"submission", "cover"}
<1>1. Linking!Clear("cover") \in Linking!Steps /\ Linking!Clear("cover").do = "clear" /\ Linking!Clear("cover").type = "cover"
  BY ShownStepsAre DEF Linking!Types
<1>2. ShownUncover \in Seq(Linking!Steps) /\ ShownUncover # <<>> /\ Len(ShownUncover) = 1 /\ Head(ShownUncover) = Linking!Clear("cover") /\ ShownUncover[1] = Linking!Clear("cover")
  BY <1>1, ShownSequences DEF ShownUncover
<1>3. \E n \in 1 .. Len(ShownUncover) : ShownUncover[n].type \in {"submission", "cover"}
  BY <1>1, <1>2
<1>4. ShownUncover \notin ShownPlain
  BY <1>3, ShownPlainIs
<1> QED
  BY <1>1, <1>2, <1>3, <1>4 DEF ShownPlans

LEMMA ShownPlansAre ==
    ASSUME NEW p \in ShownPlans
    PROVE  /\ p \in Seq(Linking!Steps)
           /\ p # <<>> => Head(p) \in Linking!Steps /\ Len(p) \in {1, 2}
           /\ Len(p) = 2 => Tail(p) \in ShownPlans /\ Tail(p) # <<>> /\ Tail(p) # ShownUncover
           /\ p \notin ShownPlain <=> \E n \in 1 .. Len(p) : p[n].type \in {"submission", "cover"}
           /\ p \in ShownPlain \/ p = ShownUncover \/ \E i \in Tags : p = ShownBoth(i) \/ p = ShownSecond(i)
<1>1. CASE p \in ShownPlain
  <2>1. Len(p) = 2 => Tail(p) \in ShownPlans /\ Tail(p) # <<>> /\ Tail(p) # ShownUncover
    BY <1>1, ShownPlainIs, ShownUncoverIs DEF ShownPlans
  <2> QED
    BY <1>1, <2>1, ShownPlainIs
<1>2. CASE p = ShownUncover
  BY <1>2, ShownUncoverIs
<1>3. CASE \E i \in Tags : p = ShownBoth(i)
  <2>1. PICK i \in Tags : p = ShownBoth(i)
    BY <1>3
  <2>2. Tail(p) \in ShownPlans /\ Tail(p) # <<>> /\ Tail(p) # ShownUncover
    <3>1. Tail(p) = ShownSecond(i)
      BY <2>1, ShownBothIs
    <3> QED
      BY <3>1, ShownSecondIs
  <2>3. p \in Seq(Linking!Steps) /\ Head(p) \in Linking!Steps /\ Len(p) = 2 /\ p \notin ShownPlain
    BY <2>1, ShownBothIs
  <2>4. \E n \in 1 .. Len(p) : p[n].type \in {"submission", "cover"}
    BY <2>1, ShownBothIs, Zenon
  <2> QED
    BY <2>1, <2>2, <2>3, <2>4
<1>4. CASE \E i \in Tags : p = ShownSecond(i)
  BY <1>4, ShownSecondIs
<1> QED
  BY <1>1, <1>2, <1>3, <1>4 DEF ShownPlans

LEMMA ShownDiffer ==
    ASSUME NEW i \in Tags, NEW j \in Tags
    PROVE  /\ ShownBoth(i) # ShownSecond(j)
           /\ ShownBoth(i) = ShownBoth(j) => i = j
           /\ ShownSecond(i) = ShownSecond(j) => i = j
  BY ShownBothIs, ShownSecondIs

LEMMA ShownUploadsAre ==
    ASSUME Linking!TypeOK, ShownAllPlanned, NEW c \in Calls
    PROVE  Linking!Uploads(c) <=> ShownFiles(call[c])
  BY ShownPlansAre DEF ShownAllPlanned, ShownPlanned, Linking!Uploads, ShownFiles
-----------------------------------------------------------------------------
LEMMA ShownBecomes ==
    ASSUME Linking!TypeOK, NEW c \in Calls, NEW q \in ShownRecord, call' = [call EXCEPT ![c] = q]
    PROVE  ShownBecame(c, q)
  BY ShownTypeParts DEF ShownBecame, ShownElsewhere

LEMMA ShownEnds == ASSUME Linking!TypeOK, NEW c \in Calls, Linking!End(c) PROVE ShownBecame(c, Linking!Idle)
  BY ShownBecomes, ShownIdleIs DEF Linking!End

LEMMA ShownBucketIs ==
    ASSUME ShownTables
    PROVE  /\ Linking!Bucket \in Linking!Copies
           /\ \A t \in Linking!Types : Linking!Bucket[t] = {links[t][n] : n \in Linking!Slots} \ {None}
<1>1. \A t \in Linking!Types : {links[t][n] : n \in Linking!Slots} \ {None} \in SUBSET Tags
  BY DEF ShownTables
<1> QED
  BY <1>1 DEF Linking!Bucket, Linking!Copies

LEMMA ShownBucketStays == ASSUME UNCHANGED links PROVE Linking!Bucket' = Linking!Bucket
  BY DEF Linking!Bucket

LEMMA ShownInitInv == Linking!ConstantsOK /\ Linking!Init => ShownIInv
<1> SUFFICES ASSUME Linking!ConstantsOK, Linking!Init PROVE ShownIInv
  OBVIOUS
<1>1. \A c \in Calls : call[c] = Linking!Idle /\ call[c].at = "idle"
  BY ShownIdleIs DEF Linking!Init, Linking!AllIdle
<1>2. Linking!TypeOK
  BY DEF Linking!ConstantsOK, Linking!Init, Linking!AllIdle, Linking!TypeOK
<1>3. ShownAllPlanned /\ ShownAllCurrent
  BY <1>1 DEF ShownAllPlanned, ShownPlanned, ShownAllCurrent, ShownCurrent
<1>4. \A t \in Linking!Types, n \in Linking!Slots : links[t][n] = None
  BY DEF Linking!Init
<1>5. ShownSingles
  BY <1>1, <1>4 DEF ShownSingles, ShownSingle, ShownWrites
<1>6. ShownMatches(Linking!Bucket)
  <2>1. \A t \in Linking!Types : Linking!Bucket[t] = {}
    BY <1>2, <1>4, ShownBucketIs, ShownTypeParts
  <2> QED
    BY <2>1 DEF ShownMatches, Linking!Types
<1>7. ShownCovers
  BY <1>1, <1>6 DEF Linking!Init, ShownCovers, ShownFiles
<1>8. Linking!PagesShowTheLinks
  BY DEF Linking!Init, Linking!PagesShowTheLinks
<1> QED
  BY <1>2, <1>3, <1>5, <1>7, <1>8 DEF ShownIInv
-----------------------------------------------------------------------------
\* One request moves, and the links stay as they are.
LEMMA ShownPlannedMove ==
    ASSUME ShownIInv, shows' = shows, NEW c \in Calls, NEW q, ShownBecame(c, q), ShownPlanned(q)
    PROVE  ShownAllPlanned'
  BY DEF ShownIInv, ShownAllPlanned, ShownPlanned, ShownBecame, ShownElsewhere

LEMMA ShownSinglesMove ==
    ASSUME ShownIInv, UNCHANGED links, mixed_links \subseteq mixed_links', NEW c \in Calls, NEW q,
           ShownBecame(c, q),
           \A t \in Linking!Types \ mixed_links' : ShownWrites(q, t) =>
               ShownHolds(q, links[t]) /\ \A d \in Calls \ {c} : ~ShownWrites(call[d], t)
    PROVE  ShownSingles'
<1> SUFFICES ASSUME NEW t \in Linking!Types \ mixed_links'
             PROVE  /\ ShownSingle(links[t])
                    /\ \A d, e \in Calls : ShownWrites(call'[d], t) /\ ShownWrites(call'[e], t) => d = e
                    /\ \A d \in Calls : ShownWrites(call'[d], t) /\ ~call'[d].gone => ShownHolds(call'[d], links[t])
  BY DEF ShownSingles, ShownSingle, ShownWrites, ShownHolds
<1> QED
  BY DEF ShownIInv, ShownSingles, ShownBecame, ShownElsewhere

\* A request that has nothing to do with the file, or does the next part of it.
LEMMA ShownCoversMove ==
    ASSUME ShownIInv, UNCHANGED <<shows, links>>, split => split',
           shows = "visual" /\ ~split' => "submission" \notin mixed_links' /\ "cover" \notin mixed_links',
           NEW c \in Calls, NEW q, ShownBecame(c, q),
           shows = "visual" /\ ~split' => (ShownFiles(q) <=> ShownFiles(call[c])) /\ (ShownFiles(q) => ShownProgress(q, Linking!Bucket))
    PROVE  ShownCovers'
<1> SUFFICES ASSUME shows = "visual", ~split'
             PROVE  /\ \A d, e \in Calls : ShownFiles(call'[d]) /\ ShownFiles(call'[e]) => d = e
                    /\ (\A d \in Calls : ~ShownFiles(call'[d])) => ShownMatches(Linking!Bucket)
                    /\ \A d \in Calls : ShownFiles(call'[d]) => ShownProgress(call'[d], Linking!Bucket)
  BY ShownBucketStays DEF ShownCovers, ShownFiles, ShownProgress, ShownMatches
<1> QED
  BY DEF ShownIInv, ShownCovers, ShownBecame, ShownElsewhere

LEMMA ShownCurrentMove ==
    ASSUME ShownIInv, UNCHANGED links, NEW c \in Calls, NEW q, ShownBecame(c, q), ShownCurrent(q)
    PROVE  ShownAllCurrent'
  BY ShownBucketStays DEF ShownIInv, ShownAllCurrent, ShownCurrent, ShownBecame, ShownElsewhere

LEMMA ShownPagesMove ==
    ASSUME ShownIInv, UNCHANGED <<links, cached_links>>, outdated_links => outdated_links', NEW c \in Calls,
           NEW q, ShownBecame(c, q),
           \/ call[c].at \notin {"snapshot", "refresh"} \/ q.at \in {"snapshot", "refresh"}
           \/ outdated_links' \/ cached_links = None
    PROVE  Linking!PagesShowTheLinks'
  BY ShownBucketStays DEF ShownIInv, Linking!PagesShowTheLinks, Linking!Refreshing, ShownBecame,
     ShownElsewhere

LEMMA ShownMoves ==
    ASSUME ShownIInv, ShownTables', UNCHANGED <<shows, links, cached_links, outdated_links, mixed_links>>,
           split => split',
           NEW c \in Calls, NEW q \in ShownRecord, ShownBecame(c, q), ShownPlanned(q), q.at # "write", ShownCurrent(q),
           shows = "visual" /\ ~split' => (ShownFiles(q) <=> ShownFiles(call[c])) /\ (ShownFiles(q) => ShownProgress(q, Linking!Bucket)),
           call[c].at \notin {"snapshot", "refresh"} \/ q.at \in {"snapshot", "refresh"}
    PROVE  ShownIInv'
<1>1. Linking!TypeOK'
  BY ShownTypeParts DEF ShownBecame
<1>2. ShownAllPlanned'
  BY ShownPlannedMove
<1>3. ShownSingles'
  BY ShownSinglesMove DEF ShownWrites
<1>4. ShownCovers'
  BY ShownCoversMove DEF ShownIInv, ShownCovers
<1>5. ShownAllCurrent' /\ Linking!PagesShowTheLinks'
  BY ShownCurrentMove, ShownPagesMove
<1> QED
  BY <1>1, <1>2, <1>3, <1>4, <1>5 DEF ShownIInv
-----------------------------------------------------------------------------
\* A request begins.
LEMMA ShownBeginInv ==
    ASSUME Linking!ConstantsOK, ShownIInv, NEW c \in Calls, NEW step \in {"next", "fill"},
           NEW todo \in ShownPlans, NEW copy \in Linking!Copies \cup {None},
           Linking!Begin(c, step, todo, copy), UNCHANGED <<shows, links, cached_links, outdated_links, mixed_links>>,
           split' \in BOOLEAN, split => split',
           step = "fill" => todo \in ShownPlain /\ copy = Linking!Bucket,
           step = "next" => todo # <<>>,
           shows = "visual" => todo # ShownUncover,
           todo \notin ShownPlain /\ shows = "visual" =>
               /\ \E i \in Tags : todo = ShownBoth(i)
               /\ split' = (split \/ \E d \in Calls : Linking!Uploads(d))
    PROVE  ShownIInv'
<1> DEFINE p == [at |-> step, todo |-> todo, slot |-> 0, gone |-> FALSE, copy |-> copy, late |-> FALSE]
<1>1. call[c] = Linking!Idle /\ call' = [call EXCEPT ![c] = p]
  BY DEF Linking!Begin, Linking!Start
<1>2. p \in ShownRecord /\ p # Linking!Idle /\ p.at = step /\ p.todo = todo /\ p.copy = copy
  BY ShownPlansAre, ShownIdleIs DEF ShownRecord, Linking!CallRecords
<1> HIDE DEF p
<1>3. PICK q \in ShownRecord : q = p /\ q # Linking!Idle /\ q.at = step /\ q.todo = todo /\ q.copy = copy
  BY <1>2
<1>4. ShownBecame(c, q)
  BY <1>1, <1>3, ShownBecomes DEF ShownIInv
<1>5. ShownTables'
  BY ShownTypeParts DEF ShownIInv, ShownTables
<1>6. ShownPlanned(q) /\ ShownCurrent(q)
  BY <1>3 DEF ShownPlanned, ShownCurrent
<1>7. CASE ~(shows = "visual" /\ ~split' /\ ShownFiles(q))
  <2>1. shows = "visual" /\ ~split' => (ShownFiles(q) <=> ShownFiles(call[c])) /\ (ShownFiles(q) => ShownProgress(q, Linking!Bucket))
    BY <1>1, <1>7 DEF ShownFiles
  <2> QED
    BY <1>1, <1>3, <1>4, <1>5, <1>6, <2>1, ShownIdleIs, ShownMoves
<1>8. CASE shows = "visual" /\ ~split' /\ ShownFiles(q)
  <2>1. PICK i \in Tags : todo = ShownBoth(i)
    BY <1>3, <1>8 DEF ShownFiles
  <2>2. \A d \in Calls : ~ShownFiles(call[d])
    BY <1>3, <1>8, ShownUploadsAre DEF ShownIInv, ShownFiles
  <2>3. ShownMatches(Linking!Bucket)
    BY <1>8, <2>2 DEF ShownIInv, ShownCovers
  <2>4. ShownProgress(q, Linking!Bucket)
    BY <1>3, <2>1, <2>3, ShownDiffer, ShownIdleIs DEF ShownProgress
  <2>5. ShownCovers'
    <3> SUFFICES /\ \A d, e \in Calls : ShownFiles(call'[d]) /\ ShownFiles(call'[e]) => d = e
                 /\ (\A d \in Calls : ~ShownFiles(call'[d])) => ShownMatches(Linking!Bucket)
                 /\ \A d \in Calls : ShownFiles(call'[d]) => ShownProgress(call'[d], Linking!Bucket)
      BY <1>8, ShownBucketStays DEF ShownIInv, ShownCovers, ShownFiles, ShownProgress, ShownMatches
    <3> QED
      BY <1>4, <2>2, <2>3, <2>4 DEF ShownBecame, ShownElsewhere
  <2>6. Linking!TypeOK' /\ ShownAllPlanned'
    BY <1>4, <1>5, <1>6, ShownTypeParts, ShownPlannedMove DEF ShownBecame
  <2>7. ShownSingles'
    BY <1>3, <1>4, ShownSinglesMove DEF ShownWrites
  <2>8. ShownAllCurrent' /\ Linking!PagesShowTheLinks'
    BY <1>1, <1>4, <1>6, ShownIdleIs, ShownCurrentMove, ShownPagesMove
  <2> QED
    BY <2>5, <2>6, <2>7, <2>8 DEF ShownIInv
<1> QED
  BY <1>7, <1>8

\* The requests that begin with a link to replace or to clear.
LEMMA ShownReplaceSourceInv ==
    ASSUME Linking!ConstantsOK, ShownIInv, NEW c \in Calls, NEW i \in Tags, Linking!ReplaceSource(c, i)
    PROVE  ShownIInv'
<1>1. <<Linking!Make("source", i)>> \in ShownPlain
  BY DEF ShownPlain
<1>2. <<Linking!Make("source", i)>> # <<>> /\ <<Linking!Make("source", i)>> \in ShownPlans
  BY <1>1, ShownPlainIs
<1>3. Linking!Begin(c, "next", <<Linking!Make("source", i)>>, None) /\ UNCHANGED <<shows, links, cached_links, outdated_links, mixed_links, split>>
  BY DEF Linking!ReplaceSource
<1> QED
  BY <1>1, <1>2, <1>3, ShownUncoverIs, ShownBeginInv, ShownTypeParts DEF ShownIInv, ShownTables

LEMMA ShownReuploadCoverInv ==
    ASSUME Linking!ConstantsOK, ShownIInv, NEW c \in Calls, NEW i \in Tags \cup {None},
           Linking!ReuploadCover(c, i)
    PROVE  ShownIInv'
<1>1. PICK todo \in {ShownUncover} \cup {ShownSecond(j) : j \in Tags} : Linking!Begin(c, "next", todo, None)
  BY DEF Linking!ReuploadCover, ShownUncover, ShownSecond
<1>2. shows = "other" /\ UNCHANGED <<shows, links, cached_links, outdated_links, mixed_links, split>>
  BY DEF Linking!ReuploadCover
<1>3. todo \in ShownPlans /\ todo # <<>>
  BY <1>1, ShownUncoverIs, ShownSecondIs
<1> QED
  BY <1>1, <1>2, <1>3, ShownBeginInv, ShownTypeParts DEF ShownIInv, ShownTables

LEMMA ShownRemoveInv ==
    ASSUME Linking!ConstantsOK, ShownIInv, NEW c \in Calls, Linking!Remove(c)
    PROVE  ShownIInv'
<1>1. PICK t \in {"avatar", "custom"} : Linking!Begin(c, "next", <<Linking!Clear(t)>>, None)
  BY DEF Linking!Remove
<1>2. UNCHANGED <<shows, links, cached_links, outdated_links, mixed_links, split>>
  BY DEF Linking!Remove
<1>3. <<Linking!Clear(t)>> \in ShownPlain
  BY DEF ShownPlain
<1>4. <<Linking!Clear(t)>> # <<>> /\ <<Linking!Clear(t)>> \in ShownPlans
  BY <1>3, ShownPlainIs
<1> QED
  BY <1>1, <1>2, <1>3, <1>4, ShownUncoverIs, ShownBeginInv, ShownTypeParts DEF ShownIInv, ShownTables

LEMMA ShownReuploadInv ==
    ASSUME Linking!ConstantsOK, ShownIInv, NEW c \in Calls, NEW i \in Tags, Linking!Reupload(c, i)
    PROVE  ShownIInv'
<1>1. /\ shows = "visual" /\ Linking!Begin(c, "next", ShownBoth(i), None) /\ split' = (split \/ \E d \in Calls : Linking!Uploads(d))
      /\ UNCHANGED <<shows, links, cached_links, outdated_links, mixed_links>>
  BY DEF Linking!Reupload, ShownBoth
<1>2. split' \in BOOLEAN /\ (split => split')
  BY <1>1, ShownTypeParts DEF ShownIInv, ShownTables
<1>3. ShownBoth(i) \in ShownPlans /\ ShownBoth(i) # <<>> /\ ShownBoth(i) # ShownUncover
  BY ShownBothIs
<1> QED
  BY <1>1, <1>2, <1>3, ShownBeginInv

\* Those that begin with the copy, and may have to make it.
LEMMA ShownCropInv ==
    ASSUME Linking!ConstantsOK, ShownIInv, NEW c \in Calls, NEW todo \in ShownPlain, todo # <<>>,
           Linking!Crop(c, todo)
    PROVE  ShownIInv'
<1>1. UNCHANGED <<shows, links, cached_links, outdated_links, mixed_links, split>>
  BY DEF Linking!Crop
<1>2. Linking!Begin(c, "fill", todo, Linking!Bucket) \/ Linking!Begin(c, "next", todo, None)
  BY DEF Linking!Crop
<1>3. todo \in ShownPlans /\ todo # ShownUncover /\ Linking!Bucket \in Linking!Copies
  BY ShownPlainIs, ShownUncoverIs, ShownBucketIs, ShownTypeParts DEF ShownIInv
<1>4. split' \in BOOLEAN
  BY <1>1, ShownTypeParts DEF ShownIInv, ShownTables
<1>5. CASE Linking!Begin(c, "fill", todo, Linking!Bucket)
  BY <1>1, <1>3, <1>4, <1>5, ShownBeginInv
<1>6. CASE Linking!Begin(c, "next", todo, None)
  BY <1>1, <1>3, <1>4, <1>6, ShownBeginInv
<1> QED
  BY <1>2, <1>5, <1>6

LEMMA ShownCropsInv ==
    ASSUME Linking!ConstantsOK, ShownIInv, NEW c \in Calls, NEW i \in Tags, Linking!CropAvatar(c,
           i) \/ Linking!CropThumbnail(c, i)
    PROVE  ShownIInv'
<1>1. PICK todo \in {<<Linking!Make("avatar", i), Linking!Clear("source")>>, <<Linking!Make("custom", i)>>} : Linking!Crop(c, todo)
  BY DEF Linking!CropAvatar, Linking!CropThumbnail
<1>2. todo \in ShownPlain /\ todo # <<>>
  BY <1>1 DEF ShownPlain
<1> QED
  BY <1>1, <1>2, ShownCropInv

LEMMA ShownVisitInv ==
    ASSUME Linking!ConstantsOK, ShownIInv, NEW c \in Calls, Linking!Visit(c)
    PROVE  ShownIInv'
<1>1. Linking!Begin(c, "fill", <<>>, Linking!Bucket) /\ UNCHANGED <<shows, links, cached_links, outdated_links, mixed_links, split>>
  BY DEF Linking!Visit
<1>2. <<>> \in ShownPlain
  BY DEF ShownPlain
<1>3. <<>> \in ShownPlans /\ <<>> # ShownUncover /\ Linking!Bucket \in Linking!Copies /\ split' \in BOOLEAN
  BY <1>1, <1>2, ShownPlainIs, ShownUncoverIs, ShownBucketIs, ShownTypeParts DEF ShownIInv, ShownTables
<1> QED
  BY <1>1, <1>2, <1>3, ShownBeginInv
-----------------------------------------------------------------------------
\* A request in progress has a plan, and a step of it to do but while it fills.
LEMMA ShownUnderway ==
    ASSUME ShownIInv, NEW c \in Calls, call[c].at # "idle"
    PROVE  /\ call[c] \in Linking!CallRecords /\ call[c] # Linking!Idle /\ call[c].todo \in ShownPlans /\ ShownPlanned(call[c])
           /\ call[c].at # "fill" => Linking!Doing(c) \in Linking!Steps /\ Len(call[c].todo) \in {1, 2}
<1>1. call[c] \in ShownRecord /\ call[c] # Linking!Idle
  BY ShownIdleIs, ShownTypeParts DEF ShownIInv
<1>2. ShownPlanned(call[c]) /\ call[c].todo \in ShownPlans
  BY <1>1 DEF ShownIInv, ShownAllPlanned, ShownPlanned
<1> QED
  BY <1>1, <1>2, ShownFields, ShownPlansAre DEF ShownPlanned, Linking!Doing

\* A request ends, or goes on with the next link.
LEMMA ShownFillInv ==
    ASSUME Linking!ConstantsOK, ShownIInv, NEW c \in Calls, Linking!Fill(c)
    PROVE  ShownIInv'
<1> DEFINE r == [call[c] EXCEPT !.at = "next", !.copy = None, !.late = FALSE]
           p == IF call[c].todo = <<>> \/ ~Linking!HasSource(call[c].copy) THEN Linking!Idle ELSE r
<1>1. /\ Linking!At(c, "fill") /\ cached_links' = call[c].copy /\ outdated_links' = call[c].late
      /\ call' = [call EXCEPT ![c] = p] /\ UNCHANGED <<shows, links, mixed_links, split>>
  <2>1. call' = [call EXCEPT ![c] = IF @.todo = <<>> \/ ~Linking!HasSource(@.copy) THEN Linking!Idle
                                    ELSE [@ EXCEPT !.at = "next", !.copy = None, !.late = FALSE]]
    BY DEF Linking!Fill
  <2> QED
    BY <2>1, ShownTypeParts DEF Linking!Fill, ShownIInv
<1>2. call[c] \in Linking!CallRecords /\ call[c].todo \in ShownPlain /\ ShownPlanned(call[c])
  BY <1>1, ShownUnderway DEF Linking!At, ShownPlanned
<1>3. r \in ShownRecord /\ r.at = "next" /\ r.todo = call[c].todo
  BY <1>2 DEF Linking!CallRecords, ShownRecord
<1> HIDE DEF r
<1>4. p \in ShownRecord /\ (p = Linking!Idle \/ (p.at = "next" /\ p.todo = call[c].todo /\ p.todo # <<>>))
  BY <1>3, ShownIdleIs
<1> HIDE DEF p
<1>5. PICK q \in ShownRecord : q = p /\ (q = Linking!Idle \/ (q.at = "next" /\ q.todo = call[c].todo /\ q.todo # <<>>))
  BY <1>4
<1>6. ShownBecame(c, q) /\ ~ShownFiles(q) /\ ~ShownFiles(call[c])
  BY <1>1, <1>2, <1>5, ShownBecomes DEF ShownIInv, ShownFiles
<1>7. cached_links' \in Linking!Copies \cup {None} /\ outdated_links' \in BOOLEAN /\ (outdated_links' \/ cached_links' = Linking!Bucket)
  <2>1. call[c].copy \in Linking!Copies \cup {None} /\ call[c].late \in BOOLEAN
    BY <1>2, ShownIdleIs, ShownFields DEF ShownRecord
  <2> QED
    BY <1>1, <2>1 DEF ShownIInv, ShownAllCurrent, ShownCurrent, Linking!At
<1>8. Linking!TypeOK'
  BY <1>1, <1>6, <1>7, ShownTypeParts DEF ShownIInv, ShownTables, ShownBecame
<1>9. ShownAllPlanned'
  <2>1. ShownPlanned(q)
    BY <1>2, <1>5, ShownIdleIs, ShownUncoverIs, ShownPlainIs DEF ShownPlanned
  <2> QED
    BY <1>1, <1>6, <2>1, ShownPlannedMove
<1>10. q.at # "write" /\ ShownCurrent(q)
  BY <1>5, ShownIdleIs DEF ShownCurrent
<1>11. ShownSingles' /\ ShownAllCurrent'
  BY <1>1, <1>6, <1>10, ShownSinglesMove, ShownCurrentMove DEF ShownWrites
<1>12. ShownCovers'
  BY <1>1, <1>6, ShownCoversMove DEF ShownIInv, ShownCovers
<1>13. Linking!PagesShowTheLinks'
  BY <1>1, <1>7, ShownBucketStays DEF Linking!PagesShowTheLinks
<1> QED
  BY <1>8, <1>9, <1>11, <1>12, <1>13 DEF ShownIInv

\* The row of a type is read, to be replaced.
LEMMA ShownReadLinkInv ==
    ASSUME Linking!ConstantsOK, ShownIInv, NEW c \in Calls, Linking!ReadLink(c)
    PROVE  ShownIInv'
<1>1. /\ Linking!At(c, "next") /\ Linking!Doing(c).do = "make" /\ UNCHANGED <<shows, links, cached_links, outdated_links, split>>
  BY DEF Linking!ReadLink
<1>2. /\ call[c] \in Linking!CallRecords /\ call[c] # Linking!Idle /\ call[c].todo \in ShownPlans /\ ShownPlanned(call[c])
      /\ Linking!Doing(c) \in Linking!Steps
  BY <1>1, ShownUnderway DEF Linking!At
<1>3. PICK t \in Linking!Types : t = Linking!Doing(c).type
  BY <1>2, ShownStepsAre
<1> DEFINE rows == {n \in Linking!Slots : links[t][n] # None}
<1>4. /\ mixed_links' = IF \E d \in Calls : Linking!At(d, "write") /\ Linking!Doing(d).type = t THEN mixed_links \cup {t} ELSE mixed_links
      /\ \E n \in IF rows = {} THEN {0} ELSE rows :
            call' = [call EXCEPT ![c].at = "write", ![c].slot = n, ![c].gone = FALSE]
  BY <1>3 DEF Linking!ReadLink
<1>5. PICK n \in IF rows = {} THEN {0} ELSE rows :
          call' = [call EXCEPT ![c].at = "write", ![c].slot = n, ![c].gone = FALSE]
  BY <1>4
<1> DEFINE p == [call[c] EXCEPT !.at = "write", !.slot = n, !.gone = FALSE]
<1>6. call' = [call EXCEPT ![c] = p]
  BY <1>5, ShownTypeParts DEF ShownIInv
<1>7. n \in Linking!Slots \cup {0} /\ (n = 0 => \A m \in Linking!Slots : links[t][m] = None) /\ (n # 0 => links[t][n] # None)
  BY DEF Linking!Slots
<1>8. p \in Linking!CallRecords /\ p.at = "write" /\ p.todo = call[c].todo /\ p.slot = n
  BY <1>2, <1>7 DEF Linking!CallRecords
<1> HIDE DEF p
<1>9. PICK q \in ShownRecord : q # Linking!Idle /\ q = p /\ q.at = "write" /\ q.todo = call[c].todo /\ q.slot = n
  BY <1>8, ShownIdleIs DEF ShownRecord
<1>10. ShownBecame(c, q)
  BY <1>6, <1>9, ShownBecomes DEF ShownIInv
<1>11. ShownPlanned(q) /\ ShownCurrent(q)
  BY <1>1, <1>2, <1>9 DEF ShownPlanned, ShownCurrent, Linking!Doing, Linking!At
<1>12. mixed_links \subseteq mixed_links' /\ mixed_links' \subseteq Linking!Types
  BY <1>4, ShownTypeParts DEF ShownIInv, ShownTables
<1>13. Linking!TypeOK' /\ ShownAllPlanned'
  BY <1>1, <1>10, <1>11, <1>12, ShownTypeParts, ShownPlannedMove DEF ShownIInv, ShownTables, ShownBecame
<1>14. ShownSingles'
  <2> SUFFICES ASSUME NEW u \in Linking!Types \ mixed_links', ShownWrites(q, u)
               PROVE  ShownHolds(q, links[u]) /\ \A d \in Calls \ {c} : ~ShownWrites(call[d], u)
    BY <1>1, <1>10, <1>12, ShownSinglesMove
  <2>1. u = t
    BY <1>3, <1>9 DEF ShownWrites, Linking!Doing
  <2>2. ShownHolds(q, links[u])
    BY <1>7, <1>9, <2>1 DEF ShownHolds, Linking!Slots
  <2> QED
    BY <1>4, <2>1, <2>2 DEF ShownWrites, Linking!At, Linking!Doing
<1>15. ShownCovers'
  <2> SUFFICES ASSUME shows = "visual", ~split
               PROVE  /\ "submission" \notin mixed_links' /\ "cover" \notin mixed_links'
                      /\ ShownFiles(q) <=> ShownFiles(call[c])
                      /\ ShownFiles(q) => ShownProgress(q, Linking!Bucket)
    BY <1>1, <1>10, ShownCoversMove DEF ShownFiles
  <2>1. ShownFiles(q) <=> ShownFiles(call[c])
    BY <1>2, <1>9 DEF ShownFiles
  <2>2. ShownFiles(q) => ShownProgress(q, Linking!Bucket)
    BY <1>1, <1>9, <2>1 DEF ShownIInv, ShownCovers, ShownProgress, Linking!At
  <2>3. t \in {"submission", "cover"} => ShownFiles(call[c])
    BY <1>1, <1>2, <1>3, ShownPlainIs DEF ShownFiles, Linking!Doing, ShownPlanned, Linking!At
  <2>4. ASSUME t \in {"submission", "cover"}, NEW d \in Calls, Linking!At(d, "write"),
               Linking!Doing(d).type = t PROVE FALSE
    <3>1. call[d] # Linking!Idle /\ ShownPlanned(call[d]) /\ call[d].at # "fill" /\ call[d].at = "write"
      BY <2>4, ShownUnderway DEF Linking!At
    <3>2. ShownFiles(call[d])
      BY <2>4, <3>1, ShownPlainIs DEF ShownFiles, Linking!Doing, ShownPlanned
    <3> QED
      BY <1>1, <2>3, <2>4, <3>1, <3>2 DEF ShownIInv, ShownCovers, Linking!At
  <2>5. t \in {"submission", "cover"} => mixed_links' = mixed_links
    BY <1>4, <2>4
  <2>6. "submission" \notin mixed_links' /\ "cover" \notin mixed_links'
    BY <1>4, <2>5 DEF ShownIInv, ShownCovers
  <2> QED
    BY <2>1, <2>2, <2>6
<1>16. ShownAllCurrent' /\ Linking!PagesShowTheLinks'
  BY <1>1, <1>10, <1>11, ShownCurrentMove, ShownPagesMove DEF Linking!At
<1> QED
  BY <1>13, <1>14, <1>15, <1>16 DEF ShownIInv

LEMMA ShownSnapshotInv ==
    ASSUME Linking!ConstantsOK, ShownIInv, NEW c \in Calls, Linking!Snapshot(c)
    PROVE  ShownIInv'
<1> DEFINE p == [call[c] EXCEPT !.at = "refresh", !.copy = Linking!Bucket, !.late = FALSE]
<1>1. /\ Linking!At(c, "snapshot") /\ call' = [call EXCEPT ![c].at = "refresh", ![c].copy = Linking!Bucket, ![c].late = FALSE]
      /\ UNCHANGED <<shows, links, cached_links, outdated_links, mixed_links, split>>
  BY DEF Linking!Snapshot
<1>2. call[c] \in Linking!CallRecords /\ call[c] # Linking!Idle /\ ShownPlanned(call[c])
  BY <1>1, ShownUnderway DEF Linking!At
<1>3. Linking!Bucket \in Linking!Copies
  BY ShownBucketIs, ShownTypeParts DEF ShownIInv
<1>4. p \in Linking!CallRecords /\ p.at = "refresh" /\ p.todo = call[c].todo /\ p.copy = Linking!Bucket
  BY <1>2, <1>3 DEF Linking!CallRecords
<1>5. call' = [call EXCEPT ![c] = p]
  BY <1>1, ShownTypeParts DEF ShownIInv
<1> HIDE DEF p
<1>6. PICK q \in ShownRecord : q = p /\ q # Linking!Idle /\ q.at = "refresh" /\ q.todo = call[c].todo /\ q.copy = Linking!Bucket
  BY <1>4, ShownIdleIs DEF ShownRecord
<1>7. ShownBecame(c, q)
  BY <1>5, <1>6, ShownBecomes DEF ShownIInv
<1>8. ShownPlanned(q) /\ ShownCurrent(q) /\ (ShownFiles(q) <=> ShownFiles(call[c]))
  BY <1>1, <1>2, <1>6 DEF ShownPlanned, ShownCurrent, ShownFiles, Linking!At
<1>9. shows = "visual" /\ ~split /\ ShownFiles(q) => ShownProgress(q, Linking!Bucket)
  BY <1>1, <1>6, <1>8 DEF ShownIInv, ShownCovers, ShownProgress, Linking!At
<1>10. ShownTables'
  BY <1>1, ShownTypeParts DEF ShownIInv, ShownTables
<1> QED
  BY <1>1, <1>6, <1>7, <1>8, <1>9, <1>10, ShownMoves

\* The copy is stored, and the next link comes, or the request ends.
LEMMA ShownRefreshInv ==
    ASSUME Linking!ConstantsOK, ShownIInv, NEW c \in Calls, Linking!Refresh(c)
    PROVE  ShownIInv'
<1> DEFINE r == [call[c] EXCEPT !.at = "next", !.todo = Tail(call[c].todo), !.copy = None, !.late = FALSE]
           p == IF Len(call[c].todo) = 1 THEN Linking!Idle ELSE r
<1>1. /\ Linking!At(c, "refresh") /\ cached_links' = call[c].copy /\ outdated_links' = call[c].late
      /\ call' = [call EXCEPT ![c] = p] /\ UNCHANGED <<shows, links, mixed_links, split>>
  <2>1. call' = [call EXCEPT ![c] = IF Len(call[c].todo) = 1 THEN Linking!Idle
            ELSE [@ EXCEPT !.at = "next", !.todo = Tail(call[c].todo), !.copy = None, !.late = FALSE]]
    BY DEF Linking!Refresh, Linking!Onward
  <2> QED
    BY <2>1, ShownTypeParts DEF Linking!Refresh, ShownIInv
<1>2. /\ call[c] \in Linking!CallRecords /\ call[c] # Linking!Idle /\ call[c].todo \in ShownPlans /\ ShownPlanned(call[c])
      /\ Len(call[c].todo) \in {1, 2}
  BY <1>1, ShownUnderway DEF Linking!At
<1>3. Len(call[c].todo) = 2 => Tail(call[c].todo) \in ShownPlans /\ Tail(call[c].todo) # <<>> /\ Tail(call[c].todo) # ShownUncover
  BY <1>2, ShownPlansAre
<1>4. Len(call[c].todo) = 2 => r \in Linking!CallRecords /\ r.at = "next" /\ r.todo = Tail(call[c].todo)
  <2> SUFFICES ASSUME Len(call[c].todo) = 2 PROVE r \in Linking!CallRecords /\ r.at = "next" /\ r.todo = Tail(call[c].todo)
    OBVIOUS
  <2>1. Tail(call[c].todo) \in Seq(Linking!Steps)
    BY <1>3, ShownPlansAre
  <2> QED
    BY <1>2, <2>1 DEF Linking!CallRecords
<1> HIDE DEF r
<1>5. /\ p \in ShownRecord
      /\ \/ Len(call[c].todo) = 1 /\ p = Linking!Idle
         \/ Len(call[c].todo) = 2 /\ p # Linking!Idle /\ p.at = "next" /\ p.todo = Tail(call[c].todo)
  BY <1>2, <1>4, ShownIdleIs DEF ShownRecord
<1> HIDE DEF p
<1>6. PICK q \in ShownRecord :
          /\ q = p
          /\ \/ Len(call[c].todo) = 1 /\ q = Linking!Idle
             \/ Len(call[c].todo) = 2 /\ q # Linking!Idle /\ q.at = "next" /\ q.todo = Tail(call[c].todo)
  BY <1>5
<1>7. ShownBecame(c, q)
  BY <1>1, <1>6, ShownBecomes DEF ShownIInv
<1>8. cached_links' \in Linking!Copies \cup {None} /\ outdated_links' \in BOOLEAN /\ (outdated_links' \/ cached_links' = Linking!Bucket)
  <2>1. call[c].copy \in Linking!Copies \cup {None} /\ call[c].late \in BOOLEAN
    BY <1>2, ShownFields DEF ShownRecord
  <2> QED
    BY <1>1, <2>1 DEF ShownIInv, ShownAllCurrent, ShownCurrent, Linking!At
<1>9. Linking!TypeOK'
  BY <1>1, <1>7, <1>8, ShownTypeParts DEF ShownIInv, ShownTables, ShownBecame
<1>10. ShownPlanned(q) /\ q.at # "write" /\ ShownCurrent(q)
  BY <1>3, <1>6, ShownIdleIs DEF ShownPlanned, ShownCurrent
<1>11. ShownAllPlanned' /\ ShownSingles' /\ ShownAllCurrent'
  BY <1>1, <1>7, <1>10, ShownPlannedMove, ShownSinglesMove, ShownCurrentMove DEF ShownWrites
<1>12. Linking!PagesShowTheLinks'
  BY <1>1, <1>8, ShownBucketStays DEF Linking!PagesShowTheLinks
<1>13. ShownCovers'
  <2> SUFFICES ASSUME shows = "visual", ~split
               PROVE  /\ \A d, e \in Calls : ShownFiles(call'[d]) /\ ShownFiles(call'[e]) => d = e
                      /\ (\A d \in Calls : ~ShownFiles(call'[d])) => ShownMatches(Linking!Bucket)
                      /\ \A d \in Calls : ShownFiles(call'[d]) => ShownProgress(call'[d], Linking!Bucket)
    BY <1>1, ShownBucketStays DEF ShownIInv, ShownCovers, ShownFiles, ShownProgress, ShownMatches
  <2>1. CASE call[c].todo \in ShownPlain
    <3>1. ~ShownFiles(call[c]) /\ ~ShownFiles(q)
      BY <1>6, <2>1, ShownPlainIs DEF ShownFiles
    <3> QED
      BY <1>7, <3>1 DEF ShownIInv, ShownCovers, ShownBecame, ShownElsewhere
  <2>2. CASE \E i \in Tags : call[c].todo = ShownBoth(i)
    <3>1. PICK i \in Tags : call[c].todo = ShownBoth(i)
      BY <2>2
    <3>2. ShownFiles(call[c]) /\ q # Linking!Idle /\ q.at = "next" /\ q.todo = ShownSecond(i) /\ ShownFiles(q)
      BY <1>2, <1>6, <3>1, ShownBothIs, ShownSecondIs DEF ShownFiles
    <3>3. Linking!Bucket["submission"] = {i}
      BY <1>1, <3>1, <3>2 DEF ShownIInv, ShownCovers, ShownProgress, Linking!At
    <3>4. ShownProgress(q, Linking!Bucket)
      BY <3>2, <3>3, ShownDiffer DEF ShownProgress
    <3> QED
      BY <1>7, <3>2, <3>4 DEF ShownIInv, ShownCovers, ShownBecame, ShownElsewhere
  <2>3. CASE \E i \in Tags : call[c].todo = ShownSecond(i)
    <3>1. PICK i \in Tags : call[c].todo = ShownSecond(i)
      BY <2>3
    <3>2. ShownFiles(call[c]) /\ ~ShownFiles(q)
      <4>1. Len(call[c].todo) = 1 /\ call[c].todo \notin ShownPlain
        BY <3>1, ShownSecondIs
      <4> QED
        BY <1>2, <1>6, <4>1 DEF ShownFiles
    <3>3. Linking!Bucket["submission"] = {i} /\ Linking!Bucket["cover"] = {i}
      BY <1>1, <3>1, <3>2 DEF ShownIInv, ShownCovers, ShownProgress, Linking!At
    <3> QED
      BY <1>7, <3>2, <3>3 DEF ShownIInv, ShownCovers, ShownBecame, ShownElsewhere, ShownMatches
  <2> QED
    BY <1>2, <2>1, <2>2, <2>3, ShownPlansAre DEF ShownPlanned
<1> QED
  BY <1>9, <1>11, <1>12, <1>13 DEF ShownIInv

LEMMA ShownEvictInv ==
    ASSUME Linking!ConstantsOK, ShownIInv, Linking!Evict
    PROVE  ShownIInv'
<1>1. cached_links' = None /\ outdated_links' = FALSE /\ UNCHANGED <<shows, links, call, mixed_links, split>>
  BY DEF Linking!Evict
<1>2. Linking!TypeOK'
  BY <1>1, ShownTypeParts DEF ShownIInv, ShownTables
<1>3. ShownAllPlanned' /\ ShownSingles'
  BY <1>1 DEF ShownIInv, ShownAllPlanned, ShownPlanned, ShownSingles, ShownSingle, ShownWrites, ShownHolds
<1>4. ShownCovers' /\ ShownAllCurrent'
  BY <1>1, ShownBucketStays DEF ShownIInv, ShownCovers, ShownFiles, ShownProgress, ShownMatches,
     ShownAllCurrent, ShownCurrent
<1>5. Linking!PagesShowTheLinks'
  BY <1>1 DEF Linking!PagesShowTheLinks
<1> QED
  BY <1>2, <1>3, <1>4, <1>5 DEF ShownIInv

LEMMA ShownEndsInv ==
    ASSUME Linking!ConstantsOK, ShownIInv, NEW c \in Calls, Linking!End(c),
           split' = (split \/ Linking!Uploads(c)),
           UNCHANGED <<shows, links, cached_links, mixed_links>>, outdated_links' \in BOOLEAN, outdated_links => outdated_links',
           call[c].at \in {"snapshot", "refresh"} => outdated_links' \/ cached_links = None
    PROVE  ShownIInv'
<1>1. ShownBecame(c, Linking!Idle)
  BY ShownEnds DEF ShownIInv
<1>2. Linking!TypeOK'
  BY <1>1, ShownTypeParts DEF ShownIInv, ShownTables, ShownBecame
<1>3. ShownAllPlanned' /\ ShownSingles' /\ ShownAllCurrent'
  BY <1>1, ShownIdleIs, ShownPlannedMove, ShownSinglesMove, ShownCurrentMove DEF ShownPlanned,
     ShownWrites, ShownCurrent
<1>4. ShownCovers'
  <2>1. ~split' => ~ShownFiles(call[c])
    BY ShownUploadsAre DEF ShownIInv
  <2> QED
    BY <1>1, <2>1, ShownCoversMove DEF ShownIInv, ShownCovers, ShownFiles
<1>5. Linking!PagesShowTheLinks'
  BY <1>1, ShownPagesMove
<1> QED
  BY <1>2, <1>3, <1>4, <1>5 DEF ShownIInv

LEMMA ShownCutShortInv ==
    ASSUME Linking!ConstantsOK, ShownIInv, NEW c \in Calls, Linking!CutShort(c)
    PROVE  ShownIInv'
<1>1. /\ Linking!End(c) /\ split' = (split \/ Linking!Uploads(c)) /\ UNCHANGED <<shows, links, cached_links, mixed_links>>
      /\ outdated_links' = (outdated_links \/ (cached_links # None /\ call[c].at \in {"snapshot", "refresh"}))
  BY DEF Linking!CutShort
<1>2. outdated_links' \in BOOLEAN
  BY <1>1, ShownTypeParts DEF ShownIInv, ShownTables
<1> QED
  BY <1>1, <1>2, ShownEndsInv
-----------------------------------------------------------------------------
LEMMA ShownOthersAre ==
    ASSUME ShownIInv, NEW d \in Calls, NEW t \in Linking!Types, NEW gone \in BOOLEAN
    PROVE  /\ ShownOther(d, t, gone) \in ShownRecord /\ (ShownOther(d, t, gone) = Linking!Idle <=> call[d] = Linking!Idle)
           /\ ShownOther(d, t, gone).at = call[d].at
           /\ call[d] # Linking!Idle => ShownOther(d, t, gone).todo = call[d].todo
           /\ call[d].at = "write" =>
                  /\ ShownOther(d, t, gone).slot = call[d].slot
                  /\ ~ShownOther(d, t, gone).gone => ~call[d].gone /\ ~(gone /\ Linking!Doing(d).type = t /\ call[d].slot # 0)
           /\ call[d].at \in {"fill", "refresh"} => ShownOther(d, t, gone).late
<1>1. CASE call[d].at \in {"fill", "refresh"}
  <2> DEFINE p == [call[d] EXCEPT !.late = TRUE]
  <2>1. call[d] \in Linking!CallRecords /\ call[d] # Linking!Idle
    BY <1>1, ShownUnderway
  <2>2. p \in Linking!CallRecords /\ p.at = call[d].at /\ p.todo = call[d].todo /\ p.late
    BY <2>1 DEF Linking!CallRecords
  <2>3. ShownOther(d, t, gone) = p
    BY <1>1 DEF ShownOther
  <2> HIDE DEF p
  <2> QED
    BY <1>1, <2>1, <2>2, <2>3, ShownIdleIs DEF ShownRecord
<1>2. CASE Linking!At(d, "write") /\ Linking!Doing(d).type = t /\ gone /\ call[d].slot # 0
  <2> DEFINE p == [call[d] EXCEPT !.gone = TRUE]
  <2>1. call[d] \in Linking!CallRecords /\ call[d] # Linking!Idle
    BY <1>2, ShownUnderway DEF Linking!At
  <2>2. p \in Linking!CallRecords /\ p.at = call[d].at /\ p.todo = call[d].todo /\ p.slot = call[d].slot /\ p.gone
    BY <2>1 DEF Linking!CallRecords
  <2>3. ShownOther(d, t, gone) = p
    BY <1>2 DEF ShownOther, Linking!At
  <2> HIDE DEF p
  <2> QED
    BY <1>2, <2>1, <2>2, <2>3, ShownIdleIs DEF ShownRecord, Linking!At
<1>3. CASE call[d].at \notin {"fill", "refresh"} /\ ~(Linking!At(d, "write") /\ Linking!Doing(d).type = t /\ gone /\ call[d].slot # 0)
  <2>1. ShownOther(d, t, gone) = call[d]
    BY <1>3, Zenon DEF ShownOther
  <2> QED
    BY <1>3, <2>1, ShownTypeParts DEF ShownIInv, Linking!At
<1> QED
  BY <1>1, <1>2, <1>3

LEMMA ShownOthersKept ==
    ASSUME ShownIInv, NEW d \in Calls, NEW t \in Linking!Types, NEW gone \in BOOLEAN
    PROVE  ShownKept(ShownOther(d, t, gone), d, t, gone)
  BY ShownOthersAre DEF ShownKept

LEMMA ShownChanges ==
    ASSUME Linking!ConstantsOK, ShownIInv, NEW c \in Calls, NEW t \in Linking!Types, NEW gone \in BOOLEAN,
           UNCHANGED <<shows, cached_links, outdated_links, mixed_links, split>>,
           links' \in [Linking!Types -> [Linking!Slots -> Tags \cup {None}]],
           call[c].at \in {"next", "write"}, NEW q \in ShownRecord, q # Linking!Idle, q.at = "snapshot", q.todo = call[c].todo,
           call'[c] = q, call' \in [Calls -> ShownRecord], \A d \in Calls \ {c} : call'[d] = ShownOther(d, t, gone)
    PROVE  ShownChanged(c)
<1>1. Linking!TypeOK'
  BY ShownTypeParts DEF ShownIInv, ShownTables
<1>2. \A d \in Calls \ {c} : /\ call'[d] = Linking!Idle <=> call[d] = Linking!Idle
                             /\ call'[d].at = call[d].at
                             /\ call[d] # Linking!Idle => call'[d].todo = call[d].todo
                             /\ call[d].at \in {"fill", "refresh"} => call'[d].late
  BY ShownOthersAre
<1>3. ShownPlanned(call[c]) /\ call[c] # Linking!Idle /\ call[c].todo \in ShownPlans
  BY ShownUnderway
<1>4. ShownAllPlanned'
  <2> SUFFICES ASSUME NEW d \in Calls
               PROVE  ShownPlanned(call'[d])
    BY DEF ShownAllPlanned, ShownPlanned
  <2>1. ShownPlanned(call[d])
    BY DEF ShownIInv, ShownAllPlanned
  <2> QED
    BY <1>2, <1>3, <2>1 DEF ShownPlanned
<1>5. ShownAllCurrent'
  BY <1>2 DEF ShownAllCurrent, ShownCurrent
<1>6. Linking!PagesShowTheLinks'
  BY DEF Linking!PagesShowTheLinks, Linking!Refreshing
<1>7. \A d \in Calls : ShownFiles(call'[d]) <=> ShownFiles(call[d])
  BY <1>2, <1>3 DEF ShownFiles
<1>8. \A d \in Calls, u \in Linking!Types : ShownWrites(call'[d], u) <=> ShownWrites(call[d], u) /\ d # c
  <2> SUFFICES ASSUME NEW d \in Calls, NEW u \in Linking!Types
               PROVE  ShownWrites(call'[d], u) <=> ShownWrites(call[d], u) /\ d # c
    OBVIOUS
  <2>1. CASE d = c
    BY <2>1 DEF ShownWrites
  <2>2. CASE d # c /\ call[d] = Linking!Idle
    BY <1>2, <2>2, ShownIdleIs DEF ShownWrites
  <2>3. CASE d # c /\ call[d] # Linking!Idle
    BY <1>2, <2>3 DEF ShownWrites
  <2> QED
    BY <2>1, <2>2, <2>3
<1> QED
  BY <1>1, <1>4, <1>5, <1>6, <1>7, <1>8 DEF ShownChanged

LEMMA ShownBecomesAfter ==
    ASSUME ShownIInv, NEW c \in Calls, NEW t \in Linking!Types, NEW gone \in BOOLEAN, NEW q \in ShownRecord,
           Linking!Change(c, q, t, gone)
    PROVE  /\ call' \in [Calls -> ShownRecord] /\ call'[c] = q
           /\ \A d \in Calls \ {c} : call'[d] = ShownOther(d, t, gone)
<1>1. call' = [d \in Calls |-> IF d = c THEN q ELSE ShownOther(d, t, gone)]
  BY DEF Linking!Change, ShownOther
<1> QED
  BY <1>1, ShownOthersAre

\* All rows of a type go; no request does that with the file of a visual submission.
LEMMA ShownClearLinkInv ==
    ASSUME Linking!ConstantsOK, ShownIInv, NEW c \in Calls, Linking!ClearLink(c)
    PROVE  ShownIInv'
<1>1. Linking!At(c, "next") /\ Linking!Doing(c).do = "clear" /\ UNCHANGED <<shows, cached_links, outdated_links, mixed_links, split>>
  BY DEF Linking!ClearLink
<1>2. /\ call[c] \in Linking!CallRecords /\ call[c] # Linking!Idle /\ call[c].todo \in ShownPlans /\ ShownPlanned(call[c])
      /\ Linking!Doing(c) \in Linking!Steps
  BY <1>1, ShownUnderway DEF Linking!At
<1>3. PICK t \in Linking!Types : t = Linking!Doing(c).type
  BY <1>2, ShownStepsAre
<1> DEFINE p == [call[c] EXCEPT !.at = "snapshot"]
<1>4. links' = [links EXCEPT ![t] = [n \in Linking!Slots |-> None]] /\ Linking!Change(c, p, t, TRUE)
  BY <1>3 DEF Linking!ClearLink
<1>5. p \in Linking!CallRecords /\ p.at = "snapshot" /\ p.todo = call[c].todo
  BY <1>2 DEF Linking!CallRecords
<1> HIDE DEF p
<1>6. PICK q \in ShownRecord : q = p /\ q # Linking!Idle /\ q.at = "snapshot" /\ q.todo = call[c].todo
  BY <1>5, ShownIdleIs DEF ShownRecord
<1>7. /\ call' \in [Calls -> ShownRecord] /\ call'[c] = q
      /\ \A d \in Calls \ {c} : call'[d] = ShownOther(d, t, TRUE)
  BY <1>4, <1>6, ShownBecomesAfter
<1>8. /\ links' \in [Linking!Types -> [Linking!Slots -> Tags \cup {None}]]
      /\ \A n \in Linking!Slots : links'[t][n] = None
      /\ \A u \in Linking!Types \ {t} : links'[u] = links[u]
  BY <1>4, ShownTypeParts DEF ShownIInv, ShownTables
<1>9. /\ Linking!TypeOK' /\ ShownAllPlanned' /\ ShownAllCurrent' /\ Linking!PagesShowTheLinks'
      /\ \A d \in Calls : ShownFiles(call'[d]) <=> ShownFiles(call[d])
      /\ \A d \in Calls, u \in Linking!Types : ShownWrites(call'[d], u) <=> ShownWrites(call[d], u) /\ d # c
  <2>1. call[c].at \in {"next", "write"} /\ UNCHANGED <<shows, cached_links, outdated_links, mixed_links, split>>
    BY <1>1 DEF Linking!At
  <2>2. ShownChanged(c)
    BY <1>6, <1>7, <1>8, <2>1, ShownChanges
  <2> QED
    BY <2>2 DEF ShownChanged
<1>10. ShownSingles'
  <2> SUFFICES ASSUME NEW u \in Linking!Types \ mixed_links
               PROVE  /\ ShownSingle(links'[u])
                      /\ \A d, e \in Calls : ShownWrites(call'[d], u) /\ ShownWrites(call'[e], u) => d = e
                      /\ \A d \in Calls : ShownWrites(call'[d], u) /\ ~call'[d].gone => ShownHolds(call'[d], links'[u])
    BY <1>1 DEF ShownSingles, ShownSingle, ShownWrites, ShownHolds
  <2>1. ShownSingle(links'[u])
    BY <1>8 DEF ShownIInv, ShownSingles, ShownSingle
  <2>2. \A d, e \in Calls : ShownWrites(call'[d], u) /\ ShownWrites(call'[e], u) => d = e
    BY <1>9 DEF ShownIInv, ShownSingles
  <2>3. ASSUME NEW d \in Calls, ShownWrites(call'[d], u), ~call'[d].gone
        PROVE  ShownHolds(call'[d], links'[u])
    <3>1. ShownWrites(call[d], u) /\ d # c /\ call[d].at = "write"
      BY <1>9, <2>3 DEF ShownWrites
    <3>2. /\ call'[d].slot = call[d].slot /\ ~call[d].gone
          /\ ~(Linking!Doing(d).type = t /\ call[d].slot # 0)
      <4>1. call'[d] = ShownOther(d, t, TRUE) /\ call[d].at = "write" /\ ~ShownOther(d, t, TRUE).gone
        BY <1>7, <2>3, <3>1
      <4>2. ShownKept(call'[d], d, t, TRUE)
        BY <4>1, ShownOthersKept
      <4> QED
        BY <3>1, <4>1, <4>2 DEF ShownKept
    <3>3. ShownHolds(call[d], links[u])
      BY <3>1, <3>2 DEF ShownIInv, ShownSingles
    <3>4. Linking!Doing(d).type = u
      BY <3>1 DEF ShownWrites, Linking!Doing
    <3> QED
      BY <1>8, <3>2, <3>3, <3>4 DEF ShownHolds
  <2> QED
    BY <2>1, <2>2, <2>3
<1>11. ShownCovers'
  <2> SUFFICES ASSUME shows = "visual", ~split
               PROVE  /\ \A d, e \in Calls : ShownFiles(call'[d]) /\ ShownFiles(call'[e]) => d = e
                      /\ (\A d \in Calls : ~ShownFiles(call'[d])) => ShownMatches(Linking!Bucket')
                      /\ \A d \in Calls : ShownFiles(call'[d]) => ShownProgress(call'[d], Linking!Bucket')
    BY <1>1 DEF ShownIInv, ShownCovers, ShownFiles, ShownProgress
  <2>1. ~ShownFiles(call[c])
    <3>1. call[c].todo # ShownUncover
      BY <1>2 DEF ShownPlanned
    <3>2. \A i \in Tags : call[c].todo # ShownBoth(i) /\ call[c].todo # ShownSecond(i)
      BY <1>1, ShownBothIs, ShownSecondIs DEF Linking!Doing
    <3> QED
      BY <1>2, <3>1, <3>2, ShownPlansAre DEF ShownFiles
  <2>2. t \notin {"submission", "cover"}
    BY <1>1, <1>2, <1>3, <2>1, ShownPlainIs DEF ShownFiles, Linking!Doing, ShownPlanned, Linking!At
  <2>3. Linking!Bucket'["cover"] = Linking!Bucket["cover"] /\ Linking!Bucket'["submission"] = Linking!Bucket["submission"]
    BY <1>8, <2>2 DEF Linking!Bucket, Linking!Types
  <2>4. \A d \in Calls : ShownFiles(call[d]) => d # c /\ call'[d].at = call[d].at /\ call'[d].todo = call[d].todo
    <3> SUFFICES ASSUME NEW d \in Calls, ShownFiles(call[d])
                 PROVE  d # c /\ call'[d].at = call[d].at /\ call'[d].todo = call[d].todo
      OBVIOUS
    <3>1. d # c /\ call[d] # Linking!Idle
      BY <2>1 DEF ShownFiles
    <3>2. ShownKept(call'[d], d, t, TRUE)
      BY <1>7, <3>1, ShownOthersKept
    <3> QED
      BY <3>1, <3>2 DEF ShownKept
  <2>5. ASSUME NEW d \in Calls, ShownFiles(call'[d]) PROVE ShownProgress(call'[d], Linking!Bucket')
    <3>1. ShownProgress(call[d], Linking!Bucket) /\ call'[d].at = call[d].at /\ call'[d].todo = call[d].todo
      BY <1>9, <2>4, <2>5 DEF ShownIInv, ShownCovers
    <3> QED
      BY <2>3, <3>1 DEF ShownProgress, ShownMatches
  <2> QED
    BY <1>9, <2>3, <2>5 DEF ShownIInv, ShownCovers, ShownMatches
<1> QED
  BY <1>9, <1>10, <1>11 DEF ShownIInv

\* The row of a type that has one writer is the only one of the type.
LEMMA ShownRowIs ==
    ASSUME Linking!ConstantsOK, ShownIInv, NEW c \in Calls, Linking!At(c, "write"), ~call[c].gone,
           NEW t \in Linking!Types \ mixed_links, Linking!Doing(c).type = t,
           NEW n \in IF call[c].slot # 0 THEN {call[c].slot}
                     ELSE {CHOOSE m \in {l \in Linking!Slots : links[t][l] = None} : \A l \in {k \in Linking!Slots : links[t][k] = None} : m <= l}
    PROVE  n \in Linking!Slots /\ \A m \in Linking!Slots \ {n} : links[t][m] = None
<1>1. ShownWrites(call[c], t)
  BY DEF ShownWrites, Linking!At, Linking!Doing
<1>2. ShownHolds(call[c], links[t]) /\ ShownSingle(links[t])
  BY <1>1 DEF ShownIInv, ShownSingles
<1>3. CASE call[c].slot # 0
  BY <1>2, <1>3 DEF ShownHolds, ShownSingle
<1>4. CASE call[c].slot = 0
  <2> DEFINE free == {l \in Linking!Slots : links[t][l] = None}
  <2>1. free = Linking!Slots /\ 1 \in Linking!Slots /\ \A l \in Linking!Slots : 1 <= l
    BY <1>2, <1>4 DEF ShownHolds, Linking!Slots, Linking!ConstantsOK
  <2>2. n = CHOOSE m \in free : \A l \in free : m <= l
    BY <1>4
  <2>3. n \in Linking!Slots
    BY <2>1, <2>2
  <2> QED
    BY <1>2, <1>4, <2>3 DEF ShownHolds
<1> QED
  BY <1>3, <1>4

\* The row is inserted or updated, and the file of a submission, or its cover, is there.
LEMMA ShownWriteLinkInv ==
    ASSUME Linking!ConstantsOK, ShownIInv, NEW c \in Calls, Linking!WriteLink(c)
    PROVE  ShownIInv'
<1>1. Linking!At(c, "write") /\ UNCHANGED <<shows, cached_links, outdated_links, mixed_links>>
  BY DEF Linking!WriteLink
<1>2. /\ call[c] \in Linking!CallRecords /\ call[c] # Linking!Idle /\ call[c].todo \in ShownPlans /\ ShownPlanned(call[c])
      /\ Linking!Doing(c) \in Linking!Steps /\ Linking!Doing(c).do = "make" /\ Linking!Doing(c).item \in Tags
  <2>1. /\ call[c] \in Linking!CallRecords /\ call[c] # Linking!Idle /\ call[c].todo \in ShownPlans /\ ShownPlanned(call[c])
        /\ Linking!Doing(c) \in Linking!Steps
    BY <1>1, ShownUnderway DEF Linking!At
  <2>2. Linking!Doing(c).do = "make"
    BY <1>1, <2>1 DEF Linking!At, ShownPlanned, Linking!Doing
  <2> QED
    BY <2>1, <2>2, ShownStepsAre
<1>3. PICK t \in Linking!Types, i \in Tags : t = Linking!Doing(c).type /\ i = Linking!Doing(c).item
  BY <1>2, ShownStepsAre
<1>4. CASE call[c].gone
  <2>1. Linking!End(c) /\ split' = (split \/ Linking!Uploads(c)) /\ UNCHANGED links
    BY <1>4 DEF Linking!WriteLink
  <2>2. outdated_links' \in BOOLEAN
    BY <1>1, ShownTypeParts DEF ShownIInv, ShownTables
  <2> QED
    BY <1>1, <2>1, <2>2, ShownEndsInv DEF Linking!At
<1>5. CASE ~call[c].gone
  <2> DEFINE p == [call[c] EXCEPT !.at = "snapshot", !.slot = 0]
             free == {l \in Linking!Slots : links[t][l] = None}
  <2>1. PICK n \in IF call[c].slot # 0 THEN {call[c].slot} ELSE {CHOOSE m \in free : \A l \in free : m <= l} :
            links' = [links EXCEPT ![t][n] = i]
    BY <1>3, <1>5 DEF Linking!WriteLink
  <2>2. Linking!Change(c, p, t, FALSE) /\ split' = split
    BY <1>3, <1>5 DEF Linking!WriteLink
  <2>3. p \in Linking!CallRecords /\ p.at = "snapshot" /\ p.todo = call[c].todo
    BY <1>2 DEF Linking!CallRecords
  <2>4. t \notin mixed_links => n \in Linking!Slots /\ \A m \in Linking!Slots \ {n} : links[t][m] = None
    BY <1>1, <1>3, <1>5, ShownRowIs
  <2> HIDE DEF p, free
  <2>5. PICK q \in ShownRecord : q = p /\ q # Linking!Idle /\ q.at = "snapshot" /\ q.todo = call[c].todo
    BY <2>3, ShownIdleIs DEF ShownRecord
  <2>6. /\ call' \in [Calls -> ShownRecord] /\ call'[c] = q
        /\ \A d \in Calls \ {c} : call'[d] = ShownOther(d, t, FALSE)
    BY <2>2, <2>5, ShownBecomesAfter
  <2>7. /\ links' \in [Linking!Types -> [Linking!Slots -> Tags \cup {None}]]
        /\ \A u \in Linking!Types \ {t} : links'[u] = links[u]
        /\ \A m \in Linking!Slots : links'[t][m] = IF m = n THEN i ELSE links[t][m]
    BY <2>1, ShownTypeParts DEF ShownIInv, ShownTables
  <2>8. t \notin mixed_links => \A m \in Linking!Slots : links'[t][m] = IF m = n THEN i ELSE None
    BY <2>4, <2>7
  <2>9. /\ Linking!TypeOK' /\ ShownAllPlanned' /\ ShownAllCurrent' /\ Linking!PagesShowTheLinks'
        /\ \A d \in Calls : ShownFiles(call'[d]) <=> ShownFiles(call[d])
        /\ \A d \in Calls, u \in Linking!Types : ShownWrites(call'[d], u) <=> ShownWrites(call[d], u) /\ d # c
    <3>1. call[c].at \in {"next", "write"} /\ UNCHANGED <<shows, cached_links, outdated_links, mixed_links, split>>
      BY <1>1, <2>2 DEF Linking!At
    <3>2. ShownChanged(c)
      BY <2>5, <2>6, <2>7, <3>1, ShownChanges
    <3> QED
      BY <3>2 DEF ShownChanged
  <2>10. ShownSingles'
    <3> SUFFICES ASSUME NEW u \in Linking!Types \ mixed_links
                 PROVE  /\ ShownSingle(links'[u])
                        /\ \A d, e \in Calls : ShownWrites(call'[d], u) /\ ShownWrites(call'[e], u) => d = e
                        /\ \A d \in Calls : ShownWrites(call'[d], u) /\ ~call'[d].gone => ShownHolds(call'[d], links'[u])
      BY <1>1 DEF ShownSingles, ShownSingle, ShownWrites, ShownHolds
    <3>1. ShownSingle(links'[u])
      <4>1. CASE u = t
        BY <2>8, <4>1 DEF ShownSingle
      <4>2. CASE u # t
        BY <2>7, <4>2 DEF ShownIInv, ShownSingles
      <4> QED
        BY <4>1, <4>2
    <3>2. \A d, e \in Calls : ShownWrites(call'[d], u) /\ ShownWrites(call'[e], u) => d = e
      BY <2>9 DEF ShownIInv, ShownSingles
    <3>3. ASSUME NEW d \in Calls, ShownWrites(call'[d], u), ~call'[d].gone
          PROVE  ShownHolds(call'[d], links'[u])
      <4>1. ShownWrites(call[d], u) /\ d # c /\ call[d].at = "write"
        BY <2>9, <3>3 DEF ShownWrites
      <4>2. call'[d].slot = call[d].slot /\ ~call[d].gone
        <5>1. call'[d] = ShownOther(d, t, FALSE)
          BY <2>6, <4>1
        <5>2. ShownKept(call'[d], d, t, FALSE)
          BY <5>1, ShownOthersKept
        <5> QED
          BY <3>3, <4>1, <5>2 DEF ShownKept
      <4>3. ShownHolds(call[d], links[u])
        BY <4>1, <4>2 DEF ShownIInv, ShownSingles
      <4>4. u # t
        BY <1>1, <1>3, <4>1 DEF ShownIInv, ShownSingles, ShownWrites, Linking!At, Linking!Doing
      <4> QED
        BY <2>7, <4>2, <4>3, <4>4 DEF ShownHolds
    <3> QED
      BY <3>1, <3>2, <3>3
  <2>11. ASSUME t \notin mixed_links PROVE Linking!Bucket'[t] = {i}
    <3>1. Linking!Bucket'[t] = {links'[t][m] : m \in Linking!Slots} \ {None}
      BY DEF Linking!Bucket
    <3>2. n \in Linking!Slots /\ i # None
      BY <2>4, <2>11 DEF Linking!ConstantsOK
    <3> QED
      BY <2>8, <2>11, <3>1, <3>2
  <2>12. \A u \in Linking!Types \ {t} : Linking!Bucket'[u] = Linking!Bucket[u]
    BY <2>7 DEF Linking!Bucket
  <2>13. ShownCovers'
    <3> SUFFICES ASSUME shows = "visual", ~split
                 PROVE  /\ \A d, e \in Calls : ShownFiles(call'[d]) /\ ShownFiles(call'[e]) => d = e
                        /\ (\A d \in Calls : ~ShownFiles(call'[d])) => ShownMatches(Linking!Bucket')
                        /\ \A d \in Calls : ShownFiles(call'[d]) => ShownProgress(call'[d], Linking!Bucket')
      BY <1>1, <2>2 DEF ShownIInv, ShownCovers, ShownFiles, ShownProgress
    <3>1. \A d, e \in Calls : ShownFiles(call[d]) /\ ShownFiles(call[e]) => d = e
      BY DEF ShownIInv, ShownCovers
    <3>2. CASE ~ShownFiles(call[c])
      <4>1. t \notin {"submission", "cover"}
        BY <1>1, <1>2, <1>3, <3>2, ShownPlainIs DEF ShownFiles, Linking!Doing, ShownPlanned, Linking!At
      <4>2. Linking!Bucket'["cover"] = Linking!Bucket["cover"] /\ Linking!Bucket'["submission"] = Linking!Bucket["submission"]
        BY <2>12, <4>1 DEF Linking!Types
      <4>3. ASSUME NEW d \in Calls, ShownFiles(call'[d]) PROVE ShownProgress(call'[d], Linking!Bucket')
        <5>1. ShownFiles(call[d]) /\ d # c
          BY <2>9, <3>2, <4>3
        <5>2. call'[d].at = call[d].at /\ call'[d].todo = call[d].todo
          <6>1. ShownKept(call'[d], d, t, FALSE)
            BY <2>6, <5>1, ShownOthersKept
          <6> QED
            BY <5>1, <6>1 DEF ShownKept, ShownFiles
        <5>3. ShownProgress(call[d], Linking!Bucket)
          BY <5>1 DEF ShownIInv, ShownCovers
        <5> QED
          BY <4>2, <5>2, <5>3 DEF ShownProgress, ShownMatches
      <4> QED
        BY <2>9, <3>1, <4>2, <4>3 DEF ShownIInv, ShownCovers, ShownMatches
    <3>3. CASE ShownFiles(call[c])
      <4>1. ShownProgress(call[c], Linking!Bucket) /\ "submission" \notin mixed_links /\ "cover" \notin mixed_links
        BY <3>3 DEF ShownIInv, ShownCovers
      <4>2. PICK j \in Tags : call[c].todo = ShownBoth(j) \/ call[c].todo = ShownSecond(j)
        BY <1>2, <3>3, ShownPlansAre DEF ShownFiles, ShownPlanned
      <4>3. ShownProgress(q, Linking!Bucket')
        <5>1. CASE call[c].todo = ShownBoth(j)
          <6>1. t = "submission" /\ i = j
            BY <1>3, <5>1, ShownBothIs DEF Linking!Doing
          <6>2. Linking!Bucket'["submission"] = {j}
            BY <2>11, <4>1, <6>1
          <6> QED
            BY <2>5, <5>1, <6>2, ShownDiffer DEF ShownProgress
        <5>2. CASE call[c].todo = ShownSecond(j)
          <6>1. t = "cover" /\ i = j
            BY <1>3, <5>2, ShownSecondIs DEF Linking!Doing
          <6>2. Linking!Bucket'["cover"] = {j} /\ Linking!Bucket'["submission"] = Linking!Bucket["submission"]
            BY <2>11, <2>12, <4>1, <6>1 DEF Linking!Types
          <6>3. Linking!Bucket["submission"] = {j}
            BY <4>1, <5>2 DEF ShownProgress
          <6> QED
            BY <2>5, <5>2, <6>2, <6>3, ShownDiffer DEF ShownProgress
        <5> QED
          BY <4>2, <5>1, <5>2
      <4> QED
        BY <2>6, <2>9, <3>1, <3>3, <4>3
    <3> QED
      BY <3>2, <3>3
  <2> QED
    BY <2>9, <2>10, <2>13 DEF ShownIInv
<1> QED
  BY <1>4, <1>5
-----------------------------------------------------------------------------
LEMMA ShownStillInv ==
    ASSUME ShownIInv, UNCHANGED Linking!vars
    PROVE  ShownIInv'
<1>1. UNCHANGED <<shows, links, cached_links, call, outdated_links, mixed_links, split>>
  BY DEF Linking!vars
<1>2. Linking!TypeOK'
  BY <1>1, ShownTypeParts DEF ShownIInv, ShownTables
<1>3. ShownAllPlanned' /\ ShownSingles'
  BY <1>1 DEF ShownIInv, ShownAllPlanned, ShownPlanned, ShownSingles, ShownSingle, ShownWrites, ShownHolds
<1>4. ShownCovers' /\ ShownAllCurrent'
  BY <1>1, ShownBucketStays DEF ShownIInv, ShownCovers, ShownFiles, ShownProgress, ShownMatches,
     ShownAllCurrent, ShownCurrent
<1>5. Linking!PagesShowTheLinks'
  BY <1>1, ShownBucketStays DEF ShownIInv, Linking!PagesShowTheLinks, Linking!Refreshing
<1> QED
  BY <1>2, <1>3, <1>4, <1>5 DEF ShownIInv

LEMMA ShownNextInv == Linking!ConstantsOK /\ ShownIInv /\ [Linking!Next]_Linking!vars => ShownIInv'
<1> SUFFICES ASSUME Linking!ConstantsOK, ShownIInv, [Linking!Next]_Linking!vars PROVE ShownIInv'
  OBVIOUS
<1>1. ASSUME NEW c \in Calls,
             Linking!Visit(c) \/ Linking!Fill(c) \/ Linking!CutShort(c) \/ Linking!Remove(c) PROVE ShownIInv'
  BY <1>1, ShownVisitInv, ShownFillInv, ShownCutShortInv, ShownRemoveInv
<1>2. ASSUME NEW c \in Calls, NEW i \in Tags,
             Linking!Reupload(c, i) \/ Linking!ReplaceSource(c, i) \/ Linking!CropAvatar(c, i) \/ Linking!CropThumbnail(c, i)
      PROVE  ShownIInv'
  BY <1>2, ShownReuploadInv, ShownReplaceSourceInv, ShownCropsInv
<1>3. ASSUME NEW c \in Calls, NEW i \in Tags \cup {None}, Linking!ReuploadCover(c, i) PROVE ShownIInv'
  BY <1>3, ShownReuploadCoverInv
<1>4. ASSUME NEW c \in Calls,
             Linking!ReadLink(c) \/ Linking!WriteLink(c) \/ Linking!ClearLink(c) \/ Linking!Snapshot(c) \/ Linking!Refresh(c) PROVE ShownIInv'
  BY <1>4, ShownReadLinkInv, ShownWriteLinkInv, ShownClearLinkInv, ShownSnapshotInv, ShownRefreshInv
<1>5. CASE Linking!Evict
  BY <1>5, ShownEvictInv
<1>6. CASE UNCHANGED Linking!vars
  BY <1>6, ShownStillInv
<1> QED
  BY <1>1, <1>2, <1>3, <1>4, <1>5, <1>6 DEF Linking!Next

LEMMA ShownCounting == \A S : Linking!Cardinality(S) = Cardinality(S)
  BY DEF Linking!Cardinality, Cardinality

LEMMA ShownPromises == ShownIInv => Linking!PagesShowTheLinks /\ Linking!LinksAreSingle /\ Linking!CoverIsOfTheFile
<1> SUFFICES ASSUME ShownIInv PROVE Linking!LinksAreSingle /\ Linking!CoverIsOfTheFile
  BY DEF ShownIInv
<1>1. Linking!LinksAreSingle
  <2> SUFFICES ASSUME NEW t \in Linking!Types \ mixed_links PROVE Cardinality(Linking!Bucket[t]) <= 1
    BY ShownCounting DEF Linking!LinksAreSingle
  <2>1. ShownSingle(links[t]) /\ Linking!Bucket[t] = {links[t][n] : n \in Linking!Slots} \ {None}
    BY ShownBucketIs, ShownTypeParts DEF ShownIInv, ShownSingles
  <2>2. \A i, j \in Linking!Bucket[t] : i = j
    BY <2>1 DEF ShownSingle
  <2> QED
    BY <2>2, AllEqual
<1>2. Linking!CoverIsOfTheFile
  BY ShownUploadsAre DEF ShownIInv, ShownCovers, ShownMatches, Linking!CoverIsOfTheFile
<1> QED
  BY <1>1, <1>2
-----------------------------------------------------------------------------
\* While the part moves it has its invariant; and so it has in every state.
ShownHold == part = "links" => ShownIInv

LEMMA ShownAreHeld == ContentSpec => []ShownHold
<1>1. ContentInit => ShownHold
  BY ShownInitInv, ContentAssumption DEF ContentInit, ShownHold
<1>2. ShownHold /\ [ContentNext]_all_content_vars => ShownHold'
  <2> SUFFICES ASSUME ShownHold, [ContentNext]_all_content_vars, part' = "links" PROVE ShownIInv'
    BY DEF ShownHold
  <2>1. part = "links" /\ ShownIInv
    BY PartStays DEF ShownHold
  <2>2. Linking!Next \/ UNCHANGED <<links_vars, call>>
    BY <2>1 DEF ContentNext, all_content_vars
  <2>3. UNCHANGED <<links_vars, call>> => UNCHANGED Linking!vars
    BY DEF links_vars, Linking!vars
  <2> QED
    BY <2>1, <2>2, <2>3, ShownNextInv, ContentAssumption
<1> QED
  BY <1>1, <1>2, PTL DEF ContentSpec

\* fetch_or_create_media_item, make_or_replace_link, clear_link and refresh_cache
\* (libweasyl/models/media.py, libweasyl/media.py): an item has its file, whatever
\* is lost when the host stops, but for uploads that went on with what another had
\* not made durable; pages show the links there are, one for each type that is not
\* replaced twice at once, and the cover of a visual submission is that of its file.
THEOREM MediaStaysKept == ContentSpec => []MediaIsKept
<1>1. UploadsHold => (part = "files" => Storing!FilesSurvive /\ Storing!OneItemPerContent)
  BY UploadsPromises DEF UploadsHold
<1>2. ShownHold => (part = "links" =>
          Linking!PagesShowTheLinks /\ Linking!LinksAreSingle /\ Linking!CoverIsOfTheFile)
  BY ShownPromises DEF ShownHold
<1>3. UploadsHold /\ ShownHold => MediaIsKept
  BY <1>1, <1>2 DEF MediaIsKept
<1> QED
  BY <1>3, UploadsAreHeld, ShownAreHeld, PTL
-----------------------------------------------------------------------------
LEMMA FileTypeParts ==
    /\ Filing!TypeOK <=> FileTables /\ call \in [Calls -> FileRecord]
    /\ Filing!TypeOK' <=> FileTables' /\ call' \in [Calls -> FileRecord]
<1>1. {Filing!Idle} \cup Filing!CallRecords = FileRecord
  BY DEF Filing!CallRecords, FileRecord, FileCreateCall, FileMoveCall, FileRemoveCall, FileOptionsCall, FileFileCall
<1> QED
  BY <1>1 DEF Filing!TypeOK, FileTables

LEMMA FileIdleIs == Filing!Idle \in FileRecord /\ Filing!Idle.at = "idle" /\ Filing!Touches(Filing!Idle) = {}
<1>1. Filing!Idle \in FileRecord /\ Filing!Idle.at = "idle" /\ DOMAIN Filing!Idle = {"at"}
  BY DEF Filing!Idle, FileRecord
<1> QED
  BY <1>1 DEF Filing!Touches

LEMMA FileCreateCallIs ==
    ASSUME NEW q \in FileCreateCall
    PROVE  /\ q \in FileRecord /\ q.at \in {"create title", "create insert"}
           /\ q.user \in Filers /\ q.parent \in Ids \cup {Filing!Root} /\ q.title \in Titles
  BY DEF FileCreateCall, FileRecord

LEMMA FileCreateTouches ==
    ASSUME NEW q \in FileCreateCall
    PROVE  Filing!Touches(q) = {q.parent} \ {Filing!Root}
<1>1. DOMAIN q = {"at", "user", "parent", "title"}
  BY DEF FileCreateCall
<1>2. {q[k] : k \in DOMAIN q \cap {"folder", "parent", "submission"}} = {q.parent}
  BY <1>1
<1> QED
  BY <1>1, <1>2 DEF Filing!Touches

LEMMA FileMoveCallIs ==
    ASSUME NEW q \in FileMoveCall
    PROVE  /\ q \in FileRecord /\ q.at \in {"move children", "move parent", "move titles", "move update"}
           /\ q.user \in Filers /\ q.folder \in Ids /\ q.parent \in Ids \cup {Filing!Root} /\ q.title \in Titles
  BY DEF FileMoveCall, FileRecord

LEMMA FileMoveTouches ==
    ASSUME NEW q \in FileMoveCall
    PROVE  Filing!Touches(q) = {q.folder, q.parent} \ {Filing!Root}
<1>1. DOMAIN q = {"at", "user", "folder", "parent", "title"}
  BY DEF FileMoveCall
<1>2. {q[k] : k \in DOMAIN q \cap {"folder", "parent", "submission"}} = {q.folder, q.parent}
  BY <1>1
<1> QED
  BY <1>1, <1>2 DEF Filing!Touches

LEMMA FileRemoveCallIs ==
    ASSUME NEW q \in FileRemoveCall
    PROVE  /\ q \in FileRecord /\ q.at = "remove commit" /\ q.folder \in Ids /\ q.hides \subseteq Ids
  BY DEF FileRemoveCall, FileRecord

LEMMA FileRemoveTouches ==
    ASSUME NEW q \in FileRemoveCall
    PROVE  Filing!Touches(q) = ({q.folder} \cup q.hides) \ {Filing!Root}
<1>1. DOMAIN q = {"at", "folder", "hides"}
  BY DEF FileRemoveCall
<1>2. {q[k] : k \in DOMAIN q \cap {"folder", "parent", "submission"}} = {q.folder}
  BY <1>1
<1> QED
  BY <1>1, <1>2 DEF Filing!Touches

LEMMA FileOptionsCallIs ==
    ASSUME NEW q \in FileOptionsCall
    PROVE  q \in FileRecord /\ q.at = "options" /\ q.folder \in Ids
  BY DEF FileOptionsCall, FileRecord

LEMMA FileOptionsTouches ==
    ASSUME NEW q \in FileOptionsCall
    PROVE  Filing!Touches(q) = {q.folder} \ {Filing!Root}
<1>1. DOMAIN q = {"at", "folder"}
  BY DEF FileOptionsCall
<1>2. {q[k] : k \in DOMAIN q \cap {"folder", "parent", "submission"}} = {q.folder}
  BY <1>1
<1> QED
  BY <1>1, <1>2 DEF Filing!Touches

LEMMA FileFileCallIs ==
    ASSUME NEW q \in FileFileCall
    PROVE  /\ q \in FileRecord /\ q.at = "file" /\ q.submission \in Submissions /\ q.user \in Filers
           /\ q.folder \in Ids \cup {Filing!Root}
  BY DEF FileFileCall, FileRecord

LEMMA FileFileTouches ==
    ASSUME NEW q \in FileFileCall
    PROVE  Filing!Touches(q) = {q.submission, q.folder} \ {Filing!Root}
<1>1. DOMAIN q = {"at", "submission", "user", "folder"}
  BY DEF FileFileCall
<1>2. {q[k] : k \in DOMAIN q \cap {"folder", "parent", "submission"}} = {q.submission, q.folder}
  BY <1>1
<1> QED
  BY <1>1, <1>2 DEF Filing!Touches

LEMMA FileKinds ==
    ASSUME NEW q \in FileRecord
    PROVE  /\ FileCreating(q) => q \in FileCreateCall
           /\ q.at = "move children" \/ FileMoving(q) => q \in FileMoveCall
           /\ q.at = "remove commit" => q \in FileRemoveCall
           /\ q.at = "options" => q \in FileOptionsCall
           /\ q.at = "file" => q \in FileFileCall
           /\ Filing!Touches(q) \subseteq Ids \cup Submissions
<1>1. \/ q = Filing!Idle \/ q \in FileCreateCall \/ q \in FileMoveCall \/ q \in FileRemoveCall \/ q \in FileOptionsCall \/ q \in FileFileCall
  BY DEF FileRecord
<1>2. CASE q = Filing!Idle
  BY <1>2, FileIdleIs DEF FileCreating, FileMoving, FilePlacing
<1>3. CASE q \in FileCreateCall
  <2>1. q.at \in {"create title", "create insert"}
    BY <1>3, FileCreateCallIs
  <2>2. Filing!Touches(q) \subseteq Ids \cup Submissions
    <3>1. PICK p \in Ids \cup {Filing!Root} : Filing!Touches(q) = {p} \ {Filing!Root}
      BY <1>3, FileCreateCallIs, FileCreateTouches, Zenon
    <3> QED
      BY <3>1
  <2> QED
    BY <1>3, <2>1, <2>2 DEF FileCreating, FileMoving, FilePlacing
<1>4. CASE q \in FileMoveCall
  <2>1. q.at \in {"move children", "move parent", "move titles", "move update"}
    BY <1>4, FileMoveCallIs
  <2>2. Filing!Touches(q) \subseteq Ids \cup Submissions
    <3>1. PICK f \in Ids, p \in Ids \cup {Filing!Root} : Filing!Touches(q) = {f, p} \ {Filing!Root}
      BY <1>4, FileMoveCallIs, FileMoveTouches, Zenon
    <3> QED
      BY <3>1
  <2> QED
    BY <1>4, <2>1, <2>2 DEF FileCreating, FileMoving, FilePlacing
<1>5. CASE q \in FileRemoveCall
  <2>1. q.at \in {"remove commit"}
    BY <1>5, FileRemoveCallIs
  <2>2. Filing!Touches(q) \subseteq Ids \cup Submissions
    BY <1>5, FileRemoveCallIs, FileRemoveTouches
  <2> QED
    BY <1>5, <2>1, <2>2 DEF FileCreating, FileMoving, FilePlacing
<1>6. CASE q \in FileOptionsCall
  <2>1. q.at \in {"options"}
    BY <1>6, FileOptionsCallIs
  <2>2. Filing!Touches(q) \subseteq Ids \cup Submissions
    BY <1>6, FileOptionsCallIs, FileOptionsTouches
  <2> QED
    BY <1>6, <2>1, <2>2 DEF FileCreating, FileMoving, FilePlacing
<1>7. CASE q \in FileFileCall
  <2>1. q.at \in {"file"}
    BY <1>7, FileFileCallIs
  <2>2. Filing!Touches(q) \subseteq Ids \cup Submissions
    BY <1>7, FileFileCallIs, FileFileTouches
  <2> QED
    BY <1>7, <2>1, <2>2 DEF FileCreating, FileMoving, FilePlacing
<1> QED
  BY <1>1, <1>2, <1>3, <1>4, <1>5, <1>6, <1>7

\* A call goes on with the same folders.
LEMMA FileCreateGoes ==
    ASSUME NEW c \in Calls, NEW q \in FileCreateCall, call[c] = q, NEW a \in {"create title", "create insert"}, Filing!Goto(c, a)
    PROVE  \E r \in FileCreateCall : call' = [call EXCEPT ![c] = r] /\ r.at = a /\ r.user = q.user /\ r.parent = q.parent
<1> DEFINE r == [q EXCEPT !.at = a]
<1>1. r \in FileCreateCall /\ r.at = a /\ r.user = q.user /\ r.parent = q.parent
  BY DEF FileCreateCall
<1>2. call' = [call EXCEPT ![c] = r]
  BY DEF Filing!Goto
<1> HIDE DEF r
<1> QED
  BY <1>1, <1>2

LEMMA FileMoveGoes ==
    ASSUME NEW c \in Calls, NEW q \in FileMoveCall, call[c] = q,
           NEW a \in {"move children", "move parent", "move titles", "move update"}, Filing!Goto(c, a)
    PROVE  FileMoveGone(c, q, a)
<1> DEFINE r == [q EXCEPT !.at = a]
<1>1. r \in FileMoveCall /\ r.at = a /\ r.user = q.user /\ r.folder = q.folder /\ r.parent = q.parent
  BY DEF FileMoveCall
<1>2. call' = [call EXCEPT ![c] = r]
  BY DEF Filing!Goto
<1> HIDE DEF r
<1> QED
  BY <1>1, <1>2 DEF FileMoveGone
-----------------------------------------------------------------------------
LEMMA FileKnownStays ==
    ASSUME FileKeeps, NEW q \in FileRecord, FileKnown(q)
    PROVE  FileKnown(q)'
<1>1. \A u : \A f \in Ids : FileWithin(f, u) => FileWithin(f, u)'
  BY DEF FileKeeps, FileWithin, Filing!Exists
<1>2. \A f \in Ids : Filing!Exists(f) => Filing!Exists(f)'
  BY DEF FileKeeps, Filing!Exists
<1>3. FileCreating(q) => q.parent \in Ids \cup {Filing!Root}
  BY FileKinds, FileCreateCallIs
<1>4. q.at = "move children" \/ FileMoving(q) => q.folder \in Ids /\ q.parent \in Ids \cup {Filing!Root}
  BY FileKinds, FileMoveCallIs
<1>5. q.at = "remove commit" => q.folder \in Ids /\ q.hides \subseteq Ids
  BY FileKinds, FileRemoveCallIs
<1>6. q.at = "options" => q.folder \in Ids
  BY FileKinds, FileOptionsCallIs
<1>7. q.at = "file" => q.folder \in Ids \cup {Filing!Root}
  BY FileKinds, FileFileCallIs
<1>8. FileCreating(q) \/ FilePlacing(q) => q.parent = Filing!Root \/ FileWithin(q.parent, q.user)'
  BY <1>1, <1>3, <1>4 DEF FileKnown, FileMoving
<1>9. q.at = "move children" \/ FileMoving(q) => FileWithin(q.folder, q.user)' /\ q.folder # q.parent
  BY <1>1, <1>4 DEF FileKnown
<1>10. q.at = "remove commit" => Filing!Exists(q.folder)' /\ \A g \in q.hides : Filing!Exists(g)'
  BY <1>2, <1>5 DEF FileKnown
<1>11. (q.at = "options" => Filing!Exists(q.folder)') /\ (q.at = "file" => q.folder = Filing!Root \/ Filing!Exists(q.folder)')
  BY <1>2, <1>6, <1>7 DEF FileKnown
<1> QED
  BY <1>8, <1>9, <1>10, <1>11 DEF FileKnown, FileWithin, Filing!Exists, FileCreating, FilePlacing, FileMoving

\* A step that changes no folder.
LEMMA FileSoundStays ==
    ASSUME NEW q \in FileRecord, FileSound(q), UNCHANGED folder, mixed_folders \subseteq mixed_folders', strayed \subseteq strayed'
    PROVE  FileSound(q)'
<1>1. \A f : FileAtTop(f)' = FileAtTop(f) /\ Filing!Visible(f)' = Filing!Visible(f)
  BY DEF FileAtTop, Filing!Visible, Filing!Exists
<1>2. \A g \in mixed_folders : g \in mixed_folders'
  OBVIOUS
<1>3. q.folder \in strayed => q.folder \in strayed'
  OBVIOUS
<1> QED
  BY <1>1, <1>2, <1>3 DEF FileSound, FileCreating, FilePlacing, FileMoving, FileAtTop, Filing!Visible, Filing!Exists

LEMMA FileTablesStay ==
    ASSUME FileIInv, UNCHANGED <<folder, submission>>, mixed_folders \subseteq mixed_folders', strayed \subseteq strayed'
    PROVE  FileOwned' /\ FilePlaced' /\ FileFiled'
<1>1. FileOwned' /\ FileFiled'
  BY DEF FileIInv, FileOwned, FileFiled, FileWithin, Filing!Visible, Filing!Exists
<1>2. FilePlaced'
  BY DEF FileIInv, FilePlaced, FileAtTop, Filing!Visible, Filing!Exists
<1> QED
  BY <1>1, <1>2

\* A call goes on: to r, whose folders are its own or meet what it met.
LEMMA FileCallGoes ==
    ASSUME FileIInv, NEW c \in Calls, NEW r \in FileRecord, call' = [call EXCEPT ![c] = r], UNCHANGED <<folder, submission>>,
           mixed_folders \subseteq mixed_folders', mixed_folders' \subseteq Ids \cup Submissions, strayed \subseteq strayed', strayed' \subseteq Ids,
           \A d \in Calls \ {c} : Filing!Touches(r) \cap Filing!Touches(call[d]) \subseteq mixed_folders', FileKnown(r), FileSound(r)'
    PROVE  FileIInv'
<1>1. call' \in [Calls -> FileRecord] /\ call'[c] = r /\ FileElsewhere(c)
  BY FileTypeParts DEF FileIInv, FileElsewhere
<1>2. Filing!TypeOK'
  BY <1>1, FileTypeParts DEF FileIInv, FileTables
<1>3. FileOverlaps'
  <2> SUFFICES ASSUME NEW d \in Calls, NEW e \in Calls, d # e
               PROVE  Filing!Touches(call'[d]) \cap Filing!Touches(call'[e]) \subseteq mixed_folders'
    BY DEF FileOverlaps, Filing!Touches
  <2>1. CASE d # c /\ e # c
    BY <1>1, <2>1 DEF FileIInv, FileOverlaps, FileElsewhere
  <2>2. CASE d = c
    BY <1>1, <2>2 DEF FileElsewhere
  <2>3. CASE e = c
    BY <1>1, <2>3 DEF FileElsewhere
  <2> QED
    BY <2>1, <2>2, <2>3
<1>4. FileKeeps
  BY DEF FileKeeps, Filing!Exists
<1>5. FileAllKnown'
  <2> SUFFICES ASSUME NEW d \in Calls PROVE FileKnown(call[d])'
    BY DEF FileAllKnown
  <2>1. PICK q \in FileRecord : q = call'[d]
    BY <1>1
  <2>2. FileKnown(q)
    BY <1>1, <2>1 DEF FileElsewhere, FileIInv, FileAllKnown
  <2>3. FileKnown(q)'
    BY <1>4, <2>2, FileKnownStays
  <2> QED
    BY <2>1, <2>3 DEF FileKnown, FileWithin, Filing!Exists, FileCreating, FilePlacing, FileMoving
<1>6. FileAllSound'
  <2> SUFFICES ASSUME NEW d \in Calls PROVE FileSound(call[d])'
    BY DEF FileAllSound
  <2>1. PICK q \in FileRecord : q = call'[d]
    BY <1>1
  <2>2. FileSound(q)'
    <3>1. CASE d = c
      BY <1>1, <2>1, <3>1
    <3>2. CASE d # c
      <4>1. FileSound(q)
        BY <1>1, <2>1, <3>2 DEF FileElsewhere, FileIInv, FileAllSound
      <4> QED
        BY <4>1, FileSoundStays
    <3> QED
      BY <3>1, <3>2
  <2> QED
    BY <2>1, <2>2 DEF FileSound, FileAtTop, Filing!Visible, Filing!Exists, FileCreating, FilePlacing, FileMoving
<1> QED
  BY <1>2, <1>3, <1>5, <1>6, FileTablesStay DEF FileIInv
-----------------------------------------------------------------------------
\* A request begins: what it touches that others touch is mixed.
LEMMA FileBeginInv ==
    ASSUME FileIInv, NEW c \in Calls, NEW r \in FileRecord, Filing!Begin(c, r), UNCHANGED <<folder, submission, strayed>>, FileKnown(r), FileSound(r)
    PROVE  FileIInv'
<1>1. call[c] = Filing!Idle /\ call' = [call EXCEPT ![c] = r] /\ mixed_folders' = mixed_folders \cup (Filing!Touches(r) \cap Filing!InUse)
  BY DEF Filing!Begin, Filing!Start
<1>2. Filing!Touches(r) \subseteq Ids \cup Submissions
  BY FileKinds
<1>3. mixed_folders \subseteq mixed_folders' /\ mixed_folders' \subseteq Ids \cup Submissions /\ strayed \subseteq strayed' /\ strayed' \subseteq Ids
  BY <1>1, <1>2 DEF FileIInv, Filing!TypeOK
<1>4. \A d \in Calls : Filing!Touches(call[d]) \subseteq Filing!InUse
  BY DEF Filing!InUse
<1>5. \A d \in Calls \ {c} : Filing!Touches(r) \cap Filing!Touches(call[d]) \subseteq mixed_folders'
  BY <1>1, <1>4
<1>6. FileSound(r)'
  BY <1>3, FileSoundStays
<1> QED
  BY <1>1, <1>3, <1>5, <1>6, FileCallGoes

LEMMA FileEndInv ==
    ASSUME FileIInv, NEW c \in Calls, Filing!End(c), UNCHANGED <<folder, submission, mixed_folders>>, strayed \subseteq strayed', strayed' \subseteq Ids
    PROVE  FileIInv'
<1>1. Filing!Idle \in FileRecord /\ Filing!Touches(Filing!Idle) = {} /\ call' = [call EXCEPT ![c] = Filing!Idle]
  BY FileIdleIs DEF Filing!End
<1>2. FileKnown(Filing!Idle) /\ FileSound(Filing!Idle)'
  BY FileIdleIs DEF FileKnown, FileSound, FileCreating, FilePlacing, FileMoving
<1>3. mixed_folders' \subseteq Ids \cup Submissions
  BY DEF FileIInv, Filing!TypeOK
<1> QED
  BY <1>1, <1>2, <1>3, FileCallGoes

\* A call goes on to r, with the same folders.
LEMMA FileGoesInv ==
    ASSUME FileIInv, NEW c \in Calls, NEW r \in FileRecord, call' = [call EXCEPT ![c] = r], Filing!Touches(r) = Filing!Touches(call[c]),
           UNCHANGED <<folder, submission, mixed_folders>>, strayed \subseteq strayed', strayed' \subseteq Ids, FileKnown(r), FileSound(r)'
    PROVE  FileIInv'
<1>1. \A d \in Calls \ {c} : Filing!Touches(r) \cap Filing!Touches(call[d]) \subseteq mixed_folders'
  BY DEF FileIInv, FileOverlaps
<1>2. mixed_folders' \subseteq Ids \cup Submissions
  BY DEF FileIInv, Filing!TypeOK
<1> QED
  BY <1>1, <1>2, FileCallGoes
-----------------------------------------------------------------------------
LEMMA FileCreateCheckParentInv ==
    ASSUME FileIInv, NEW c \in Calls, NEW u \in Filers, NEW p \in Ids \cup {Filing!Root}, NEW t \in Titles, Filing!CreateCheckParent(c, u, p, t)
    PROVE  FileIInv'
<1> DEFINE q == [at |-> "create title", user |-> u, parent |-> p, title |-> t]
<1>1. q \in FileCreateCall /\ q.at = "create title" /\ q.user = u /\ q.parent = p
  BY DEF FileCreateCall
<1>2. Filing!CheckTop(u, p) /\ Filing!Begin(c, q) /\ UNCHANGED <<folder, submission, strayed>>
  BY DEF Filing!CreateCheckParent
<1> HIDE DEF q
<1>3. p # Filing!Root => FileAtTop(p) /\ FileWithin(p, u)
  BY <1>2 DEF Filing!CheckTop, Filing!CheckFolder, FileAtTop, FileWithin, Filing!Visible
<1>4. q \in FileRecord /\ FileKnown(q) /\ FileSound(q)
  BY <1>1, <1>3, FileCreateCallIs DEF FileKnown, FileSound, FileCreating, FilePlacing, FileMoving
<1> QED
  BY <1>2, <1>4, FileBeginInv

LEMMA FileCreateCheckTitleInv ==
    ASSUME FileIInv, NEW c \in Calls, Filing!CreateCheckTitle(c)
    PROVE  FileIInv'
<1>1. /\ call[c].at = "create title" /\ UNCHANGED <<folder, submission, mixed_folders, strayed>>
      /\ Filing!Goto(c, "create insert") \/ Filing!End(c)
  BY DEF Filing!CreateCheckTitle, Filing!Check, Filing!At
<1>2. strayed \subseteq strayed' /\ strayed' \subseteq Ids
  BY <1>1 DEF FileIInv, Filing!TypeOK
<1>3. CASE Filing!End(c)
  BY <1>1, <1>2, <1>3, FileEndInv
<1>4. CASE Filing!Goto(c, "create insert")
  <2>1. PICK q \in FileCreateCall : q = call[c] /\ FileKnown(q) /\ FileSound(q) /\ q.at = "create title"
    BY <1>1, FileKinds, FileTypeParts DEF FileIInv, FileAllKnown, FileAllSound, FileCreating
  <2>2. PICK r \in FileCreateCall : call' = [call EXCEPT ![c] = r] /\ r.at = "create insert" /\ r.user = q.user /\ r.parent = q.parent
    BY <1>4, <2>1, FileCreateGoes
  <2>3. r \in FileRecord /\ Filing!Touches(r) = Filing!Touches(call[c])
    BY <2>1, <2>2, FileCreateCallIs, FileCreateTouches
  <2>4. FileKnown(r) /\ FileSound(r)
    BY <2>1, <2>2 DEF FileKnown, FileSound, FileCreating, FilePlacing, FileMoving
  <2>5. FileSound(r)'
    BY <1>1, <2>3, <2>4, FileSoundStays
  <2> QED
    BY <1>1, <1>2, <2>2, <2>3, <2>4, <2>5, FileGoesInv
<1> QED
  BY <1>1, <1>3, <1>4

LEMMA FileMoveReadInv ==
    ASSUME Filing!ConstantsOK, FileIInv, NEW c \in Calls, NEW u \in Filers, NEW f \in Ids, NEW p \in Ids \cup {Filing!Root}, Filing!MoveRead(c, u, f, p)
    PROVE  FileIInv'
<1> DEFINE q == [at |-> "move children", user |-> u, folder |-> f, parent |-> p, title |-> folder[f].title]
<1>1. Filing!Exists(f) /\ f # p /\ folder[f].userid = u /\ Filing!Begin(c, q) /\ UNCHANGED <<folder, submission, strayed>>
  BY DEF Filing!MoveRead
<1>2. folder[f].title \in Titles
  BY <1>1 DEF FileIInv, Filing!TypeOK, Filing!Rows, Filing!Exists
<1>3. q \in FileMoveCall /\ q.at = "move children" /\ q.user = u /\ q.folder = f /\ q.parent = p
  BY <1>2 DEF FileMoveCall
<1> HIDE DEF q
<1>4. FileKnown(q) /\ FileSound(q)
  BY <1>1, <1>3 DEF FileKnown, FileSound, FileCreating, FilePlacing, FileMoving, FileWithin
<1>5. q \in FileRecord
  BY <1>3, FileMoveCallIs
<1> QED
  BY <1>1, <1>4, <1>5, FileBeginInv

\* A move goes on.
LEMMA FileMoveGoesInv ==
    ASSUME FileIInv, NEW c \in Calls, NEW q \in FileMoveCall, q = call[c], q.at = "move children" \/ FileMoving(q),
           UNCHANGED <<folder, submission, mixed_folders>>, strayed \subseteq strayed', strayed' \subseteq Ids,
           NEW a \in {"move parent", "move titles", "move update"}, Filing!Goto(c, a),
           a # "move parent" => q.parent = Filing!Root \/ FileWithin(q.parent, q.user),
           a # "move parent" => q.parent \in mixed_folders \cup {Filing!Root} \/ q.folder \in strayed' \/ FileAtTop(q.parent),
           q.folder \in mixed_folders \/ \A g \in Ids \ mixed_folders : Filing!Visible(g) => folder[g].parentid # q.folder
    PROVE  FileIInv'
<1>1. PICK r \in FileMoveCall : /\ call' = [call EXCEPT ![c] = r] /\ r.at = a
                                /\ r.user = q.user /\ r.folder = q.folder /\ r.parent = q.parent
  <2>1. a \in {"move children", "move parent", "move titles", "move update"} /\ call[c] = q
    OBVIOUS
  <2>2. FileMoveGone(c, q, a)
    BY <2>1, FileMoveGoes
  <2> QED
    BY <2>2 DEF FileMoveGone
<1>2. r \in FileRecord /\ Filing!Touches(r) = Filing!Touches(call[c])
  <2>1. Filing!Touches(r) = {r.folder, r.parent} \ {Filing!Root} /\ Filing!Touches(q) = {q.folder, q.parent} \ {Filing!Root}
    BY FileMoveTouches
  <2>2. r \in FileRecord
    BY FileMoveCallIs
  <2> QED
    BY <1>1, <2>1, <2>2
<1>3. FileKnown(q)
  BY DEF FileIInv, FileAllKnown
<1>4. FileKnown(r)
  BY <1>1, <1>3 DEF FileKnown, FileCreating, FilePlacing, FileMoving
<1>5. /\ ~FileCreating(r) /\ r.at \notin {"remove commit", "options", "file"}
      /\ FilePlacing(r) => r.parent \in mixed_folders \cup {Filing!Root} \/ r.folder \in strayed' \/ FileAtTop(r.parent)
      /\ r.folder \in mixed_folders \/ \A g \in Ids \ mixed_folders : Filing!Visible(g) => folder[g].parentid # r.folder
  BY <1>1 DEF FileCreating, FilePlacing
<1>6. FileSound(r)'
  BY <1>5 DEF FileSound, FileCreating, FilePlacing, FileMoving, FileAtTop, Filing!Visible, Filing!Exists
<1> QED
  BY <1>1, <1>2, <1>4, <1>6, FileGoesInv

LEMMA FileMoveCheckChildrenInv ==
    ASSUME FileIInv, NEW c \in Calls, Filing!MoveCheckChildren(c)
    PROVE  FileIInv'
<1>1. /\ call[c].at = "move children" /\ UNCHANGED <<folder, submission, mixed_folders, strayed>>
      /\ \/ /\ ~\E g \in Filing!Children(call[c].folder) : Filing!Visible(g)
            /\ Filing!Goto(c, IF call[c].parent = Filing!Root THEN "move titles" ELSE "move parent")
         \/ Filing!End(c)
  BY DEF Filing!MoveCheckChildren, Filing!Check, Filing!At
<1>2. strayed \subseteq strayed' /\ strayed' \subseteq Ids
  BY <1>1 DEF FileIInv, Filing!TypeOK
<1>3. CASE Filing!End(c)
  BY <1>1, <1>2, <1>3, FileEndInv
<1>4. CASE /\ ~\E g \in Filing!Children(call[c].folder) : Filing!Visible(g)
           /\ Filing!Goto(c, IF call[c].parent = Filing!Root THEN "move titles" ELSE "move parent")
  <2>1. PICK q \in FileMoveCall : q = call[c] /\ q.at = "move children"
    BY <1>1, FileKinds, FileTypeParts DEF FileIInv
  <2>2. \A g \in Ids \ mixed_folders : Filing!Visible(g) => folder[g].parentid # q.folder
    BY <1>4, <2>1 DEF Filing!Children, Filing!Visible
  <2>3. CASE q.parent = Filing!Root
    BY <1>1, <1>2, <1>4, <2>1, <2>2, <2>3, FileMoveGoesInv
  <2>4. CASE q.parent # Filing!Root
    BY <1>1, <1>2, <1>4, <2>1, <2>2, <2>4, FileMoveGoesInv
  <2> QED
    BY <2>3, <2>4
<1> QED
  BY <1>1, <1>3, <1>4

LEMMA FileMoveCheckParentInv ==
    ASSUME FileIInv, NEW c \in Calls, Filing!MoveCheckParent(c)
    PROVE  FileIInv'
<1>1. PICK q \in FileMoveCall : q = call[c] /\ q.at = "move parent"
  BY FileKinds, FileTypeParts DEF FileIInv, Filing!MoveCheckParent, Filing!At, FileMoving
<1>2. /\ UNCHANGED <<folder, submission, mixed_folders>>
      /\ strayed' = IF Filing!Exists(q.parent) /\ folder[q.parent].hidden THEN strayed \cup {q.folder} ELSE strayed
      /\ \/ /\ Filing!Exists(q.parent) /\ folder[q.parent].parentid = Filing!Root /\ folder[q.parent].userid = q.user
            /\ Filing!Goto(c, "move titles")
         \/ Filing!End(c)
  BY <1>1 DEF Filing!MoveCheckParent, Filing!Check
<1>3. q.folder \in Ids
  BY FileMoveCallIs
<1>4. strayed \subseteq strayed' /\ strayed' \subseteq Ids
  BY <1>2, <1>3 DEF FileIInv, Filing!TypeOK
<1>5. CASE Filing!End(c)
  BY <1>2, <1>4, <1>5, FileEndInv
<1>6. CASE /\ Filing!Exists(q.parent) /\ folder[q.parent].parentid = Filing!Root /\ folder[q.parent].userid = q.user
           /\ Filing!Goto(c, "move titles")
  <2>1. FileWithin(q.parent, q.user)
    BY <1>6 DEF FileWithin
  <2>2. q.folder \in strayed' \/ FileAtTop(q.parent)
    BY <1>2, <1>6 DEF FileAtTop, Filing!Visible
  <2>3. q.folder \in mixed_folders \/ \A g \in Ids \ mixed_folders : Filing!Visible(g) => folder[g].parentid # q.folder
    BY <1>1 DEF FileIInv, FileAllSound, FileSound, FileMoving
  <2>4. FileMoving(q)
    BY <1>1 DEF FileMoving
  <2> QED
    BY <1>1, <1>2, <1>4, <1>6, <2>1, <2>2, <2>3, <2>4, FileMoveGoesInv
<1> QED
  BY <1>2, <1>5, <1>6

LEMMA FileMoveCheckTitlesInv ==
    ASSUME FileIInv, NEW c \in Calls, Filing!MoveCheckTitles(c)
    PROVE  FileIInv'
<1>1. /\ call[c].at = "move titles" /\ UNCHANGED <<folder, submission, mixed_folders, strayed>>
      /\ Filing!Goto(c, "move update") \/ Filing!End(c)
  BY DEF Filing!MoveCheckTitles, Filing!Check, Filing!At
<1>2. strayed \subseteq strayed' /\ strayed' \subseteq Ids
  BY <1>1 DEF FileIInv, Filing!TypeOK
<1>3. CASE Filing!End(c)
  BY <1>1, <1>2, <1>3, FileEndInv
<1>4. CASE Filing!Goto(c, "move update")
  <2>1. PICK q \in FileMoveCall : q = call[c] /\ q.at = "move titles" /\ FileMoving(q) /\ FilePlacing(q) /\ FileKnown(q) /\ FileSound(q)
    BY <1>1, FileKinds, FileTypeParts DEF FileIInv, FileAllKnown, FileAllSound, FileMoving, FilePlacing
  <2>2. q.parent = Filing!Root \/ FileWithin(q.parent, q.user)
    BY <2>1 DEF FileKnown
  <2>3. q.parent \in mixed_folders \cup {Filing!Root} \/ q.folder \in strayed' \/ FileAtTop(q.parent)
    BY <1>1, <2>1 DEF FileSound
  <2>4. q.folder \in mixed_folders \/ \A g \in Ids \ mixed_folders : Filing!Visible(g) => folder[g].parentid # q.folder
    BY <2>1 DEF FileSound
  <2> QED
    BY <1>1, <1>2, <1>4, <2>1, <2>2, <2>3, <2>4, FileMoveGoesInv
<1> QED
  BY <1>1, <1>3, <1>4

LEMMA FileRemoveHideInv ==
    ASSUME Filing!ConstantsOK, FileIInv, NEW c \in Calls, NEW u \in Filers, NEW f \in Ids, Filing!RemoveHide(c, u, f)
    PROVE  FileIInv'
<1> DEFINE hides == {g \in {f} \cup Filing!Children(f) : Filing!Visible(g)}
           q == [at |-> "remove commit", folder |-> f, hides |-> hides]
<1>1. Filing!Exists(f) /\ Filing!Begin(c, q) /\ UNCHANGED <<folder, submission, strayed>>
  BY DEF Filing!RemoveHide
<1>2. hides \subseteq Ids
  BY DEF Filing!Children
<1>3. \A g \in hides : Filing!Exists(g) /\ (g = f \/ folder[g].parentid = f)
  BY DEF Filing!Children, Filing!Visible
<1>4. \A g \in Ids : Filing!Visible(g) /\ folder[g].parentid = f => g \in hides
  BY DEF Filing!Children, Filing!Visible
<1> HIDE DEF hides
<1>5. q \in FileRemoveCall /\ q.at = "remove commit" /\ q.folder = f /\ q.hides = hides
  BY <1>2 DEF FileRemoveCall
<1> HIDE DEF q
<1>6. FileKnown(q) /\ FileSound(q)
  BY <1>1, <1>3, <1>4, <1>5 DEF FileKnown, FileSound, FileCreating, FilePlacing, FileMoving
<1>7. q \in FileRecord
  BY <1>5, FileRemoveCallIs
<1> QED
  BY <1>1, <1>6, <1>7, FileBeginInv

LEMMA FileOptionsCheckInv ==
    ASSUME FileIInv, NEW c \in Calls, NEW u \in Filers, NEW f \in Ids, Filing!OptionsCheck(c, u, f)
    PROVE  FileIInv'
<1> DEFINE q == [at |-> "options", folder |-> f]
<1>1. Filing!Visible(f) /\ Filing!Begin(c, q) /\ UNCHANGED <<folder, submission, strayed>>
  BY DEF Filing!OptionsCheck
<1>2. q \in FileOptionsCall /\ q.at = "options" /\ q.folder = f
  BY DEF FileOptionsCall
<1> HIDE DEF q
<1>3. FileKnown(q) /\ FileSound(q)
  BY <1>1, <1>2 DEF FileKnown, FileSound, FileCreating, FilePlacing, FileMoving, Filing!Visible
<1>4. q \in FileRecord
  BY <1>2, FileOptionsCallIs
<1> QED
  BY <1>1, <1>3, <1>4, FileBeginInv

LEMMA FileFileCheckInv ==
    ASSUME FileIInv, NEW c \in Calls, NEW s \in Submissions, NEW u \in Filers, NEW f \in Ids \cup {Filing!Root}, Filing!FileCheck(c, s, u, f)
    PROVE  FileIInv'
<1> DEFINE q == [at |-> "file", submission |-> s, user |-> u, folder |-> f]
<1>1. Filing!CheckFolder(u, f) /\ Filing!Begin(c, q) /\ UNCHANGED <<folder, submission, strayed>>
  BY DEF Filing!FileCheck
<1>2. q \in FileFileCall /\ q.at = "file" /\ q.user = u /\ q.folder = f
  BY DEF FileFileCall
<1> HIDE DEF q
<1>3. FileKnown(q) /\ FileSound(q)
  BY <1>1, <1>2 DEF FileKnown, FileSound, FileCreating, FilePlacing, FileMoving, Filing!Visible, Filing!CheckFolder
<1>4. q \in FileRecord
  BY <1>2, FileFileCallIs
<1> QED
  BY <1>1, <1>3, <1>4, FileBeginInv
-----------------------------------------------------------------------------
\* A call that writes ends; the others know what they knew.
LEMMA FileWriteEnds ==
    ASSUME FileIInv, NEW c \in Calls, Filing!End(c), mixed_folders \subseteq mixed_folders', FileKeeps
    PROVE  /\ call' \in [Calls -> FileRecord] /\ call'[c] = Filing!Idle /\ FileElsewhere(c)
           /\ FileOverlaps' /\ FileAllKnown'
<1>1. call' \in [Calls -> FileRecord] /\ call'[c] = Filing!Idle /\ FileElsewhere(c)
  BY FileTypeParts, FileIdleIs DEF FileIInv, Filing!End, FileElsewhere
<1>2. FileOverlaps'
  <2> SUFFICES ASSUME NEW d \in Calls, NEW e \in Calls, d # e
               PROVE  Filing!Touches(call'[d]) \cap Filing!Touches(call'[e]) \subseteq mixed_folders'
    BY DEF FileOverlaps, Filing!Touches
  <2>1. CASE d # c /\ e # c
    BY <1>1, <2>1 DEF FileIInv, FileOverlaps, FileElsewhere
  <2>2. CASE d = c \/ e = c
    BY <1>1, <2>2, FileIdleIs DEF FileElsewhere
  <2> QED
    BY <2>1, <2>2
<1>3. FileAllKnown'
  <2> SUFFICES ASSUME NEW d \in Calls PROVE FileKnown(call[d])'
    BY DEF FileAllKnown
  <2>1. PICK q \in FileRecord : q = call'[d]
    BY <1>1
  <2>2. FileKnown(q)
    BY <1>1, <2>1, FileIdleIs DEF FileElsewhere, FileIInv, FileAllKnown, FileKnown, FileCreating, FilePlacing, FileMoving
  <2>3. FileKnown(q)'
    BY <2>2, FileKnownStays
  <2> QED
    BY <2>1, <2>3 DEF FileKnown, FileWithin, Filing!Exists, FileCreating, FilePlacing, FileMoving
<1> QED
  BY <1>1, <1>2, <1>3

\* It is enough that what the others have checked holds.
LEMMA FileOthersSound ==
    ASSUME NEW c \in Calls, call' \in [Calls -> FileRecord], call'[c] = Filing!Idle, FileElsewhere(c),
           \A d \in Calls \ {c} : \A q \in FileRecord : q = call[d] => FileSound(q)'
    PROVE  FileAllSound'
<1> SUFFICES ASSUME NEW d \in Calls PROVE FileSound(call[d])'
  BY DEF FileAllSound
<1>1. PICK q \in FileRecord : q = call'[d]
  OBVIOUS
<1>2. FileSound(q)'
  <2>1. CASE d = c
    BY <1>1, <2>1, FileIdleIs DEF FileSound, FileCreating, FilePlacing, FileMoving
  <2>2. CASE d # c
    BY <1>1, <2>2 DEF FileElsewhere
  <2> QED
    BY <2>1, <2>2
<1> QED
  BY <1>1, <1>2 DEF FileSound, FileAtTop, Filing!Visible, Filing!Exists, FileCreating, FilePlacing, FileMoving

\* What a call that is checked is about.
LEMMA FileTouchesAre ==
    ASSUME Filing!ConstantsOK, NEW q \in FileRecord
    PROVE  /\ FileCreating(q) => q.parent \in Ids \cup {Filing!Root} /\ (q.parent # Filing!Root => q.parent \in Filing!Touches(q))
           /\ FileMoving(q) => /\ q.folder \in Ids /\ q.folder \in Filing!Touches(q)
                               /\ q.parent \in Ids \cup {Filing!Root} /\ (q.parent # Filing!Root => q.parent \in Filing!Touches(q))
           /\ q.at = "remove commit" => /\ q.folder \in Ids /\ q.folder \in Filing!Touches(q)
                                        /\ q.hides \subseteq Ids /\ q.hides \subseteq Filing!Touches(q)
           /\ q.at = "options" => q.folder \in Ids /\ q.folder \in Filing!Touches(q)
           /\ q.at = "file" => q.folder \in Ids \cup {Filing!Root} /\ (q.folder # Filing!Root => q.folder \in Filing!Touches(q))
<1>1. FileCreating(q) => q.parent \in Ids \cup {Filing!Root} /\ Filing!Touches(q) = {q.parent} \ {Filing!Root}
  BY FileKinds, FileCreateCallIs, FileCreateTouches, Zenon
<1>2. FileMoving(q) => q.folder \in Ids /\ q.parent \in Ids \cup {Filing!Root} /\ Filing!Touches(q) = {q.folder, q.parent} \ {Filing!Root}
  BY FileKinds, FileMoveCallIs, FileMoveTouches, Zenon
<1>3. q.at = "remove commit" => q.folder \in Ids /\ q.hides \subseteq Ids /\ Filing!Touches(q) = ({q.folder} \cup q.hides) \ {Filing!Root}
  BY FileKinds, FileRemoveCallIs, FileRemoveTouches, Zenon
<1>4. q.at = "options" => q.folder \in Ids /\ Filing!Touches(q) = {q.folder} \ {Filing!Root}
  BY FileKinds, FileOptionsCallIs, FileOptionsTouches, Zenon
<1>5. q.at = "file" => q.folder \in Ids \cup {Filing!Root} /\ Filing!Touches(q) = {q.submission, q.folder} \ {Filing!Root}
  BY FileKinds, FileFileCallIs, FileFileTouches, Zenon
<1>6. Filing!Root \notin Ids
  BY DEF Filing!ConstantsOK, Filing!Root
<1> QED
  BY <1>1, <1>2, <1>3, <1>4, <1>5, <1>6
-----------------------------------------------------------------------------
\* A folder is made, in a folder that is at the top unless others met it.
LEMMA FileCreateInsertInv ==
    ASSUME Filing!ConstantsOK, FileIInv, NEW c \in Calls, NEW f \in Ids, Filing!CreateInsert(c, f)
    PROVE  FileIInv'
<1>1. PICK q \in FileCreateCall : q = call[c] /\ q.at = "create insert" /\ FileKnown(q) /\ FileSound(q) /\ FileCreating(q)
  BY FileKinds, FileTypeParts DEF FileIInv, FileAllKnown, FileAllSound, FileCreating, Filing!CreateInsert, Filing!At
<1>2. PICK p \in Ids \cup {Filing!Root}, u \in Filers, t \in Titles : p = q.parent /\ u = q.user /\ t = q.title
  BY FileCreateCallIs
<1> DEFINE row == [parentid |-> p, userid |-> u, title |-> t, hidden |-> FALSE]
<1>3. /\ ~Filing!Exists(f) /\ folder' = [folder EXCEPT ![f] = row]
      /\ mixed_folders' = mixed_folders \cup (IF p \in mixed_folders THEN {f} ELSE {})
      /\ Filing!End(c) /\ UNCHANGED <<submission, strayed>>
  BY <1>1, <1>2 DEF Filing!CreateInsert
<1>4. row \in Filing!Rows /\ row # Filing!Absent /\ row.parentid = p /\ row.userid = u /\ ~row.hidden
  <2>1. row \in Filing!Rows /\ row.parentid = p /\ row.userid = u /\ ~row.hidden
    BY DEF Filing!Rows
  <2>2. None \notin Filing!Rows
    BY DEF Filing!ConstantsOK
  <2> HIDE DEF row
  <2> QED
    BY <2>1, <2>2 DEF Filing!Absent
<1> HIDE DEF row
<1>5. folder'[f] = row /\ \A g \in Ids \ {f} : folder'[g] = folder[g]
  BY <1>3 DEF FileIInv, Filing!TypeOK
<1>6. FileTables'
  BY <1>3, <1>4, FileTypeParts DEF FileIInv, FileTables
<1>7. mixed_folders \subseteq mixed_folders' /\ FileKeeps
  BY <1>3, <1>5 DEF FileKeeps, Filing!Exists
<1>8. call' \in [Calls -> FileRecord] /\ call'[c] = Filing!Idle /\ FileElsewhere(c) /\ FileOverlaps' /\ FileAllKnown'
  BY <1>3, <1>7, FileWriteEnds
<1>9. (p = Filing!Root \/ FileWithin(p, u)) /\ (p \in mixed_folders \cup {Filing!Root} \/ FileAtTop(p)) /\ p # f
  <2>1. (p = Filing!Root \/ FileWithin(p, u)) /\ (p \in mixed_folders \cup {Filing!Root} \/ FileAtTop(p))
    BY <1>1, <1>2 DEF FileKnown, FileSound
  <2> QED
    BY <1>3, <2>1 DEF FileWithin, Filing!ConstantsOK, Filing!Root
<1>10. \A g \in Ids \ {f} : /\ Filing!Visible(g)' = Filing!Visible(g) /\ FileAtTop(g)' = FileAtTop(g)
                            /\ \A v : FileWithin(g, v) => FileWithin(g, v)'
  BY <1>5 DEF Filing!Visible, FileAtTop, FileWithin, Filing!Exists
<1>11. FileOwned'
  <2> SUFFICES ASSUME NEW g \in Ids, Filing!Exists(g)'
               PROVE  folder'[g].parentid = Filing!Root \/ FileWithin(folder[g].parentid, folder[g].userid)'
    BY DEF FileOwned, Filing!Exists
  <2>1. CASE g = f
    BY <1>4, <1>5, <1>9, <1>10, <2>1 DEF FileWithin, Filing!Exists
  <2>2. CASE g # f
    <3>1. PICK o : o = folder[g].parentid /\ Filing!Exists(g) /\ folder'[g] = folder[g]
      BY <1>5, <2>2 DEF Filing!Exists
    <3>2. o = Filing!Root \/ (FileWithin(o, folder[g].userid) /\ o \in Ids /\ o # f)
      BY <1>3, <3>1 DEF FileIInv, FileOwned, FileWithin, Filing!TypeOK, Filing!Rows, Filing!Exists
    <3> QED
      BY <1>5, <3>1, <3>2 DEF FileWithin, Filing!Exists
  <2> QED
    BY <2>1, <2>2
<1>12. FileAllSound'
  <2> SUFFICES ASSUME NEW d \in Calls \ {c}, NEW r \in FileRecord, r = call[d]
               PROVE  FileSound(r)'
    BY <1>8, FileOthersSound
  <2>1. FileSound(r) /\ FileKnown(r)
    BY DEF FileIInv, FileAllSound, FileAllKnown
  <2>2. p # Filing!Root /\ p \in Filing!Touches(r) => p \in mixed_folders /\ f \in mixed_folders'
    <3>1. Filing!Touches(r) \cap Filing!Touches(q) \subseteq mixed_folders
      BY <1>1 DEF FileIInv, FileOverlaps
    <3>2. p # Filing!Root => p \in Filing!Touches(q)
      BY <1>2, FileCreateTouches
    <3> QED
      BY <1>3, <3>1, <3>2
  <2>3. FileCreating(r) => r.parent \in mixed_folders' \cup {Filing!Root} \/ FileAtTop(r.parent)'
    BY <1>3, <1>7, <1>10, <2>1, FileTouchesAre DEF FileSound, FileAtTop, Filing!Visible
  <2>4. FilePlacing(r) => r.parent \in mixed_folders' \cup {Filing!Root} \/ r.folder \in strayed' \/ FileAtTop(r.parent)'
    BY <1>3, <1>7, <1>10, <2>1, FileTouchesAre DEF FileSound, FileAtTop, Filing!Visible, FileMoving
  <2>5. FileMoving(r) => r.folder \in mixed_folders' \/ \A g \in Ids \ mixed_folders' : Filing!Visible(g)' => folder'[g].parentid # r.folder
    <3> SUFFICES ASSUME FileMoving(r), r.folder \notin mixed_folders', NEW g \in Ids \ mixed_folders', Filing!Visible(g)', folder'[g].parentid = r.folder
                 PROVE  FALSE
      OBVIOUS
    <3>1. r.folder \in Ids /\ r.folder \in Filing!Touches(r) /\ r.folder # Filing!Root
      BY FileTouchesAre DEF Filing!ConstantsOK, Filing!Root
    <3>2. g = f => p = r.folder
      BY <1>4, <1>5
    <3>3. g # f
      BY <1>7, <2>2, <3>1, <3>2
    <3> QED
      BY <1>5, <1>7, <1>10, <2>1, <3>3 DEF FileSound
  <2>6. r.at = "remove commit" =>
          /\ r.folder \in mixed_folders' \/ \A g \in Ids \ mixed_folders' : Filing!Visible(g)' /\ folder'[g].parentid = r.folder => g \in r.hides
          /\ \A g \in r.hides \ mixed_folders' : g = r.folder \/ folder'[g].parentid = r.folder
    <3> SUFFICES ASSUME r.at = "remove commit"
                 PROVE  /\ r.folder \in mixed_folders' \/ \A g \in Ids \ mixed_folders' : Filing!Visible(g)' /\ folder'[g].parentid = r.folder => g \in r.hides
                        /\ \A g \in r.hides \ mixed_folders' : g = r.folder \/ folder'[g].parentid = r.folder
      OBVIOUS
    <3>1. /\ r.folder \in Ids /\ r.folder \in Filing!Touches(r) /\ r.folder # Filing!Root /\ r.hides \subseteq Ids
      BY FileTouchesAre DEF Filing!ConstantsOK, Filing!Root
    <3>2. ASSUME r.folder \notin mixed_folders', NEW g \in Ids \ mixed_folders', Filing!Visible(g)', folder'[g].parentid = r.folder
          PROVE  g \in r.hides
      <4>1. g = f => p = r.folder
        BY <1>4, <1>5, <3>2
      <4>2. g # f
        BY <1>7, <2>2, <3>1, <3>2, <4>1
      <4> QED
        BY <1>5, <1>7, <1>10, <2>1, <3>2, <4>2 DEF FileSound
    <3>3. ASSUME NEW g \in r.hides \ mixed_folders' PROVE g = r.folder \/ folder'[g].parentid = r.folder
      <4>1. g # f
        BY <1>3, <2>1 DEF FileKnown
      <4> QED
        BY <1>5, <1>7, <2>1, <3>1, <4>1 DEF FileSound
    <3> QED
      BY <3>2, <3>3
  <2>7. /\ r.at = "options" => r.folder \in mixed_folders' \/ Filing!Visible(r.folder)'
        /\ r.at = "file" => r.folder \in mixed_folders' \cup {Filing!Root} \/ (Filing!Visible(r.folder)' /\ folder'[r.folder].userid = r.user)
    BY <1>3, <1>5, <1>7, <1>10, <2>1, FileTouchesAre DEF FileSound, Filing!Visible
  <2> QED
    BY <2>3, <2>4, <2>5, <2>6, <2>7 DEF FileSound, FileAtTop, Filing!Visible, Filing!Exists, FileCreating, FilePlacing, FileMoving
<1>13. FilePlaced'
  <2> SUFFICES ASSUME NEW g \in Ids \ (mixed_folders' \cup strayed'), Filing!Visible(g)', NEW o, o = folder'[g].parentid
               PROVE  o \in mixed_folders' \cup {Filing!Root} \/ FileAtTop(o)'
    BY DEF FilePlaced, FileAtTop, Filing!Visible, Filing!Exists
  <2>1. CASE g = f
    <3>1. o = p
      BY <1>4, <1>5, <2>1
    <3> QED
      BY <1>7, <1>9, <1>10, <3>1
  <2>2. CASE g # f
    <3>1. Filing!Visible(g) /\ o = folder[g].parentid /\ g \notin mixed_folders \cup strayed
      BY <1>3, <1>5, <1>7, <1>10, <2>2
    <3>2. o \in mixed_folders \cup {Filing!Root} \/ FileAtTop(o)
      BY <3>1 DEF FileIInv, FilePlaced
    <3>3. o \in Ids \cup {Filing!Root}
      BY <3>1 DEF FileIInv, Filing!TypeOK, Filing!Rows, Filing!Visible, Filing!Exists
    <3> QED
      BY <1>3, <1>7, <1>10, <3>2, <3>3 DEF FileAtTop, Filing!Visible
  <2> QED
    BY <2>1, <2>2
<1>14. FileFiled'
  <2> SUFFICES ASSUME NEW s \in Submissions, submission'[s] # Filing!Absent, NEW o, o = submission'[s].folderid
               PROVE  o \in mixed_folders' \cup {Filing!Root} \/ (Filing!Visible(o)' /\ folder'[o].userid = submission'[s].userid)
    BY DEF FileFiled, Filing!Visible, Filing!Exists
  <2>1. o \in mixed_folders \cup {Filing!Root} \/ (Filing!Visible(o) /\ folder[o].userid = submission[s].userid)
    BY <1>3 DEF FileIInv, FileFiled
  <2>2. o \in Ids \cup {Filing!Root}
    BY <1>3 DEF FileIInv, Filing!TypeOK
  <2> QED
    BY <1>3, <1>5, <1>7, <1>10, <2>1, <2>2 DEF Filing!Visible
<1> QED
  BY <1>6, <1>8, <1>11, <1>12, <1>13, <1>14, FileTypeParts DEF FileIInv

LEMMA FileRowChanges ==
    ASSUME Filing!ConstantsOK, NEW r \in Filing!Rows, NEW e,
           \/ \E p \in Ids \cup {Filing!Root} : e = [r EXCEPT !.parentid = p]
           \/ \E h \in BOOLEAN : e = [r EXCEPT !.hidden = h]
           \/ \E t \in Titles : e = [r EXCEPT !.title = t]
    PROVE  e \in Filing!Rows \ {Filing!Absent}
<1>1. e \in Filing!Rows
  BY DEF Filing!Rows
<1>2. Filing!Absent \notin Filing!Rows
  BY DEF Filing!ConstantsOK, Filing!Absent
<1> QED
  BY <1>1, <1>2

\* Rows change, of folders in some set: those that q touches are mixed.  No
\* folder becomes a visible child of one that q touches.
LEMMA FileSoundElse ==
    ASSUME Filing!ConstantsOK, NEW q \in FileRecord, FileKnown(q), FileSound(q), mixed_folders \subseteq mixed_folders', strayed \subseteq strayed',
           NEW W, W \cap Filing!Touches(q) \subseteq mixed_folders',
           \A g \in Ids \ W : FileLike(g),
           \A g \in Ids \ mixed_folders' : \A o \in Filing!Touches(q) \ mixed_folders' :
               Filing!Visible(g)' /\ folder'[g].parentid = o => Filing!Visible(g) /\ folder[g].parentid = o
    PROVE  FileSound(q)'
<1>1. \A g \in Ids \ W : FileAtTop(g)' = FileAtTop(g) /\ Filing!Visible(g)' = Filing!Visible(g)
  BY DEF FileAtTop, Filing!Visible, Filing!Exists, FileLike
<1>2. FileCreating(q) => q.parent \in mixed_folders' \cup {Filing!Root} \/ FileAtTop(q.parent)'
  <2> SUFFICES ASSUME FileCreating(q), q.parent \notin mixed_folders', q.parent # Filing!Root PROVE FileAtTop(q.parent)'
    BY DEF FileAtTop, Filing!Visible, Filing!Exists
  <2>1. q.parent \in Ids \ W
    BY FileTouchesAre
  <2>2. FileAtTop(q.parent)
    BY DEF FileSound
  <2> QED
    BY <1>1, <2>1, <2>2
<1>3. FilePlacing(q) => q.parent \in mixed_folders' \cup {Filing!Root} \/ q.folder \in strayed' \/ FileAtTop(q.parent)'
  <2> SUFFICES ASSUME FilePlacing(q), q.parent \notin mixed_folders', q.parent # Filing!Root, q.folder \notin strayed' PROVE FileAtTop(q.parent)'
    BY DEF FileAtTop, Filing!Visible, Filing!Exists
  <2>1. q.parent \in Ids \ W
    BY FileTouchesAre DEF FileMoving
  <2>2. FileAtTop(q.parent)
    BY DEF FileSound
  <2> QED
    BY <1>1, <2>1, <2>2
<1>4. FileMoving(q) => q.folder \in mixed_folders' \/ \A g \in Ids \ mixed_folders' : Filing!Visible(g)' => folder'[g].parentid # q.folder
  <2> SUFFICES ASSUME FileMoving(q), q.folder \notin mixed_folders', NEW g \in Ids \ mixed_folders', Filing!Visible(g)', folder'[g].parentid = q.folder
               PROVE  FALSE
    OBVIOUS
  <2>1. q.folder \in Filing!Touches(q) \ mixed_folders'
    BY FileTouchesAre
  <2>2. Filing!Visible(g) /\ folder[g].parentid = q.folder
    BY <2>1
  <2> QED
    BY <2>2 DEF FileSound
<1>5. q.at = "remove commit" =>
          q.folder \in mixed_folders' \/ \A g \in Ids \ mixed_folders' : Filing!Visible(g)' /\ folder'[g].parentid = q.folder => g \in q.hides
  <2> SUFFICES ASSUME q.at = "remove commit", q.folder \notin mixed_folders',
                      NEW g \in Ids \ mixed_folders', Filing!Visible(g)', folder'[g].parentid = q.folder
               PROVE  g \in q.hides
    OBVIOUS
  <2>1. q.folder \in Filing!Touches(q) \ mixed_folders'
    BY FileTouchesAre
  <2>2. Filing!Visible(g) /\ folder[g].parentid = q.folder
    BY <2>1
  <2> QED
    BY <2>2 DEF FileSound
<1>6. q.at = "remove commit" => \A g \in q.hides \ mixed_folders' : g = q.folder \/ folder'[g].parentid = q.folder
  <2> SUFFICES ASSUME q.at = "remove commit", NEW g \in q.hides \ mixed_folders'
               PROVE  g = q.folder \/ folder'[g].parentid = q.folder
    OBVIOUS
  <2>1. g \in Ids \ W
    BY FileTouchesAre
  <2>2. folder'[g].parentid = folder[g].parentid
    BY <2>1 DEF FileLike, FileKnown
  <2> QED
    BY <2>2 DEF FileSound
<1>7. q.at = "options" => q.folder \in mixed_folders' \/ Filing!Visible(q.folder)'
  <2> SUFFICES ASSUME q.at = "options", q.folder \notin mixed_folders' PROVE Filing!Visible(q.folder)'
    BY DEF Filing!Visible, Filing!Exists
  <2>1. q.folder \in Ids \ W
    BY FileTouchesAre
  <2> QED
    BY <1>1, <2>1 DEF FileSound
<1>8. q.at = "file" => q.folder \in mixed_folders' \cup {Filing!Root} \/ (Filing!Visible(q.folder)' /\ folder'[q.folder].userid = q.user)
  <2> SUFFICES ASSUME q.at = "file", q.folder \notin mixed_folders', q.folder # Filing!Root
               PROVE  Filing!Visible(q.folder)' /\ folder'[q.folder].userid = q.user
    BY DEF Filing!Visible, Filing!Exists
  <2>1. q.folder \in Ids \ W
    BY FileTouchesAre
  <2> QED
    BY <1>1, <2>1 DEF FileSound, FileLike, Filing!Visible
<1> QED
  BY <1>2, <1>3, <1>4, <1>5, <1>6, <1>7, <1>8 DEF FileSound, FileAtTop, Filing!Visible, Filing!Exists, FileCreating, FilePlacing, FileMoving

LEMMA FileRenameInv ==
    ASSUME Filing!ConstantsOK, FileIInv, NEW u \in Filers, NEW f \in Ids, NEW t \in Titles, Filing!Rename(u, f, t)
    PROVE  FileIInv'
<1>1. Filing!Exists(f) /\ folder' = [folder EXCEPT ![f].title = t] /\ UNCHANGED <<submission, call, mixed_folders, strayed>>
  BY DEF Filing!Rename
<1>2. PICK r \in Filing!Rows : r = folder[f]
  BY <1>1 DEF FileIInv, Filing!TypeOK, Filing!Exists
<1> DEFINE e == [r EXCEPT !.title = t]
<1>3. folder' = [folder EXCEPT ![f] = e]
  BY <1>1, <1>2
<1>4. e \in Filing!Rows \ {Filing!Absent} /\ e.hidden = r.hidden /\ e.userid = r.userid /\ e.parentid = r.parentid
  <2>1. e.hidden = r.hidden /\ e.userid = r.userid /\ e.parentid = r.parentid
    BY DEF Filing!Rows
  <2>2. \E k \in Titles : e = [r EXCEPT !.title = k]
    OBVIOUS
  <2> HIDE DEF e
  <2> QED
    BY <2>1, <2>2, FileRowChanges
<1> HIDE DEF e
<1>5. folder'[f] = e /\ \A g \in Ids \ {f} : folder'[g] = folder[g]
  BY <1>3 DEF FileIInv, Filing!TypeOK
<1>6. Filing!TypeOK'
  BY <1>1, <1>3, <1>4 DEF FileIInv, Filing!TypeOK
<1>7. \A g \in Ids : /\ Filing!Exists(g)' = Filing!Exists(g) /\ Filing!Visible(g)' = Filing!Visible(g) /\ FileAtTop(g)' = FileAtTop(g)
                     /\ Filing!Exists(g) => folder'[g].parentid = folder[g].parentid /\ folder'[g].userid = folder[g].userid
  BY <1>1, <1>2, <1>4, <1>5 DEF Filing!Exists, Filing!Visible, FileAtTop
<1>8. FileKeeps
  BY <1>7 DEF FileKeeps, Filing!Exists
<1>9. FileOverlaps'
  BY <1>1 DEF FileIInv, FileOverlaps, Filing!Touches
<1>10. FileAllKnown' /\ FileAllSound'
  <2> SUFFICES ASSUME NEW d \in Calls PROVE FileKnown(call[d])' /\ FileSound(call[d])'
    BY DEF FileAllKnown, FileAllSound
  <2>1. PICK q \in FileRecord : q = call[d] /\ FileKnown(q) /\ FileSound(q)
    BY FileTypeParts DEF FileIInv, FileAllKnown, FileAllSound
  <2>2. FileKnown(q)'
    BY <1>8, <2>1, FileKnownStays
  <2>3. \A g \in Ids \ mixed_folders' : \A o \in Filing!Touches(q) \ mixed_folders' :
            Filing!Visible(g)' /\ folder'[g].parentid = o => Filing!Visible(g) /\ folder[g].parentid = o
    BY <1>7 DEF Filing!Visible
  <2>4. mixed_folders \subseteq mixed_folders' /\ strayed \subseteq strayed' /\ {} \cap Filing!Touches(q) \subseteq mixed_folders'
    BY <1>1
  <2>5. \A g \in Ids \ {} : FileLike(g)
    BY <1>2, <1>4, <1>5, <1>7 DEF FileLike
  <2>6. FileSound(q)'
    BY <2>1, <2>3, <2>4, <2>5, FileSoundElse
  <2> QED
    BY <1>1, <2>1, <2>2, <2>6 DEF FileKnown, FileWithin, FileSound, FileAtTop, Filing!Visible, Filing!Exists, FileCreating, FilePlacing, FileMoving
<1>11. FileOwned' /\ FilePlaced' /\ FileFiled'
  <2>1. \A g \in Ids : Filing!Exists(g) => folder[g].parentid \in Ids \cup {Filing!Root}
    BY DEF FileIInv, Filing!TypeOK, Filing!Rows, Filing!Exists
  <2>2. \A s \in Submissions : submission[s] # Filing!Absent => submission[s].folderid \in Ids \cup {Filing!Root}
    BY DEF FileIInv, Filing!TypeOK
  <2>3. FileOwned'
    <3> SUFFICES ASSUME NEW g \in Ids, Filing!Exists(g)', NEW o, o = folder'[g].parentid, NEW v, v = folder'[g].userid
                 PROVE  o = Filing!Root \/ FileWithin(o, v)'
      BY DEF FileOwned, Filing!Exists, FileWithin
    <3>1. Filing!Exists(g) /\ o = folder[g].parentid /\ v = folder[g].userid
      BY <1>7
    <3> QED
      BY <1>7, <2>1, <3>1 DEF FileIInv, FileOwned, FileWithin
  <2>4. FilePlaced'
    <3> SUFFICES ASSUME NEW g \in Ids \ (mixed_folders \cup strayed), Filing!Visible(g)', NEW o, o = folder'[g].parentid
                 PROVE  o \in mixed_folders \cup {Filing!Root} \/ FileAtTop(o)'
      BY <1>1 DEF FilePlaced, FileAtTop, Filing!Visible, Filing!Exists
    <3>1. Filing!Visible(g) /\ o = folder[g].parentid
      BY <1>7 DEF Filing!Visible
    <3> QED
      BY <1>7, <2>1, <3>1 DEF FileIInv, FilePlaced, Filing!Visible
  <2>5. FileFiled'
    <3> SUFFICES ASSUME NEW s \in Submissions, submission[s] # Filing!Absent, NEW o, o = submission[s].folderid
                 PROVE  o \in mixed_folders \cup {Filing!Root} \/ (Filing!Visible(o)' /\ folder'[o].userid = submission[s].userid)
      BY <1>1 DEF FileFiled, Filing!Visible, Filing!Exists
    <3> QED
      BY <1>7, <2>2 DEF FileIInv, FileFiled, Filing!Visible
  <2> QED
    BY <2>3, <2>4, <2>5
<1> QED
  BY <1>6, <1>9, <1>10, <1>11 DEF FileIInv

\* A folder is moved: others that touch it or where it goes have met the move.
LEMMA FileMoveUpdateInv ==
    ASSUME Filing!ConstantsOK, FileIInv, NEW c \in Calls, Filing!MoveUpdate(c)
    PROVE  FileIInv'
<1>1. PICK q \in FileMoveCall : q = call[c] /\ q.at = "move update" /\ FileKnown(q) /\ FileSound(q) /\ FileMoving(q) /\ FilePlacing(q)
  BY FileKinds, FileTypeParts DEF FileIInv, FileAllKnown, FileAllSound, FileMoving, FilePlacing, Filing!MoveUpdate, Filing!At
<1>2. PICK f \in Ids, p \in Ids \cup {Filing!Root}, u \in Filers : f = q.folder /\ p = q.parent /\ u = q.user
  BY FileMoveCallIs
<1>3. folder' = [folder EXCEPT ![f].parentid = p] /\ Filing!End(c) /\ UNCHANGED <<submission, mixed_folders, strayed>>
  BY <1>1, <1>2 DEF Filing!MoveUpdate
<1>4. FileWithin(f, u) /\ f # p /\ (p = Filing!Root \/ FileWithin(p, u)) /\ (p \in mixed_folders \cup {Filing!Root} \/ f \in strayed \/ FileAtTop(p))
  BY <1>1, <1>2 DEF FileKnown, FileSound
<1>5. f \in mixed_folders \/ \A g \in Ids \ mixed_folders : Filing!Visible(g) => folder[g].parentid # f
  BY <1>1, <1>2 DEF FileSound
<1>6. PICK r \in Filing!Rows : r = folder[f]
  BY <1>4 DEF FileIInv, Filing!TypeOK, Filing!Exists, FileWithin
<1> DEFINE e == [r EXCEPT !.parentid = p]
<1>7. e \in Filing!Rows \ {Filing!Absent} /\ e.parentid = p /\ e.userid = r.userid /\ e.hidden = r.hidden
  <2>1. e.parentid = p /\ e.userid = r.userid /\ e.hidden = r.hidden
    BY DEF Filing!Rows
  <2>2. \E k \in Ids \cup {Filing!Root} : e = [r EXCEPT !.parentid = k]
    OBVIOUS
  <2> HIDE DEF e
  <2> QED
    BY <2>1, <2>2, FileRowChanges
<1>8. folder' = [folder EXCEPT ![f] = e]
  BY <1>3, <1>6
<1> HIDE DEF e
<1>9. folder'[f] = e /\ \A g \in Ids \ {f} : folder'[g] = folder[g]
  BY <1>8 DEF FileIInv, Filing!TypeOK
<1>10. FileTables'
  BY <1>3, <1>7, <1>8, FileTypeParts DEF FileIInv, FileTables
<1>11. /\ \A g \in Ids : Filing!Exists(g)' = Filing!Exists(g) /\ Filing!Visible(g)' = Filing!Visible(g) /\ (Filing!Exists(g) => folder'[g].userid = folder[g].userid)
       /\ \A g \in Ids \ {f} : FileLike(g) /\ FileAtTop(g)' = FileAtTop(g)
       /\ FileKeeps
  <2>1. \A g \in Ids \ {f} : /\ Filing!Exists(g)' = Filing!Exists(g) /\ Filing!Visible(g)' = Filing!Visible(g) /\ folder'[g] = folder[g]
                             /\ FileLike(g) /\ FileAtTop(g)' = FileAtTop(g)
    BY <1>9 DEF Filing!Exists, Filing!Visible, FileLike, FileAtTop
  <2>2. Filing!Exists(f)' /\ Filing!Exists(f) /\ Filing!Visible(f)' = Filing!Visible(f) /\ folder'[f].userid = folder[f].userid
    <3>1. Filing!Exists(f) /\ Filing!Exists(f)'
      BY <1>4, <1>7, <1>9 DEF Filing!Exists, FileWithin
    <3>2. folder'[f].hidden = folder[f].hidden /\ folder'[f].userid = folder[f].userid
      BY <1>6, <1>7, <1>9
    <3> QED
      BY <3>1, <3>2 DEF Filing!Visible
  <2>3. \A g \in Ids : Filing!Exists(g)' = Filing!Exists(g) /\ Filing!Visible(g)' = Filing!Visible(g) /\ (Filing!Exists(g) => folder'[g].userid = folder[g].userid)
    <3>1. Filing!Exists(f)' = Filing!Exists(f)
      BY <2>2 DEF Filing!Exists
    <3> QED
      BY <2>1, <2>2, <3>1
  <2>4. FileKeeps
    <3> SUFFICES ASSUME NEW g \in Ids, Filing!Exists(g) PROVE Filing!Exists(g)' /\ folder'[g].userid = folder[g].userid
      BY DEF FileKeeps, Filing!Exists
    <3> QED
      BY <2>3
  <2> QED
    BY <2>1, <2>3, <2>4
<1>12. call' \in [Calls -> FileRecord] /\ call'[c] = Filing!Idle /\ FileElsewhere(c) /\ FileOverlaps' /\ FileAllKnown'
  BY <1>3, <1>11, FileWriteEnds
<1>13. FileAllSound'
  <2> SUFFICES ASSUME NEW d \in Calls \ {c}, NEW x \in FileRecord, x = call[d]
               PROVE  FileSound(x)'
    BY <1>12, FileOthersSound
  <2>1. FileSound(x) /\ FileKnown(x)
    BY DEF FileIInv, FileAllSound, FileAllKnown
  <2>2. Filing!Touches(x) \cap {f, p} \subseteq mixed_folders \cup {Filing!Root}
    <3>1. Filing!Touches(x) \cap Filing!Touches(q) \subseteq mixed_folders
      BY <1>1 DEF FileIInv, FileOverlaps
    <3>2. Filing!Touches(q) = {f, p} \ {Filing!Root}
      BY <1>2, FileMoveTouches
    <3> QED
      BY <3>1, <3>2
  <2>3. {f} \cap Filing!Touches(x) \subseteq mixed_folders'
    BY <1>3, <2>2 DEF Filing!ConstantsOK, Filing!Root
  <2>4. ASSUME NEW g \in Ids \ mixed_folders', NEW o \in Filing!Touches(x) \ mixed_folders', Filing!Visible(g)', folder'[g].parentid = o
        PROVE  Filing!Visible(g) /\ folder[g].parentid = o
    <3>1. CASE g = f
      <4>1. o = p
        BY <1>7, <1>9, <2>4, <3>1
      <4>2. Filing!Touches(x) \subseteq Ids \cup Submissions
        BY FileKinds
      <4>3. p = Filing!Root
        BY <1>3, <2>2, <2>4, <4>1
      <4>4. o # Filing!Root
        BY <2>4 DEF Filing!Touches
      <4> QED
        BY <4>1, <4>3, <4>4
    <3>2. CASE g # f
      BY <1>9, <1>11, <2>4, <3>2
    <3> QED
      BY <3>1, <3>2
  <2> QED
    BY <1>3, <1>11, <2>1, <2>3, <2>4, FileSoundElse
<1>14. FileOwned'
  <2> SUFFICES ASSUME NEW g \in Ids, Filing!Exists(g)', NEW o, o = folder'[g].parentid, NEW v, v = folder'[g].userid
               PROVE  o = Filing!Root \/ FileWithin(o, v)'
    BY DEF FileOwned, Filing!Exists, FileWithin
  <2>1. \A k \in Ids : FileWithin(k, v) => FileWithin(k, v)'
    BY <1>11 DEF FileWithin
  <2>2. CASE g = f
    <3>1. o = p /\ v = u
      BY <1>4, <1>6, <1>7, <1>9, <2>2 DEF FileWithin
    <3> QED
      BY <1>4, <2>1, <3>1
  <2>3. CASE g # f
    <3>1. Filing!Exists(g) /\ o = folder[g].parentid /\ v = folder[g].userid
      BY <1>9, <1>11, <2>3
    <3>2. o = Filing!Root \/ FileWithin(o, v)
      BY <3>1 DEF FileIInv, FileOwned
    <3>3. o \in Ids \cup {Filing!Root}
      BY <3>1 DEF FileIInv, Filing!TypeOK, Filing!Rows, Filing!Exists
    <3> QED
      BY <2>1, <3>2, <3>3
  <2> QED
    BY <2>2, <2>3
<1>15. FilePlaced'
  <2> SUFFICES ASSUME NEW g \in Ids \ (mixed_folders \cup strayed), Filing!Visible(g)', NEW o, o = folder'[g].parentid
               PROVE  o \in mixed_folders \cup {Filing!Root} \/ FileAtTop(o)'
    BY <1>3 DEF FilePlaced, FileAtTop, Filing!Visible, Filing!Exists
  <2>1. CASE g = f
    <3>1. o = p
      BY <1>7, <1>9, <2>1
    <3>2. p \in mixed_folders \cup {Filing!Root} \/ FileAtTop(p)
      BY <1>4, <2>1
    <3> QED
      BY <1>4, <1>11, <3>1, <3>2
  <2>2. CASE g # f
    <3>1. Filing!Visible(g) /\ o = folder[g].parentid
      BY <1>9, <1>11, <2>2
    <3>2. o \in mixed_folders \cup {Filing!Root} \/ FileAtTop(o)
      BY <3>1 DEF FileIInv, FilePlaced
    <3>3. o \in Ids \cup {Filing!Root}
      BY <3>1 DEF FileIInv, Filing!TypeOK, Filing!Rows, Filing!Visible, Filing!Exists
    <3>4. o # f \/ f \in mixed_folders
      BY <1>5, <3>1
    <3> QED
      BY <1>11, <3>2, <3>3, <3>4
  <2> QED
    BY <2>1, <2>2
<1>16. FileFiled'
  <2> SUFFICES ASSUME NEW s \in Submissions, submission[s] # Filing!Absent, NEW o, o = submission[s].folderid
               PROVE  o \in mixed_folders \cup {Filing!Root} \/ (Filing!Visible(o)' /\ folder'[o].userid = submission[s].userid)
    BY <1>3 DEF FileFiled, Filing!Visible, Filing!Exists
  <2>1. o \in Ids \cup {Filing!Root}
    BY DEF FileIInv, Filing!TypeOK
  <2> QED
    BY <1>11, <2>1 DEF FileIInv, FileFiled, Filing!Visible
<1> QED
  BY <1>10, <1>12, <1>13, <1>14, <1>15, <1>16, FileTypeParts DEF FileIInv

\* A folder is shown that its editor was shown, unless others have met it.
LEMMA FileUpdateSettingsInv ==
    ASSUME Filing!ConstantsOK, FileIInv, NEW c \in Calls, Filing!UpdateSettings(c)
    PROVE  FileIInv'
<1>1. PICK q \in FileOptionsCall : q = call[c] /\ q.at = "options" /\ FileKnown(q) /\ FileSound(q)
  BY FileKinds, FileTypeParts DEF FileIInv, FileAllKnown, FileAllSound, Filing!UpdateSettings, Filing!At
<1>2. PICK f \in Ids : f = q.folder
  BY FileOptionsCallIs
<1>3. folder' = [folder EXCEPT ![f].hidden = FALSE] /\ Filing!End(c) /\ UNCHANGED <<submission, mixed_folders, strayed>>
  BY <1>1, <1>2 DEF Filing!UpdateSettings
<1>4. Filing!Exists(f) /\ (f \in mixed_folders \/ Filing!Visible(f))
  BY <1>1, <1>2 DEF FileKnown, FileSound
<1>5. PICK r \in Filing!Rows : r = folder[f]
  BY <1>4 DEF FileIInv, Filing!TypeOK, Filing!Exists
<1> DEFINE e == [r EXCEPT !.hidden = FALSE]
<1>6. e \in Filing!Rows \ {Filing!Absent} /\ e.parentid = r.parentid /\ e.userid = r.userid /\ e.hidden = FALSE
  <2>1. e.parentid = r.parentid /\ e.userid = r.userid /\ e.hidden = FALSE
    BY DEF Filing!Rows
  <2>2. \E k \in BOOLEAN : e = [r EXCEPT !.hidden = k]
    OBVIOUS
  <2> HIDE DEF e
  <2> QED
    BY <2>1, <2>2, FileRowChanges
<1>7. folder' = [folder EXCEPT ![f] = e]
  BY <1>3, <1>5
<1> HIDE DEF e
<1>8. folder'[f] = e /\ \A g \in Ids \ {f} : folder'[g] = folder[g]
  BY <1>7 DEF FileIInv, Filing!TypeOK
<1>9. FileTables'
  BY <1>3, <1>6, <1>7, FileTypeParts DEF FileIInv, FileTables
<1>10. \A g \in Ids \ {f} : FileLike(g)
  BY <1>8 DEF FileLike, Filing!Exists
<1>11. Filing!Exists(f)' /\ folder'[f].parentid = folder[f].parentid /\ folder'[f].userid = folder[f].userid /\ folder'[f].hidden = FALSE
  <2>1. folder'[f] # Filing!Absent
    BY <1>6, <1>8
  <2> QED
    BY <2>1, <1>5, <1>6, <1>8 DEF Filing!Exists
<1>12. f \in mixed_folders \/ FileLike(f)
  <2>1. folder[f].hidden \in BOOLEAN
    BY <1>5 DEF Filing!Rows
  <2> QED
    BY <1>4, <1>11, <2>1 DEF FileLike, Filing!Visible
<1>13. \A g \in Ids : /\ Filing!Exists(g)' = Filing!Exists(g)
                      /\ Filing!Exists(g) => folder'[g].parentid = folder[g].parentid /\ folder'[g].userid = folder[g].userid
                      /\ Filing!Visible(g) => Filing!Visible(g)'
                      /\ FileAtTop(g) => FileAtTop(g)'
                      /\ g \notin mixed_folders => Filing!Visible(g)' = Filing!Visible(g)
  <2> SUFFICES ASSUME NEW g \in Ids
               PROVE  /\ Filing!Exists(g)' = Filing!Exists(g)
                      /\ Filing!Exists(g) => folder'[g].parentid = folder[g].parentid /\ folder'[g].userid = folder[g].userid
                      /\ Filing!Visible(g) => Filing!Visible(g)'
                      /\ FileAtTop(g) => FileAtTop(g)'
                      /\ g \notin mixed_folders => Filing!Visible(g)' = Filing!Visible(g)
    OBVIOUS
  <2>1. CASE g = f
    BY <1>4, <1>11, <2>1 DEF FileAtTop, Filing!Visible
  <2>2. CASE g # f
    BY <1>10, <2>2 DEF FileLike, FileAtTop, Filing!Visible
  <2> QED
    BY <2>1, <2>2
<1>14. FileKeeps
  BY <1>13 DEF FileKeeps, Filing!Exists
<1>15. call' \in [Calls -> FileRecord] /\ call'[c] = Filing!Idle /\ FileElsewhere(c) /\ FileOverlaps' /\ FileAllKnown'
  BY <1>3, <1>14, FileWriteEnds
<1>16. FileAllSound'
  <2> SUFFICES ASSUME NEW d \in Calls \ {c}, NEW x \in FileRecord, x = call[d]
               PROVE  FileSound(x)'
    BY <1>15, FileOthersSound
  <2>1. FileSound(x) /\ FileKnown(x)
    BY DEF FileIInv, FileAllSound, FileAllKnown
  <2>2. Filing!Touches(x) \cap {f} \subseteq mixed_folders
    <3>1. Filing!Touches(x) \cap Filing!Touches(q) \subseteq mixed_folders
      BY <1>1 DEF FileIInv, FileOverlaps
    <3>2. Filing!Touches(q) = {f} \ {Filing!Root}
      BY <1>2, FileOptionsTouches
    <3> QED
      BY <3>1, <3>2 DEF Filing!ConstantsOK, Filing!Root
  <2>3. {f} \cap Filing!Touches(x) \subseteq mixed_folders'
    BY <1>3, <2>2
  <2>4. ASSUME NEW g \in Ids \ mixed_folders', NEW o \in Filing!Touches(x) \ mixed_folders', Filing!Visible(g)', folder'[g].parentid = o
        PROVE  Filing!Visible(g) /\ folder[g].parentid = o
    BY <1>3, <1>13, <2>4 DEF Filing!Visible
  <2> QED
    BY <1>3, <1>10, <2>1, <2>3, <2>4, FileSoundElse
<1>17. FileOwned' /\ FilePlaced' /\ FileFiled'
  <2>1. \A g \in Ids : Filing!Exists(g) => folder[g].parentid \in Ids \cup {Filing!Root}
    BY DEF FileIInv, Filing!TypeOK, Filing!Rows, Filing!Exists
  <2>2. \A s \in Submissions : submission[s] # Filing!Absent => submission[s].folderid \in Ids \cup {Filing!Root}
    BY DEF FileIInv, Filing!TypeOK
  <2>3. FileOwned'
    <3> SUFFICES ASSUME NEW g \in Ids, Filing!Exists(g)', NEW o, o = folder'[g].parentid, NEW v, v = folder'[g].userid
                 PROVE  o = Filing!Root \/ FileWithin(o, v)'
      BY DEF FileOwned, Filing!Exists, FileWithin
    <3>1. Filing!Exists(g) /\ o = folder[g].parentid /\ v = folder[g].userid
      BY <1>13
    <3> QED
      BY <1>13, <2>1, <3>1 DEF FileIInv, FileOwned, FileWithin
  <2>4. FilePlaced'
    <3> SUFFICES ASSUME NEW g \in Ids \ (mixed_folders \cup strayed), Filing!Visible(g)', NEW o, o = folder'[g].parentid
                 PROVE  o \in mixed_folders \cup {Filing!Root} \/ FileAtTop(o)'
      BY <1>3 DEF FilePlaced, FileAtTop, Filing!Visible, Filing!Exists
    <3>1. Filing!Visible(g) /\ o = folder[g].parentid
      BY <1>13 DEF Filing!Visible
    <3> QED
      BY <1>13, <2>1, <3>1 DEF FileIInv, FilePlaced, Filing!Visible
  <2>5. FileFiled'
    <3> SUFFICES ASSUME NEW s \in Submissions, submission[s] # Filing!Absent, NEW o, o = submission[s].folderid
                 PROVE  o \in mixed_folders \cup {Filing!Root} \/ (Filing!Visible(o)' /\ folder'[o].userid = submission[s].userid)
      BY <1>3 DEF FileFiled, Filing!Visible, Filing!Exists
    <3> QED
      BY <1>13, <2>2 DEF FileIInv, FileFiled, Filing!Visible
  <2> QED
    BY <2>3, <2>4, <2>5
<1> QED
  BY <1>9, <1>15, <1>16, <1>17, FileTypeParts DEF FileIInv

\* A folder and its children are hidden, and nothing is in them any more.
LEMMA FileRemoveCommitInv ==
    ASSUME Filing!ConstantsOK, FileIInv, NEW c \in Calls, Filing!RemoveCommit(c)
    PROVE  FileIInv'
<1>1. PICK q \in FileRemoveCall : q = call[c] /\ q.at = "remove commit" /\ FileKnown(q) /\ FileSound(q)
  BY FileKinds, FileTypeParts DEF FileIInv, FileAllKnown, FileAllSound, Filing!RemoveCommit, Filing!At
<1>2. PICK f \in Ids, W \in SUBSET Ids : f = q.folder /\ W = q.hides
  BY FileRemoveCallIs
<1> DEFINE row(g) == IF g \in W THEN [folder[g] EXCEPT !.hidden = TRUE] ELSE folder[g]
           filed(s) == IF submission[s] # Filing!Absent /\ submission[s].folderid \in {f} \cup Filing!Children(f)
                      THEN [submission[s] EXCEPT !.folderid = Filing!Root] ELSE submission[s]
<1>3. /\ folder' = [g \in Ids |-> row(g)] /\ submission' = [s \in Submissions |-> filed(s)]
      /\ Filing!End(c) /\ UNCHANGED <<mixed_folders, strayed>>
  BY <1>1, <1>2 DEF Filing!RemoveCommit
<1>4. /\ \A g \in W : Filing!Exists(g)
      /\ f \in mixed_folders \/ \A g \in Ids \ mixed_folders : Filing!Visible(g) /\ folder[g].parentid = f => g \in W
      /\ \A g \in W \ mixed_folders : g = f \/ folder[g].parentid = f
  BY <1>1, <1>2 DEF FileKnown, FileSound
<1>5. ASSUME NEW g \in W
      PROVE  /\ folder'[g] \in Filing!Rows \ {Filing!Absent} /\ folder'[g].parentid = folder[g].parentid
             /\ folder'[g].userid = folder[g].userid /\ folder'[g].hidden
  <2>1. PICK r \in Filing!Rows : r = folder[g]
    BY <1>4 DEF FileIInv, Filing!TypeOK, Filing!Exists
  <2> DEFINE e == [r EXCEPT !.hidden = TRUE]
  <2>2. folder'[g] = e
    BY <1>3, <2>1
  <2>3. e \in Filing!Rows \ {Filing!Absent} /\ e.parentid = r.parentid /\ e.userid = r.userid /\ e.hidden
    <3>1. e.parentid = r.parentid /\ e.userid = r.userid /\ e.hidden
      BY DEF Filing!Rows
    <3>2. \E k \in BOOLEAN : e = [r EXCEPT !.hidden = k]
      OBVIOUS
    <3> HIDE DEF e
    <3> QED
      BY <3>1, <3>2, FileRowChanges
  <2> HIDE DEF e
  <2> QED
    BY <2>1, <2>2, <2>3
<1>6. \A g \in Ids \ W : folder'[g] = folder[g]
  BY <1>3
<1>7. ASSUME NEW s \in Submissions
      PROVE  \/ submission'[s] = submission[s] /\ ~(submission[s] # Filing!Absent /\ submission[s].folderid \in {f} \cup Filing!Children(f))
             \/ /\ submission[s] # Filing!Absent /\ submission'[s].folderid = Filing!Root
                /\ submission'[s] \in [userid : Filers, folderid : Ids \cup {Filing!Root}]
  <2>1. CASE submission[s] # Filing!Absent /\ submission[s].folderid \in {f} \cup Filing!Children(f)
    <3>1. PICK r \in [userid : Filers, folderid : Ids \cup {Filing!Root}] : r = submission[s]
      BY <2>1 DEF FileIInv, Filing!TypeOK
    <3>2. submission'[s] = [r EXCEPT !.folderid = Filing!Root]
      BY <1>3, <2>1, <3>1
    <3> QED
      BY <2>1, <3>1, <3>2
  <2>2. CASE ~(submission[s] # Filing!Absent /\ submission[s].folderid \in {f} \cup Filing!Children(f))
    BY <1>3, <2>2
  <2> QED
    BY <2>1, <2>2
<1> HIDE DEF row, filed
<1>8. FileTables'
  <2>1. folder' \in [Ids -> Filing!Rows \cup {Filing!Absent}]
    <3>1. \A g \in Ids : folder'[g] \in Filing!Rows \cup {Filing!Absent}
      BY <1>5, <1>6 DEF FileIInv, Filing!TypeOK
    <3> QED
      BY <1>3, <3>1
  <2>2. submission' \in [Submissions -> [userid : Filers, folderid : Ids \cup {Filing!Root}] \cup {Filing!Absent}]
    <3>1. \A s \in Submissions : submission'[s] \in [userid : Filers, folderid : Ids \cup {Filing!Root}] \cup {Filing!Absent}
      BY <1>7 DEF FileIInv, Filing!TypeOK
    <3> QED
      BY <1>3, <3>1
  <2> QED
    BY <1>3, <2>1, <2>2 DEF FileIInv, Filing!TypeOK, FileTables
<1>9. \A g \in Ids \ W : FileLike(g) /\ Filing!Visible(g)' = Filing!Visible(g) /\ FileAtTop(g)' = FileAtTop(g)
  BY <1>6 DEF FileLike, Filing!Exists, Filing!Visible, FileAtTop
<1>10. \A g \in Ids : /\ Filing!Exists(g)' = Filing!Exists(g)
                      /\ Filing!Exists(g) => folder'[g].parentid = folder[g].parentid /\ folder'[g].userid = folder[g].userid
                      /\ Filing!Visible(g)' => Filing!Visible(g) /\ g \notin W
  <2>1. \A g \in Ids \ W : /\ Filing!Exists(g)' = Filing!Exists(g)
                           /\ Filing!Exists(g) => folder'[g].parentid = folder[g].parentid /\ folder'[g].userid = folder[g].userid
                           /\ Filing!Visible(g)' => Filing!Visible(g) /\ g \notin W
    BY <1>9 DEF FileLike
  <2>2. \A g \in W : /\ Filing!Exists(g)' = Filing!Exists(g)
                     /\ Filing!Exists(g) => folder'[g].parentid = folder[g].parentid /\ folder'[g].userid = folder[g].userid
                     /\ Filing!Visible(g)' => Filing!Visible(g) /\ g \notin W
    BY <1>4, <1>5 DEF Filing!Exists, Filing!Visible
  <2> QED
    BY <2>1, <2>2
<1>11. FileKeeps
  BY <1>10 DEF FileKeeps, Filing!Exists
<1>12. call' \in [Calls -> FileRecord] /\ call'[c] = Filing!Idle /\ FileElsewhere(c) /\ FileOverlaps' /\ FileAllKnown'
  BY <1>3, <1>11, FileWriteEnds
<1>13. FileAllSound'
  <2> SUFFICES ASSUME NEW d \in Calls \ {c}, NEW x \in FileRecord, x = call[d]
               PROVE  FileSound(x)'
    BY <1>12, FileOthersSound
  <2>1. FileSound(x) /\ FileKnown(x)
    BY DEF FileIInv, FileAllSound, FileAllKnown
  <2>2. W \cap Filing!Touches(x) \subseteq mixed_folders'
    <3>1. Filing!Touches(x) \cap Filing!Touches(q) \subseteq mixed_folders
      BY <1>1 DEF FileIInv, FileOverlaps
    <3>2. Filing!Touches(q) = ({f} \cup W) \ {Filing!Root}
      BY <1>2, FileRemoveTouches
    <3> QED
      BY <1>3, <3>1, <3>2 DEF Filing!ConstantsOK, Filing!Root
  <2>3. ASSUME NEW g \in Ids \ mixed_folders', NEW o \in Filing!Touches(x) \ mixed_folders', Filing!Visible(g)', folder'[g].parentid = o
        PROVE  Filing!Visible(g) /\ folder[g].parentid = o
    BY <1>10, <2>3 DEF Filing!Visible
  <2>4. \A g \in Ids \ W : FileLike(g)
    BY <1>9
  <2> QED
    BY <1>3, <2>1, <2>2, <2>3, <2>4, FileSoundElse
<1>14. FileOwned'
  <2> SUFFICES ASSUME NEW g \in Ids, Filing!Exists(g)', NEW o, o = folder'[g].parentid, NEW v, v = folder'[g].userid
               PROVE  o = Filing!Root \/ FileWithin(o, v)'
    BY DEF FileOwned, Filing!Exists, FileWithin
  <2>1. Filing!Exists(g) /\ o = folder[g].parentid /\ v = folder[g].userid
    BY <1>10
  <2>2. o \in Ids \cup {Filing!Root}
    BY <2>1 DEF FileIInv, Filing!TypeOK, Filing!Rows, Filing!Exists
  <2> QED
    BY <1>10, <2>1, <2>2 DEF FileIInv, FileOwned, FileWithin
\* A child that stays visible is not in the folder, so its folder is not hidden
\* as a child either: that would be a third level.
<1>15. FilePlaced'
  <2> SUFFICES ASSUME NEW g \in Ids \ (mixed_folders \cup strayed), Filing!Visible(g)', NEW o, o = folder'[g].parentid
               PROVE  o \in mixed_folders \cup {Filing!Root} \/ FileAtTop(o)'
    BY <1>3 DEF FilePlaced, FileAtTop, Filing!Visible, Filing!Exists
  <2>1. Filing!Visible(g) /\ g \notin W /\ o = folder[g].parentid
    BY <1>10 DEF Filing!Visible
  <2>2. o \in mixed_folders \cup {Filing!Root} \/ FileAtTop(o)
    BY <2>1 DEF FileIInv, FilePlaced
  <2>3. o \in Ids \cup {Filing!Root}
    BY <2>1 DEF FileIInv, Filing!TypeOK, Filing!Rows, Filing!Visible, Filing!Exists
  <2>4. SUFFICES ASSUME o \in Ids, o \notin mixed_folders, o \in W, FileAtTop(o) PROVE FALSE
    BY <1>9, <2>2, <2>3
  <2>5. o = f \/ folder[o].parentid = f
    BY <1>4, <2>4
  <2>6. o = f
    BY <2>4, <2>5 DEF FileAtTop, Filing!ConstantsOK, Filing!Root
  <2> QED
    BY <1>4, <2>1, <2>4, <2>6
<1>16. FileFiled'
  <2> SUFFICES ASSUME NEW s \in Submissions, submission'[s] # Filing!Absent, NEW o, o = submission'[s].folderid
               PROVE  o \in mixed_folders \cup {Filing!Root} \/ (Filing!Visible(o)' /\ folder'[o].userid = submission'[s].userid)
    BY <1>3 DEF FileFiled, Filing!Visible, Filing!Exists
  <2>1. CASE submission'[s] = submission[s] /\ ~(submission[s] # Filing!Absent /\ submission[s].folderid \in {f} \cup Filing!Children(f))
    <3>1. o \in mixed_folders \cup {Filing!Root} \/ (Filing!Visible(o) /\ folder[o].userid = submission[s].userid)
      BY <2>1 DEF FileIInv, FileFiled
    <3>2. o \in Ids \cup {Filing!Root} /\ o # f /\ o \notin Filing!Children(f)
      BY <2>1 DEF FileIInv, Filing!TypeOK
    <3>3. SUFFICES ASSUME o \in Ids, o \notin mixed_folders, Filing!Visible(o), folder[o].userid = submission[s].userid
                   PROVE  Filing!Visible(o)' /\ folder'[o].userid = submission'[s].userid
      BY <3>1, <3>2
    <3>4. o \notin W
      BY <1>4, <3>2, <3>3 DEF Filing!Children, Filing!Visible
    <3> QED
      BY <1>9, <1>10, <2>1, <3>3, <3>4 DEF Filing!Visible
  <2>2. CASE submission'[s].folderid = Filing!Root
    BY <2>2
  <2> QED
    BY <1>7, <2>1, <2>2
<1> QED
  BY <1>8, <1>12, <1>13, <1>14, <1>15, <1>16, FileTypeParts DEF FileIInv

\* A submission is filed in the folder that was checked.
LEMMA FileFileWriteInv ==
    ASSUME Filing!ConstantsOK, FileIInv, NEW c \in Calls, Filing!FileWrite(c)
    PROVE  FileIInv'
<1>1. PICK q \in FileFileCall : q = call[c] /\ q.at = "file" /\ FileKnown(q) /\ FileSound(q)
  BY FileKinds, FileTypeParts DEF FileIInv, FileAllKnown, FileAllSound, Filing!FileWrite, Filing!At
<1>2. PICK f \in Ids \cup {Filing!Root}, u \in Filers, s \in Submissions : f = q.folder /\ u = q.user /\ s = q.submission
  BY FileFileCallIs
<1> DEFINE row == [userid |-> u, folderid |-> f]
<1>3. submission' = [submission EXCEPT ![s] = row] /\ Filing!End(c) /\ UNCHANGED <<folder, mixed_folders, strayed>>
  BY <1>1, <1>2 DEF Filing!FileWrite
<1>4. row \in [userid : Filers, folderid : Ids \cup {Filing!Root}] /\ row.userid = u /\ row.folderid = f
  OBVIOUS
<1> HIDE DEF row
<1>5. f \in mixed_folders \cup {Filing!Root} \/ (Filing!Visible(f) /\ folder[f].userid = u)
  BY <1>1, <1>2 DEF FileSound
<1>6. FileTables'
  BY <1>3, <1>4, FileTypeParts DEF FileIInv, FileTables
<1>7. FileKeeps
  BY <1>3 DEF FileKeeps, Filing!Exists
<1>8. call' \in [Calls -> FileRecord] /\ call'[c] = Filing!Idle /\ FileElsewhere(c) /\ FileOverlaps' /\ FileAllKnown'
  BY <1>3, <1>7, FileWriteEnds
<1>9. FileAllSound'
  <2> SUFFICES ASSUME NEW d \in Calls \ {c}, NEW x \in FileRecord, x = call[d]
               PROVE  FileSound(x)'
    BY <1>8, FileOthersSound
  <2>1. FileSound(x)
    BY DEF FileIInv, FileAllSound
  <2>2. mixed_folders \subseteq mixed_folders' /\ strayed \subseteq strayed'
    BY <1>3
  <2> QED
    BY <1>3, <2>1, <2>2, FileSoundStays
<1>10. FileOwned' /\ FilePlaced'
  BY <1>3 DEF FileIInv, FileOwned, FilePlaced, FileWithin, FileAtTop, Filing!Visible, Filing!Exists
<1>11. FileFiled'
  <2> SUFFICES ASSUME NEW k \in Submissions, submission'[k] # Filing!Absent, NEW o, o = submission'[k].folderid
               PROVE  o \in mixed_folders \cup {Filing!Root} \/ (Filing!Visible(o) /\ folder[o].userid = submission'[k].userid)
    BY <1>3 DEF FileFiled, Filing!Visible, Filing!Exists
  <2>1. CASE k = s
    <3>1. submission'[k] = row
      BY <1>3, <2>1 DEF FileIInv, Filing!TypeOK
    <3> QED
      BY <1>4, <1>5, <3>1
  <2>2. CASE k # s
    <3>1. submission'[k] = submission[k]
      BY <1>3, <2>2 DEF FileIInv, Filing!TypeOK
    <3> QED
      BY <3>1 DEF FileIInv, FileFiled
  <2> QED
    BY <2>1, <2>2
<1> QED
  BY <1>6, <1>8, <1>9, <1>10, <1>11, FileTypeParts DEF FileIInv
-----------------------------------------------------------------------------
LEMMA FileInitInv == Filing!Init => FileIInv
<1> SUFFICES ASSUME Filing!Init PROVE FileIInv
  OBVIOUS
<1>1. /\ folder = [f \in Ids |-> Filing!Absent] /\ submission = [s \in Submissions |-> Filing!Absent]
      /\ mixed_folders = {} /\ strayed = {}
  BY DEF Filing!Init
<1>2. call = [c \in Calls |-> Filing!Idle]
  BY DEF Filing!Init, Filing!AllIdle
<1>3. Filing!TypeOK
  BY <1>1, <1>2 DEF Filing!TypeOK
<1>4. FileOverlaps /\ FileAllKnown /\ FileAllSound
  BY <1>2, FileIdleIs DEF FileOverlaps, FileAllKnown, FileKnown, FileAllSound, FileSound, FileCreating, FilePlacing, FileMoving
<1>5. FileOwned /\ FilePlaced /\ FileFiled
  BY <1>1 DEF FileOwned, FilePlaced, FileFiled, Filing!Visible, Filing!Exists
<1> QED
  BY <1>3, <1>4, <1>5 DEF FileIInv

LEMMA FileNextInv ==
    ASSUME Filing!ConstantsOK, FileIInv, (Filing!Next \/ UNCHANGED Filing!vars)
    PROVE  FileIInv'
<1>1. CASE UNCHANGED Filing!vars
  <2>1. UNCHANGED <<folder, submission, call, mixed_folders, strayed>>
    BY <1>1 DEF Filing!vars
  <2>2. Filing!TypeOK' /\ FileOwned' /\ FilePlaced' /\ FileFiled'
    BY <2>1 DEF FileIInv, Filing!TypeOK, FileOwned, FilePlaced, FileFiled, FileWithin, FileAtTop, Filing!Visible, Filing!Exists
  <2>3. FileOverlaps'
    BY <2>1 DEF FileIInv, FileOverlaps, Filing!Touches
  <2>5. FileAllKnown'
    BY <2>1 DEF FileIInv, FileAllKnown, FileKnown, FileWithin, Filing!Exists, FileCreating, FilePlacing, FileMoving
  <2>4. FileAllSound'
    <3> SUFFICES ASSUME NEW d \in Calls PROVE FileSound(call[d])'
      BY DEF FileAllSound
    <3>1. PICK q \in FileRecord : q = call[d] /\ FileSound(q)
      BY FileTypeParts DEF FileIInv, FileAllSound
    <3>2. FileSound(q)'
      BY <2>1, <3>1, FileSoundStays
    <3> QED
      BY <2>1, <3>1, <3>2 DEF FileSound, FileAtTop, Filing!Visible, Filing!Exists, FileCreating, FilePlacing, FileMoving
  <2> QED
    BY <2>2, <2>3, <2>4, <2>5 DEF FileIInv
<1>2. CASE Filing!Next
  <2>1. PICK c \in Calls, u \in Filers :
            \/ \E p \in Ids \cup {Filing!Root}, t \in Titles : Filing!CreateCheckParent(c, u, p, t)
            \/ Filing!CreateCheckTitle(c)
            \/ \E f \in Ids :
                \/ Filing!CreateInsert(c, f)
                \/ \E t \in Titles : Filing!Rename(u, f, t)
                \/ \E p \in Ids \cup {Filing!Root} : Filing!MoveRead(c, u, f, p)
                \/ Filing!RemoveHide(c, u, f) \/ Filing!OptionsCheck(c, u, f)
            \/ Filing!MoveCheckChildren(c) \/ Filing!MoveCheckParent(c) \/ Filing!MoveCheckTitles(c) \/ Filing!MoveUpdate(c)
            \/ Filing!RemoveCommit(c) \/ Filing!UpdateSettings(c)
            \/ \E s \in Submissions, f \in Ids \cup {Filing!Root} : Filing!FileCheck(c, s, u, f)
            \/ Filing!FileWrite(c)
    BY <1>2, Zenon DEF Filing!Next
  <2>2. CASE (\E p \in Ids \cup {Filing!Root}, t \in Titles : Filing!CreateCheckParent(c, u, p, t)) \/ Filing!CreateCheckTitle(c)
    BY <2>2, FileCreateCheckParentInv, FileCreateCheckTitleInv, Zenon
  <2>3. CASE \E f \in Ids :
                 \/ Filing!CreateInsert(c, f)
                 \/ \E t \in Titles : Filing!Rename(u, f, t)
                 \/ \E p \in Ids \cup {Filing!Root} : Filing!MoveRead(c, u, f, p)
                 \/ Filing!RemoveHide(c, u, f) \/ Filing!OptionsCheck(c, u, f)
    BY <2>3, FileCreateInsertInv, FileRenameInv, FileMoveReadInv, FileRemoveHideInv, FileOptionsCheckInv, Zenon
  <2>4. CASE Filing!MoveCheckChildren(c) \/ Filing!MoveCheckParent(c) \/ Filing!MoveCheckTitles(c) \/ Filing!MoveUpdate(c)
    BY <2>4, FileMoveCheckChildrenInv, FileMoveCheckParentInv, FileMoveCheckTitlesInv, FileMoveUpdateInv, Zenon
  <2>5. CASE Filing!RemoveCommit(c) \/ Filing!UpdateSettings(c)
    BY <2>5, FileRemoveCommitInv, FileUpdateSettingsInv, Zenon
  <2>6. CASE (\E s \in Submissions, f \in Ids \cup {Filing!Root} : Filing!FileCheck(c, s, u, f)) \/ Filing!FileWrite(c)
    BY <2>6, FileFileCheckInv, FileFileWriteInv, Zenon
  <2> QED
    BY <2>1, <2>2, <2>3, <2>4, <2>5, <2>6, Zenon
<1> QED
  BY <1>1, <1>2

LEMMA FilePromises ==
    ASSUME Filing!ConstantsOK, FileIInv
    PROVE  Filing!FoldersAreListed /\ Filing!FiledWhereListed
<1>1. Filing!FoldersAreListed
  <2> SUFFICES ASSUME NEW f \in Ids \ (mixed_folders \cup strayed), Filing!Visible(f), NEW o, o = folder[f].parentid,
                      o \notin mixed_folders \cup strayed, NEW u, u = folder[f].userid
               PROVE  f \in Filing!Listed(u)
    BY DEF Filing!FoldersAreListed
  <2>1. o = Filing!Root \/ FileAtTop(o)
    BY DEF FileIInv, FilePlaced
  <2>2. o = Filing!Root \/ (o \in Ids /\ folder[o].userid = u)
    BY DEF FileIInv, FileOwned, FileWithin, Filing!TypeOK, Filing!Rows, Filing!Visible, Filing!Exists
  <2> QED
    BY <2>1, <2>2 DEF Filing!Listed, FileAtTop
<1>2. Filing!FiledWhereListed
  <2> SUFFICES ASSUME NEW s \in Submissions \ mixed_folders, submission[s] # Filing!Absent, submission[s].folderid \notin mixed_folders \cup {Filing!Root}
               PROVE  Filing!Visible(submission[s].folderid) /\ folder[submission[s].folderid].userid = submission[s].userid
    BY DEF Filing!FiledWhereListed
  <2> QED
    BY DEF FileIInv, FileFiled
<1> QED
  BY <1>1, <1>2
-----------------------------------------------------------------------------
\* While the part moves it has its invariant; and so it has in every state.
FileHold == part = "folders" => FileIInv

LEMMA FileAreHeld == ContentSpec => []FileHold
<1>1. ContentInit => FileHold
  BY FileInitInv, ContentAssumption DEF ContentInit, FileHold
<1>2. FileHold /\ [ContentNext]_all_content_vars => FileHold'
  <2> SUFFICES ASSUME FileHold, [ContentNext]_all_content_vars, part' = "folders" PROVE FileIInv'
    BY DEF FileHold
  <2>1. part = "folders" /\ FileIInv
    BY PartStays DEF FileHold
  <2>2. Filing!Next \/ UNCHANGED <<folders_vars, call>>
    BY <2>1 DEF ContentNext, all_content_vars
  <2>3. UNCHANGED <<folders_vars, call>> => UNCHANGED Filing!vars
    BY DEF folders_vars, Filing!vars
  <2> QED
    BY <2>1, <2>2, <2>3, FileNextInv, ContentAssumption
<1> QED
  BY <1>1, <1>2, PTL DEF ContentSpec

\* create, rename, move, remove and update_settings of folder.py, the check of
\* control_editfolder_post_ and the filing of submissions (submission.py): the
\* owner's listing (select_list) has every folder that has not been removed, but
\* for one moved into a removed folder, and submissions are in listed folders,
\* unless calls overlapped on them.
THEOREM FoldersStayFound == ContentSpec => []FoldersAreFound
<1>1. FileHold => FoldersAreFound
  BY FilePromises, ContentAssumption DEF FileHold, FoldersAreFound
<1> QED
  BY <1>1, FileAreHeld, PTL
-----------------------------------------------------------------------------
LEMMA ToldTypesOfPosts ==
    ASSUME NEW t \in Notifying!Types, Notifying!About(t) \in Notifying!PostKinds
    PROVE  t \in Notifying!Posting \/ t \in Notifying!Favoriting \/ t \in Notifying!Commenting \/ t \in Notifying!Replying
  BY DEF Notifying!Types, Notifying!About, Notifying!PostKinds, Notifying!Posting, Notifying!Favoriting, Notifying!Personal, Notifying!Commenting, Notifying!Replying, Notifying!Shouting

LEMMA ToldApart ==
    /\ Notifying!Posting \cap Notifying!Favoriting = {} /\ Notifying!Posting \cap Notifying!Personal = {} /\ Notifying!Posting \cap ToldSubjected = {}
    /\ Notifying!Favoriting \cap Notifying!Personal = {} /\ Notifying!Favoriting \cap ToldSubjected = {} /\ Notifying!Personal \cap ToldSubjected = {}
    /\ Notifying!Commenting \cap Notifying!Replying = {} /\ Notifying!Commenting \cap Notifying!Shouting = {} /\ Notifying!Replying \cap Notifying!Shouting = {}
    /\ 4010 \in Notifying!Shouting
  BY DEF Notifying!Posting, Notifying!Favoriting, Notifying!Personal, Notifying!Commenting, Notifying!Replying, Notifying!Shouting, ToldSubjected

LEMMA ToldJoinedIs ==
    ASSUME NEW n
    PROVE  /\ n.type \in Notifying!Posting => Notifying!Joined(n) = n.targetid
           /\ n.type \in Notifying!Favoriting \cup Notifying!Commenting => Notifying!Joined(n) = n.referid
           /\ n.type \in Notifying!Replying => Notifying!Joined(n) = subject[n.referid]
<1>1. n.type \in Notifying!Posting => Notifying!Joined(n) = n.targetid
  BY ToldApart DEF Notifying!Joined, ToldSubjected
<1>2. n.type \in Notifying!Favoriting \cup Notifying!Commenting => Notifying!Joined(n) = n.referid
  BY ToldApart DEF Notifying!Joined, ToldSubjected
<1>3. n.type \in Notifying!Replying => Notifying!Joined(n) = subject[n.referid]
  BY ToldApart DEF Notifying!Joined, ToldSubjected
<1> QED
  BY <1>1, <1>2, <1>3

\* Notifications about a post lead to it.
LEMMA ToldLeads ==
    ASSUME subject \in [NoticeIds -> NoticeIds], NEW n \in Notifying!Row, ToldWellMade(n), Notifying!About(n.type) \in Notifying!PostKinds
    PROVE  Notifying!Joined(n) \in NoticeIds
<1>1. n.type \in Notifying!Types
  BY DEF Notifying!Row
<1> QED
  BY <1>1, ToldTypesOfPosts, ToldJoinedIs DEF ToldWellMade

\* The row that is inserted.
LEMMA ToldWrittenIs ==
    ASSUME Notifying!ConstantsOK, Notifying!TypeOK, NEW t \in Notifying!Types, NEW i \in NoticeIds, NEW c \in NoticeIds, NEW parent \in NoticeIds,
           t \in ToldSubjected => i = subject[c] /\ subject[parent] = i
    PROVE  \E n \in Notifying!Row : /\ n = Notifying!Written(t, i, c, parent) /\ n.type = t /\ n.unixtime = time
                                    /\ ToldWellMade(n) /\ (Notifying!About(t) \in Notifying!PostKinds => Notifying!Joined(n) = i)
<1> DEFINE n == Notifying!Written(t, i, c, parent)
<1>1. /\ n.type = t /\ n.unixtime = time
      /\ n.referid = (CASE t \in Notifying!Favoriting \cup Notifying!Commenting -> i
                        [] t \in (Notifying!Replying \cup Notifying!Shouting) \ {4010} -> parent
                        [] OTHER -> 0)
      /\ n.targetid = (CASE t \in Notifying!Posting -> i
                         [] t \in Notifying!Commenting \cup Notifying!Replying \cup Notifying!Shouting -> c
                         [] OTHER -> 0)
  BY DEF Notifying!Written
<1>2. n.referid \in NoticeIds \cup {0} /\ n.targetid \in NoticeIds \cup {0}
  BY <1>1
<1>3. n \in Notifying!Row
  BY <1>1, <1>2 DEF Notifying!Written, Notifying!Row, Notifying!TypeOK
<1>4. n = Notifying!Written(t, i, c, parent)
  OBVIOUS
<1> HIDE DEF n
<1>5. /\ t \in Notifying!Posting => n.targetid = i
      /\ t \in Notifying!Favoriting \cup Notifying!Commenting => n.referid = i
      /\ t \in Notifying!Replying => n.referid = parent
      /\ t \in Notifying!Commenting \cup Notifying!Replying => n.targetid = c
  BY <1>1, ToldApart DEF ToldSubjected
<1>6. ToldWellMade(n)
  BY <1>1, <1>5 DEF ToldWellMade, ToldSubjected
<1>7. Notifying!About(t) \in Notifying!PostKinds => Notifying!Joined(n) = i
  BY <1>1, <1>5, ToldTypesOfPosts, ToldJoinedIs DEF ToldSubjected
<1> QED
  BY <1>1, <1>3, <1>4, <1>6, <1>7
-----------------------------------------------------------------------------
LEMMA ToldPostsAre ==
    ASSUME Notifying!TypeOK, NEW k \in Notifying!PostKinds, NEW i \in NoticeIds
    PROVE  posts[k][i] \in ToldPostRow /\ ToldHid(k, i) \in BOOLEAN
<1>1. posts[k][i] \in ToldPostRow
  BY DEF Notifying!TypeOK, ToldPostRow
<1> QED
  BY <1>1 DEF ToldPostRow, ToldHid

LEMMA ToldHidingOne ==
    ASSUME Notifying!TypeOK, NEW sort \in Notifying!PostKinds, NEW i \in NoticeIds, NEW h \in BOOLEAN, ToldHiding(sort, i, h)
    PROVE  /\ posts' \in [Notifying!PostKinds -> [NoticeIds -> ToldPostRow]]
           /\ \A k \in Notifying!PostKinds, j \in NoticeIds : IF k = sort /\ j = i THEN ToldHid(k, j)' = h ELSE ToldHid(k, j)' = ToldHid(k, j)
<1>1. posts \in [Notifying!PostKinds -> [NoticeIds -> ToldPostRow]]
  BY DEF Notifying!TypeOK, ToldPostRow
<1>2. PICK w \in ToldPostRow : w = posts[sort][i]
  BY <1>1
<1> DEFINE e == [w EXCEPT !.hidden = h]
<1>3. e \in ToldPostRow /\ e.hidden = h
  BY DEF ToldPostRow
<1>4. posts' = [posts EXCEPT ![sort][i] = e]
  BY <1>2 DEF ToldHiding
<1> HIDE DEF e
<1>5. posts' \in [Notifying!PostKinds -> [NoticeIds -> ToldPostRow]]
  BY <1>1, <1>3, <1>4
<1>6. \A k \in Notifying!PostKinds, j \in NoticeIds : posts'[k][j] = IF k = sort /\ j = i THEN e ELSE posts[k][j]
  BY <1>1, <1>4
<1> QED
  BY <1>3, <1>5, <1>6 DEF ToldHid

LEMMA ToldRatingOne ==
    ASSUME Notifying!TypeOK, NEW sort \in Notifying!PostKinds, NEW i \in NoticeIds, posts' = [posts EXCEPT ![sort][i].mature = ~@]
    PROVE  /\ posts' \in [Notifying!PostKinds -> [NoticeIds -> ToldPostRow]]
           /\ \A k \in Notifying!PostKinds, j \in NoticeIds : ToldHid(k, j)' = ToldHid(k, j)
<1>1. posts \in [Notifying!PostKinds -> [NoticeIds -> ToldPostRow]]
  BY DEF Notifying!TypeOK, ToldPostRow
<1>2. PICK w \in ToldPostRow : w = posts[sort][i]
  BY <1>1
<1> DEFINE e == [w EXCEPT !.mature = ~@]
<1>3. e \in ToldPostRow /\ e.hidden = w.hidden
  BY DEF ToldPostRow
<1>4. posts' = [posts EXCEPT ![sort][i] = e]
  BY <1>2
<1> HIDE DEF e
<1>5. posts' \in [Notifying!PostKinds -> [NoticeIds -> ToldPostRow]]
  BY <1>1, <1>3, <1>4
<1>6. \A k \in Notifying!PostKinds, j \in NoticeIds : posts'[k][j] = IF k = sort /\ j = i THEN e ELSE posts[k][j]
  BY <1>1, <1>4
<1> QED
  BY <1>2, <1>3, <1>5, <1>6 DEF ToldHid

LEMMA ToldSubjectStays ==
    ASSUME UNCHANGED subject
    PROVE  \A n : Notifying!Joined(n)' = Notifying!Joined(n) /\ ToldWellMade(n)' = ToldWellMade(n)
  BY DEF Notifying!Joined, ToldWellMade

LEMMA ToldRemovedBy ==
    /\ Notifying!RemovedWithThePost <=> \A n \in welcome : ToldExcused(n)
    /\ Notifying!RemovedWithThePost' <=> \A n \in welcome' : ToldExcused(n)'
  BY DEF Notifying!RemovedWithThePost, ToldHid, ToldExcused

LEMMA ToldPageParts ==
    ASSUME NEW q \in ToldPageRow
    PROVE  /\ q.at \in {"selected", "rendered"} /\ q.of \in {"notifications", "submissions"} /\ q.window \in Notifying!Windows
           /\ q.stood \subseteq Notifying!Row
           /\ q.shown \subseteq Notifying!Row /\ q.above \subseteq Notifying!Row /\ q.later \subseteq Notifying!Row /\ q.before \in 0..MaxTime
  BY DEF ToldPageRow

LEMMA ToldTypeIs ==
    ASSUME /\ posts' \in [Notifying!PostKinds -> [NoticeIds -> ToldPostRow]]
           /\ subject' \in [NoticeIds -> NoticeIds] /\ mature' \in BOOLEAN /\ welcome' \subseteq Notifying!Row /\ time' \in 0..MaxTime
           /\ ToldPageIs' /\ unseen' \subseteq Notifying!Row /\ bulk' \subseteq Notifying!PostKinds \X NoticeIds
    PROVE  Notifying!TypeOK'
<1>1. shown' = Notifying!NoPage \/ shown' \in ToldPageRow
  BY DEF ToldPageIs
<1> QED
  BY <1>1, ToldPageParts DEF Notifying!TypeOK, ToldPostRow

LEMMA ToldNoPageIs == Notifying!NoPage.at = "none"
  BY DEF Notifying!NoPage

\* What other pages have is a matter of the page's own rows.
LEMMA ToldElsewhereStays ==
    ASSUME shown'.of = shown.of, shown'.window = shown.window, shown'.stood = shown.stood, shown'.shown = shown.shown
    PROVE  \A n : Notifying!Elsewhere(n)' = Notifying!Elsewhere(n)
  BY DEF Notifying!Elsewhere, Notifying!InWindow

\* The page and what is on it are as they were.
LEMMA ToldCoveredStays ==
    ASSUME Notifying!ConstantsOK, ToldIInv, UNCHANGED shown, welcome' \subseteq welcome, time' \in 0..MaxTime, time <= time'
    PROVE  ToldCovered'
<1>1. shown.at \in {"selected", "rendered"} => shown.before \in 0..MaxTime
  BY ToldPageParts, ToldNoPageIs DEF ToldIInv, ToldPageIs
<1>2. shown.at \in {"selected", "rendered"} => shown.before <= time'
  BY <1>1 DEF ToldIInv, ToldCovered, Notifying!TypeOK, Notifying!ConstantsOK
<1> QED
  BY <1>2, ToldElsewhereStays DEF ToldIInv, ToldCovered, ToldCovers
-----------------------------------------------------------------------------
LEMMA ToldNotifyInv ==
    ASSUME Notifying!ConstantsOK, ToldIInv, NEW t \in Notifying!Types, NEW i \in NoticeIds, NEW c \in NoticeIds, NEW parent \in NoticeIds,
           t \in ToldSubjected => i = subject[c] /\ subject[parent] = i, Notifying!Notify(t, i, c, parent)
    PROVE  ToldIInv'
<1>1. PICK n \in Notifying!Row : /\ n = Notifying!Written(t, i, c, parent) /\ n.type = t /\ n.unixtime = time
                                 /\ ToldWellMade(n) /\ (Notifying!About(t) \in Notifying!PostKinds => Notifying!Joined(n) = i)
  BY ToldWrittenIs DEF ToldIInv
<1>2. /\ Notifying!About(t) \in Notifying!PostKinds => ~ToldHid(Notifying!About(t), i)
      /\ welcome' = welcome \cup {n}
      /\ shown' = IF shown.at = "selected" THEN [shown EXCEPT !.later = @ \cup ({n} \ welcome)] ELSE shown
      /\ UNCHANGED <<posts, subject, mature, time, unseen, bulk>>
  BY <1>1 DEF Notifying!Notify, ToldHid
<1>3. shown.at = "selected" =>
          /\ shown' \in ToldPageRow /\ shown'.at = "selected" /\ shown'.of = shown.of /\ shown'.before = shown.before
          /\ shown'.window = shown.window /\ shown'.stood = shown.stood
          /\ shown'.shown = shown.shown /\ shown'.above = shown.above /\ shown'.later = shown.later \cup ({n} \ welcome)
  <2> SUFFICES ASSUME shown.at = "selected"
               PROVE  /\ shown' \in ToldPageRow /\ shown'.at = "selected" /\ shown'.of = shown.of /\ shown'.before = shown.before
                      /\ shown'.window = shown.window /\ shown'.stood = shown.stood
                      /\ shown'.shown = shown.shown /\ shown'.above = shown.above
                      /\ shown'.later = shown.later \cup ({n} \ welcome)
    OBVIOUS
  <2>1. PICK q \in ToldPageRow : q = shown
    BY ToldNoPageIs DEF ToldIInv, ToldPageIs
  <2>2. shown' = [q EXCEPT !.later = @ \cup ({n} \ welcome)]
    BY <1>2, <2>1
  <2> QED
    BY <2>1, <2>2 DEF ToldPageRow
<1>4. shown.at # "selected" => shown' = shown
  BY <1>2
<1>5. ToldPageIs'
  BY <1>3, <1>4 DEF ToldIInv, ToldPageIs
<1>6. Notifying!TypeOK'
  BY <1>2, <1>5, ToldTypeIs DEF ToldIInv, Notifying!TypeOK, ToldPostRow
<1>7. ToldAllWellMade'
  BY <1>1, <1>2, ToldSubjectStays DEF ToldIInv, ToldAllWellMade
<1>8. ToldCovered'
  <2>1. CASE shown.at = "selected"
    BY <1>2, <1>3, <2>1, ToldElsewhereStays DEF ToldIInv, ToldCovered, ToldCovers
  <2>2. CASE shown.at = "rendered"
    <3>1. ~(n.unixtime < shown.before)
      <4>1. shown.before \in 0..MaxTime /\ shown.before <= time /\ time \in 0..MaxTime
        BY <2>2, ToldPageParts, ToldNoPageIs DEF ToldIInv, ToldPageIs, ToldCovered, Notifying!TypeOK
      <4> QED
        BY <1>1, <4>1 DEF Notifying!ConstantsOK
    <3> QED
      BY <1>2, <1>4, <2>2, <3>1, ToldElsewhereStays DEF ToldIInv, ToldCovered, ToldCovers
  <2>3. CASE shown.at \notin {"selected", "rendered"}
    BY <1>4, <2>3 DEF ToldCovered
  <2> QED
    BY <2>1, <2>2, <2>3
<1>9. Notifying!RemovedWithThePost'
  <2>1. \A k, j : ToldHid(k, j)' = ToldHid(k, j)
    BY <1>2 DEF ToldHid
  <2>2. \A m : ToldExcused(m)' = ToldExcused(m)
    BY <1>2, <2>1, ToldSubjectStays DEF ToldExcused
  <2>3. ToldExcused(n)
    BY <1>1, <1>2 DEF ToldExcused
  <2> QED
    BY <1>2, <2>2, <2>3, ToldRemovedBy DEF ToldIInv
<1>10. Notifying!RemovedWasShown'
  BY <1>2 DEF ToldIInv, Notifying!RemovedWasShown
<1> QED
  BY <1>5, <1>6, <1>7, <1>8, <1>9, <1>10 DEF ToldIInv

\* What a page of submissions leaves out is no newer than a page full of them.
LEMMA ToldPagesAre ==
    ASSUME NEW where \in {"notifications", "submissions"}, NEW rows, NEW some \in Notifying!Pages(where, rows)
    PROVE  /\ some \subseteq rows
           /\ \A n \in rows \ some :
                  /\ where = "submissions" /\ Notifying!Cardinality(some) = PageLimit
                  /\ \A m \in some : n.unixtime <= m.unixtime
<1>1. CASE where = "notifications"
  BY <1>1 DEF Notifying!Pages
<1>2. CASE where = "submissions"
  <2>1. /\ some \in SUBSET rows
        /\ some # rows => /\ Notifying!Cardinality(some) = PageLimit
                           /\ \A n \in some, m \in rows \ some : m.unixtime <= n.unixtime
    BY <1>2 DEF Notifying!Pages
  <2> QED
    BY <1>2, <2>1
<1> QED
  BY <1>1, <1>2

LEMMA ToldSelectInv ==
    ASSUME Notifying!ConstantsOK, ToldIInv, NEW where \in {"notifications", "submissions"}, NEW window \in Notifying!Windows,
           Notifying!Select(where, window)
    PROVE  ToldIInv'
<1> DEFINE rows == {n \in welcome : n.type \in Notifying!On(where)}
           A == {n \in rows : Notifying!Rated(n) /\ ~mature}
           fit == {n \in rows : Notifying!Shown(n) /\ Notifying!InWindow(n, window)}
<1>1. PICK S \in Notifying!Pages(where, fit) :
          /\ shown' = [at |-> "selected", of |-> where, window |-> window, stood |-> rows, shown |-> S, above |-> A, later |-> {}, before |-> 0]
          /\ UNCHANGED <<posts, subject, mature, welcome, time, unseen, bulk>>
  BY DEF Notifying!Select
\* What the queries leave out is rated above the user's rating, or elsewhere.
<1>2. \A n \in welcome : n.type \in Notifying!On(where) => n \in fit \/ n \in A \/ ~Notifying!InWindow(n, window)
  BY ToldLeads DEF ToldIInv, ToldAllWellMade, Notifying!TypeOK, Notifying!Shown
<1>3. /\ rows \subseteq Notifying!Row /\ S \subseteq Notifying!Row /\ A \subseteq Notifying!Row
      /\ \A n : where = "notifications" => Notifying!InWindow(n, window)
  <2>1. where = "notifications" => window.by = "all"
    BY DEF Notifying!Select, Notifying!Whole
  <2> QED
    BY <2>1, ToldPagesAre DEF ToldIInv, Notifying!TypeOK, Notifying!InWindow
<1>4. /\ S \subseteq fit
      /\ \A n \in fit \ S : /\ where = "submissions" /\ Notifying!Cardinality(S) = PageLimit
                            /\ \A m \in S : n.unixtime <= m.unixtime
  BY ToldPagesAre
<1> HIDE DEF rows, fit, A
<1>5. /\ shown' \in ToldPageRow /\ shown'.at = "selected" /\ shown'.of = where /\ shown'.shown = S /\ shown'.above = A
      /\ shown'.before = 0 /\ shown'.window = window /\ shown'.stood = rows
  BY <1>1, <1>3 DEF ToldPageRow, Notifying!ConstantsOK
<1>6. \A n \in welcome : n.type \in Notifying!On(where) => ToldCovers(n)'
  <2> SUFFICES ASSUME NEW n \in welcome, n.type \in Notifying!On(where), n \notin S, n \notin A PROVE Notifying!Elsewhere(n)'
    BY <1>5 DEF ToldCovers
  <2> n \in rows
    BY DEF rows
  <2>1. CASE n \in fit
    <3>1. where = "submissions" /\ Notifying!Cardinality(S) = PageLimit /\ \A m \in S : n.unixtime <= m.unixtime
      BY <2>1, <1>4
    <3>2. shown'.of = "submissions" /\ n \in shown'.stood /\ Notifying!Cardinality(shown'.shown) = PageLimit /\ \A m \in shown'.shown : n.unixtime <= m.unixtime
      BY <3>1, <1>5
    <3> QED
      BY <3>2 DEF Notifying!Elsewhere
  <2>2. CASE ~Notifying!InWindow(n, window)
    BY <2>2, <1>3, <1>5 DEF Notifying!Elsewhere, Notifying!InWindow
  <2> QED
    BY <1>2, <2>1, <2>2
<1>7. ToldPageIs'
  BY <1>5 DEF ToldPageIs
<1>8. Notifying!TypeOK'
  BY <1>1, <1>7, ToldTypeIs DEF ToldIInv, Notifying!TypeOK, ToldPostRow
<1>9. ToldAllWellMade'
  BY <1>1, ToldSubjectStays DEF ToldIInv, ToldAllWellMade
<1>10. ToldCovered'
  <2>1. 0 <= time
    BY DEF ToldIInv, Notifying!TypeOK
  <2> QED
    BY <1>1, <1>5, <1>6, <2>1 DEF ToldCovered
<1>11. Notifying!RemovedWithThePost' /\ Notifying!RemovedWasShown'
  <2>1. \A n : Notifying!Joined(n)' = Notifying!Joined(n)
    BY <1>1, ToldSubjectStays
  <2> QED
    BY <1>1, <2>1 DEF ToldIInv, Notifying!RemovedWithThePost, Notifying!RemovedWasShown
<1> QED
  BY <1>7, <1>8, <1>9, <1>10, <1>11 DEF ToldIInv

LEMMA ToldRenderInv ==
    ASSUME Notifying!ConstantsOK, ToldIInv, Notifying!Render
    PROVE  ToldIInv'
<1>1. PICK q \in ToldPageRow : q = shown /\ q.at = "selected"
  BY ToldNoPageIs DEF ToldIInv, ToldPageIs, Notifying!Render
<1>2. time \in 0..MaxTime /\ time <= time
  BY DEF ToldIInv, Notifying!TypeOK
<1>3. shown' = [q EXCEPT !.at = "rendered", !.before = time] /\ UNCHANGED <<posts, subject, mature, welcome, time, unseen, bulk>>
  BY <1>1 DEF Notifying!Render
<1>4. /\ shown' \in ToldPageRow /\ shown'.at = "rendered" /\ shown'.of = q.of /\ shown'.shown = q.shown /\ shown'.above = q.above
      /\ shown'.later = q.later /\ shown'.before = time
      /\ shown'.window = q.window /\ shown'.stood = q.stood
  BY <1>2, <1>3 DEF ToldPageRow
<1>5. ToldPageIs'
  BY <1>4 DEF ToldPageIs
<1>6. Notifying!TypeOK'
  BY <1>3, <1>5, ToldTypeIs DEF ToldIInv, Notifying!TypeOK, ToldPostRow
<1>7. ToldAllWellMade'
  BY <1>3, ToldSubjectStays DEF ToldIInv, ToldAllWellMade
<1>8. ToldCovered'
  BY <1>1, <1>2, <1>3, <1>4, ToldElsewhereStays DEF ToldIInv, ToldCovered, ToldCovers
<1>9. Notifying!RemovedWithThePost' /\ Notifying!RemovedWasShown'
  <2>1. \A n : Notifying!Joined(n)' = Notifying!Joined(n)
    BY <1>3, ToldSubjectStays
  <2> QED
    BY <1>3, <2>1 DEF ToldIInv, Notifying!RemovedWithThePost, Notifying!RemovedWasShown
<1> QED
  BY <1>5, <1>6, <1>7, <1>8, <1>9 DEF ToldIInv

LEMMA ToldRemoveAllInv ==
    ASSUME Notifying!ConstantsOK, ToldIInv, Notifying!RemoveAll
    PROVE  ToldIInv'
<1> DEFINE gone == {n \in welcome : n.type \in Notifying!On(shown.of) /\ n.unixtime < shown.before}
<1>1. /\ shown.at = "rendered" /\ welcome' = welcome \ gone /\ shown' = Notifying!NoPage
      /\ unseen' = unseen \cup {n \in gone \ (shown.shown \cup shown.above \cup shown.later) : ~Notifying!Elsewhere(n)}
      /\ UNCHANGED <<posts, subject, mature, time, bulk>>
  BY DEF Notifying!RemoveAll
<1>2. \A n \in gone : ToldCovers(n)
  BY <1>1 DEF ToldIInv, ToldCovered
<1> HIDE DEF gone
<1>3. unseen' = unseen /\ welcome' \subseteq welcome
  BY <1>1, <1>2 DEF ToldCovers
<1>4. ToldPageIs' /\ ToldCovered'
  BY <1>1, ToldNoPageIs DEF ToldPageIs, ToldCovered
<1>5. Notifying!TypeOK'
  BY <1>1, <1>3, <1>4, ToldTypeIs DEF ToldIInv, Notifying!TypeOK, ToldPostRow
<1>6. ToldAllWellMade'
  BY <1>1, <1>3, ToldSubjectStays DEF ToldIInv, ToldAllWellMade
<1>7. Notifying!RemovedWithThePost' /\ Notifying!RemovedWasShown'
  <2>1. \A n : Notifying!Joined(n)' = Notifying!Joined(n)
    BY <1>1, ToldSubjectStays
  <2> QED
    BY <1>1, <1>3, <2>1 DEF ToldIInv, Notifying!RemovedWithThePost, Notifying!RemovedWasShown
<1> QED
  BY <1>4, <1>5, <1>6, <1>7 DEF ToldIInv

LEMMA ToldRemoveInv ==
    ASSUME Notifying!ConstantsOK, ToldIInv, NEW ns, Notifying!Remove(ns)
    PROVE  ToldIInv'
<1>1. welcome' \subseteq welcome /\ UNCHANGED <<posts, subject, mature, time, shown, unseen, bulk>>
  BY DEF Notifying!Remove
<1>2. time \in 0..MaxTime /\ time <= time
  BY DEF ToldIInv, Notifying!TypeOK
<1>3. ToldPageIs' /\ ToldCovered'
  BY <1>1, <1>2, ToldCoveredStays DEF ToldIInv, ToldPageIs
<1>4. Notifying!TypeOK'
  BY <1>1, <1>3, ToldTypeIs DEF ToldIInv, Notifying!TypeOK, ToldPostRow
<1>5. ToldAllWellMade'
  BY <1>1, ToldSubjectStays DEF ToldIInv, ToldAllWellMade
<1>6. Notifying!RemovedWithThePost' /\ Notifying!RemovedWasShown'
  <2>1. \A n : Notifying!Joined(n)' = Notifying!Joined(n)
    BY <1>1, ToldSubjectStays
  <2> QED
    BY <1>1, <2>1 DEF ToldIInv, Notifying!RemovedWithThePost, Notifying!RemovedWasShown
<1> QED
  BY <1>3, <1>4, <1>5, <1>6 DEF ToldIInv

\* Only post i changes, of which every notification that could be in question
\* has gone, or is excused.
LEMMA ToldPostChanges ==
    ASSUME Notifying!ConstantsOK, ToldIInv, posts' \in [Notifying!PostKinds -> [NoticeIds -> ToldPostRow]], welcome' \subseteq welcome,
           UNCHANGED <<subject, mature, time, shown, unseen>>, bulk' \subseteq Notifying!PostKinds \X NoticeIds,
           \A n \in welcome' : ToldExcused(n)'
    PROVE  ToldIInv'
<1>1. time \in 0..MaxTime /\ time <= time
  BY DEF ToldIInv, Notifying!TypeOK
<1>2. ToldPageIs' /\ ToldCovered'
  BY <1>1, ToldCoveredStays DEF ToldIInv, ToldPageIs
<1>3. Notifying!TypeOK'
  BY <1>2, ToldTypeIs DEF ToldIInv, Notifying!TypeOK
<1>4. ToldAllWellMade'
  BY ToldSubjectStays DEF ToldIInv, ToldAllWellMade
<1>5. Notifying!RemovedWithThePost' /\ Notifying!RemovedWasShown'
  BY ToldRemovedBy DEF ToldIInv, Notifying!RemovedWasShown
<1> QED
  BY <1>2, <1>3, <1>4, <1>5 DEF ToldIInv

\* What leads to the post is found by one of the columns.
LEMMA ToldAboutIs ==
    /\ \A t \in {2010, 2030, 3030, 3035, 3020, 3050, 4020, 4050, 4025} : Notifying!About(t) = "submission"
    /\ \A t \in {2050, 3100, 4040, 4045} : Notifying!About(t) = "character"
    /\ \A t \in {1010, 3110, 4030, 4035} : Notifying!About(t) = "journal"
    /\ \A t \in {4060, 4065} : Notifying!About(t) \notin Notifying!PostKinds
  BY DEF Notifying!About, Notifying!Personal, Notifying!Shouting, Notifying!PostKinds

LEMMA ToldRemovedIs ==
    ASSUME NEW n \in welcome, NEW i
    PROVE  /\ \/ n.type \in {2010, 2030, 3030} /\ n.targetid = i
              \/ n.type \in {3020, 3050, 4050} /\ n.referid = i
              \/ n.type \in {4020, 4025} /\ n.targetid \in ToldOnSubject(i)
              => n \in Notifying!Removed("submission", i)
           /\ \/ n.type = 2050 /\ n.targetid = i
              \/ n.type = 3100 /\ n.referid = i
              \/ n.type \in {4040, 4045} /\ n.targetid \in ToldOnSubject(i)
              => n \in Notifying!Removed("character", i)
           /\ \/ n.type = 1010 /\ n.targetid = i
              \/ n.type = 3110 /\ n.referid = i
              \/ n.type \in {4030, 4035} /\ n.targetid \in ToldOnSubject(i)
              => n \in Notifying!Removed("journal", i)
  BY DEF Notifying!Removed, ToldOnSubject

LEMMA ToldFinds ==
    ASSUME ToldIInv, NEW n \in welcome, NEW i \in NoticeIds, Notifying!About(n.type) \in Notifying!PostKinds, n.type # 3035, Notifying!Joined(n) = i
    PROVE  n \in Notifying!Removed(Notifying!About(n.type), i)
<1>1. n \in Notifying!Row /\ ToldWellMade(n) /\ n.type \in Notifying!Types
  BY DEF ToldIInv, Notifying!TypeOK, ToldAllWellMade, Notifying!Row
<1>2. CASE n.type \in Notifying!Posting
  <2>1. n.targetid = i
    BY <1>2, ToldJoinedIs
  <2>2. n.type \in {2010, 2030, 3030} \/ n.type = 2050 \/ n.type = 1010
    BY <1>2 DEF Notifying!Posting
  <2> QED
    BY <2>1, <2>2, ToldAboutIs, ToldRemovedIs
<1>3. CASE n.type \in Notifying!Favoriting
  <2>1. n.referid = i
    BY <1>3, ToldJoinedIs
  <2>2. n.type \in {3020, 3050} \/ n.type = 3100 \/ n.type = 3110
    BY <1>3 DEF Notifying!Favoriting
  <2> QED
    BY <2>1, <2>2, ToldAboutIs, ToldRemovedIs
<1>4. CASE n.type \in Notifying!Commenting
  <2>1. n.referid = i /\ n.targetid \in ToldOnSubject(i)
    BY <1>1, <1>4, ToldJoinedIs DEF ToldWellMade, ToldOnSubject
  <2>2. n.type \in {4020, 4050} \/ n.type = 4040 \/ n.type = 4030
    BY <1>4, ToldAboutIs DEF Notifying!Commenting
  <2> QED
    BY <2>1, <2>2, ToldAboutIs, ToldRemovedIs
<1>5. CASE n.type \in Notifying!Replying
  <2>1. n.targetid \in ToldOnSubject(i)
    BY <1>1, <1>5, ToldJoinedIs DEF ToldWellMade, ToldOnSubject
  <2>2. n.type \in {4025, 4045, 4035}
    BY <1>5, ToldAboutIs DEF Notifying!Replying
  <2> QED
    BY <2>1, <2>2, ToldAboutIs, ToldRemovedIs
<1> QED
  BY <1>1, <1>2, <1>3, <1>4, <1>5, ToldTypesOfPosts

LEMMA ToldHideInv ==
    ASSUME Notifying!ConstantsOK, ToldIInv, NEW sort \in Notifying!PostKinds, NEW i \in NoticeIds, Notifying!Hide(sort, i)
    PROVE  ToldIInv'
<1>1. /\ ToldHiding(sort, i, TRUE) /\ welcome' = welcome \ Notifying!Removed(sort, i)
      /\ UNCHANGED <<subject, mature, time, shown, unseen>> /\ UNCHANGED bulk
  BY DEF Notifying!Hide, ToldHiding
<1>2. /\ posts' \in [Notifying!PostKinds -> [NoticeIds -> ToldPostRow]]
      /\ \A k \in Notifying!PostKinds, j \in NoticeIds : IF k = sort /\ j = i THEN ToldHid(k, j)' = TRUE ELSE ToldHid(k, j)' = ToldHid(k, j)
  BY <1>1, ToldHidingOne DEF ToldIInv
<1>3. ASSUME NEW n \in welcome' PROVE ToldExcused(n)'
  <2> SUFFICES ASSUME NEW a, a = Notifying!About(n.type), a \in Notifying!PostKinds, n.type # 3035, NEW j, j = Notifying!Joined(n), ToldHid(a, j)'
               PROVE  <<a, j>> \in bulk'
    <3>1. Notifying!Joined(n)' = Notifying!Joined(n)
      BY <1>1, ToldSubjectStays
    <3> QED
      BY <3>1 DEF ToldExcused, ToldHid
  <2>1. n \in welcome /\ n \notin Notifying!Removed(sort, i)
    BY <1>1
  <2>2. j \in NoticeIds /\ ToldExcused(n)
    BY <2>1, ToldLeads, ToldRemovedBy DEF ToldIInv, Notifying!TypeOK, ToldAllWellMade
  <2>3. ~(a = sort /\ j = i)
    BY <2>1, ToldFinds
  <2>4. ToldHid(a, j)
    BY <1>2, <2>2, <2>3 DEF ToldHid
  <2> QED
    BY <1>1, <2>2, <2>4 DEF ToldExcused
<1>4. bulk' \subseteq Notifying!PostKinds \X NoticeIds /\ welcome' \subseteq welcome
  BY <1>1 DEF ToldIInv, Notifying!TypeOK
<1> QED
  BY <1>1, <1>2, <1>3, <1>4, ToldPostChanges

\* Posts are hidden or shown, and what is hidden so is excused.
LEMMA ToldBulkInv ==
    ASSUME Notifying!ConstantsOK, ToldIInv, NEW sort \in Notifying!PostKinds, NEW i \in NoticeIds, Notifying!BulkHide(sort, i) \/ Notifying!BulkShow(sort, i)
    PROVE  ToldIInv'
<1>1. PICK h \in BOOLEAN : /\ ToldHiding(sort, i, h)
                           /\ bulk' = (IF h THEN bulk \cup {<<sort, i>>} ELSE bulk \ {<<sort, i>>})
                           /\ UNCHANGED <<subject, mature, time, shown, unseen>> /\ UNCHANGED welcome
  <2>1. CASE Notifying!BulkHide(sort, i)
    BY <2>1 DEF Notifying!BulkHide, ToldHiding
  <2>2. CASE Notifying!BulkShow(sort, i)
    BY <2>2 DEF Notifying!BulkShow, ToldHiding
  <2> QED
    BY <2>1, <2>2
<1>2. /\ posts' \in [Notifying!PostKinds -> [NoticeIds -> ToldPostRow]]
      /\ \A k \in Notifying!PostKinds, j \in NoticeIds : IF k = sort /\ j = i THEN ToldHid(k, j)' = h ELSE ToldHid(k, j)' = ToldHid(k, j)
  BY <1>1, ToldHidingOne DEF ToldIInv
<1>3. ASSUME NEW n \in welcome' PROVE ToldExcused(n)'
  <2> SUFFICES ASSUME NEW a, a = Notifying!About(n.type), a \in Notifying!PostKinds, n.type # 3035, NEW j, j = Notifying!Joined(n), ToldHid(a, j)'
               PROVE  <<a, j>> \in bulk'
    <3>1. Notifying!Joined(n)' = Notifying!Joined(n)
      BY <1>1, ToldSubjectStays
    <3> QED
      BY <3>1 DEF ToldExcused, ToldHid
  <2>1. n \in welcome
    BY <1>1
  <2>2. j \in NoticeIds /\ ToldExcused(n)
    BY <2>1, ToldLeads, ToldRemovedBy DEF ToldIInv, Notifying!TypeOK, ToldAllWellMade
  <2>3. CASE a = sort /\ j = i
    BY <1>1, <1>2, <2>2, <2>3
  <2>4. CASE ~(a = sort /\ j = i)
    <3>1. ToldHid(a, j)
      BY <1>2, <2>2, <2>4 DEF ToldHid
    <3>2. <<a, j>> \in bulk
      BY <2>2, <3>1 DEF ToldExcused
    <3>3. <<a, j>> # <<sort, i>>
      BY <2>4
    <3> QED
      BY <1>1, <3>2, <3>3
  <2> QED
    BY <2>3, <2>4
<1>4. bulk' \subseteq Notifying!PostKinds \X NoticeIds /\ welcome' \subseteq welcome
  BY <1>1 DEF ToldIInv, Notifying!TypeOK
<1> QED
  BY <1>1, <1>2, <1>3, <1>4, ToldPostChanges

LEMMA ToldRateInv ==
    ASSUME Notifying!ConstantsOK, ToldIInv, NEW sort \in Notifying!PostKinds, NEW i \in NoticeIds, Notifying!Rate(sort, i)
    PROVE  ToldIInv'
<1>1. /\ posts' = [posts EXCEPT ![sort][i].mature = ~@]
      /\ UNCHANGED <<subject, mature, time, shown, unseen>> /\ UNCHANGED <<welcome, bulk>>
  BY DEF Notifying!Rate
<1>2. posts' \in [Notifying!PostKinds -> [NoticeIds -> ToldPostRow]] /\ \A k \in Notifying!PostKinds, j \in NoticeIds : ToldHid(k, j)' = ToldHid(k, j)
  BY <1>1, ToldRatingOne DEF ToldIInv
<1>3. ASSUME NEW n \in welcome' PROVE ToldExcused(n)'
  <2> SUFFICES ASSUME Notifying!About(n.type) \in Notifying!PostKinds PROVE ToldExcused(n)'
    BY DEF ToldExcused
  <2>1. Notifying!Joined(n) \in NoticeIds /\ Notifying!Joined(n)' = Notifying!Joined(n) /\ ToldExcused(n)
    BY <1>1, ToldLeads, ToldSubjectStays, ToldRemovedBy DEF ToldIInv, Notifying!TypeOK, ToldAllWellMade
  <2>2. ToldHid(Notifying!About(n.type), Notifying!Joined(n))' = ToldHid(Notifying!About(n.type), Notifying!Joined(n))
    BY <1>2, <2>1 DEF ToldHid
  <2> QED
    BY <1>1, <2>1, <2>2 DEF ToldExcused
<1>4. bulk' \subseteq Notifying!PostKinds \X NoticeIds /\ welcome' \subseteq welcome
  BY <1>1 DEF ToldIInv, Notifying!TypeOK
<1> QED
  BY <1>1, <1>2, <1>3, <1>4, ToldPostChanges

\* Time passes, or the user's rating changes, or nothing.
LEMMA ToldOtherInv ==
    ASSUME Notifying!ConstantsOK, ToldIInv, Notifying!Prefer \/ Notifying!Tick \/ UNCHANGED Notifying!vars
    PROVE  ToldIInv'
<1>1. /\ UNCHANGED <<posts, subject, welcome, shown, unseen, bulk>>
      /\ mature' \in BOOLEAN /\ time' \in 0..MaxTime /\ time <= time'
  <2>1. mature \in BOOLEAN /\ time \in Nat /\ time \in 0..MaxTime /\ MaxTime \in Nat
    BY DEF ToldIInv, Notifying!TypeOK, Notifying!ConstantsOK
  <2>2. CASE Notifying!Prefer
    BY <2>1, <2>2 DEF Notifying!Prefer
  <2>3. CASE Notifying!Tick
    BY <2>1, <2>3 DEF Notifying!Tick
  <2>4. CASE UNCHANGED Notifying!vars
    BY <2>1, <2>4 DEF Notifying!vars
  <2> QED
    BY <2>2, <2>3, <2>4
<1>2. ToldPageIs' /\ ToldCovered'
  BY <1>1, ToldCoveredStays DEF ToldIInv, ToldPageIs
<1>3. Notifying!TypeOK'
  BY <1>1, <1>2, ToldTypeIs DEF ToldIInv, Notifying!TypeOK, ToldPostRow
<1>4. ToldAllWellMade'
  BY <1>1, ToldSubjectStays DEF ToldIInv, ToldAllWellMade
<1>5. Notifying!RemovedWithThePost' /\ Notifying!RemovedWasShown'
  <2>1. \A n : Notifying!Joined(n)' = Notifying!Joined(n)
    BY <1>1, ToldSubjectStays
  <2> QED
    BY <1>1, <2>1 DEF ToldIInv, Notifying!RemovedWithThePost, Notifying!RemovedWasShown
<1> QED
  BY <1>2, <1>3, <1>4, <1>5 DEF ToldIInv
-----------------------------------------------------------------------------
LEMMA ToldInitInv == Notifying!ConstantsOK /\ Notifying!Init => ToldIInv
<1> SUFFICES ASSUME Notifying!ConstantsOK, Notifying!Init PROVE ToldIInv
  OBVIOUS
<1>1. /\ welcome = {} /\ time = 0 /\ shown = Notifying!NoPage /\ unseen = {} /\ bulk = {}
      /\ subject \in [NoticeIds -> NoticeIds] /\ mature \in BOOLEAN /\ posts \in [Notifying!PostKinds -> [NoticeIds -> [hidden : {FALSE}, mature : BOOLEAN]]]
  BY DEF Notifying!Init
<1>2. \A e \in [hidden : {FALSE}, mature : BOOLEAN] : e \in ToldPostRow
  BY DEF ToldPostRow
<1>3. posts \in [Notifying!PostKinds -> [NoticeIds -> ToldPostRow]]
  BY <1>1, <1>2
<1>4. Notifying!TypeOK
  BY <1>1, <1>3 DEF Notifying!TypeOK, ToldPostRow, Notifying!ConstantsOK
<1>5. ToldPageIs /\ ToldAllWellMade /\ ToldCovered /\ Notifying!RemovedWithThePost /\ Notifying!RemovedWasShown
  BY <1>1, ToldNoPageIs DEF ToldPageIs, ToldAllWellMade, ToldCovered, Notifying!RemovedWithThePost, Notifying!RemovedWasShown
<1> QED
  BY <1>4, <1>5 DEF ToldIInv

LEMMA ToldNextInv ==
    ASSUME Notifying!ConstantsOK, ToldIInv, (Notifying!Next \/ UNCHANGED Notifying!vars)
    PROVE  ToldIInv'
<1>1. CASE \E t \in Notifying!Posting \cup Notifying!Favoriting \cup Notifying!Personal, i \in NoticeIds : Notifying!Notify(t, i, i, i)
  <2>1. PICK t \in Notifying!Posting \cup Notifying!Favoriting \cup Notifying!Personal, i \in NoticeIds : Notifying!Notify(t, i, i, i)
    BY <1>1
  <2>2. t \in Notifying!Types /\ t \notin ToldSubjected
    BY ToldApart DEF Notifying!Types
  <2> QED
    BY <2>1, <2>2, ToldNotifyInv
<1>2. CASE \E c, parent \in NoticeIds :
               /\ subject[c] = subject[parent]
               /\ \E t \in Notifying!Commenting \cup Notifying!Replying \cup Notifying!Shouting : Notifying!Notify(t, subject[c], c, parent)
  <2>1. PICK c \in NoticeIds, parent \in NoticeIds :
                 /\ subject[c] = subject[parent]
                 /\ \E t \in Notifying!Commenting \cup Notifying!Replying \cup Notifying!Shouting : Notifying!Notify(t, subject[c], c, parent)
    BY <1>2
  <2>2. PICK t \in Notifying!Commenting \cup Notifying!Replying \cup Notifying!Shouting : Notifying!Notify(t, subject[c], c, parent)
    BY <2>1
  <2>3. PICK i \in NoticeIds : i = subject[c]
    BY DEF ToldIInv, Notifying!TypeOK
  <2>4. t \in Notifying!Types
    BY DEF Notifying!Types
  <2> QED
    BY <2>1, <2>2, <2>3, <2>4, ToldNotifyInv
<1>3. CASE \E where \in {"notifications", "submissions"}, window \in Notifying!Windows : Notifying!Select(where, window)
  BY <1>3, ToldSelectInv
<1>4. CASE Notifying!Render \/ Notifying!RemoveAll
  BY <1>4, ToldRenderInv, ToldRemoveAllInv
<1>5. CASE \E ns \in SUBSET welcome : Notifying!Remove(ns)
  BY <1>5, ToldRemoveInv
<1>6. CASE \E sort \in Notifying!PostKinds, i \in NoticeIds : Notifying!Hide(sort, i) \/ Notifying!BulkHide(sort, i) \/ Notifying!BulkShow(sort, i) \/ Notifying!Rate(sort, i)
  BY <1>6, ToldHideInv, ToldBulkInv, ToldRateInv, Zenon
<1>7. CASE Notifying!Prefer \/ Notifying!Tick \/ UNCHANGED Notifying!vars
  BY <1>7, ToldOtherInv
<1> QED
  BY <1>1, <1>2, <1>3, <1>4, <1>5, <1>6, <1>7, Zenon DEF Notifying!Next

LEMMA ToldPromises ==
    ASSUME Notifying!ConstantsOK, ToldIInv
    PROVE  Notifying!HeaderCountsTheShown /\ Notifying!RemovedWithThePost /\ Notifying!RemovedWasShown
<1>1. ASSUME NEW n \in welcome
      PROVE  n.type \in Notifying!Types /\ (Notifying!About(n.type) \in Notifying!PostKinds => Notifying!Joined(n) \in NoticeIds)
  BY ToldLeads DEF ToldIInv, Notifying!TypeOK, ToldAllWellMade, Notifying!Row
<1>2. ASSUME NEW n \in welcome, n.type \div 1000 \in {3, 4}
      PROVE  Notifying!Shown(n)
  <2>1. n.type \notin {1010, 2010, 2030, 2050}
    BY <1>2
  <2> QED
    BY <1>1, <2>1 DEF Notifying!Shown
<1>3. \A group \in {3, 4} : Notifying!Counted(group) = {n \in welcome : n.type \div 1000 = group /\ Notifying!Shown(n)}
  BY <1>2 DEF Notifying!Counted
<1>4. \A n \in welcome : n.type \div 1000 = 1 => (n \in Notifying!Counted(1) /\ (Notifying!Shown(n) \/ (Notifying!Rated(n) /\ ~mature)))
  BY <1>1 DEF Notifying!Counted, Notifying!Shown
<1>5. ASSUME NEW n \in welcome, n.type \in {2010, 2030}
      PROVE  n \in Notifying!Counted(2) <=> Notifying!Shown(n)
  <2>1. /\ n.type \in Notifying!Posting /\ Notifying!About(n.type) = "submission" /\ "submission" \in Notifying!PostKinds /\ n.type \div 1000 = 2
        /\ n.type \in {1010, 2010, 2030, 2050}
    BY <1>5 DEF Notifying!Posting, Notifying!About, Notifying!Personal, Notifying!Shouting, Notifying!PostKinds
  <2>2. Notifying!Joined(n) = n.targetid /\ Notifying!Joined(n) \in NoticeIds
    BY <1>1, <2>1, ToldJoinedIs
  <2>3. Notifying!Rated(n) <=> posts["submission"][n.targetid].mature
    BY <2>1, <2>2 DEF Notifying!Rated
  <2> QED
    BY <2>1, <2>2, <2>3 DEF Notifying!Counted, Notifying!Shown
<1>6. Notifying!HeaderCountsTheShown
  BY <1>3, <1>4, <1>5 DEF Notifying!HeaderCountsTheShown
<1> QED
  BY <1>6 DEF ToldIInv
-----------------------------------------------------------------------------
\* While the part moves it has its invariant; and so it has in every state.
ToldHold == part = "notices" => ToldIInv

LEMMA ToldAreHeld == ContentSpec => []ToldHold
<1>1. ContentInit => ToldHold
  BY ToldInitInv, ContentAssumption DEF ContentInit, ToldHold
<1>2. ToldHold /\ [ContentNext]_all_content_vars => ToldHold'
  <2> SUFFICES ASSUME ToldHold, [ContentNext]_all_content_vars, part' = "notices" PROVE ToldIInv'
    BY DEF ToldHold
  <2>1. part = "notices" /\ ToldIInv
    BY PartStays DEF ToldHold
  <2>2. Notifying!Next \/ UNCHANGED notices_vars
    BY <2>1 DEF ContentNext, all_content_vars
  <2>3. UNCHANGED notices_vars => UNCHANGED Notifying!vars
    BY DEF notices_vars, Notifying!vars
  <2> QED
    BY <2>1, <2>2, <2>3, ToldNextInv, ContentAssumption
<1> QED
  BY <1>1, <1>2, PTL DEF ContentSpec

\* The columns that welcome.py writes and deletes by, the pages of message.py and
\* the numbers of define._page_header_info: the header counts what the pages show,
\* no notification leads to a post that was removed, and Remove All removes what
\* was on its page, or of submissions on another, and what the promises name,
\* and nothing that came after the page.
THEOREM NoticesStayShown == ContentSpec => []NoticesAreShown
<1>1. ToldHold => NoticesAreShown
  BY ToldPromises, ContentAssumption DEF ToldHold, NoticesAreShown
<1> QED
  BY <1>1, ToldAreHeld, PTL
-----------------------------------------------------------------------------
\* What the records of calls hold.
LEMMA TalkRecords ==
    ASSUME Talking!TypeOK, NEW c \in Calls
    PROVE  /\ call[c].at \in TalkRemovals \cup {"remove replies"} => call[c].user \in Talkers /\ call[c].comment \in Ids
           /\ call[c].at = "remove notices" => call[c].ids \subseteq Ids
           /\ call[c].at \in TalkTold =>
                  call[c].comment \in Ids /\ call[c].ask \subseteq Talkers /\ call[c].tell \subseteq Talkers \X Talking!Codes
           /\ call[c].at \in {"insert checks", "insert"} =>
                  /\ call[c].user \in Talkers /\ call[c].parent \in Ids \cup {None}
                  /\ call[c].checks \in Seq(Talkers \X Talkers) /\ call[c].shun \subseteq Talkers
           /\ "shun" \in DOMAIN call[c] <=> call[c].at \in {"insert checks", "insert"}
<1>1. call[c] \in {Talking!Idle} \cup Talking!CallRecords
  BY DEF Talking!TypeOK
<1>2. CASE call[c] \in [at : {"insert checks", "insert"}, user : Talkers, parent : Ids \cup {None},
                          checks : Seq(Talkers \X Talkers), shun : SUBSET Talkers]
  BY <1>2 DEF TalkRemovals, TalkTold
<1>3. CASE call[c] \in [at : {"tell whom", "tell"}, comment : Ids, ask : SUBSET Talkers, tell : SUBSET (Talkers \X Talking!Codes)]
  BY <1>3 DEF TalkRemovals, TalkTold
<1>4. CASE call[c] \in [at : {"remove replies", "remove read", "remove hide"}, user : Talkers, comment : Ids]
  BY <1>4 DEF TalkRemovals, TalkTold
<1>5. CASE call[c] \in [at : {"remove notices"}, user : Talkers, comment : Ids, ids : SUBSET Ids]
  BY <1>5 DEF TalkRemovals, TalkTold
<1>6. CASE call[c] = Talking!Idle
  BY <1>6 DEF Talking!Idle, TalkRemovals, TalkTold
<1> QED
  BY <1>1, <1>2, <1>3, <1>4, <1>5, <1>6 DEF Talking!CallRecords

\* A row is one that was written.
LEMMA TalkRowOf ==
    ASSUME Talking!TypeOK, NEW m \in Ids, Talking!Made(m)
    PROVE  comment[m] \in Talking!Rows
BY DEF Talking!TypeOK, Talking!Made

\* A comment is in its thread, and what replies to it is below it.
LEMMA TalkThreads == \A m \in Ids : m \in Talking!Thread(m) /\ Talking!Replies(m) \subseteq Talking!Below(m)
<1> SUFFICES ASSUME NEW m \in Ids PROVE m \in Talking!Thread(m) /\ Talking!Replies(m) \subseteq Talking!Below(m)
  OBVIOUS
<1>1. m \in Talking!Thread(m)
  BY DEF Talking!Thread
<1>2. ASSUME NEW r \in Talking!Replies(m)
      PROVE  r \in Talking!Below(m)
  <2>1. r \in Ids /\ Talking!Made(r) /\ comment[r].parent = m /\ m # None
    BY ContentAssumption DEF Talking!Replies, Talking!ConstantsOK
  <2>2. ASSUME NEW S \in SUBSET Ids, r \in S, Talking!Climbs(S)
        PROVE  m \in S
    BY <2>1, <2>2 DEF Talking!Climbs
  <2> QED
    BY <2>1, <2>2 DEF Talking!Below, Talking!Thread
<1> QED
  BY <1>1, <1>2

LEMMA TalkThreadsNext == (\A m \in Ids : m \in Talking!Thread(m) /\ Talking!Replies(m) \subseteq Talking!Below(m))'
  BY TalkThreads, PTL

\* A thread is of rows, and whole.
LEMMA TalkThreadClimbs ==
    ASSUME Talking!TypeOK, TalkRowsHold, NEW k \in Ids, Talking!Made(k)
    PROVE  Talking!Climbs(Talking!Thread(k)) /\ \A m \in Talking!Thread(k) : Talking!Made(m)
<1> DEFINE M == {m \in Ids : Talking!Made(m)}
<1>1. Talking!Climbs(M)
  <2> SUFFICES ASSUME NEW m \in M, comment[m].parent # None PROVE comment[m].parent \in M
    BY DEF Talking!Climbs
  <2>1. comment[m].parent \in Ids
    BY TalkRowOf DEF Talking!Rows
  <2> QED
    BY <2>1 DEF TalkRowsHold
<1>2. Talking!Thread(k) \subseteq M
  BY <1>1 DEF Talking!Thread
<1>3. Talking!Climbs(Talking!Thread(k))
  <2> SUFFICES ASSUME NEW m \in Talking!Thread(k), Talking!Made(m), comment[m].parent # None
               PROVE  comment[m].parent \in Talking!Thread(k)
    BY DEF Talking!Climbs
  <2>1. m \in Ids /\ comment[m].parent \in Ids
    BY TalkRowOf DEF Talking!Rows, Talking!Thread
  <2>2. ASSUME NEW S \in SUBSET Ids, k \in S, Talking!Climbs(S)
        PROVE  comment[m].parent \in S
    <3>1. m \in S
      BY <2>2 DEF Talking!Thread
    <3> QED
      BY <2>2, <3>1 DEF Talking!Climbs
  <2> QED
    BY <2>1, <2>2 DEF Talking!Thread
<1> QED
  BY <1>2, <1>3

\* Rows that are there keep what they reply to.
LEMMA TalkThreadStays ==
    ASSUME Talking!TypeOK, TalkRowsHold, NEW k \in Ids, Talking!Made(k),
           \A m \in Ids : Talking!Made(m) => Talking!Made(m)' /\ comment'[m].parent = comment[m].parent
    PROVE  Talking!Thread(k)' \subseteq Talking!Thread(k)
<1>1. PICK T \in SUBSET Ids : T = Talking!Thread(k)
  BY DEF Talking!Thread
<1>2. k \in T /\ Talking!Climbs(T) /\ \A m \in T : Talking!Made(m)
  BY <1>1, TalkThreads, TalkThreadClimbs
<1>3. Talking!Climbs(T)'
  BY <1>2 DEF Talking!Climbs
<1>4. Talking!Thread(k)' \subseteq T
  BY <1>2, <1>3 DEF Talking!Thread
<1> QED
  BY <1>1, <1>4
-----------------------------------------------------------------------------
\* Below a comment that is hidden, or being removed, it stays as it is.
LEMMA TalkStaysBelow ==
    ASSUME Talking!TypeOK, Talking!TypeOK', TalkGrows, NEW m \in Ids, Talking!Made(m), Talking!Hidden(m) \/ Talking!Removing(m)
    PROVE  /\ TalkQuiet(m) => TalkQuiet(m)'
           /\ TalkChildless(m) => TalkChildless(m)'
<1>1. Talking!Below(m)' \subseteq Talking!Below(m) \cup late' /\ late \subseteq late'
  BY DEF TalkGrows
<1>2. ASSUME NEW k \in Talking!Below(m)', k \notin late'
      PROVE  k \in Talking!Below(m) \ late /\ k \in Ids /\ Talking!Made(k)
  BY <1>1, <1>2 DEF Talking!Below
<1>3. ASSUME TalkQuiet(m)
      PROVE  TalkQuiet(m)'
  <2> SUFFICES ASSUME NEW k \in Talking!Below(m)', k \notin late'
               PROVE  ~TalkTelling(k)' /\ \A n \in told' : n[3] = k => n[2] = "collected"
    BY DEF TalkQuiet
  <2>1. ~TalkTelling(k) /\ \A n \in told : n[3] = k => n[2] = "collected"
    BY <1>2, <1>3 DEF TalkQuiet
  <2> QED
    BY <1>2, <2>1 DEF TalkGrows
<1>4. ASSUME TalkChildless(m)
      PROVE  TalkChildless(m)'
  <2> SUFFICES ASSUME NEW r \in Talking!Replies(m)', r \notin late'
               PROVE  Talking!Hidden(r)'
    BY DEF TalkChildless
  <2>1. r \in Talking!Below(m)'
    BY TalkThreadsNext
  <2>2. r \in Ids /\ Talking!Made(r) /\ r \notin late
    BY <1>2, <2>1
  <2>3. r \in Talking!Replies(m)
    BY <2>2 DEF TalkGrows, Talking!Replies
  <2>4. Talking!Hidden(r)
    BY <1>4, <2>2, <2>3 DEF TalkChildless
  <2> QED
    BY <2>2, <2>4 DEF TalkGrows
<1> QED
  BY <1>3, <1>4

\* A removal goes on as it was.
LEMMA TalkRemovalStays ==
    ASSUME Talking!TypeOK, Talking!TypeOK', TalkGrows, NEW c \in Calls, call'[c] = call[c], TalkRemovalHolds(call[c])
    PROVE  TalkRemovalHolds(call[c])'
<1> SUFFICES ASSUME call[c].at \in TalkRemovals \cup {"remove replies"} PROVE TalkRemovalHolds(call[c])'
  BY DEF TalkRemovalHolds
<1>1. call[c].comment \in Ids /\ Talking!Made(call[c].comment) /\ Talking!Removing(call[c].comment)
  BY TalkRecords DEF TalkRemovalHolds, Talking!Removing, TalkRemovals
<1>2. /\ Talking!Made(call[c].comment)'
      /\ Talking!Below(call[c].comment)' \subseteq Talking!Below(call[c].comment) \cup late'
      /\ late \subseteq late' /\ page' = page
  BY <1>1 DEF TalkGrows
<1>3. TalkAbove(call[c].user)' <=> TalkAbove(call[c].user)
  BY <1>2 DEF TalkAbove
<1>4. \A m \in Ids : m = call[c].comment =>
          /\ Talking!Made(m)' /\ Talking!Below(m)' \subseteq Talking!Below(m) \cup late'
          /\ (TalkQuiet(m) => TalkQuiet(m)') /\ (TalkChildless(m) => TalkChildless(m)')
  BY <1>1, <1>2, TalkStaysBelow
<1>5. PICK m \in Ids : m = call[c].comment
  BY <1>1
<1> QED
  BY <1>2, <1>3, <1>4, <1>5 DEF TalkRemovalHolds

\* Steps that take nothing back keep the invariant, if what they add is in order.
LEMMA TalkFrame ==
    ASSUME TalkIInv, Talking!TypeOK', TalkGrows,
           \A m \in Ids : Talking!Made(m)' /\ ~Talking!Made(m) =>
               ~Talking!Hidden(m)' /\ (comment'[m].parent # None => comment'[comment'[m].parent] # None),
           \A m \in Ids : Talking!Made(m) /\ Talking!Hidden(m)' /\ ~Talking!Hidden(m) =>
               /\ ~TalkAbove(comment'[m].hidden_by) => TalkChildless(m)'
               /\ page # "notes" => TalkQuiet(m)',
           \A n \in told' \ told : Talking!Made(n[3]) /\ (n[1] \in shunned'[n[3]] => TalkExempt(n[2], n[3])),
           \A c \in Calls : \/ call'[c] = call[c] /\ ignored \subseteq ignored'
                            \/ TalkRemovalHolds(call[c])' /\ TalkInsertHolds(call[c])' /\ TalkTellHolds(call[c])'
    PROVE  TalkIInv'
<1> USE DEF TalkIInv
<1>1. page' = page /\ \A u : TalkAbove(u)' <=> TalkAbove(u)
  BY DEF TalkGrows, TalkAbove
<1>2. \A m \in Ids : \A k : Talking!Made(m) => (TalkExempt(k, m)' <=> TalkExempt(k, m))
  BY DEF TalkGrows, TalkExempt, TalkAuthor
<1>3. TalkRowsHold'
  <2> SUFFICES ASSUME NEW m \in Ids, Talking!Made(m)'
               PROVE  /\ comment'[m].parent # None => comment'[comment'[m].parent] # None
                      /\ Talking!Hidden(m)' /\ ~TalkAbove(comment'[m].hidden_by) => TalkChildless(m)'
                      /\ Talking!Hidden(m)' /\ page # "notes" => TalkQuiet(m)'
    BY <1>1 DEF TalkRowsHold, Talking!Made
  <2>1. CASE Talking!Made(m)
    <3>1. comment'[m].parent # None => comment'[comment'[m].parent] # None
      <4>1. comment[m].parent # None => comment[m].parent \in Ids /\ Talking!Made(comment[m].parent)
        BY <2>1, TalkRowOf DEF TalkRowsHold, Talking!Rows
      <4> QED
        BY <2>1, <4>1 DEF TalkGrows, Talking!Made
    <3>2. CASE Talking!Hidden(m)
      BY <1>1, <2>1, <3>1, <3>2, TalkStaysBelow DEF TalkRowsHold, TalkGrows
    <3> QED
      BY <2>1, <3>1, <3>2
  <2> QED
    BY <2>1
<1>4. TalkNoticesHold'
  <2> SUFFICES ASSUME NEW n \in told'
               PROVE  Talking!Made(n[3])' /\ (n[1] \in shunned'[n[3]] => TalkExempt(n[2], n[3])')
    BY DEF TalkNoticesHold
  <2>1. n[3] \in Ids
    BY DEF Talking!TypeOK
  <2>2. Talking!Made(n[3]) /\ (n[1] \in shunned'[n[3]] => TalkExempt(n[2], n[3]))
    BY <2>1 DEF TalkNoticesHold, TalkGrows
  <2> QED
    BY <1>2, <2>1, <2>2 DEF TalkGrows
<1>5. ASSUME NEW c \in Calls
      PROVE  TalkRemovalHolds(call[c])' /\ TalkInsertHolds(call[c])' /\ TalkTellHolds(call[c])'
  <2> SUFFICES ASSUME call'[c] = call[c], ignored \subseteq ignored'
               PROVE  TalkRemovalHolds(call[c])' /\ TalkInsertHolds(call[c])' /\ TalkTellHolds(call[c])'
    OBVIOUS
  <2>1. TalkRemovalHolds(call[c])'
    BY TalkRemovalStays
  <2>2. TalkInsertHolds(call[c])'
    <3> SUFFICES ASSUME call[c].at \in {"insert checks", "insert"} PROVE TalkInsertHolds(call[c])'
      BY DEF TalkInsertHolds
    <3>1. call[c].parent # None => call[c].parent \in Ids /\ Talking!Made(call[c].parent)
      BY TalkRecords DEF TalkInsertHolds
    <3>2. \A v : TalkAsks(call[c].user, call[c].parent, v)' <=> TalkAsks(call[c].user, call[c].parent, v)
      BY <1>1, <3>1 DEF TalkAsks, TalkGrows
    <3>3. ASSUME NEW v \in call[c].shun
          PROVE  /\ <<v, call[c].user>> \in ignored'
                 /\ TalkAsks(call[c].user, call[c].parent, v)' =>
                        \E i \in 1 .. Len(call[c].checks) : call[c].checks[i] = <<v, call[c].user>>
      BY <3>2 DEF TalkInsertHolds
    <3> QED
      BY <3>1, <3>3 DEF TalkInsertHolds, TalkGrows
  <2>3. TalkTellHolds(call[c])'
    <3> SUFFICES ASSUME call[c].at \in TalkTold PROVE TalkTellHolds(call[c])'
      BY DEF TalkTellHolds
    <3>1. call[c].comment \in Ids /\ Talking!Made(call[c].comment)
      BY TalkRecords DEF TalkTellHolds
    <3> QED
      BY <1>2, <3>1 DEF TalkTellHolds, TalkGrows, TalkAuthor
  <2> QED
    BY <2>1, <2>2, <2>3
<1> QED
  BY <1>3, <1>4, <1>5

\* What a call becomes, when nothing else changes.
LEMMA TalkCallSet ==
    ASSUME Talking!TypeOK, NEW c \in Calls, NEW r \in {Talking!Idle} \cup Talking!CallRecords, call' = [call EXCEPT ![c] = r]
    PROVE  /\ call' \in [Calls -> {Talking!Idle} \cup Talking!CallRecords]
           /\ call'[c] = r /\ \A b \in Calls : b # c => call'[b] = call[b]
BY DEF Talking!TypeOK

LEMMA TalkCallStep ==
    ASSUME TalkIInv, NEW c \in Calls, NEW r \in {Talking!Idle} \cup Talking!CallRecords, call' = [call EXCEPT ![c] = r],
           UNCHANGED <<page, comment, told, ignored, late, shunned>>,
           r.at \in TalkTold => call[c].at \in TalkTold /\ r.comment = call[c].comment,
           TalkRemovalHolds(r), TalkInsertHolds(r), TalkTellHolds(r)
    PROVE  TalkIInv'
<1>1. /\ call' \in [Calls -> {Talking!Idle} \cup Talking!CallRecords]
      /\ call'[c] = r /\ \A b \in Calls : b # c => call'[b] = call[b]
  BY TalkCallSet DEF TalkIInv
<1>2. Talking!TypeOK'
  BY <1>1 DEF TalkIInv, Talking!TypeOK
<1>3. \A m : TalkTelling(m)' => TalkTelling(m)
  BY <1>1 DEF TalkTelling
<1>4. \A m : Talking!Made(m)' = Talking!Made(m) /\ Talking!Hidden(m)' = Talking!Hidden(m) /\ Talking!Below(m)' = Talking!Below(m) /\ TalkChildless(m)' = TalkChildless(m)
  BY DEF Talking!Made, Talking!Hidden, Talking!Below, Talking!Thread, Talking!Climbs, TalkChildless, Talking!Replies
<1>5. TalkGrows
  BY <1>3, <1>4 DEF TalkGrows
<1>6. \A m : TalkQuiet(m) => TalkQuiet(m)'
  BY <1>3, <1>4 DEF TalkQuiet
<1>7. TalkRemovalHolds(r)' /\ TalkInsertHolds(r)' /\ TalkTellHolds(r)'
  BY <1>4, <1>6 DEF TalkRemovalHolds, TalkInsertHolds, TalkTellHolds, TalkAbove, TalkAsks, TalkExempt, TalkAuthor
<1> QED
  BY <1>1, <1>2, <1>4, <1>5, <1>7, TalkFrame
-----------------------------------------------------------------------------
\* The checks of insert are of users, and of all who may be told of the comment.
LEMMA TalkChecksAre ==
    ASSUME Talking!TypeOK, NEW u \in Talkers, NEW p \in Ids \cup {None}, p # None => Talking!Made(p)
    PROVE  /\ Talking!IgnoreChecks(u, p) \in Seq(Talkers \X Talkers)
           /\ \A v : TalkAsks(u, p, v) => \E i \in 1 .. Len(Talking!IgnoreChecks(u, p)) : Talking!IgnoreChecks(u, p)[i] = <<v, u>>
<1> DEFINE A == IF page = "update" THEN <<>> ELSE <<<<Owner, u>>, <<u, Owner>>>>
           B == IF p = None THEN <<>> ELSE <<<<comment[p].userid, u>>, <<u, comment[p].userid>>>>
<1>1. Owner \in Talkers /\ (p # None => comment[p].userid \in Talkers)
  BY ContentAssumption, TalkRowOf DEF Talking!ConstantsOK, Talking!Rows
<1>2. ASSUME NEW v \in Talkers
      PROVE  /\ <<<<v, u>>, <<u, v>>>> \in Seq(Talkers \X Talkers) /\ Len(<<<<v, u>>, <<u, v>>>>) = 2
             /\ <<<<v, u>>, <<u, v>>>>[1] = <<v, u>>
  <2>1. <<v, u>> \in Talkers \X Talkers /\ <<u, v>> \in Talkers \X Talkers
    OBVIOUS
  <2> QED
    BY <2>1
<1>3. A \in Seq(Talkers \X Talkers) /\ (page # "update" => Len(A) = 2 /\ A[1] = <<Owner, u>>)
  <2>1. CASE page = "update"
    BY <2>1
  <2>2. CASE page # "update"
    BY <1>2, <1>1, <2>2
  <2> QED
    BY <2>1, <2>2
<1>4. B \in Seq(Talkers \X Talkers) /\ (p # None => Len(B) = 2 /\ B[1] = <<comment[p].userid, u>>)
  <2>1. CASE p = None
    BY <2>1
  <2>2. CASE p # None
    BY <1>2, <1>1, <2>2
  <2> QED
    BY <2>1, <2>2
<1>5. Talking!IgnoreChecks(u, p) = IF page \in Talking!Shouts /\ u \in TalkMods THEN <<>> ELSE A \o B
  BY DEF Talking!IgnoreChecks
<1> HIDE DEF A, B
<1>6. /\ A \o B \in Seq(Talkers \X Talkers) /\ Len(A \o B) = Len(A) + Len(B)
      /\ Len(A) \in Nat /\ Len(B) \in Nat
      /\ \A i \in 1 .. Len(A) : (A \o B)[i] = A[i]
      /\ \A i \in 1 .. Len(B) : (A \o B)[Len(A) + i] = B[i]
  BY <1>3, <1>4
<1>7. ASSUME NEW v, TalkAsks(u, p, v)
      PROVE  \E i \in 1 .. Len(Talking!IgnoreChecks(u, p)) : Talking!IgnoreChecks(u, p)[i] = <<v, u>>
  <2>1. Talking!IgnoreChecks(u, p) = A \o B
    BY <1>5, <1>7 DEF TalkAsks
  <2>2. CASE page # "update" /\ v = Owner
    <3>1. 1 \in 1 .. Len(A \o B) /\ (A \o B)[1] = A[1]
      <4>1. Len(A) = 2
        BY <1>3, <2>2
      <4>2. 1 \in 1 .. Len(A) /\ 1 \in 1 .. Len(A) + Len(B)
        BY <1>6, <4>1
      <4> QED
        BY <1>6, <4>2
    <3>2. A[1] = <<v, u>>
      BY <1>3, <2>2
    <3> QED
      BY <2>1, <3>1, <3>2
  <2>3. CASE p # None /\ v = comment[p].userid
    <3>1. Len(A) + 1 \in 1 .. Len(A \o B) /\ (A \o B)[Len(A) + 1] = B[1]
      <4>1. Len(B) = 2
        BY <1>4, <2>3
      <4>2. 1 \in 1 .. Len(B) /\ Len(A) + 1 \in 1 .. Len(A) + Len(B)
        BY <1>6, <4>1
      <4> QED
        BY <1>6, <4>2
    <3>2. B[1] = <<v, u>>
      BY <1>4, <2>3
    <3> QED
      BY <2>1, <3>1, <3>2
  <2> QED
    BY <1>7, <2>2, <2>3 DEF TalkAsks
<1>8. Talking!IgnoreChecks(u, p) \in Seq(Talkers \X Talkers)
  BY <1>5, <1>6
<1> QED
  BY <1>7, <1>8

LEMMA TalkInsertStartInv ==
    ASSUME TalkIInv, NEW c \in Calls, NEW u \in Talkers, NEW p \in Ids \cup {None}, Talking!InsertStart(c, u, p)
    PROVE  TalkIInv'
<1> DEFINE r == [at |-> "insert checks", user |-> u, parent |-> p, checks |-> Talking!IgnoreChecks(u, p),
                 shun |-> {v \in Talkers : <<v, u>> \in ignored}]
<1>1. p # None => Talking!Made(p)
  BY DEF Talking!InsertStart
<1>2. /\ Talking!IgnoreChecks(u, p) \in Seq(Talkers \X Talkers)
      /\ \A v : TalkAsks(u, p, v) => \E i \in 1 .. Len(Talking!IgnoreChecks(u, p)) : Talking!IgnoreChecks(u, p)[i] = <<v, u>>
  BY <1>1, TalkChecksAre DEF TalkIInv
<1>3. r \in Talking!CallRecords
  BY <1>2 DEF Talking!CallRecords
<1>4. TalkRemovalHolds(r) /\ TalkTellHolds(r) /\ TalkInsertHolds(r)
  BY <1>1, <1>2 DEF TalkRemovalHolds, TalkTellHolds, TalkInsertHolds, TalkRemovals, TalkTold
<1>5. call' = [call EXCEPT ![c] = r] /\ UNCHANGED <<page, comment, told, ignored, late, shunned>>
  BY DEF Talking!InsertStart, Talking!Start
<1>6. r.at \notin TalkTold
  BY DEF TalkTold
<1> HIDE DEF r
<1> QED
  BY <1>3, <1>4, <1>5, <1>6, TalkCallStep

\* A call that ends holds nothing.
LEMMA TalkEndInv ==
    ASSUME TalkIInv, NEW c \in Calls, Talking!End(c), UNCHANGED <<page, comment, told, ignored, late, shunned>>
    PROVE  TalkIInv'
<1>1. Talking!Idle.at \notin TalkTold /\ TalkRemovalHolds(Talking!Idle) /\ TalkInsertHolds(Talking!Idle) /\ TalkTellHolds(Talking!Idle)
  BY DEF Talking!Idle, TalkRemovalHolds, TalkInsertHolds, TalkTellHolds, TalkRemovals, TalkTold
<1> QED
  BY <1>1, TalkCallStep DEF Talking!End

\* A call under way is what its step says.
LEMMA TalkBusy ==
    ASSUME TalkIInv, NEW c \in Calls, call[c].at # "idle"
    PROVE  call[c] \in Talking!CallRecords /\ TalkRemovalHolds(call[c]) /\ TalkInsertHolds(call[c]) /\ TalkTellHolds(call[c])
<1>1. call[c] \in {Talking!Idle} \cup Talking!CallRecords
  BY DEF TalkIInv, Talking!TypeOK
<1>2. Talking!Idle.at = "idle"
  BY DEF Talking!Idle
<1> QED
  BY <1>1, <1>2 DEF TalkIInv

LEMMA TalkInsertCheckInv ==
    ASSUME TalkIInv, NEW c \in Calls, Talking!InsertCheck(c)
    PROVE  TalkIInv'
<1>0. call[c].at = "insert checks" /\ UNCHANGED <<page, comment, told, ignored, late, shunned>>
  BY DEF Talking!InsertCheck, Talking!At
<1>1. call[c] \in Talking!CallRecords /\ TalkInsertHolds(call[c])
  BY <1>0, TalkBusy
<1>2. call[c] \in [at : {"insert checks", "insert"}, user : Talkers, parent : Ids \cup {None},
                   checks : Seq(Talkers \X Talkers), shun : SUBSET Talkers]
  BY <1>0, <1>1 DEF Talking!CallRecords
<1>3. CASE call[c].checks = <<>>
  <2> DEFINE r == [call[c] EXCEPT !.at = "insert"]
  <2>1. r \in Talking!CallRecords /\ r.at = "insert" /\ call' = [call EXCEPT ![c] = r]
    BY <1>0, <1>1, <1>2, <1>3 DEF Talking!CallRecords, Talking!InsertCheck, Talking!Goto
  <2>2. TalkRemovalHolds(r) /\ TalkTellHolds(r) /\ TalkInsertHolds(r)
    BY <1>0, <1>1, <1>2, <1>3 DEF TalkRemovalHolds, TalkTellHolds, TalkInsertHolds, TalkRemovals, TalkTold
  <2> HIDE DEF r
  <2> QED
    BY <1>0, <2>1, <2>2, TalkCallStep DEF TalkTold
<1>4. CASE call[c].checks # <<>> /\ Head(call[c].checks) \in ignored
  BY <1>0, <1>1, <1>4, TalkEndInv DEF Talking!InsertCheck
<1>5. CASE call[c].checks # <<>> /\ Head(call[c].checks) \notin ignored
  <2> DEFINE s == call[c].checks
             r == [call[c] EXCEPT !.checks = Tail(s)]
  <2>1. /\ Tail(s) \in Seq(Talkers \X Talkers) /\ Len(Tail(s)) = Len(s) - 1 /\ Len(s) \in Nat
        /\ \A i \in 1 .. Len(Tail(s)) : Tail(s)[i] = s[i + 1]
        /\ Head(s) = s[1]
    <3>1. s \in Seq(Talkers \X Talkers) /\ s # <<>>
      BY <1>2, <1>5
    <3> HIDE DEF s
    <3>2. Len(s) \in Nat /\ Head(s) = s[1]
      BY <3>1
    <3> QED
      BY <3>1, <3>2
  <2>2. r \in Talking!CallRecords /\ r.at = "insert checks" /\ call' = [call EXCEPT ![c] = r]
    BY <1>0, <1>1, <1>2, <1>5, <2>1 DEF Talking!CallRecords, Talking!InsertCheck
  <2>3. ASSUME NEW v \in call[c].shun, TalkAsks(call[c].user, call[c].parent, v)
        PROVE  \E i \in 1 .. Len(Tail(s)) : Tail(s)[i] = <<v, call[c].user>>
    <3>1. PICK i \in 1 .. Len(s) : s[i] = <<v, call[c].user>>
      BY <1>0, <1>1, <2>3 DEF TalkInsertHolds
    <3>2. i # 1
      BY <1>0, <1>1, <1>5, <2>1, <3>1 DEF TalkInsertHolds
    <3>3. i - 1 \in 1 .. Len(Tail(s)) /\ Tail(s)[i - 1] = s[i]
      BY <2>1, <3>2
    <3> QED
      BY <3>1, <3>3
  <2>4. TalkRemovalHolds(r) /\ TalkTellHolds(r) /\ TalkInsertHolds(r)
    BY <1>0, <1>1, <1>2, <2>3 DEF TalkRemovalHolds, TalkTellHolds, TalkInsertHolds, TalkRemovals, TalkTold
  <2> HIDE DEF r, s
  <2> QED
    BY <1>0, <2>2, <2>4, TalkCallStep DEF TalkTold
<1> QED
  BY <1>3, <1>4, <1>5

\* Those who are told of a comment are those the checks were about, but for the
\* exempted.
LEMMA TalkRecipientsAre ==
    ASSUME Talking!TypeOK, NEW u \in Talkers, NEW p \in Ids \cup {None}, p # None => Talking!Made(p)
    PROVE  /\ Talking!Recipients(u, p) \subseteq Talkers \X Talking!Codes
           /\ \A t \in Talking!Recipients(u, p) :
                  TalkAsks(u, p, t[1]) \/ (page \in Talking!Shouts /\ u \in TalkMods) \/ (page = "update" /\ t[2] = "own")
<1>1. Owner \in Talkers /\ (p # None => comment[p].userid \in Talkers)
  BY ContentAssumption, TalkRowOf DEF Talking!ConstantsOK, Talking!Rows
<1>2. \A t \in Talking!Recipients(u, p) : \/ t = <<Owner, "own">>
                                          \/ p # None /\ t = <<comment[p].userid, "reply">>
  BY DEF Talking!Recipients, Talking!ParentAuthor
<1> QED
  BY <1>1, <1>2 DEF TalkAsks, Talking!Codes

\* A new comment is marked late where it replies to what is hidden, or being removed.
LEMMA TalkInsertRowInv ==
    ASSUME TalkIInv, NEW c \in Calls, NEW m \in Ids, Talking!InsertRow(c, m)
    PROVE  TalkIInv'
<1> USE DEF TalkIInv
<1>1. PICK u \in Talkers, p \in Ids \cup {None} :
          /\ u = call[c].user /\ p = call[c].parent /\ call[c].at = "insert"
          /\ call[c].shun \subseteq Talkers /\ (p # None => Talking!Made(p))
          /\ \A v \in call[c].shun : <<v, u>> \in ignored /\ ~TalkAsks(u, p, v)
  <2>1. call[c].at = "insert"
    BY DEF Talking!InsertRow, Talking!At
  <2>2. /\ call[c].user \in Talkers /\ call[c].parent \in Ids \cup {None} /\ call[c].shun \subseteq Talkers
        /\ TalkInsertHolds(call[c])
    BY <2>1, TalkRecords, TalkBusy
  <2>3. call[c].checks = <<>> /\ (call[c].parent # None => Talking!Made(call[c].parent))
    BY <2>1, <2>2 DEF TalkInsertHolds
  <2>4. ~ \E i \in 1 .. Len(<<>>) : TRUE
    OBVIOUS
  <2>5. \A v \in call[c].shun : <<v, call[c].user>> \in ignored /\ ~TalkAsks(call[c].user, call[c].parent, v)
    BY <2>1, <2>2, <2>3, <2>4 DEF TalkInsertHolds
  <2> QED
    BY <2>1, <2>2, <2>3, <2>5
<1>0. PICK s, r :
          /\ s = call[c].shun /\ s \subseteq Talkers
          /\ r = [at |-> "tell whom", comment |-> m, tell |-> Talking!Recipients(u, p),
                  ask |-> IF page = "submission" /\ p = None THEN Collectors \ {Owner} ELSE {}]
  BY <1>1
<1> DEFINE row == [parent |-> p, userid |-> u, hidden_by |-> None]
<1>2. /\ ~Talking!Made(m) /\ UNCHANGED <<page, told, ignored>>
      /\ comment' = [comment EXCEPT ![m] = row]
      /\ shunned' = [shunned EXCEPT ![m] = s]
      /\ late' = late \cup IF p # None /\ (\E k \in Talking!Thread(p) : Talking!Hidden(k) \/ Talking!Removing(k)) THEN {m} ELSE {}
      /\ call' = [call EXCEPT ![c] = r]
  BY <1>0, <1>1 DEF Talking!InsertRow
<1>3. /\ Talking!Recipients(u, p) \subseteq Talkers \X Talking!Codes
      /\ \A t \in Talking!Recipients(u, p) : t[1] \in s =>
             (page \in Talking!Shouts /\ u \in TalkMods) \/ (page = "update" /\ t[2] = "own")
  <2>1. /\ Talking!Recipients(u, p) \subseteq Talkers \X Talking!Codes
        /\ \A t \in Talking!Recipients(u, p) :
               TalkAsks(u, p, t[1]) \/ (page \in Talking!Shouts /\ u \in TalkMods) \/ (page = "update" /\ t[2] = "own")
    BY <1>1, TalkRecipientsAre
  <2> QED
    BY <1>0, <1>1, <2>1
<1>4. r \in Talking!CallRecords /\ row \in Talking!Rows /\ row # None
  <2>1. row \in Talking!Rows /\ row # None
    BY <1>1, ContentAssumption DEF Talking!Rows, Talking!ConstantsOK
  <2>2. r.ask \subseteq Talkers
    BY <1>0, ContentAssumption DEF Talking!ConstantsOK
  <2>3. r \in Talking!CallRecords
    BY <1>0, <1>3, <2>2 DEF Talking!CallRecords
  <2> QED
    BY <2>1, <2>3
<1>5. /\ call' \in [Calls -> {Talking!Idle} \cup Talking!CallRecords]
      /\ call'[c] = r /\ \A b \in Calls : b # c => call'[b] = call[b]
  BY <1>2, <1>4, TalkCallSet
<1>6. r.at = "tell whom" /\ r.comment = m /\ r.tell = Talking!Recipients(u, p)
      /\ row.parent = p /\ row.userid = u /\ row.hidden_by = None
  BY <1>0
<1> HIDE DEF row
<1>7. /\ comment' \in [Ids -> Talking!Rows \cup {None}] /\ comment'[m] = row /\ shunned'[m] = s
      /\ shunned' \in [Ids -> SUBSET Talkers]
      /\ \A k \in Ids : Talking!Made(k) => k # m /\ Talking!Made(k)' /\ comment'[k] = comment[k] /\ shunned'[k] = shunned[k]
      /\ \A k \in Ids : k # m => comment'[k] = comment[k]
  BY <1>0, <1>1, <1>2, <1>4 DEF Talking!TypeOK, Talking!Made
<1>8. Talking!TypeOK'
  BY <1>2, <1>5, <1>7 DEF Talking!TypeOK
<1>9. ASSUME NEW k \in Ids, Talking!Made(k), Talking!Hidden(k) \/ Talking!Removing(k), NEW x \in Talking!Below(k)', x \notin late'
      PROVE  x \in Talking!Below(k)
  <2>1. x \in Ids /\ comment'[x] # None /\ k \in Talking!Thread(x)'
    BY DEF Talking!Below, Talking!Made
  <2>2. CASE x # m
    <3>1. Talking!Made(x)
      BY <1>7, <2>1, <2>2 DEF Talking!Made
    <3>2. Talking!Thread(x)' \subseteq Talking!Thread(x)
      BY <1>7, <2>1, <3>1, TalkThreadStays
    <3> QED
      BY <2>1, <3>1, <3>2 DEF Talking!Below
  <2>3. CASE x = m
    <3>1. PICK T \in SUBSET Ids : T = {m} \cup IF p = None THEN {} ELSE Talking!Thread(p)
      BY <1>1 DEF Talking!Thread
    <3>2. Talking!Climbs(T)'
      <4> SUFFICES ASSUME NEW y \in T, Talking!Made(y)', comment'[y].parent # None
                   PROVE  comment'[y].parent \in T
        BY DEF Talking!Climbs
      <4>1. CASE y = m
        <5>1. comment'[y].parent = p /\ p \in Ids /\ p \in Talking!Thread(p)
          BY <1>1, <1>6, <1>7, <4>1, TalkThreads
        <5> QED
          BY <3>1, <4>1, <5>1
      <4>2. CASE y # m
        <5>1. p # None /\ y \in Talking!Thread(p) /\ Talking!Made(p)
          BY <1>1, <3>1, <4>2
        <5>2. Talking!Made(y) /\ Talking!Climbs(Talking!Thread(p))
          BY <1>1, <5>1, TalkThreadClimbs
        <5> QED
          BY <1>7, <3>1, <5>1, <5>2 DEF Talking!Climbs
      <4> QED
        BY <4>1, <4>2
    <3>3. k \in T
      BY <2>1, <2>3, <3>1, <3>2 DEF Talking!Thread
    <3> QED
      BY <1>2, <1>7, <1>9, <2>3, <3>1, <3>3
  <2> QED
    BY <2>2, <2>3
<1>10. \A k \in Ids : Talking!Made(k) /\ TalkTelling(k)' => TalkTelling(k)
  BY <1>5, <1>6, <1>7 DEF TalkTelling
<1>11. \A k \in Ids : Talking!Made(k) => (Talking!Hidden(k)' <=> Talking!Hidden(k))
  BY <1>7 DEF Talking!Hidden
<1>12. TalkGrows
  <2>1. page' = page /\ late \subseteq late' /\ told' = told
    BY <1>2
  <2>2. \A k \in Ids : Talking!Made(k) /\ (Talking!Hidden(k) \/ Talking!Removing(k)) => Talking!Below(k)' \subseteq Talking!Below(k) \cup late'
    BY <1>9
  <2> QED
    BY <1>7, <1>10, <1>11, <2>1, <2>2 DEF TalkGrows
<1>13. TalkRemovalHolds(r)' /\ TalkInsertHolds(r)' /\ TalkTellHolds(r)'
  <2>1. Talking!Made(m)' /\ TalkAuthor(m)' = u
    BY <1>4, <1>6, <1>7 DEF Talking!Made, TalkAuthor
  <2>2. ASSUME NEW t \in r.tell, t[1] \in s
        PROVE  TalkExempt(t[2], m)'
    BY <2>2, <1>2, <1>3, <1>6, <2>1 DEF TalkExempt
  <2>3. TalkTellHolds(r)'
    BY <1>0, <1>1, <1>2, <1>6, <1>7, <2>1, <2>2 DEF TalkTellHolds
  <2> QED
    BY <1>6, <2>3 DEF TalkRemovalHolds, TalkInsertHolds, TalkRemovals
<1>14. ASSUME NEW k \in Ids, Talking!Made(k)', ~Talking!Made(k)
      PROVE  ~Talking!Hidden(k)' /\ (comment'[k].parent # None => comment'[comment'[k].parent] # None)
  <2>1. comment'[k] = row
    BY <1>7, <1>14 DEF Talking!Made
  <2>2. p # None => comment'[p] # None
    BY <1>1, <1>7 DEF Talking!Made
  <2> QED
    BY <1>6, <2>1, <2>2 DEF Talking!Hidden
<1>15. \A b \in Calls : \/ call'[b] = call[b] /\ ignored \subseteq ignored'
                        \/ TalkRemovalHolds(call[b])' /\ TalkInsertHolds(call[b])' /\ TalkTellHolds(call[b])'
  BY <1>2, <1>5, <1>13
<1> QED
  BY <1>2, <1>8, <1>11, <1>12, <1>14, <1>15, TalkFrame

\* The records of a comment about to be told of.
LEMMA TalkToldRecord ==
    ASSUME TalkIInv, NEW c \in Calls, call[c].at \in TalkTold
    PROVE  /\ call[c] \in [at : TalkTold, comment : Ids, ask : SUBSET Talkers, tell : SUBSET (Talkers \X Talking!Codes)]
           /\ TalkTellHolds(call[c]) /\ Talking!Made(call[c].comment)
<1>1. call[c] \in Talking!CallRecords /\ TalkTellHolds(call[c])
  BY TalkBusy DEF TalkTold
<1>2. call[c] \in [at : TalkTold, comment : Ids, ask : SUBSET Talkers, tell : SUBSET (Talkers \X Talking!Codes)]
  BY <1>1 DEF Talking!CallRecords, TalkTold
<1> QED
  BY <1>1, <1>2 DEF TalkTellHolds

LEMMA TalkAskCollectorInv ==
    ASSUME TalkIInv, NEW c \in Calls, NEW v \in Collectors, NEW allows \in BOOLEAN, Talking!AskCollector(c, v, allows)
    PROVE  TalkIInv'
<1>1. call[c].at = "tell whom" /\ UNCHANGED <<page, comment, told, ignored, late, shunned>>
  BY DEF Talking!AskCollector, Talking!At
<1>2. /\ call[c] \in [at : TalkTold, comment : Ids, ask : SUBSET Talkers, tell : SUBSET (Talkers \X Talking!Codes)]
      /\ TalkTellHolds(call[c]) /\ Talking!Made(call[c].comment)
  BY <1>1, TalkToldRecord DEF TalkTold
<1> DEFINE u == comment[call[c].comment].userid
           hears == allows /\ v # u /\ <<v, u>> \notin ignored
           tell == IF hears THEN call[c].tell \cup {<<v, "collected">>} ELSE call[c].tell
           r == [call[c] EXCEPT !.ask = call[c].ask \ {v}, !.tell = tell]
<1>3. v \in Talkers
  BY ContentAssumption DEF Talking!ConstantsOK
<1>4. tell \subseteq Talkers \X Talking!Codes
  BY <1>2, <1>3 DEF Talking!Codes
<1>5. hears => v \notin shunned[call[c].comment]
  BY <1>1, <1>2 DEF TalkTellHolds, TalkTold, TalkAuthor
<1>6. \A t \in tell : t[1] \in shunned[call[c].comment] => TalkExempt(t[2], call[c].comment)
  <2>1. \A t \in call[c].tell : t[1] \in shunned[call[c].comment] => TalkExempt(t[2], call[c].comment)
    BY <1>1, <1>2 DEF TalkTellHolds, TalkTold
  <2> QED
    BY <1>5, <2>1
<1>7. call' = [call EXCEPT ![c] = r]
  BY <1>1 DEF Talking!AskCollector
<1> HIDE DEF hears, tell
<1>8. r \in Talking!CallRecords /\ r.at = "tell whom" /\ r.comment = call[c].comment /\ r.tell = tell
  BY <1>1, <1>2, <1>4 DEF Talking!CallRecords, TalkTold
<1> HIDE DEF r
<1>9. TalkRemovalHolds(r) /\ TalkInsertHolds(r) /\ TalkTellHolds(r)
  BY <1>1, <1>2, <1>6, <1>8 DEF TalkRemovalHolds, TalkInsertHolds, TalkTellHolds, TalkRemovals, TalkTold
<1> QED
  BY <1>1, <1>7, <1>8, <1>9, TalkCallStep DEF TalkTold

LEMMA TalkAllAskedInv ==
    ASSUME TalkIInv, NEW c \in Calls, Talking!AllAsked(c)
    PROVE  TalkIInv'
<1>1. call[c].at = "tell whom" /\ UNCHANGED <<page, comment, told, ignored, late, shunned>>
  BY DEF Talking!AllAsked, Talking!At
<1>2. /\ call[c] \in [at : TalkTold, comment : Ids, ask : SUBSET Talkers, tell : SUBSET (Talkers \X Talking!Codes)]
      /\ TalkTellHolds(call[c]) /\ Talking!Made(call[c].comment)
  BY <1>1, TalkToldRecord DEF TalkTold
<1> DEFINE r == [call[c] EXCEPT !.at = "tell"]
<1>3. Talking!End(c) \/ call' = [call EXCEPT ![c] = r]
  BY DEF Talking!AllAsked, Talking!Check, Talking!Goto
<1>4. r \in Talking!CallRecords /\ r.at = "tell" /\ r.comment = call[c].comment /\ r.tell = call[c].tell
  BY <1>1, <1>2 DEF Talking!CallRecords, TalkTold
<1> HIDE DEF r
<1>5. TalkRemovalHolds(r) /\ TalkInsertHolds(r) /\ TalkTellHolds(r)
  BY <1>1, <1>2, <1>4 DEF TalkRemovalHolds, TalkInsertHolds, TalkTellHolds, TalkRemovals, TalkTold
<1> QED
  BY <1>1, <1>3, <1>4, <1>5, TalkCallStep, TalkEndInv DEF TalkTold

LEMMA TalkTellInv ==
    ASSUME TalkIInv, NEW c \in Calls, NEW t \in Talkers \X Talking!Codes, Talking!Tell(c, t)
    PROVE  TalkIInv'
<1>1. /\ call[c].at = "tell" /\ t \in call[c].tell
      /\ told' = told \cup {<<t[1], t[2], call[c].comment>>}
      /\ UNCHANGED <<page, comment, ignored, late, shunned>>
  BY DEF Talking!Tell, Talking!At
<1>2. /\ call[c] \in [at : TalkTold, comment : Ids, ask : SUBSET Talkers, tell : SUBSET (Talkers \X Talking!Codes)]
      /\ TalkTellHolds(call[c]) /\ Talking!Made(call[c].comment)
  BY <1>1, TalkToldRecord DEF TalkTold
<1>3. PICK m, n, r :
          /\ m \in Ids /\ m = call[c].comment /\ n = <<t[1], t[2], m>>
          /\ r = IF call[c].tell = {t} THEN Talking!Idle ELSE [call[c] EXCEPT !.tell = @ \ {t}]
  BY <1>2
<1>4. t = <<t[1], t[2]>> /\ t[1] \in Talkers /\ t[2] \in Talking!Codes
  OBVIOUS
<1>5. told' = told \cup {n}
  BY <1>1, <1>3
<1>6. r \in {Talking!Idle} \cup Talking!CallRecords /\ call' = [call EXCEPT ![c] = r]
  BY <1>1, <1>2, <1>3 DEF Talking!CallRecords, TalkTold, Talking!Tell, Talking!End
<1>7. TalkRemovalHolds(r) /\ TalkInsertHolds(r) /\ TalkTellHolds(r) /\ (r.at \in TalkTold => r.comment = m)
  <2>1. CASE r = Talking!Idle
    <3>1. Talking!Idle.at = "idle"
      BY DEF Talking!Idle
    <3> QED
      BY <2>1, <3>1 DEF TalkRemovalHolds, TalkInsertHolds, TalkTellHolds, TalkRemovals, TalkTold
  <2>2. CASE r = [call[c] EXCEPT !.tell = @ \ {t}]
    <3>1. r.at = "tell" /\ r.comment = m /\ r.tell \subseteq call[c].tell
      BY <1>1, <1>2, <1>3, <2>2
    <3> QED
      BY <1>1, <1>2, <1>3, <3>1 DEF TalkRemovalHolds, TalkInsertHolds, TalkTellHolds, TalkRemovals, TalkTold
  <2> QED
    BY <1>3, <2>1, <2>2
<1>8. /\ call' \in [Calls -> {Talking!Idle} \cup Talking!CallRecords]
      /\ call'[c] = r /\ \A b \in Calls : b # c => call'[b] = call[b]
  BY <1>6, TalkCallSet DEF TalkIInv
<1>9. Talking!TypeOK'
  BY <1>1, <1>3, <1>4, <1>5, <1>8 DEF TalkIInv, Talking!TypeOK
<1>10. TalkTelling(m) /\ \A k : TalkTelling(k)' => TalkTelling(k)
  BY <1>1, <1>3, <1>7, <1>8 DEF TalkTelling, TalkTold
<1>11. \A k : Talking!Made(k)' = Talking!Made(k) /\ Talking!Hidden(k)' = Talking!Hidden(k) /\ Talking!Below(k)' = Talking!Below(k)
  BY <1>1 DEF Talking!Made, Talking!Hidden, Talking!Below, Talking!Thread, Talking!Climbs
<1>12. TalkGrows
  BY <1>1, <1>3, <1>5, <1>10, <1>11 DEF TalkGrows
<1>13. Talking!Made(n[3]) /\ (n[1] \in shunned[n[3]] => TalkExempt(n[2], n[3]))
  BY <1>1, <1>2, <1>3 DEF TalkTellHolds, TalkTold
<1>14. TalkRemovalHolds(r)' /\ TalkInsertHolds(r)' /\ TalkTellHolds(r)'
  <2>1. TalkInsertHolds(r)' /\ TalkTellHolds(r)'
    BY <1>1, <1>7 DEF TalkInsertHolds, TalkTellHolds, TalkAsks, TalkExempt, TalkAuthor, Talking!Made
  <2>2. TalkRemovalHolds(r)'
    <3>1. r.at \notin TalkRemovals \cup {"remove replies"}
      <4>1. Talking!Idle.at = "idle"
        BY DEF Talking!Idle
      <4> QED
        BY <1>1, <1>2, <1>3, <4>1 DEF TalkRemovals
    <3> QED
      BY <3>1 DEF TalkRemovalHolds
  <2> QED
    BY <2>1, <2>2
<1> QED
  BY <1>1, <1>5, <1>8, <1>9, <1>11, <1>12, <1>13, <1>14, TalkFrame
-----------------------------------------------------------------------------
LEMMA TalkRemoveStartInv ==
    ASSUME TalkIInv, NEW c \in Calls, NEW u \in Talkers, NEW m \in Ids, Talking!RemoveStart(c, u, m)
    PROVE  TalkIInv'
<1>1. PICK step \in {"remove replies", "remove hide", "remove read"} :
          /\ call' = [call EXCEPT ![c] = [at |-> step, user |-> u, comment |-> m]]
          /\ step = "remove replies" \/ TalkAbove(u)
          /\ step = "remove hide" => page = "notes"
  BY DEF Talking!RemoveStart, Talking!Start, TalkAbove
<1>2. Talking!Made(m) /\ UNCHANGED <<page, comment, told, ignored, late, shunned>>
  BY DEF Talking!RemoveStart
<1> DEFINE r == [at |-> step, user |-> u, comment |-> m]
<1>3. r \in Talking!CallRecords /\ r.at \notin TalkTold /\ call' = [call EXCEPT ![c] = r]
  BY <1>1 DEF Talking!CallRecords, TalkTold
<1>4. TalkRemovalHolds(r) /\ TalkInsertHolds(r) /\ TalkTellHolds(r)
  BY <1>1, <1>2 DEF TalkRemovalHolds, TalkInsertHolds, TalkTellHolds, TalkRemovals, TalkTold
<1> HIDE DEF r
<1> QED
  BY <1>2, <1>3, <1>4, TalkCallStep

\* The records of removals that have not read what is below the comment.
LEMMA TalkRemovalRecord ==
    ASSUME TalkIInv, NEW c \in Calls, call[c].at \in {"remove replies", "remove read", "remove hide"}
    PROVE  /\ call[c] \in [at : {"remove replies", "remove read", "remove hide"}, user : Talkers, comment : Ids]
           /\ TalkRemovalHolds(call[c]) /\ Talking!Made(call[c].comment)
<1>1. call[c] \in Talking!CallRecords /\ TalkRemovalHolds(call[c])
  BY TalkBusy
<1>2. call[c] \in [at : {"remove replies", "remove read", "remove hide"}, user : Talkers, comment : Ids]
  BY <1>1 DEF Talking!CallRecords
<1> QED
  BY <1>1, <1>2 DEF TalkRemovalHolds, TalkRemovals

LEMMA TalkRemoveCheckRepliesInv ==
    ASSUME TalkIInv, NEW c \in Calls, Talking!RemoveCheckReplies(c)
    PROVE  TalkIInv'
<1>1. call[c].at = "remove replies" /\ UNCHANGED <<page, comment, told, ignored, late, shunned>>
  BY DEF Talking!RemoveCheckReplies, Talking!At
<1>2. /\ call[c] \in [at : {"remove replies", "remove read", "remove hide"}, user : Talkers, comment : Ids]
      /\ Talking!Made(call[c].comment)
  BY <1>1, TalkRemovalRecord
<1> DEFINE r == [call[c] EXCEPT !.at = "remove read"]
<1>3. CASE \A k \in Talking!Replies(call[c].comment) : page \notin Talking!Shouts /\ Talking!Hidden(k)
  <2>1. call' = [call EXCEPT ![c] = r]
    BY <1>3 DEF Talking!RemoveCheckReplies, Talking!Check, Talking!Goto
  <2>2. r \in Talking!CallRecords /\ r.at = "remove read" /\ r.comment = call[c].comment
    BY <1>2 DEF Talking!CallRecords
  <2>3. TalkChildless(call[c].comment)
    BY <1>3 DEF TalkChildless
  <2> HIDE DEF r
  <2>4. TalkRemovalHolds(r) /\ TalkInsertHolds(r) /\ TalkTellHolds(r)
    BY <1>2, <2>2, <2>3 DEF TalkRemovalHolds, TalkInsertHolds, TalkTellHolds, TalkRemovals, TalkTold
  <2> QED
    BY <1>1, <2>1, <2>2, <2>4, TalkCallStep DEF TalkTold
<1>4. CASE ~ \A k \in Talking!Replies(call[c].comment) : page \notin Talking!Shouts /\ Talking!Hidden(k)
  BY <1>1, <1>4, TalkEndInv DEF Talking!RemoveCheckReplies, Talking!Check
<1> QED
  BY <1>3, <1>4

LEMMA TalkRemoveReadInv ==
    ASSUME TalkIInv, NEW c \in Calls, Talking!RemoveRead(c)
    PROVE  TalkIInv'
<1>1. call[c].at = "remove read" /\ UNCHANGED <<page, comment, told, ignored, late, shunned>>
  BY DEF Talking!RemoveRead, Talking!At
<1>2. /\ call[c] \in [at : {"remove replies", "remove read", "remove hide"}, user : Talkers, comment : Ids]
      /\ TalkRemovalHolds(call[c]) /\ Talking!Made(call[c].comment)
  BY <1>1, TalkRemovalRecord
<1> DEFINE r == [at |-> "remove notices", user |-> call[c].user, comment |-> call[c].comment,
                 ids |-> Talking!Below(call[c].comment)]
<1>3. call' = [call EXCEPT ![c] = r]
  BY DEF Talking!RemoveRead
<1>4. r \in Talking!CallRecords
  BY <1>2 DEF Talking!CallRecords, Talking!Below
<1>5. r.at = "remove notices" /\ r.user = call[c].user /\ r.comment = call[c].comment
      /\ r.ids = Talking!Below(call[c].comment)
  OBVIOUS
<1> HIDE DEF r
<1>6. TalkRemovalHolds(r) /\ TalkInsertHolds(r) /\ TalkTellHolds(r)
  BY <1>1, <1>2, <1>5 DEF TalkRemovalHolds, TalkInsertHolds, TalkTellHolds, TalkRemovals, TalkTold
<1> QED
  BY <1>1, <1>3, <1>4, <1>5, <1>6, TalkCallStep DEF TalkTold

\* What is below a comment loses its notifications, or is marked late.
LEMMA TalkRemoveNoticesInv ==
    ASSUME TalkIInv, NEW c \in Calls, Talking!RemoveNotices(c)
    PROVE  TalkIInv'
<1>1. call[c].at = "remove notices" /\ UNCHANGED <<page, comment, ignored, shunned>>
  BY DEF Talking!RemoveNotices, Talking!At
<1>2. /\ call[c] \in Talking!CallRecords /\ TalkRemovalHolds(call[c])
      /\ call[c].user \in Talkers /\ call[c].comment \in Ids /\ call[c].ids \subseteq Ids
  BY <1>1, TalkBusy, TalkRecords DEF TalkIInv, TalkRemovals
<1>3. PICK m, ids, r :
          /\ m \in Ids /\ ids \subseteq Ids /\ m = call[c].comment /\ ids = call[c].ids
          /\ r = [at |-> "remove hide", user |-> call[c].user, comment |-> m]
  BY <1>2
<1>4. /\ told' = {n \in told : ~(n[2] \in {"own", "reply"} /\ n[3] \in ids)}
      /\ late' = late \cup {k \in ids : TalkTelling(k)}
      /\ call' = [call EXCEPT ![c] = r]
  BY <1>3 DEF Talking!RemoveNotices, TalkTelling, TalkTold
<1>5. r \in Talking!CallRecords /\ r.at = "remove hide" /\ r.user = call[c].user /\ r.comment = m
  BY <1>2, <1>3 DEF Talking!CallRecords
<1>6. /\ call' \in [Calls -> {Talking!Idle} \cup Talking!CallRecords]
      /\ call'[c] = r /\ \A b \in Calls : b # c => call'[b] = call[b]
  BY <1>4, <1>5, TalkCallSet DEF TalkIInv
<1>7. Talking!TypeOK'
  <2>1. told' \subseteq told /\ late' \subseteq late \cup ids
    BY <1>4
  <2> QED
    BY <1>1, <1>3, <1>6, <2>1 DEF TalkIInv, Talking!TypeOK
<1>8. \A k : TalkTelling(k)' => TalkTelling(k)
  BY <1>5, <1>6 DEF TalkTelling, TalkTold
<1>9. \A k : /\ Talking!Made(k)' = Talking!Made(k) /\ Talking!Hidden(k)' = Talking!Hidden(k) /\ Talking!Below(k)' = Talking!Below(k)
             /\ Talking!Replies(k)' = Talking!Replies(k)
  BY <1>1 DEF Talking!Made, Talking!Hidden, Talking!Below, Talking!Thread, Talking!Climbs, Talking!Replies
<1>10. TalkGrows
  BY <1>1, <1>4, <1>8, <1>9 DEF TalkGrows
<1>11. Talking!Made(m) /\ Talking!Below(m) \subseteq ids \cup late /\ (~TalkAbove(call[c].user) => TalkChildless(m))
  BY <1>1, <1>2, <1>3 DEF TalkRemovalHolds, TalkRemovals
<1>12. TalkQuiet(m)'
  <2> SUFFICES ASSUME NEW k \in Talking!Below(m), k \notin late'
               PROVE  ~TalkTelling(k)' /\ \A n \in told' : n[3] = k => n[2] = "collected"
    BY <1>9 DEF TalkQuiet
  <2>1. k \in ids /\ ~TalkTelling(k)
    BY <1>4, <1>11
  <2>2. \A n \in told : n[2] \in Talking!Codes
    BY DEF TalkIInv, Talking!TypeOK
  <2> QED
    BY <1>4, <1>8, <2>1, <2>2 DEF Talking!Codes
<1>13. ~TalkAbove(call[c].user) => TalkChildless(m)'
  BY <1>4, <1>9, <1>11 DEF TalkChildless
<1>14. TalkRemovalHolds(r)' /\ TalkInsertHolds(r)' /\ TalkTellHolds(r)'
  <2>1. TalkAbove(r.user)' <=> TalkAbove(call[c].user)
    BY <1>1, <1>5 DEF TalkAbove
  <2> QED
    BY <1>5, <1>9, <1>11, <1>12, <1>13, <2>1 DEF TalkRemovalHolds, TalkInsertHolds, TalkTellHolds, TalkRemovals, TalkTold
<1> QED
  BY <1>1, <1>4, <1>6, <1>7, <1>9, <1>10, <1>14, TalkFrame

LEMMA TalkRemoveHideInv ==
    ASSUME TalkIInv, NEW c \in Calls, Talking!RemoveHide(c)
    PROVE  TalkIInv'
<1>1. call[c].at = "remove hide" /\ UNCHANGED <<page, told, ignored, late, shunned>>
  BY DEF Talking!RemoveHide, Talking!At
<1>2. /\ call[c] \in [at : {"remove replies", "remove read", "remove hide"}, user : Talkers, comment : Ids]
      /\ TalkRemovalHolds(call[c]) /\ Talking!Made(call[c].comment)
  BY <1>1, TalkRemovalRecord
<1>3. PICK m \in Ids, u \in Talkers : m = call[c].comment /\ u = call[c].user
  BY <1>2
<1>4. /\ comment' = [comment EXCEPT ![m].hidden_by = IF @ = None THEN u ELSE @]
      /\ call' = [call EXCEPT ![c] = Talking!Idle]
  BY <1>3 DEF Talking!RemoveHide, Talking!End
<1>5. /\ call' \in [Calls -> {Talking!Idle} \cup Talking!CallRecords]
      /\ call'[c] = Talking!Idle /\ \A b \in Calls : b # c => call'[b] = call[b]
  BY <1>4, TalkCallSet DEF TalkIInv
<1>6. comment[m] \in Talking!Rows /\ \A w \in Talking!Rows : w # None
  BY <1>2, <1>3, TalkRowOf, ContentAssumption DEF TalkIInv, Talking!ConstantsOK
<1>7. /\ comment'[m] \in Talking!Rows
      /\ comment'[m].parent = comment[m].parent /\ comment'[m].userid = comment[m].userid
      /\ comment'[m].hidden_by = IF comment[m].hidden_by = None THEN u ELSE comment[m].hidden_by
      /\ \A k \in Ids : k # m => comment'[k] = comment[k]
      /\ comment' \in [Ids -> Talking!Rows \cup {None}]
  BY <1>4, <1>6 DEF TalkIInv, Talking!TypeOK, Talking!Rows
<1>8. Talking!TypeOK'
  BY <1>1, <1>5, <1>7 DEF TalkIInv, Talking!TypeOK
<1>9. Talking!Idle.at = "idle"
  BY DEF Talking!Idle
<1>10. \A k : TalkTelling(k)' => TalkTelling(k)
  BY <1>5, <1>9 DEF TalkTelling, TalkTold
<1>11. \A k \in Ids : /\ Talking!Made(k)' = Talking!Made(k)
                      /\ Talking!Made(k) => comment'[k].parent = comment[k].parent /\ comment'[k].userid = comment[k].userid
                      /\ Talking!Hidden(k) => Talking!Hidden(k)' /\ comment'[k].hidden_by = comment[k].hidden_by
                      /\ Talking!Hidden(k)' /\ ~Talking!Hidden(k) => k = m /\ comment'[k].hidden_by = u
  BY <1>2, <1>3, <1>6, <1>7 DEF Talking!Made, Talking!Hidden
<1>12. \A k \in Ids : Talking!Below(k)' \subseteq Talking!Below(k)
  <2> SUFFICES ASSUME NEW k \in Ids, NEW x \in Talking!Below(k)' PROVE x \in Talking!Below(k)
    OBVIOUS
  <2>1. x \in Ids /\ Talking!Made(x) /\ k \in Talking!Thread(x)'
    BY <1>11 DEF Talking!Below
  <2>2. Talking!Thread(x)' \subseteq Talking!Thread(x)
    BY <1>11, <2>1, TalkThreadStays DEF TalkIInv
  <2> QED
    BY <2>1, <2>2 DEF Talking!Below
<1>13. TalkGrows
  BY <1>1, <1>10, <1>11, <1>12 DEF TalkGrows
<1>14. Talking!Removing(m)
  BY <1>1, <1>3 DEF Talking!Removing
<1>15. (~TalkAbove(u) => TalkChildless(m)) /\ (page # "notes" => TalkQuiet(m))
  BY <1>1, <1>2, <1>3 DEF TalkRemovalHolds, TalkRemovals
<1>16. (~TalkAbove(u) => TalkChildless(m)') /\ (page # "notes" => TalkQuiet(m)')
  BY <1>2, <1>3, <1>8, <1>13, <1>14, <1>15, TalkStaysBelow DEF TalkIInv
<1>17. (TalkRemovalHolds(Talking!Idle) /\ TalkInsertHolds(Talking!Idle) /\ TalkTellHolds(Talking!Idle))'
  BY <1>9 DEF Talking!Idle, TalkRemovalHolds, TalkInsertHolds, TalkTellHolds, TalkRemovals, TalkTold
<1> QED
  BY <1>1, <1>5, <1>8, <1>11, <1>13, <1>16, <1>17, TalkFrame
-----------------------------------------------------------------------------
LEMMA TalkIgnoreInv ==
    ASSUME TalkIInv, NEW u \in Talkers, NEW v \in Talkers, Talking!Ignore(u, v)
    PROVE  TalkIInv'
<1>1. ignored' = ignored \cup {<<u, v>>} /\ UNCHANGED <<page, comment, told, call, late, shunned>>
  BY DEF Talking!Ignore
<1>2. Talking!TypeOK'
  BY <1>1 DEF TalkIInv, Talking!TypeOK
<1>3. \A k : /\ Talking!Made(k)' = Talking!Made(k) /\ Talking!Hidden(k)' = Talking!Hidden(k) /\ Talking!Below(k)' = Talking!Below(k)
             /\ TalkTelling(k)' = TalkTelling(k)
  BY <1>1 DEF Talking!Made, Talking!Hidden, Talking!Below, Talking!Thread, Talking!Climbs, TalkTelling
<1>4. TalkGrows
  BY <1>1, <1>3 DEF TalkGrows
<1> QED
  BY <1>1, <1>2, <1>3, <1>4, TalkFrame

LEMMA TalkLessShun ==
    ASSUME NEW r \in TalkInsertRecords, NEW u
    PROVE  /\ TalkWithout(r, u) \in Talking!CallRecords
           /\ TalkWithout(r, u).at = r.at /\ TalkWithout(r, u).parent = r.parent /\ TalkWithout(r, u).user = r.user
           /\ TalkWithout(r, u).checks = r.checks /\ TalkWithout(r, u).shun = r.shun \ {u}
<1>1. r.shun \ {u} \in SUBSET Talkers
  BY DEF TalkInsertRecords
<1>2. TalkWithout(r, u) \in TalkInsertRecords
  BY <1>1 DEF TalkInsertRecords, TalkWithout
<1>3. TalkInsertRecords \subseteq Talking!CallRecords
  BY DEF TalkInsertRecords, Talking!CallRecords
<1> QED
  BY <1>2, <1>3 DEF TalkInsertRecords, TalkWithout

\* Who stops to ignore an author no longer counts among those who ignored them
\* all the while.
LEMMA TalkUnignoreInv ==
    ASSUME TalkIInv, NEW u \in Talkers, NEW v \in Talkers, Talking!Unignore(u, v)
    PROVE  TalkIInv'
<1>1. /\ ignored' = ignored \ {<<u, v>>}
      /\ UNCHANGED <<page, comment, told, late>>
      /\ call' = [c \in Calls |-> IF "shun" \in DOMAIN call[c] /\ call[c].user = v
                                  THEN [call[c] EXCEPT !.shun = @ \ {u}] ELSE call[c]]
      /\ shunned' = [m \in Ids |->
                      IF \E c \in Calls : call[c].at \in TalkTold /\ call[c].comment = m /\ comment[m].userid = v
                      THEN shunned[m] \ {u} ELSE shunned[m]]
  BY DEF Talking!Unignore, TalkTold
<1>2. ASSUME NEW c \in Calls, call[c].at \notin {"insert checks", "insert"}
      PROVE  call'[c] = call[c]
  BY <1>1, <1>2, TalkRecords DEF TalkIInv
<1>3. ASSUME NEW c \in Calls, call[c].at \in {"insert checks", "insert"}
      PROVE  /\ call[c] \in TalkInsertRecords /\ call[c] \in Talking!CallRecords
             /\ TalkInsertHolds(call[c])
             /\ call'[c] = IF call[c].user = v THEN TalkWithout(call[c], u) ELSE call[c]
  <2>1. call[c] \in Talking!CallRecords /\ TalkInsertHolds(call[c])
    BY <1>3, TalkBusy
  <2>2. "shun" \in DOMAIN call[c]
    BY <1>3, TalkRecords DEF TalkIInv
  <2> QED
    BY <1>1, <1>3, <2>1, <2>2 DEF Talking!CallRecords, TalkInsertRecords, TalkWithout
<1>4. ASSUME NEW c \in Calls, call[c].at \in {"insert checks", "insert"}, call[c].user = v
      PROVE  /\ call'[c] \in Talking!CallRecords
             /\ call'[c].at = call[c].at /\ call'[c].parent = call[c].parent /\ call'[c].user = call[c].user
             /\ call'[c].checks = call[c].checks /\ call'[c].shun = call[c].shun \ {u}
  <2>1. call[c] \in TalkInsertRecords /\ call'[c] = TalkWithout(call[c], u)
    BY <1>4, <1>3, Zenon
  <2>2. PICK r \in TalkInsertRecords : r = call[c]
    BY <2>1
  <2>3. /\ TalkWithout(r, u) \in Talking!CallRecords
        /\ TalkWithout(r, u).at = r.at /\ TalkWithout(r, u).parent = r.parent /\ TalkWithout(r, u).user = r.user
        /\ TalkWithout(r, u).checks = r.checks /\ TalkWithout(r, u).shun = r.shun \ {u}
    BY <2>2, TalkLessShun, Zenon
  <2> QED
    BY <2>1, <2>2, <2>3
<1>5. ASSUME NEW c \in Calls
      PROVE  call'[c] \in {Talking!Idle} \cup Talking!CallRecords /\ call'[c].at = call[c].at
  <2>1. CASE call[c].at \in {"insert checks", "insert"}
    <3>1. CASE call[c].user = v
      BY <1>4, <2>1, <3>1
    <3>2. CASE call[c].user # v
      BY <1>3, <2>1, <3>2
    <3> QED
      BY <3>1, <3>2
  <2>2. CASE call[c].at \notin {"insert checks", "insert"}
    BY <1>2, <2>2 DEF TalkIInv, Talking!TypeOK
  <2> QED
    BY <2>1, <2>2
<1>6. call' \in [Calls -> {Talking!Idle} \cup Talking!CallRecords]
  BY <1>1, <1>5
<1>7. shunned' \in [Ids -> SUBSET Talkers] /\ \A m \in Ids : shunned'[m] \subseteq shunned[m]
  BY <1>1 DEF TalkIInv, Talking!TypeOK
<1>8. Talking!TypeOK'
  BY <1>1, <1>6, <1>7 DEF TalkIInv, Talking!TypeOK
<1>9. \A k : /\ Talking!Made(k)' = Talking!Made(k) /\ Talking!Hidden(k)' = Talking!Hidden(k) /\ Talking!Below(k)' = Talking!Below(k)
             /\ Talking!Replies(k)' = Talking!Replies(k)
  BY <1>1 DEF Talking!Made, Talking!Hidden, Talking!Below, Talking!Thread, Talking!Climbs, Talking!Replies
<1>10. \A k : TalkTelling(k)' => TalkTelling(k)
  <2> SUFFICES ASSUME NEW k, NEW c \in Calls, call'[c].at \in TalkTold, call'[c].comment = k
               PROVE  TalkTelling(k)
    BY DEF TalkTelling
  <2>1. call[c].at \in TalkTold
    BY <1>5
  <2>2. call'[c] = call[c]
    BY <1>2, <2>1 DEF TalkTold
  <2> QED
    BY <2>1, <2>2 DEF TalkTelling
<1>11. TalkGrows
  BY <1>1, <1>7, <1>9, <1>10 DEF TalkGrows
<1>12. ASSUME NEW c \in Calls
       PROVE  TalkRemovalHolds(call[c])' /\ TalkInsertHolds(call[c])' /\ TalkTellHolds(call[c])'
  <2>1. CASE call[c].at \in {"insert checks", "insert"}
    <3>1. call[c].parent \in Ids \cup {None}
      BY <1>3, <2>1 DEF TalkInsertRecords
    <3>2. /\ call'[c].at = call[c].at /\ call'[c].parent = call[c].parent /\ call'[c].user = call[c].user
          /\ call'[c].checks = call[c].checks
          /\ call'[c].shun \subseteq call[c].shun /\ (call[c].user = v => u \notin call'[c].shun)
      <4>1. CASE call[c].user = v
        BY <1>4, <2>1, <4>1
      <4>2. CASE call[c].user # v
        BY <1>3, <2>1, <4>2
      <4> QED
        BY <4>1, <4>2
    <3>3. \A w \in call'[c].shun : <<w, call[c].user>> \in ignored'
      BY <1>1, <1>3, <2>1, <3>2 DEF TalkInsertHolds
    <3>4. \A w : TalkAsks(call[c].user, call[c].parent, w)' <=> TalkAsks(call[c].user, call[c].parent, w)
      BY <1>1, <3>2 DEF TalkAsks
    <3>5. /\ call[c].parent # None => Talking!Made(call[c].parent)
          /\ call[c].at = "insert" => call[c].checks = <<>>
          /\ \A w \in call'[c].shun : TalkAsks(call[c].user, call[c].parent, w) =>
                 \E i \in 1 .. Len(call[c].checks) : call[c].checks[i] = <<w, call[c].user>>
      BY <1>3, <2>1, <3>2 DEF TalkInsertHolds
    <3>6. \A w \in call'[c].shun : TalkAsks(call[c].user, call[c].parent, w)' =>
              \E i \in 1 .. Len(call'[c].checks) : call'[c].checks[i] = <<w, call'[c].user>>
      BY <3>2, <3>4, <3>5
    <3>7. TalkInsertHolds(call[c])'
      BY <1>9, <3>2, <3>3, <3>5, <3>6 DEF TalkInsertHolds
    <3> QED
      BY <2>1, <3>2, <3>7 DEF TalkRemovalHolds, TalkTellHolds, TalkRemovals, TalkTold
  <2>2. CASE call[c].at \in TalkTold
    <3>1. call'[c] = call[c]
      BY <1>2, <2>2 DEF TalkTold
    <3>2. call[c].comment \in Ids /\ TalkTellHolds(call[c])
      BY <2>2, TalkToldRecord DEF TalkIInv
    <3>3. /\ shunned'[call[c].comment] \subseteq shunned[call[c].comment]
          /\ TalkAuthor(call[c].comment) = v => u \notin shunned'[call[c].comment]
      BY <1>1, <1>7, <2>2, <3>2 DEF TalkAuthor
    <3>4. TalkTellHolds(call[c])'
      BY <1>1, <1>9, <2>2, <3>1, <3>2, <3>3 DEF TalkTellHolds, TalkAuthor, TalkExempt
    <3> QED
      BY <2>2, <3>1, <3>4 DEF TalkRemovalHolds, TalkInsertHolds, TalkRemovals, TalkTold
  <2>3. CASE call[c].at \notin {"insert checks", "insert"} \cup TalkTold
    <3>1. call'[c] = call[c]
      BY <1>2, <2>3
    <3>2. TalkRemovalHolds(call[c])'
      BY <1>8, <1>11, <3>1, TalkRemovalStays DEF TalkIInv
    <3> QED
      BY <2>3, <3>1, <3>2 DEF TalkInsertHolds, TalkTellHolds
  <2> QED
    BY <2>1, <2>2, <2>3
<1> QED
  BY <1>1, <1>8, <1>9, <1>11, <1>12, TalkFrame
-----------------------------------------------------------------------------
LEMMA TalkInitInv == Talking!Init => TalkIInv
<1> SUFFICES ASSUME Talking!Init PROVE TalkIInv
  OBVIOUS
<1>1. /\ comment = [m \in Ids |-> None] /\ told = {} /\ ignored = {} /\ page \in Kinds
      /\ call = [c \in Calls |-> Talking!Idle] /\ late = {} /\ shunned = [m \in Ids |-> {}]
  BY DEF Talking!Init, Talking!AllIdle
<1>2. Talking!TypeOK
  BY <1>1 DEF Talking!TypeOK
<1>3. TalkRowsHold /\ TalkNoticesHold
  BY <1>1 DEF TalkRowsHold, TalkNoticesHold, Talking!Made
<1>4. ASSUME NEW c \in Calls
      PROVE  TalkRemovalHolds(call[c]) /\ TalkInsertHolds(call[c]) /\ TalkTellHolds(call[c])
  <2>1. call[c].at = "idle"
    BY <1>1 DEF Talking!Idle
  <2> QED
    BY <2>1 DEF TalkRemovalHolds, TalkInsertHolds, TalkTellHolds, TalkRemovals, TalkTold
<1> QED
  BY <1>2, <1>3, <1>4 DEF TalkIInv

\* Every step keeps what the threads, the notifications and the calls need.
LEMMA TalkNextInv == TalkIInv /\ (Talking!Next \/ UNCHANGED Talking!vars) => TalkIInv'
<1> SUFFICES ASSUME TalkIInv, (Talking!Next \/ UNCHANGED Talking!vars) PROVE TalkIInv'
  OBVIOUS
<1>1. ASSUME NEW c \in Calls, NEW u \in Talkers, NEW p \in Ids \cup {None}, Talking!InsertStart(c, u, p)
      PROVE  TalkIInv'
  BY <1>1, TalkInsertStartInv
<1>2. ASSUME NEW c \in Calls, NEW m \in Ids, Talking!InsertRow(c, m)
      PROVE  TalkIInv'
  BY <1>2, TalkInsertRowInv
<1>3. ASSUME NEW c \in Calls, NEW v \in Collectors, NEW allows \in BOOLEAN, Talking!AskCollector(c, v, allows)
      PROVE  TalkIInv'
  BY <1>3, TalkAskCollectorInv
<1>4. ASSUME NEW c \in Calls, NEW t \in Talkers \X Talking!Codes, Talking!Tell(c, t)
      PROVE  TalkIInv'
  BY <1>4, TalkTellInv
<1>5. ASSUME NEW c \in Calls, NEW u \in Talkers, NEW m \in Ids, Talking!RemoveStart(c, u, m)
      PROVE  TalkIInv'
  BY <1>5, TalkRemoveStartInv
<1>6. ASSUME NEW c \in Calls, \/ Talking!InsertCheck(c) \/ Talking!AllAsked(c) \/ Talking!RemoveCheckReplies(c)
                              \/ Talking!RemoveRead(c) \/ Talking!RemoveNotices(c) \/ Talking!RemoveHide(c)
      PROVE  TalkIInv'
  BY <1>6, TalkInsertCheckInv, TalkAllAskedInv, TalkRemoveCheckRepliesInv, TalkRemoveReadInv, TalkRemoveNoticesInv, TalkRemoveHideInv
<1>7. ASSUME NEW u \in Talkers, NEW v \in Talkers, Talking!Ignore(u, v) \/ Talking!Unignore(u, v)
      PROVE  TalkIInv'
  BY <1>7, TalkIgnoreInv, TalkUnignoreInv
<1>8. CASE UNCHANGED Talking!vars
  <2>1. /\ Talking!TypeOK' = Talking!TypeOK
        /\ \A k : /\ Talking!Made(k)' = Talking!Made(k) /\ Talking!Hidden(k)' = Talking!Hidden(k) /\ Talking!Below(k)' = Talking!Below(k)
                  /\ TalkTelling(k)' = TalkTelling(k)
    BY <1>8 DEF Talking!vars, Talking!TypeOK, Talking!Made, Talking!Hidden, Talking!Below, Talking!Thread, Talking!Climbs, TalkTelling
  <2>2. TalkGrows
    BY <1>8, <2>1 DEF Talking!vars, TalkGrows
  <2>3. /\ UNCHANGED <<ignored, call>>
        /\ told' \subseteq told
    BY <1>8 DEF Talking!vars
  <2>4. Talking!TypeOK'
    BY <2>1 DEF TalkIInv
  <2> QED
    BY <2>1, <2>2, <2>3, <2>4, TalkFrame
<1> QED
  BY <1>1, <1>2, <1>3, <1>4, <1>5, <1>6, <1>7, <1>8 DEF Talking!Next

\* The invariant says what the page promises.
LEMMA TalkPromises == TalkIInv => Talking!NoticesLeadSomewhere /\ Talking!RepliesAreNotOrphaned /\ Talking!IgnoredAreNotHeard
<1> SUFFICES ASSUME TalkIInv PROVE Talking!NoticesLeadSomewhere /\ Talking!RepliesAreNotOrphaned /\ Talking!IgnoredAreNotHeard
  OBVIOUS
<1>1. ASSUME NEW n \in told, n[2] \in {"own", "reply"}, page # "notes", n[3] \notin late
      PROVE  Talking!Shown(n[3])
  <2>1. n[3] \in Ids /\ Talking!Made(n[3])
    BY DEF TalkIInv, TalkNoticesHold, Talking!TypeOK
  <2> SUFFICES ASSUME NEW k \in Talking!Thread(n[3]), Talking!Hidden(k) PROVE FALSE
    BY DEF Talking!Shown
  <2>2. k \in Ids /\ Talking!Made(k)
    BY <2>1, TalkThreadClimbs DEF TalkIInv, Talking!Thread
  <2>3. n[3] \in Talking!Below(k) \ late
    BY <1>1, <2>1 DEF Talking!Below
  <2>4. TalkQuiet(k)
    BY <1>1, <2>2 DEF TalkIInv, TalkRowsHold
  <2> QED
    BY <1>1, <2>3, <2>4 DEF TalkQuiet
<1>2. Talking!RepliesAreNotOrphaned
  BY DEF Talking!RepliesAreNotOrphaned, TalkIInv, TalkRowsHold, TalkAbove, TalkChildless
<1>3. Talking!IgnoredAreNotHeard
  BY DEF Talking!IgnoredAreNotHeard, TalkIInv, TalkNoticesHold, TalkExempt, TalkAuthor
<1> QED
  BY <1>1, <1>2, <1>3 DEF Talking!NoticesLeadSomewhere
-----------------------------------------------------------------------------
\* While the part moves it has its invariant; and so it has in every state.
TalkHold == part = "comments" => TalkIInv

LEMMA TalkAreHeld == ContentSpec => []TalkHold
<1>1. ContentInit => TalkHold
  BY TalkInitInv DEF ContentInit, TalkHold
<1>2. TalkHold /\ [ContentNext]_all_content_vars => TalkHold'
  <2> SUFFICES ASSUME TalkHold, [ContentNext]_all_content_vars, part' = "comments" PROVE TalkIInv'
    BY DEF TalkHold
  <2>1. part = "comments" /\ TalkIInv
    BY PartStays DEF TalkHold
  <2>2. Talking!Next \/ UNCHANGED <<comments_vars, call>>
    BY <2>1 DEF ContentNext, all_content_vars
  <2>3. UNCHANGED <<comments_vars, call>> => UNCHANGED Talking!vars
    BY DEF comments_vars, Talking!vars
  <2> QED
    BY <2>1, <2>2, <2>3, TalkNextInv
<1> QED
  BY <1>1, <1>2, PTL DEF ContentSpec

\* insert and remove of comment.py and shout.py, with what welcome.py tells and
\* takes back: a notification of a comment or a reply leads to one that the page
\* shows, a commenter leaves no visible replies under what they remove, and nobody
\* is told of a comment by someone they ignored all the while, but for those that
\* the promises name.
THEOREM ThreadsStayTogether == ContentSpec => []ThreadsHoldTogether
<1>1. TalkHold => ThreadsHoldTogether
  BY TalkPromises DEF TalkHold, ThreadsHoldTogether
<1> QED
  BY <1>1, TalkAreHeld, PTL
-----------------------------------------------------------------------------
\* The rows, caches and requests of searchtag.py, folder.py, comment.py, commishinfo.py,
\* note.py, report.py, welcome.py, files.py and media.py hold what their columns and
\* their callers expect, whatever is interleaved.
THEOREM ContentIsTyped == ContentSpec => []ContentTypeOK
<1>1. ReportsHold /\ NotesHold /\ TagsHold /\ PricesHold /\ UploadsHold /\ ShownHold /\ FileHold /\ ToldHold /\ TalkHold => ContentTypeOK
  BY DEF ContentTypeOK, ReportsHold, NotesHold, TagsHold, PricesHold, UploadsHold, ShownHold, FileHold, ToldHold, TalkHold,
         ReportsIInv, NotesIInv, TagsIInv, PricesIInv, UploadsIInv, ShownIInv, FileIInv, ToldIInv, TalkIInv
<1> QED
  BY <1>1, ReportsAreHeld, NotesAreHeld, TagsAreHeld, PricesAreHeld, UploadsAreHeld, ShownAreHeld, FileAreHeld, ToldAreHeld, TalkAreHeld, PTL
===============================================================================
