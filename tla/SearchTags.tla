------------------------------ MODULE SearchTags ------------------------------
(***************************************************************************)
(* The tags of one submission, suggested by its visitors and decided on by *)
(* its owner and the moderators, and the lists of tags that may not be     *)
(* suggested (weasyl/searchtag.py).                                        *)
(*                                                                         *)
(* associate runs one serializable transaction, which also copies the tag  *)
(* map into submission_tags for search; approving, rejecting and undoing   *)
(* write the map alone.  A suggestion is filtered by two restriction lists *)
(* that are read through the shared cache before its transaction.          *)
(* Characters and journals have the same map without the copy.  Checks     *)
(* that only refuse a call (vouching, can_suggest_tags, a block) and the   *)
(* log of updates are left out; a pattern of a list stands for the tags it *)
(* matches.                                                                *)
(***************************************************************************)
EXTENDS Naturals, FiniteSets, Requests

CONSTANTS
    Users,
    Owner,          \* submission.userid
    Mods,           \* staff.MODS
    Tags,
    Nobody          \* added_by of a row whose user is not known

ConstantsOK ==
    /\ Owner \in Users /\ Mods \subseteq Users /\ Nobody \notin Users
    /\ "absent" \notin Users \cup {Nobody} /\ "missing" \notin Tags

VARIABLES
    searchmap,      \* searchmapsubmit: the row of each tag, or Absent
    submission_tags,\* submission_tags.tags
    feedback,       \* tag_suggestion_feedback_submission: pairs of a tag and a user
    tokens,         \* undo tokens that are still valid
    restricted,     \* user_restricted_tags of the owner, globally_restricted_tags
    cached,         \* the cached value of each list, or Missing
    drift,          \* history: tags decided on since submission_tags was written
    overtaken       \* history: lists whose cached value was read before an edit
                    \* and stored after the edit had invalidated the cache

tables == <<searchmap, submission_tags, feedback, tokens>>
vars == <<tables, restricted, cached, call, drift, overtaken>>

Lists == {"user", "global"}
Absent == [artist |-> FALSE, by |-> "absent"]
Rows == [artist : BOOLEAN, by : Users \cup {Nobody}]
Missing == {"missing"}
Deciders == {Owner} \cup Mods
Present == {t \in Tags : searchmap[t] # Absent}

NoBars == [l \in Lists |-> {}]
SuggestCall == [at : {"read", "fill", "suggest"}, user : Users, tags : SUBSET Tags, list : Lists,
                value : SUBSET Tags, late : BOOLEAN, barred : [Lists -> SUBSET Tags]]
DecideCall == [at : {"approve", "reject"}, user : Users, tag : Tags, by : Users \cup {Nobody}]
EditCall == [at : {"invalidate"}, list : Lists]
UndoTokens == [tag : Tags, by : Users, to : Users]

TypeOK ==
    /\ searchmap \in [Tags -> Rows \cup {Absent}]
    /\ submission_tags \subseteq Tags
    /\ feedback \subseteq Tags \X Deciders
    /\ tokens \subseteq UndoTokens
    /\ restricted \in [Lists -> SUBSET Tags]
    /\ cached \in [Lists -> (SUBSET Tags) \cup {Missing}]
    /\ call \in [Calls -> {Idle} \cup SuggestCall \cup DecideCall \cup EditCall]
    /\ drift \subseteq Tags /\ overtaken \subseteq Lists

\* Posting a submission calls associate, so both tables begin alike.
Init ==
    /\ searchmap = [t \in Tags |-> Absent] /\ submission_tags = {}
    /\ feedback = {} /\ tokens = {}
    /\ restricted = [l \in Lists |-> {}] /\ cached = [l \in Lists |-> Missing]
    /\ call = AllIdle
    /\ drift = {} /\ overtaken = {}

-----------------------------------------------------------------------------
\* _update_submission_tags, at the end of associate's transactions.
UpdateSubmissionTags ==
    /\ submission_tags' = {t \in Tags : searchmap'[t] # Absent}
    /\ drift' = {}

\* associate by the owner or a moderator: their tags replace the artist tags,
\* and a suggestion among them becomes an artist tag of theirs.
Associate(u, tags) ==
    /\ u \in Deciders
    /\ searchmap' = [t \in Tags |->
          IF t \in tags
            THEN IF searchmap[t].artist THEN searchmap[t] ELSE [artist |-> TRUE, by |-> u]
            ELSE IF searchmap[t].artist THEN Absent ELSE searchmap[t]]
    /\ UpdateSubmissionTags
    /\ UNCHANGED <<feedback, tokens, restricted, cached, call, overtaken>>

\* A list is settled when no edit of it, and no read from before one, is under way.
Settled(l) ==
    /\ l \notin overtaken
    /\ \A c \in Calls : ~(At(c, "invalidate") /\ call[c].list = l)
    /\ \A c \in Calls : ~(At(c, "fill") /\ call[c].list = l /\ call[c].late)

\* associate by anyone else suggests tags (_set_suggested_tags).
SuggestBegin(c, u, tags) ==
    /\ call[c] = Idle
    /\ u \notin Deciders
    /\ call' = [call EXCEPT ![c] =
          [at |-> "read", user |-> u, tags |-> tags, list |-> "user", value |-> {}, late |-> FALSE,
           barred |-> [l \in Lists |-> IF Settled(l) THEN restricted[l] ELSE {}]]]
    /\ UNCHANGED <<tables, restricted, cached, drift, overtaken>>

\* The call drops the tags of a list and goes on to the next list.
Filtered(c, value) ==
    [call EXCEPT ![c].tags = @ \ value,
                 ![c].value = {},
                 ![c].late = FALSE,
                 ![c].at = IF call[c].list = "user" THEN "read" ELSE "suggest",
                 ![c].list = "global"]

\* query_user_restricted_tags and _query_global_restricted_tags: from the
\* cache, or from the table and then into the cache.
ReadCached(c) ==
    /\ At(c, "read")
    /\ cached[call[c].list] # Missing
    /\ call' = Filtered(c, cached[call[c].list])
    /\ UNCHANGED <<tables, restricted, cached, drift, overtaken>>

ReadList(c) ==
    /\ At(c, "read")
    /\ cached[call[c].list] = Missing
    /\ call' = [call EXCEPT ![c].at = "fill", ![c].value = restricted[call[c].list]]
    /\ UNCHANGED <<tables, restricted, cached, drift, overtaken>>

FillCache(c) ==
    /\ At(c, "fill")
    /\ cached' = [cached EXCEPT ![call[c].list] = call[c].value]
    /\ overtaken' = IF call[c].late THEN overtaken \cup {call[c].list} ELSE overtaken
    /\ call' = Filtered(c, call[c].value)
    /\ UNCHANGED <<tables, restricted, drift>>

\* The user's own suggestions are replaced; rows of others are left alone.
SuggestCommit(c) ==
    /\ At(c, "suggest")
    /\ LET u == call[c].user
           own == {t \in Present : ~searchmap[t].artist /\ searchmap[t].by = u}
       IN  searchmap' = [t \in Tags |->
               IF t \in own \ call[c].tags THEN Absent
               ELSE IF t \in call[c].tags \ Present THEN [artist |-> FALSE, by |-> u]
               ELSE searchmap[t]]
    /\ UpdateSubmissionTags
    /\ End(c)
    /\ UNCHANGED <<feedback, tokens, restricted, cached, overtaken>>

\* suggestion_arbitrate reads the row, makes a token that names the suggester,
\* and then writes.  A tag that is absent or approved is left as it is.
Arbitrate(c, u, t, action) ==
    /\ call[c] = Idle
    /\ u \in Deciders
    /\ t \in Present /\ ~searchmap[t].artist
    /\ call' = [call EXCEPT ![c] = [at |-> action, user |-> u, tag |-> t, by |-> searchmap[t].by]]
    /\ UNCHANGED <<tables, restricted, cached, drift, overtaken>>

Token(c) ==
    IF call[c].by = Nobody THEN {} ELSE {[tag |-> call[c].tag, by |-> call[c].by, to |-> call[c].user]}

Approve(c) ==
    /\ At(c, "approve")
    /\ LET t == call[c].tag
       IN  searchmap' = IF t \in Present /\ ~searchmap[t].artist
                          THEN [searchmap EXCEPT ![t] = [artist |-> TRUE, by |-> call[c].user]]
                          ELSE searchmap
    /\ tokens' = tokens \cup Token(c)
    /\ End(c)
    /\ UNCHANGED <<submission_tags, feedback, restricted, cached, drift, overtaken>>

Reject(c) ==
    /\ At(c, "reject")
    /\ searchmap' = [searchmap EXCEPT ![call[c].tag] = Absent]
    /\ feedback' = feedback \cup {<<call[c].tag, call[c].user>>}
    /\ tokens' = tokens \cup Token(c)
    /\ drift' = drift \cup {call[c].tag}
    /\ End(c)
    /\ UNCHANGED <<submission_tags, restricted, cached, overtaken>>

\* Fault: what is restored is credited to the one who undoes.
UndoAsDecider(token) ==
    /\ token \in tokens
    /\ searchmap' = [searchmap EXCEPT ![token.tag] = [artist |-> FALSE, by |-> token.to]]
    /\ feedback' = feedback \ {<<token.tag, token.to>>}
    /\ drift' = drift \cup {token.tag}
    /\ UNCHANGED <<submission_tags, tokens, restricted, cached, call, overtaken>>

\* suggestion_action_undo: the tag is a suggestion of the token's user again.
Undo(token) ==
    /\ token \in tokens
    /\ searchmap' = [searchmap EXCEPT ![token.tag] = [artist |-> FALSE, by |-> token.by]]
    /\ feedback' = feedback \ {<<token.tag, token.to>>}
    /\ drift' = drift \cup {token.tag}
    /\ UNCHANGED <<submission_tags, tokens, restricted, cached, call, overtaken>>

\* _UNDO_TOKEN_VALIDITY seconds have passed.
Expire(token) ==
    /\ token \in tokens
    /\ tokens' = tokens \ {token}
    /\ UNCHANGED <<searchmap, submission_tags, feedback, restricted, cached, call, drift, overtaken>>

SetTagFeedback(u, t) ==
    /\ u \in Deciders
    /\ feedback' = feedback \cup {<<t, u>>}
    /\ UNCHANGED <<searchmap, submission_tags, tokens, restricted, cached, call, drift, overtaken>>

\* edit_user_tag_restrictions and edit_global_tag_restrictions: a transaction,
\* and then the cache is invalidated.
EditRestrictions(c, l, tags) ==
    /\ call[c] = Idle
    /\ restricted' = [restricted EXCEPT ![l] = tags]
    /\ call' = [d \in Calls |->
          IF d = c THEN [at |-> "invalidate", list |-> l]
          ELSE IF call[d].at \in {"read", "fill", "suggest"}
            THEN [call[d] EXCEPT !.barred[l] = @ \cap tags]
          ELSE call[d]]
    /\ UNCHANGED <<tables, cached, drift, overtaken>>

Invalidate(c) ==
    /\ At(c, "invalidate")
    /\ LET l == call[c].list
       IN  /\ cached' = [cached EXCEPT ![l] = Missing]
           /\ overtaken' = overtaken \ {l}
           /\ call' = [d \in Calls |->
                 IF d = c THEN Idle
                 ELSE IF At(d, "fill") /\ call[d].list = l THEN [call[d] EXCEPT !.late = TRUE]
                 ELSE call[d]]
    /\ UNCHANGED <<tables, restricted, drift>>

Next ==
    \/ \E u \in Users, tags \in SUBSET Tags : Associate(u, tags)
    \/ \E token \in tokens : Undo(token) \/ Expire(token)
    \/ \E u \in Users, t \in Tags : SetTagFeedback(u, t)
    \/ \E c \in Calls :
        \/ \E u \in Users, tags \in SUBSET Tags : SuggestBegin(c, u, tags)
        \/ ReadCached(c) \/ ReadList(c) \/ FillCache(c) \/ SuggestCommit(c)
        \/ \E u \in Users, t \in Tags, action \in {"approve", "reject"} : Arbitrate(c, u, t, action)
        \/ Approve(c) \/ Reject(c)
        \/ \E l \in Lists, tags \in SUBSET Tags : EditRestrictions(c, l, tags)
        \/ Invalidate(c)

Spec == Init /\ [][Next]_vars

-----------------------------------------------------------------------------
\* Search reads submission_tags: it is the tag map, but for the tags that were
\* rejected or restored since one of associate's transactions wrote it.
SearchFindsTags ==
    (Present \ submission_tags) \cup (submission_tags \ Present) \subseteq drift

\* A tag that was on a list before a suggestion began, and stayed on it, is not
\* about to be suggested: the cache lags behind an edit until it is
\* invalidated, and longer only if a read from before the edit was stored after.
RestrictedStaysOut ==
    \A c \in Calls : At(c, "suggest") => \A l \in Lists : call[c].tags \cap call[c].barred[l] = {}

\* Approved tags are the owner's or a moderator's, suggestions are of others,
\* through approval, rejection and undoing in any order.
Attributed ==
    \A t \in Present : searchmap[t].by # Nobody => (searchmap[t].artist <=> searchmap[t].by \in Deciders)
==============================================================================
