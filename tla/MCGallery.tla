------------------------------ MODULE MCGallery ------------------------------
(***************************************************************************)
(* Gallery for TLC.  User 2 owns all submissions, user 3 is a friend, user *)
(* 1 has the number of a submission; 1 and 3 follow the owner, and 3       *)
(* follows 1.  Every behaviour has a focus that bounds what happens in it. *)
(***************************************************************************)
EXTENDS Gallery, TLC

VARIABLE focus

MCOwnerOf == [s \in Submissions |-> 2]
MCWatching == {<<1, 2>>, <<3, 2>>, <<3, 1>>}
MCFriends == {<<2, 3>>}

Busy(steps) == \A r \in Requests : At(r, "idle") \/ call[r].at \in steps
PostSteps == {"post notify"}
EditSteps == {"hide clear", "edit clear", "edit restrict", "edit open"}
FavoriteSteps == {"favorite owners", "favorite commit"}
RequestSteps == {"request throttle", "request insert", "request notify"}
AskSteps == RequestSteps \cup {"offer insert", "offer notify"}
DecideSteps == {"accept announce", "accept clear", "reject clear", "remove clear"}
OneSubmission == posted \subseteq {1}
FewNotices == BagCardinality(welcome) <= 3 /\ \A n \in DOMAIN welcome : welcome[n] <= 2

OneCall == Cardinality({r \in Requests : call[r] # Idle}) <= 1
Unread == BagCardinality(welcome)

Bounds ==
    [\* one submission: favorites while it is edited, hidden and restored
     favorites |-> /\ OneSubmission /\ Unread <= 4 /\ collected = {}
                   /\ Busy(PostSteps \cup EditSteps \cup FavoriteSteps),
     \* one submission: offers, requests and decisions
     collections |-> /\ OneSubmission /\ Unread <= 2 /\ hidden = {} /\ friends_only = {}
                     /\ Busy(PostSteps \cup AskSteps \cup DecideSteps),
     \* one submission: everything, one call at a time
     everything |-> OneCall /\ OneSubmission /\ Unread <= 2,
     \* several submissions: requests of one user
     requests |-> /\ Unread <= 2 /\ friends_only = {} /\ Busy(PostSteps \cup RequestSteps)
                  /\ \A r \in Requests : ~At(r, "idle") => call[r].user # 3]

MCInit == Init /\ focus \in DOMAIN Bounds
MCNext == Next /\ UNCHANGED focus /\ Bounds'[focus]
MCSpec == MCInit /\ [][MCNext]_<<vars, focus>>

Symmetry == Permutations(Requests)
==============================================================================
