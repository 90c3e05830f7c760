---------------------------- MODULE GalleryProofs ----------------------------
(***************************************************************************)
(* Proofs about Gallery, for any users, submissions, watchers and friends  *)
(* and any number of calls at a time.                                      *)
(***************************************************************************)
EXTENDS Gallery, FiniteSetTheorems, TLAPS

-----------------------------------------------------------------------------
\* What sending and deleting do to the bag of notifications.
LEMMA SentFacts ==
    ASSUME NEW b, IsABag(b), NEW S
    PROVE  /\ IsABag(b (+) SetToBag(S))
           /\ DOMAIN (b (+) SetToBag(S)) = DOMAIN b \cup S
           /\ \A n \in DOMAIN b \ S : (b (+) SetToBag(S))[n] = b[n]
           /\ \A n \in S \ DOMAIN b : (b (+) SetToBag(S))[n] = 1
  BY DEF IsABag, SetToBag, (+)

\* Deleting a set of notifications leaves the counts of the others.
LEMMA RestrictFacts ==
    ASSUME NEW b, IsABag(b), NEW S
    PROVE  /\ IsABag(Restrict(b, DOMAIN b \ S))
           /\ DOMAIN Restrict(b, DOMAIN b \ S) = DOMAIN b \ S
           /\ \A n \in DOMAIN b \ S : Restrict(b, DOMAIN b \ S)[n] = b[n]
  BY DEF IsABag, Restrict

\* Taking one notification away adds none.
LEMMA RemovedFacts ==
    ASSUME NEW b, IsABag(b), NEW m
    PROVE  /\ IsABag(b (-) SetToBag({m}))
           /\ \A n \in DOMAIN (b (-) SetToBag({m})) :
                 n \in DOMAIN b /\ (b (-) SetToBag({m}))[n] <= b[n]
  BY DEF IsABag, SetToBag, (-)

-----------------------------------------------------------------------------
\* Which steps write which variables.
LEMMA FavoriteFrame ==
    ASSUME [Next]_vars
    PROVE  \/ UNCHANGED <<favorite, favorites>>
           \/ \E r \in Requests : FavoriteCommit(r)
           \/ \E u \in Users, s \in Submissions : Unfavorite(u, s)
<1> DEFINE Kept == UNCHANGED <<favorite, favorites>>
<1>1. ASSUME NEW r, Submitting(r)
      PROVE  Kept
  BY <1>1 DEF Submitting, PostInsert, HideUpdate, EditCheck, PostNotify, HideClear, EditClear,
              EditUpdate, rows
<1>2. ASSUME NEW r, Favoriting(r)
      PROVE  Kept \/ FavoriteCommit(r)
  BY <1>2 DEF Favoriting, FavoriteCheck, FavoriteOwners, rows
<1>3. ASSUME NEW r, Offering(r)
      PROVE  Kept
  BY <1>3 DEF Offering, OfferCheck, OfferInsert, OfferNotify, rows
<1>4. ASSUME NEW r, Requesting(r)
      PROVE  Kept
  BY <1>4 DEF Requesting, RequestCheck, RequestThrottle, RequestInsert, RequestNotify, rows
<1>5. ASSUME NEW r, Deciding(r)
      PROVE  Kept
  BY <1>5 DEF Deciding, AcceptUpdate, RejectDelete, RemoveDelete, AcceptAnnounce, AcceptClear,
              RejectClear, RemoveClear, rows
<1>6. ASSUME NEW s, BulkEdit(s)
      PROVE  Kept
  BY <1>6 DEF BulkEdit
<1>7. ASSUME NEW n, RemoveNotification(n)
      PROVE  Kept
  BY <1>7 DEF RemoveNotification, rows
<1>8. CASE UNCHANGED vars
  BY <1>8 DEF vars, rows
<1> HIDE DEF Kept
<1>9. CASE Next
  BY <1>9, <1>1, <1>2, <1>3, <1>4, <1>5, <1>6, <1>7 DEF Next, Kept
<1> QED
  BY <1>8, <1>9 DEF Kept

-----------------------------------------------------------------------------
\* The calls in progress are well formed: what a step may do to one of them.
CallsOK ==
    /\ call \in [Requests -> {Idle} \cup Calls]
    /\ \A r \in Requests : call[r] # Idle => call[r].submit \in posted

\* A call that is at one of its steps is a call, of a submission that exists.
LEMMA RunningCall ==
    ASSUME CallsOK, NEW r \in Requests, call[r].at \in Steps
    PROVE  call[r] \in Calls /\ call[r].submit \in posted
<1>1. "idle" \notin Steps
  BY DEF Steps
<1>2. call[r] # Idle
  BY <1>1 DEF Idle
<1> QED
  BY <1>2 DEF CallsOK

\* A call that begins is well formed.
LEMMA BegunCall ==
    ASSUME CallsOK, NEW r \in Requests, posted \subseteq posted',
           NEW step \in Steps, NEW user \in Users, NEW other \in Users,
           NEW s \in Submissions, s \in posted', NEW notify \in SUBSET Users,
           call' = [call EXCEPT ![r] = [at |-> step, user |-> user, other |-> other,
                                        submit |-> s, notify |-> notify]]
    PROVE  CallsOK'
<1> DEFINE c == [at |-> step, user |-> user, other |-> other, submit |-> s, notify |-> notify]
<1>1. c \in Calls /\ c.submit \in posted'
  BY DEF Calls
<1>2. call' = [call EXCEPT ![r] = c]
  OBVIOUS
<1> HIDE DEF c
<1> QED
  BY <1>1, <1>2 DEF CallsOK

\* A call that goes on stays well formed.
LEMMA ContinuedCall ==
    ASSUME CallsOK, NEW r \in Requests, posted' = posted, call[r].at \in Steps,
           NEW step \in Steps, Goto(r, step)
    PROVE  CallsOK'
<1>1. call[r] \in Calls /\ call[r].submit \in posted
  BY RunningCall
<1> DEFINE c == [call[r] EXCEPT !.at = step]
<1>2. c \in Calls /\ c.submit \in posted
  BY <1>1 DEF Calls
<1>3. call' = [call EXCEPT ![r] = c]
  BY DEF Goto
<1> HIDE DEF c
<1> QED
  BY <1>2, <1>3 DEF CallsOK

\* The calls are well formed when one ends.
LEMMA EndedCall ==
    ASSUME CallsOK, NEW r \in Requests, posted' = posted, End(r)
    PROVE  CallsOK'
  BY DEF CallsOK, End

\* Every step leaves the calls well formed.
LEMMA CallsStep ==
    ASSUME TypeOK, [Next]_vars
    PROVE  CallsOK'
<1>0. CallsOK /\ posted \subseteq Submissions
  BY DEF TypeOK, CallsOK
<1>1. ASSUME NEW r \in Requests, Submitting(r)
      PROVE  CallsOK'
  <2>1. ASSUME NEW s \in Submissions, NEW restricted \in BOOLEAN, PostInsert(r, s, restricted)
        PROVE  CallsOK'
    <3> DEFINE u == OwnerOf[s]
               audience == IF restricted THEN Watchers(u) \cap FriendsOf(u) ELSE Watchers(u)
    <3>1. call' = [call EXCEPT ![r] = [at |-> "post notify", user |-> u, other |-> u,
                                       submit |-> s, notify |-> audience]]
      BY <2>1 DEF PostInsert
    <3>2. u \in Users /\ audience \in SUBSET Users
      BY OwnerAssumption DEF Watchers
    <3>3. posted \subseteq posted' /\ s \in posted'
      BY <2>1 DEF PostInsert
    <3>4. "post notify" \in Steps
      BY DEF Steps
    <3> HIDE DEF u, audience
    <3> QED
      BY <1>0, <3>1, <3>2, <3>3, <3>4, BegunCall
  <2>2. ASSUME NEW s \in Submissions, HideUpdate(r, s)
        PROVE  CallsOK'
    <3>1. PICK u \in Users : Begin(r, "hide clear", u, u, s)
      BY <2>2 DEF HideUpdate
    <3>2. posted' = posted /\ s \in posted /\ "hide clear" \in Steps /\ {} \in SUBSET Users
      BY <2>2 DEF HideUpdate, Steps
    <3> QED
      BY <1>0, <3>1, <3>2, BegunCall DEF Begin
  <2>3. ASSUME NEW s \in Submissions, EditCheck(r, s)
        PROVE  CallsOK'
    <3>1. PICK step \in {"edit clear", "edit open"} : Begin(r, step, OwnerOf[s], OwnerOf[s], s)
      BY <2>3 DEF EditCheck
    <3>2. posted' = posted /\ s \in posted /\ step \in Steps /\ {} \in SUBSET Users
      BY <2>3 DEF EditCheck, Steps, rows
    <3>3. OwnerOf[s] \in Users
      BY OwnerAssumption
    <3> QED
      BY <1>0, <3>1, <3>2, <3>3, BegunCall DEF Begin
  <2>4. CASE EditClear(r)
    <3>1. posted' = posted /\ call[r].at \in Steps /\ "edit restrict" \in Steps /\ Goto(r, "edit restrict")
      BY <2>4 DEF EditClear, Steps, rows, At
    <3> QED
      BY <1>0, <3>1, ContinuedCall
  <2>5. CASE PostNotify(r) \/ HideClear(r) \/ EditUpdate(r)
    <3>1. posted' = posted /\ End(r)
      BY <2>5 DEF PostNotify, HideClear, EditUpdate, rows
    <3> QED
      BY <1>0, <3>1, EndedCall
  <2> QED
    BY <1>1, <2>1, <2>2, <2>3, <2>4, <2>5 DEF Submitting
<1>2. ASSUME NEW r \in Requests, Favoriting(r)
      PROVE  CallsOK'
  <2>1. ASSUME NEW u \in Users, NEW s \in Submissions, FavoriteCheck(r, u, s)
        PROVE  CallsOK'
    <3>1. /\ posted' = posted /\ s \in posted /\ Begin(r, "favorite owners", u, OwnerOf[s], s)
          /\ "favorite owners" \in Steps /\ {} \in SUBSET Users /\ OwnerOf[s] \in Users
      BY <2>1, OwnerAssumption DEF FavoriteCheck, Steps, rows
    <3> QED
      BY <1>0, <3>1, BegunCall DEF Begin
  <2>2. CASE FavoriteOwners(r)
    <3>1. posted' = posted /\ call[r].at \in Steps
      BY <2>2 DEF FavoriteOwners, At, Steps, rows
    <3>2. CASE End(r)
      BY <1>0, <3>1, <3>2, EndedCall
    <3>3. CASE ~ End(r)
      <4>1. call[r] \in Calls /\ call[r].submit \in posted
        BY <1>0, <3>1, RunningCall
      <4> DEFINE c == [call[r] EXCEPT !.at = "favorite commit",
                                      !.notify = {OwnerOf[call[r].submit]} \cup Owners(call[r].submit)]
      <4>2. call' = [call EXCEPT ![r] = c]
        BY <2>2, <3>3, <1>0 DEF FavoriteOwners, CallsOK
      <4>3. /\ "favorite commit" \in Steps
            /\ {OwnerOf[call[r].submit]} \cup Owners(call[r].submit) \in SUBSET Users
        BY <4>1, OwnerAssumption DEF Owners, Calls, Steps
      <4>4. c \in Calls /\ c.submit \in posted
        BY <4>1, <4>3 DEF Calls
      <4> HIDE DEF c
      <4> QED
        BY <1>0, <3>1, <4>2, <4>4 DEF CallsOK
    <3> QED
      BY <3>2, <3>3
  <2>3. CASE FavoriteCommit(r)
    BY <1>0, <2>3, EndedCall DEF FavoriteCommit
  <2> QED
    BY <1>2, <2>1, <2>2, <2>3 DEF Favoriting
<1>3. ASSUME NEW r \in Requests, Offering(r)
      PROVE  CallsOK'
  <2>1. ASSUME NEW c \in Users, NEW s \in Submissions, OfferCheck(r, s, c)
        PROVE  CallsOK'
    <3>1. /\ posted' = posted /\ s \in posted /\ Begin(r, "offer insert", OwnerOf[s], c, s)
          /\ "offer insert" \in Steps /\ {} \in SUBSET Users /\ OwnerOf[s] \in Users
      BY <2>1, OwnerAssumption DEF OfferCheck, Offerable, Steps, rows
    <3> QED
      BY <1>0, <3>1, BegunCall DEF Begin
  <2>2. CASE OfferInsert(r)
    <3>1. /\ posted' = posted /\ call[r].at \in Steps /\ "offer notify" \in Steps
          /\ End(r) \/ Goto(r, "offer notify")
      BY <2>2 DEF OfferInsert, At, Steps
    <3> QED
      BY <1>0, <3>1, ContinuedCall, EndedCall
  <2>3. CASE OfferNotify(r)
    BY <1>0, <2>3, EndedCall DEF OfferNotify, rows
  <2> QED
    BY <1>3, <2>1, <2>2, <2>3 DEF Offering
<1>4. ASSUME NEW r \in Requests, Requesting(r)
      PROVE  CallsOK'
  <2>1. ASSUME NEW c \in Users, NEW s \in Submissions, RequestCheck(r, c, s)
        PROVE  CallsOK'
    <3>1. /\ posted' = posted /\ s \in posted /\ Begin(r, "request throttle", c, OwnerOf[s], s)
          /\ "request throttle" \in Steps /\ {} \in SUBSET Users /\ OwnerOf[s] \in Users
      BY <2>1, OwnerAssumption DEF RequestCheck, Offerable, Steps, rows
    <3> QED
      BY <1>0, <3>1, BegunCall DEF Begin
  <2>2. CASE RequestThrottle(r) \/ RequestInsert(r)
    <3>1. /\ posted' = posted /\ call[r].at \in Steps
          /\ "request insert" \in Steps /\ "request notify" \in Steps
          /\ End(r) \/ Goto(r, "request insert") \/ Goto(r, "request notify")
      BY <2>2 DEF RequestThrottle, RequestInsert, At, Steps, rows
    <3> QED
      BY <1>0, <3>1, ContinuedCall, EndedCall
  <2>3. CASE RequestNotify(r)
    BY <1>0, <2>3, EndedCall DEF RequestNotify, rows
  <2> QED
    BY <1>4, <2>1, <2>2, <2>3 DEF Requesting
<1>5. ASSUME NEW r \in Requests, Deciding(r)
      PROVE  CallsOK'
  <2>1. ASSUME NEW u \in Users, NEW c \in Users, NEW s \in Submissions,
               AcceptUpdate(r, u, c, s) \/ RejectDelete(r, u, c, s)
        PROVE  CallsOK'
    <3>1. PICK step \in {"accept announce", "reject clear"} :
              /\ posted' = posted /\ s \in posted
              /\ Begin(r, step, u, c, s)
      BY <2>1 DEF AcceptUpdate, RejectDelete
    <3>2. step \in Steps /\ {} \in SUBSET Users
      BY DEF Steps
    <3> QED
      BY <1>0, <3>1, <3>2, BegunCall DEF Begin
  <2>2. ASSUME NEW c \in Users, NEW s \in Submissions, RemoveDelete(r, c, s)
        PROVE  CallsOK'
    <3>1. /\ posted' = posted /\ s \in posted /\ Begin(r, "remove clear", c, c, s)
          /\ "remove clear" \in Steps /\ {} \in SUBSET Users
      BY <2>2 DEF RemoveDelete, Steps
    <3> QED
      BY <1>0, <3>1, BegunCall DEF Begin
  <2>3. CASE AcceptAnnounce(r)
    <3>1. /\ posted' = posted /\ call[r].at \in Steps /\ "accept clear" \in Steps
          /\ Goto(r, "accept clear")
      BY <2>3 DEF AcceptAnnounce, At, Steps, rows
    <3> QED
      BY <1>0, <3>1, ContinuedCall
  <2>4. CASE AcceptClear(r) \/ RejectClear(r) \/ RemoveClear(r)
    <3>1. posted' = posted /\ End(r)
      BY <2>4 DEF AcceptClear, RejectClear, RemoveClear, rows
    <3> QED
      BY <1>0, <3>1, EndedCall
  <2> QED
    BY <1>5, <2>1, <2>2, <2>3, <2>4 DEF Deciding
<1>6. ASSUME UNCHANGED <<posted, call>>
      PROVE  CallsOK'
  BY <1>0, <1>6 DEF CallsOK
<1>7. ASSUME NEW s, NEW u, BulkEdit(s) \/ Unfavorite(u, s)
      PROVE  UNCHANGED <<posted, call>>
  BY <1>7 DEF BulkEdit, Unfavorite
<1>8. ASSUME NEW n, RemoveNotification(n)
      PROVE  UNCHANGED <<posted, call>>
  BY <1>8 DEF RemoveNotification, rows
<1>9. CASE UNCHANGED vars
  BY <1>9, <1>6 DEF vars, rows
<1> QED
  BY <1>1, <1>2, <1>3, <1>4, <1>5, <1>6, <1>7, <1>8, <1>9 DEF Next

-----------------------------------------------------------------------------
\* The counter of favorites.
Favoriters(s) == {u \in Users : <<u, s>> \in favorite}

\* Every step keeps the counter equal to the number of rows.
LEMMA FavoritesStep ==
    ASSUME TypeOK, FavoritesCounted, [Next]_vars
    PROVE  /\ favorites' \in [Submissions -> Nat]
           /\ favorite' \subseteq Users \X posted
           /\ FavoritesCounted'
<1>0. /\ favorites \in [Submissions -> Nat]
      /\ favorite \subseteq Users \X posted
      /\ posted \subseteq Submissions
      /\ CallsOK
  BY DEF TypeOK, CallsOK
<1>c. \A s \in Submissions :
          favorites[s] = Cardinality(Favoriters(s)) /\ IsFiniteSet(Favoriters(s))
  BY FS_Subset, FiniteAssumption DEF FavoritesCounted, Favoriters
<1>1. CASE UNCHANGED <<favorite, favorites>>
  BY <1>0, <1>1 DEF FavoritesCounted
<1>2. ASSUME NEW r \in Requests, FavoriteCommit(r)
      PROVE  /\ favorites' \in [Submissions -> Nat]
             /\ favorite' \subseteq Users \X posted
             /\ FavoritesCounted'
  <2>1. call[r].at \in Steps
    BY <1>2 DEF FavoriteCommit, At, Steps
  <2>2. PICK u \in Users, s \in posted : u = call[r].user /\ s = call[r].submit
    BY <1>0, <2>1, RunningCall DEF Calls
  <2>3. CASE <<u, s>> \in favorite
    BY <1>0, <1>2, <2>2, <2>3 DEF FavoriteCommit, FavoritesCounted
  <2>4. CASE <<u, s>> \notin favorite
    <3>1. /\ favorite' = favorite \cup {<<u, s>>}
          /\ favorites' = [favorites EXCEPT ![s] = @ + 1]
      BY <1>2, <2>2, <2>4 DEF FavoriteCommit, FavoriteWrites
    <3>2. s \in Submissions /\ u \notin Favoriters(s)
      BY <1>0, <2>2, <2>4 DEF Favoriters
    <3>3. Favoriters(s)' = Favoriters(s) \cup {u}
      BY <2>2, <3>1 DEF Favoriters
    <3>4. \A t \in Submissions \ {s} : Favoriters(t)' = Favoriters(t)
      BY <3>1 DEF Favoriters
    <3>5. Cardinality(Favoriters(s)') = favorites[s] + 1
      BY <1>c, <3>2, <3>3, FS_AddElement
    <3>6. \A t \in Submissions : favorites'[t] = Cardinality(Favoriters(t)')
      BY <1>0, <1>c, <3>1, <3>2, <3>4, <3>5
    <3>7. FavoritesCounted'
      BY <3>6 DEF FavoritesCounted, Favoriters
    <3> QED
      BY <1>0, <2>2, <3>1, <3>2, <3>7
  <2> QED
    BY <2>3, <2>4
<1>3. ASSUME NEW u \in Users, NEW s \in Submissions, Unfavorite(u, s)
      PROVE  /\ favorites' \in [Submissions -> Nat]
             /\ favorite' \subseteq Users \X posted
             /\ FavoritesCounted'
  <2>1. /\ <<u, s>> \in favorite
        /\ favorite' = favorite \ {<<u, s>>}
        /\ favorites' = [favorites EXCEPT ![s] = @ - 1]
    BY <1>3 DEF Unfavorite
  <2>2. Favoriters(s)' = Favoriters(s) \ {u} /\ u \in Favoriters(s)
    BY <2>1 DEF Favoriters
  <2>3. \A t \in Submissions \ {s} : Favoriters(t)' = Favoriters(t)
    BY <2>1 DEF Favoriters
  <2>4. Cardinality(Favoriters(s)') = favorites[s] - 1 /\ IsFiniteSet(Favoriters(s)')
    BY <1>c, <2>2, FS_RemoveElement
  <2>5. Cardinality(Favoriters(s)') \in Nat
    BY <2>4, FS_CardinalityType
  <2>6. favorites[s] - 1 \in Nat
    BY <2>4, <2>5
  <2>7. favorites' \in [Submissions -> Nat]
    BY <1>0, <2>1, <2>6
  <2>8. \A t \in Submissions : favorites'[t] = Cardinality(Favoriters(t)')
    BY <1>0, <1>c, <2>1, <2>3, <2>4
  <2>9. FavoritesCounted'
    BY <2>8 DEF FavoritesCounted, Favoriters
  <2> QED
    BY <1>0, <2>1, <2>7, <2>9
<1> QED
  BY <1>1, <1>2, <1>3, FavoriteFrame

-----------------------------------------------------------------------------
\* The rows of collections, and who has agreed to them.
LEMMA CollectionFrame ==
    ASSUME [Next]_vars
    PROVE  \/ UNCHANGED <<collection, agreed>>
           \/ \E r \in Requests : OfferInsert(r) \/ RequestInsert(r)
           \/ \E r \in Requests, u, c \in Users, s \in Submissions :
                  AcceptUpdate(r, u, c, s) \/ RejectDelete(r, u, c, s)
           \/ \E r \in Requests, c \in Users, s \in Submissions : RemoveDelete(r, c, s)
<1> DEFINE Kept == UNCHANGED <<collection, agreed>>
<1>1. ASSUME NEW r, Submitting(r)
      PROVE  Kept
  BY <1>1 DEF Submitting, PostInsert, HideUpdate, EditCheck, PostNotify, HideClear, EditClear,
              EditUpdate, rows, history
<1>2. ASSUME NEW r, Favoriting(r)
      PROVE  Kept
  BY <1>2 DEF Favoriting, FavoriteCheck, FavoriteOwners, FavoriteCommit, rows, history
<1>3. ASSUME NEW r, Offering(r)
      PROVE  Kept \/ OfferInsert(r)
  BY <1>3 DEF Offering, OfferCheck, OfferNotify, rows, history
<1>4. ASSUME NEW r, Requesting(r)
      PROVE  Kept \/ RequestInsert(r)
  BY <1>4 DEF Requesting, RequestCheck, RequestThrottle, RequestNotify, rows, history
<1>5. ASSUME NEW r, Deciding(r)
      PROVE  \/ Kept
             \/ \E u, c \in Users, s \in Submissions :
                    AcceptUpdate(r, u, c, s) \/ RejectDelete(r, u, c, s)
             \/ \E c \in Users, s \in Submissions : RemoveDelete(r, c, s)
  BY <1>5 DEF Deciding, AcceptAnnounce, AcceptClear, RejectClear, RemoveClear, rows, history
<1>6. ASSUME NEW s, NEW u, BulkEdit(s) \/ Unfavorite(u, s)
      PROVE  Kept
  BY <1>6 DEF BulkEdit, Unfavorite, history
<1>7. ASSUME NEW n, RemoveNotification(n)
      PROVE  Kept
  BY <1>7 DEF RemoveNotification, rows, history
<1>8. CASE UNCHANGED vars
  BY <1>8 DEF vars, rows, history
<1> HIDE DEF Kept
<1>9. CASE Next
  BY <1>9, <1>1, <1>2, <1>3, <1>4, <1>5, <1>6, <1>7 DEF Next, Kept
<1> QED
  BY <1>8, <1>9 DEF Kept

CollectionsOK ==
    /\ collection \in [Pairs -> {"none", "p", "r", "accepted"}]
    /\ agreed \in [Pairs -> SUBSET {"collector", "owner"}]

\* What Consent says of one pair.
AgreedTo(row) == CASE row = "none" -> {}
                   [] row = "p" -> {"owner"}
                   [] row = "r" -> {"collector"}
                   [] row = "accepted" -> {"collector", "owner"}

\* Writing a row together with who agrees to it keeps Consent.
LEMMA SetPair ==
    ASSUME CollectionsOK, Consent, NEW c \in Users, NEW s \in Submissions,
           NEW row \in {"none", "p", "r", "accepted"},
           SetRow(c, s, row), SetAgreed(c, s, AgreedTo(row))
    PROVE  CollectionsOK' /\ Consent'
<1>1. <<c, s>> \in Pairs /\ AgreedTo(row) \in SUBSET {"collector", "owner"}
  BY DEF Pairs, AgreedTo
<1>2. \A p \in Pairs : agreed[p] = AgreedTo(collection[p])
  BY DEF Consent, AgreedTo
<1>3. CollectionsOK'
  BY <1>1 DEF CollectionsOK, SetRow, SetAgreed
<1>4. \A p \in Pairs : agreed'[p] = AgreedTo(collection'[p])
  BY <1>1, <1>2 DEF CollectionsOK, SetRow, SetAgreed
<1> QED
  BY <1>3, <1>4 DEF Consent, AgreedTo

\* Every step keeps Consent: a decision adds the side that had not agreed.
LEMMA ConsentStep ==
    ASSUME TypeOK, Consent, [Next]_vars
    PROVE  CollectionsOK' /\ Consent'
<1>0. CollectionsOK /\ CallsOK /\ posted \subseteq Submissions
  BY DEF TypeOK, CollectionsOK, CallsOK
<1>a. AgreedTo("none") = {} /\ AgreedTo("p") = {"owner"} /\ AgreedTo("r") = {"collector"}
      /\ AgreedTo("accepted") = {"collector", "owner"}
  BY DEF AgreedTo
<1>k. ASSUME UNCHANGED <<collection, agreed>>
      PROVE  CollectionsOK' /\ Consent'
  BY <1>0, <1>k DEF CollectionsOK, Consent
<1>1. ASSUME NEW r \in Requests, OfferInsert(r) \/ RequestInsert(r)
      PROVE  CollectionsOK' /\ Consent'
  <2>1. call[r].at \in Steps
    BY <1>1 DEF OfferInsert, RequestInsert, At, Steps
  <2>2. call[r].user \in Users /\ call[r].other \in Users /\ call[r].submit \in Submissions
    BY <1>0, <2>1, RunningCall DEF Calls
  <2>3. \/ UNCHANGED <<collection, agreed>>
        \/ SetRow(call[r].other, call[r].submit, "p") /\ SetAgreed(call[r].other, call[r].submit, {"owner"})
        \/ SetRow(call[r].user, call[r].submit, "r") /\ SetAgreed(call[r].user, call[r].submit, {"collector"})
    BY <1>1 DEF OfferInsert, RequestInsert
  <2> QED
    BY <1>0, <1>a, <1>k, <2>2, <2>3, SetPair
<1>2. ASSUME NEW r \in Requests, NEW u \in Users, NEW c \in Users, NEW s \in Submissions,
             AcceptUpdate(r, u, c, s)
      PROVE  CollectionsOK' /\ Consent'
  <2>1. agreed[<<c, s>>] = AgreedTo(collection[<<c, s>>])
    BY DEF Consent, AgreedTo, Pairs
  <2>2. collection[<<c, s>>] = IF u = c THEN "p" ELSE "r"
    BY <1>2 DEF AcceptUpdate, Decidable
  <2>3. agreed[<<c, s>>] \cup {IF u = c THEN "collector" ELSE "owner"} = AgreedTo("accepted")
    BY <1>a, <2>1, <2>2
  <2>4. SetRow(c, s, "accepted") /\ SetAgreed(c, s, AgreedTo("accepted"))
    BY <1>2, <2>3 DEF AcceptUpdate
  <2> QED
    BY <1>0, <2>4, SetPair
<1>3. ASSUME NEW r \in Requests, NEW u \in Users, NEW c \in Users, NEW s \in Submissions,
             RejectDelete(r, u, c, s) \/ RemoveDelete(r, c, s)
      PROVE  CollectionsOK' /\ Consent'
  <2>1. \/ UNCHANGED <<collection, agreed>>
        \/ SetRow(c, s, "none") /\ SetAgreed(c, s, AgreedTo("none"))
    BY <1>a, <1>3 DEF RejectDelete, RemoveDelete
  <2> QED
    BY <1>0, <1>k, <2>1, SetPair
<1> QED
  BY <1>k, <1>1, <1>2, <1>3, CollectionFrame

-----------------------------------------------------------------------------
\* The rows of submissions: which steps write them, and what they hold.
RowsOK ==
    /\ posted \subseteq Submissions
    /\ hidden \subseteq posted
    /\ friends_only \subseteq posted
    /\ collected \subseteq Pairs
    /\ late \subseteq Submissions

\* Every step keeps the rows typed; no submission is deleted and none stops
\* being late.
LEMMA RowsStep ==
    ASSUME TypeOK, [Next]_vars
    PROVE  posted \subseteq posted' /\ late \subseteq late' /\ RowsOK'
<1>0. RowsOK /\ CallsOK
  BY DEF TypeOK, RowsOK, CallsOK
<1> DEFINE Kept == posted \subseteq posted' /\ late \subseteq late' /\ RowsOK'
<1>1. ASSUME NEW r \in Requests, Submitting(r)
      PROVE  Kept
  <2>1. CASE \E s \in Submissions : HideUpdate(r, s) \/ EditCheck(r, s)
    BY <1>0, <2>1 DEF HideUpdate, EditCheck, rows, history, RowsOK
  <2>2. CASE \E s \in Submissions, restricted \in BOOLEAN : PostInsert(r, s, restricted)
    BY <1>0, <2>2 DEF PostInsert, history, RowsOK
  <2>3. ASSUME PostNotify(r) \/ EditUpdate(r)
        PROVE  Kept
    <3>1. call[r].at \in Steps
      BY <2>3 DEF PostNotify, EditUpdate, At, Steps
    <3>2. call[r].submit \in posted
      BY <1>0, <3>1, RunningCall
    <3>3. CASE PostNotify(r)
      BY <1>0, <3>2, <3>3 DEF PostNotify, rows, RowsOK
    <3>4. CASE EditUpdate(r)
      BY <1>0, <3>2, <3>4 DEF EditUpdate, history, RowsOK
    <3> QED
      BY <2>3, <3>3, <3>4
  <2>4. CASE HideClear(r) \/ EditClear(r)
    BY <1>0, <2>4 DEF HideClear, EditClear, rows, history, RowsOK
  <2> QED
    BY <1>1, <2>1, <2>2, <2>3, <2>4 DEF Submitting
<1>2. ASSUME NEW r, Favoriting(r) \/ Offering(r) \/ Requesting(r)
      PROVE  Kept
  BY <1>0, <1>2 DEF Favoriting, FavoriteCheck, FavoriteOwners, FavoriteCommit,
       Offering, OfferCheck, OfferInsert, OfferNotify,
       Requesting, RequestCheck, RequestThrottle, RequestInsert, RequestNotify, rows, history, RowsOK
<1>3. ASSUME NEW r, Deciding(r)
      PROVE  Kept
  <2>1. ASSUME NEW u \in Users, NEW c \in Users, NEW s \in Submissions, AcceptUpdate(r, u, c, s)
        PROVE  Kept
    <3>1. /\ UNCHANGED <<posted, hidden, friends_only, late>>
          /\ collected' = collected \cup {<<c, s>>}
      BY <2>1 DEF AcceptUpdate
    <3> QED
      BY <1>0, <3>1 DEF RowsOK, Pairs
  <2>2. CASE \/ \E u, c \in Users, s \in Submissions : RejectDelete(r, u, c, s)
             \/ \E c \in Users, s \in Submissions : RemoveDelete(r, c, s)
             \/ AcceptAnnounce(r) \/ AcceptClear(r) \/ RejectClear(r) \/ RemoveClear(r)
    BY <1>0, <2>2 DEF RejectDelete, RemoveDelete, AcceptAnnounce, AcceptClear, RejectClear, RemoveClear,
         rows, history, RowsOK
  <2> QED
    BY <1>3, <2>1, <2>2 DEF Deciding
<1>4. ASSUME NEW s, NEW u, BulkEdit(s) \/ Unfavorite(u, s)
      PROVE  Kept
  BY <1>0, <1>4 DEF BulkEdit, Unfavorite, history, RowsOK
<1>5. ASSUME NEW n, RemoveNotification(n)
      PROVE  Kept
  BY <1>0, <1>5 DEF RemoveNotification, rows, history, RowsOK
<1>6. CASE UNCHANGED vars
  BY <1>0, <1>6 DEF vars, rows, history, RowsOK
<1> HIDE DEF Kept
<1>7. CASE Next
  BY <1>7, <1>1, <1>2, <1>3, <1>4, <1>5 DEF Next, Kept
<1> QED
  BY <1>6, <1>7 DEF Kept

-----------------------------------------------------------------------------
\* The notifications: what each step sends and deletes.
NoticesOK == IsABag(welcome) /\ BagToSet(welcome) \subseteq Notifications
OfType(types) == {n \in Notifications : n.type \in types}

\* What Notify makes are notifications of its type.
LEMMA NotifyTyped ==
    ASSUME NEW type \in Types, NEW to \in SUBSET Users, NEW other \in Ids, NEW about \in Ids
    PROVE  Notify(type, to, other, about) \subseteq OfType({type})
  BY DEF Notify, Notifications, OfType

Sends(types) == \E S \in SUBSET OfType(types) : welcome' = Sent(S)
Deletes == \E S : welcome' = Deleted(S)

\* Which steps send notifications, and of which types, and which delete some.
LEMMA WelcomeFrame ==
    ASSUME TypeOK, [Next]_vars
    PROVE  \/ UNCHANGED welcome
           \/ \E r \in Requests : PostNotify(r) \/ EditClear(r) \/ FavoriteCommit(r)
           \/ \E u \in Users, s \in Submissions : Unfavorite(u, s)
           \/ Sends({"2030", "3030", "3035"})
           \/ Deletes
           \/ \E n : welcome' = welcome (-) SetToBag({n})
<1> DEFINE types == {"2030", "3030", "3035"}
<1>0. CallsOK /\ posted \subseteq Submissions
  BY DEF TypeOK, CallsOK
<1>1. ASSUME NEW r \in Requests, Submitting(r)
      PROVE  UNCHANGED welcome \/ PostNotify(r) \/ EditClear(r) \/ Deletes
  BY <1>1 DEF Submitting, PostInsert, HideUpdate, EditCheck, HideClear, EditUpdate, rows, Deletes
<1>2. ASSUME NEW r \in Requests, Favoriting(r)
      PROVE  UNCHANGED welcome \/ FavoriteCommit(r)
  BY <1>2 DEF Favoriting, FavoriteCheck, FavoriteOwners, rows
<1>c. ASSUME NEW r \in Requests, call[r].at \in Steps
      PROVE  /\ call[r].user \in Users /\ call[r].other \in Users /\ call[r].submit \in Submissions
             /\ {call[r].user, call[r].other, call[r].submit} \subseteq Ids
  BY <1>0, <1>c, RunningCall DEF Calls, Ids
<1>s. ASSUME NEW type \in types, NEW to \in SUBSET Users, NEW other \in Ids, NEW about \in Ids,
             welcome' = Sent(Notify(type, to, other, about))
      PROVE  Sends(types)
  <2>1. Notify(type, to, other, about) \subseteq OfType({type})
    BY NotifyTyped DEF Types
  <2>2. Notify(type, to, other, about) \in SUBSET OfType(types)
    BY <2>1 DEF OfType
  <2> QED
    BY <1>s, <2>2 DEF Sends
<1>3. ASSUME NEW r \in Requests, Offering(r)
      PROVE  UNCHANGED welcome \/ Sends(types)
  <2>1. ASSUME OfferNotify(r)
        PROVE  Sends(types)
    <3>1. call[r].at \in Steps
      BY <2>1 DEF OfferNotify, At, Steps
    <3>2. /\ {call[r].other} \in SUBSET Users /\ call[r].user \in Ids /\ call[r].submit \in Ids
      BY <1>c, <3>1
    <3> QED
      BY <1>s, <2>1, <3>2 DEF OfferNotify
  <2> HIDE DEF types
  <2> QED
    BY <1>3, <2>1 DEF Offering, OfferCheck, OfferInsert, rows
<1>4. ASSUME NEW r \in Requests, Requesting(r)
      PROVE  UNCHANGED welcome \/ Sends(types)
  <2>1. ASSUME RequestNotify(r)
        PROVE  Sends(types)
    <3>1. call[r].at \in Steps
      BY <2>1 DEF RequestNotify, At, Steps
    <3>2. /\ {call[r].other} \in SUBSET Users /\ call[r].user \in Ids /\ call[r].submit \in Ids
      BY <1>c, <3>1
    <3> QED
      BY <1>s, <2>1, <3>2 DEF RequestNotify
  <2> HIDE DEF types
  <2> QED
    BY <1>4, <2>1 DEF Requesting, RequestCheck, RequestThrottle, RequestInsert, rows
<1>5. ASSUME NEW r \in Requests, Deciding(r)
      PROVE  UNCHANGED welcome \/ Sends(types) \/ Deletes
  <2>1. ASSUME AcceptAnnounce(r)
        PROVE  Sends(types)
    <3>1. call[r].at \in Steps
      BY <2>1 DEF AcceptAnnounce, At, Steps
    <3>2. call[r].submit \in Ids /\ call[r].other \in Ids
      BY <1>c, <3>1
    <3>3. Watchers(call[r].submit) \in SUBSET Users
      BY DEF Watchers
    <3> QED
      BY <1>s, <2>1, <3>2, <3>3 DEF AcceptAnnounce, collection_insert
  <2>2. CASE AcceptClear(r) \/ RejectClear(r) \/ RemoveClear(r)
    BY <2>2 DEF AcceptClear, RejectClear, RemoveClear, collectrequest_remove, Deletes
  <2> HIDE DEF types
  <2> QED
    BY <1>5, <2>1, <2>2 DEF Deciding, AcceptUpdate, RejectDelete, RemoveDelete
<1>6. ASSUME NEW s, BulkEdit(s)
      PROVE  UNCHANGED welcome
  BY <1>6 DEF BulkEdit
<1>7. CASE UNCHANGED vars
  BY <1>7 DEF vars
<1> HIDE DEF types
<1>8. CASE Next
  <2>1. CASE \E r \in Requests :
                Submitting(r) \/ Favoriting(r) \/ Offering(r) \/ Requesting(r) \/ Deciding(r)
    BY <2>1, <1>1, <1>2, <1>3, <1>4, <1>5 DEF types
  <2>2. CASE \E s \in Submissions : BulkEdit(s) \/ \E u \in Users : Unfavorite(u, s)
    BY <2>2, <1>6
  <2>3. CASE \E n \in DOMAIN welcome : RemoveNotification(n)
    BY <2>3 DEF RemoveNotification
  <2> QED
    BY <1>8, <2>1, <2>2, <2>3 DEF Next
<1> QED
  BY <1>7, <1>8

\* What sending does to the notifications there were.
LEMMA SentTyped ==
    ASSUME NoticesOK, NEW types \in SUBSET Types, NEW S \in SUBSET OfType(types), welcome' = Sent(S)
    PROVE  /\ NoticesOK'
           /\ DOMAIN welcome' = DOMAIN welcome \cup S
           /\ \A n \in DOMAIN welcome : n.type \notin types => welcome'[n] = welcome[n]
<1>1. IsABag(welcome) /\ DOMAIN welcome \subseteq Notifications
  BY DEF NoticesOK, BagToSet
<1>2. /\ IsABag(welcome') /\ DOMAIN welcome' = DOMAIN welcome \cup S
      /\ \A n \in DOMAIN welcome \ S : welcome'[n] = welcome[n]
  BY <1>1, SentFacts DEF Sent
<1>3. \A n \in S : n \in Notifications /\ n.type \in types
  BY DEF OfType
<1> QED
  BY <1>1, <1>2, <1>3 DEF NoticesOK, BagToSet

\* What deleting does to those that are left.
LEMMA DeletedTyped ==
    ASSUME NoticesOK, NEW S, welcome' = Deleted(S)
    PROVE  /\ NoticesOK'
           /\ DOMAIN welcome' = DOMAIN welcome \ S
           /\ \A n \in DOMAIN welcome' : welcome'[n] = welcome[n]
<1>1. IsABag(welcome) /\ DOMAIN welcome \subseteq Notifications
  BY DEF NoticesOK, BagToSet
<1>2. /\ IsABag(welcome') /\ DOMAIN welcome' = DOMAIN welcome \ S
      /\ \A n \in DOMAIN welcome' : welcome'[n] = welcome[n]
  BY <1>1, RestrictFacts DEF Deleted
<1> QED
  BY <1>1, <1>2 DEF NoticesOK, BagToSet

\* Without new notices of favorites, and with the favorites there were, all are
\* still told once.
LEMMA ToldOnceKept ==
    ASSUME NoticesOK, NoticesOK', FavoriteToldOnce, favorite \subseteq favorite',
           \A n \in DOMAIN welcome' : n.type = "3020" => n \in DOMAIN welcome /\ welcome'[n] <= welcome[n]
    PROVE  FavoriteToldOnce'
<1> SUFFICES ASSUME NEW n \in DOMAIN welcome', n.type = "3020"
             PROVE  welcome'[n] = 1 /\ n.to = OwnerOf[n.about] /\ <<n.other, n.about>> \in favorite'
  BY DEF FavoriteToldOnce
<1>1. n \in DOMAIN welcome /\ welcome'[n] <= welcome[n]
  OBVIOUS
<1>2. welcome[n] = 1 /\ n.to = OwnerOf[n.about] /\ <<n.other, n.about>> \in favorite
  BY <1>1 DEF FavoriteToldOnce
<1>3. welcome'[n] \in Nat /\ welcome'[n] > 0
  BY DEF NoticesOK, IsABag
<1> QED
  BY <1>1, <1>2, <1>3

\* Every step keeps the notifications typed and tells of favorites once.
LEMMA NoticesStep ==
    ASSUME TypeOK, FavoriteToldOnce, [Next]_vars
    PROVE  NoticesOK' /\ FavoriteToldOnce'
<1>0. NoticesOK /\ CallsOK /\ favorite \subseteq Users \X posted /\ posted \subseteq Submissions
  BY DEF TypeOK, NoticesOK, CallsOK
<1>b. IsABag(welcome) /\ DOMAIN welcome \subseteq Notifications
  BY <1>0 DEF NoticesOK, BagToSet
<1>c. ASSUME NEW r \in Requests, call[r].at \in Steps
      PROVE  /\ call[r].user \in Users /\ call[r].other \in Users /\ call[r].submit \in Submissions
             /\ call[r].notify \in SUBSET Users
             /\ {call[r].user, call[r].other, call[r].submit} \subseteq Ids
  BY <1>0, <1>c, RunningCall DEF Calls, Ids
<1>1. ASSUME NEW r \in Requests, FavoriteCommit(r)
      PROVE  NoticesOK' /\ FavoriteToldOnce'
  <2>1. call[r].at \in Steps
    BY <1>1 DEF FavoriteCommit, At, Steps
  <2>2. PICK u \in Users, s \in Submissions, notify \in SUBSET Users :
            u = call[r].user /\ s = call[r].submit /\ notify = call[r].notify
    BY <1>c, <2>1
  <2>3. u \in Ids /\ s \in Ids
    BY DEF Ids
  <2>4. CASE <<u, s>> \in favorite
    <3>1. UNCHANGED <<favorite, welcome>>
      BY <1>1, <2>2, <2>4 DEF FavoriteCommit
    <3> QED
      BY <1>0, <3>1 DEF NoticesOK, FavoriteToldOnce
  <2>5. CASE <<u, s>> \notin favorite
    <3> DEFINE S == Notify("3020", notify \cap {OwnerOf[s]}, u, s)
                        \cup Notify("3050", notify \ {OwnerOf[s]}, u, s)
    <3>1. favorite' = favorite \cup {<<u, s>>} /\ welcome' = Sent(S)
      BY <1>1, <2>2, <2>5 DEF FavoriteCommit, FavoriteWrites
    <3>2. /\ Notify("3020", notify \cap {OwnerOf[s]}, u, s) \subseteq OfType({"3020"})
          /\ Notify("3050", notify \ {OwnerOf[s]}, u, s) \subseteq OfType({"3050"})
      BY <2>3, NotifyTyped DEF Types
    <3>3. S \in SUBSET OfType({"3020", "3050"})
      BY <3>2 DEF OfType
    <3>4. \A n \in S : n.type = "3020" => n.to = OwnerOf[s] /\ n.other = u /\ n.about = s
      BY DEF Notify
    <3>5. \A n \in DOMAIN welcome : n.type = "3020" => <<n.other, n.about>> \in favorite
      BY DEF FavoriteToldOnce
    <3>6. \A n \in S : n.type = "3020" => n \notin DOMAIN welcome
      BY <2>5, <3>4, <3>5
    <3> HIDE DEF S
    <3>7. NoticesOK' /\ DOMAIN welcome' = DOMAIN welcome \cup S
      BY <1>0, <3>1, <3>3, SentTyped DEF Types
    <3>8. /\ \A n \in DOMAIN welcome \ S : welcome'[n] = welcome[n]
          /\ \A n \in S \ DOMAIN welcome : welcome'[n] = 1
      <4>1. welcome' = welcome (+) SetToBag(S)
        BY <3>1 DEF Sent
      <4>2. /\ \A n \in DOMAIN welcome \ S : (welcome (+) SetToBag(S))[n] = welcome[n]
            /\ \A n \in S \ DOMAIN welcome : (welcome (+) SetToBag(S))[n] = 1
        BY <1>b, SentFacts
      <4> QED
        BY <4>1, <4>2, Zenon
    <3>9. FavoriteToldOnce'
      <4> SUFFICES ASSUME NEW n \in DOMAIN welcome', n.type = "3020"
                   PROVE  welcome'[n] = 1 /\ n.to = OwnerOf[n.about] /\ <<n.other, n.about>> \in favorite'
        BY DEF FavoriteToldOnce
      <4>1. CASE n \in S
        BY <3>1, <3>4, <3>6, <3>8, <4>1
      <4>2. CASE n \in DOMAIN welcome \ S
        <5>1. welcome[n] = 1 /\ n.to = OwnerOf[n.about] /\ <<n.other, n.about>> \in favorite
          BY <4>2 DEF FavoriteToldOnce
        <5> QED
          BY <3>1, <3>8, <4>2, <5>1
      <4> QED
        BY <3>7, <4>1, <4>2
    <3> QED
      BY <3>7, <3>9
  <2> QED
    BY <2>4, <2>5
<1>2. ASSUME NEW u \in Users, NEW s \in Submissions, Unfavorite(u, s)
      PROVE  NoticesOK' /\ FavoriteToldOnce'
  <2> DEFINE S == Among(LAMBDA n : n.type = "3020" /\ n.other = u /\ n.about = s)
  <2>1. favorite' = favorite \ {<<u, s>>} /\ welcome' = Deleted(S)
    BY <1>2 DEF Unfavorite
  <2>2. \A n \in DOMAIN welcome \ S : n.type = "3020" => <<n.other, n.about>> # <<u, s>>
    BY DEF Among
  <2> HIDE DEF S
  <2>3. /\ NoticesOK' /\ DOMAIN welcome' = DOMAIN welcome \ S
        /\ \A n \in DOMAIN welcome' : welcome'[n] = welcome[n]
    BY <1>0, <2>1, DeletedTyped
  <2> QED
    BY <2>1, <2>2, <2>3 DEF FavoriteToldOnce
<1>3. ASSUME UNCHANGED favorite,
             \/ UNCHANGED welcome
             \/ \E r \in Requests : PostNotify(r) \/ EditClear(r)
             \/ Sends({"2030", "3030", "3035"})
             \/ Deletes
             \/ \E n : welcome' = welcome (-) SetToBag({n})
      PROVE  NoticesOK' /\ FavoriteToldOnce'
  <2>1. CASE UNCHANGED welcome
    BY <1>0, <1>3, <2>1 DEF NoticesOK, FavoriteToldOnce
  <2>2. CASE Sends({"2010"}) \/ Sends({"2030", "3030", "3035"})
    <3>1. PICK types \in {{"2010"}, {"2030", "3030", "3035"}} : Sends(types)
      BY <2>2
    <3>2. PICK S \in SUBSET OfType(types) : welcome' = Sent(S)
      BY <3>1 DEF Sends
    <3>3. types \in SUBSET Types /\ "3020" \notin types
      BY DEF Types
    <3>4. /\ NoticesOK' /\ DOMAIN welcome' = DOMAIN welcome \cup S
          /\ \A n \in DOMAIN welcome : n.type \notin types => welcome'[n] = welcome[n]
      BY <1>0, <3>2, <3>3, SentTyped
    <3>5. \A n \in S : n.type # "3020"
      BY <3>3 DEF OfType
    <3>6. \A n \in DOMAIN welcome : welcome[n] \in Nat
      BY <1>b DEF IsABag
    <3>7. \A n \in DOMAIN welcome' : n.type = "3020" => n \in DOMAIN welcome /\ welcome'[n] <= welcome[n]
      BY <3>3, <3>4, <3>5, <3>6
    <3> QED
      BY <1>0, <1>3, <3>4, <3>7, ToldOnceKept
  <2>3. CASE Deletes
    <3>1. PICK S : welcome' = Deleted(S)
      BY <2>3 DEF Deletes
    <3>2. /\ NoticesOK' /\ DOMAIN welcome' = DOMAIN welcome \ S
          /\ \A n \in DOMAIN welcome' : welcome'[n] = welcome[n]
      BY <1>0, <3>1, DeletedTyped
    <3>3. \A n \in DOMAIN welcome : welcome[n] \in Nat
      BY <1>b DEF IsABag
    <3> QED
      BY <1>0, <1>3, <3>2, <3>3, ToldOnceKept
  <2>4. ASSUME NEW n, welcome' = welcome (-) SetToBag({n})
        PROVE  NoticesOK' /\ FavoriteToldOnce'
    <3>1. IsABag(welcome') /\ \A m \in DOMAIN welcome' : m \in DOMAIN welcome /\ welcome'[m] <= welcome[m]
      BY <1>b, <2>4, RemovedFacts
    <3>2. NoticesOK'
      BY <1>b, <3>1 DEF NoticesOK, BagToSet
    <3> QED
      BY <1>0, <1>3, <3>1, <3>2, ToldOnceKept
  <2>5. ASSUME NEW r \in Requests, PostNotify(r)
        PROVE  Sends({"2010"})
    <3>1. call[r].at \in Steps
      BY <2>5 DEF PostNotify, At, Steps
    <3>2. Notify("2010", call[r].notify, call[r].user, call[r].submit) \subseteq OfType({"2010"})
      BY <1>c, <3>1, NotifyTyped DEF Types
    <3>3. welcome' = Sent(Notify("2010", call[r].notify, call[r].user, call[r].submit))
      BY <2>5 DEF PostNotify
    <3> QED
      BY <3>2, <3>3 DEF Sends
  <2>6. ASSUME NEW r \in Requests, EditClear(r)
        PROVE  Deletes
    BY <2>6 DEF EditClear, Deletes
  <2> QED
    BY <1>3, <2>1, <2>2, <2>3, <2>4, <2>5, <2>6
<1> QED
  BY <1>1, <1>2, <1>3, FavoriteFrame, WelcomeFrame

-----------------------------------------------------------------------------
\* Who still has the notification of a posting.  Restricting, rather than
\* friends_only, because the deletion comes before the update: from the former
\* on, only friends have it, unless it is late.
FollowersTold ==
    /\ \A n \in DOMAIN welcome : n.type = "2010" =>
          /\ n.about \in posted /\ n.other = OwnerOf[n.about]
          /\ Restricting(n.about) /\ n.about \notin late => n.to \in FriendsOf(n.other)
    /\ \A r \in Requests : At(r, "post notify") => call[r].user = OwnerOf[call[r].submit]

\* The steps of a call that the invariants speak of: no call comes to one of
\* them but by the actions CallFrame names.
Guarded == {"post notify", "edit restrict", "request throttle", "request insert"}
Undisturbed == \A q \in Requests : call'[q] = call[q] \/ call'[q].at \notin Guarded

\* A call that moves to an unguarded step, or ends, disturbs no guarded one.
LEMMA Moved ==
    ASSUME CallsOK, NEW r \in Requests, NEW step \in Steps \ Guarded,
           \/ \E user, other, s : Begin(r, step, user, other, s)
           \/ call[r].at \in Steps /\ Goto(r, step)
           \/ End(r)
    PROVE  Undisturbed
<1>1. CASE \E user, other, s : Begin(r, step, user, other, s)
  <2>1. PICK c : c.at = step /\ call' = [call EXCEPT ![r] = c]
    BY <1>1 DEF Begin
  <2> QED
    BY <2>1 DEF CallsOK, Undisturbed
<1>2. CASE call[r].at \in Steps /\ Goto(r, step)
  <2>1. call[r] \in Calls
    BY <1>2, RunningCall
  <2>2. [call[r] EXCEPT !.at = step].at = step
    BY <2>1 DEF Calls
  <2> QED
    BY <1>2, <2>2 DEF CallsOK, Goto, Undisturbed
<1>3. CASE End(r)
  BY <1>3 DEF CallsOK, End, Idle, Guarded, Undisturbed
<1> QED
  BY <1>1, <1>2, <1>3

\* Only four actions bring a call to a guarded step.
LEMMA CallFrame ==
    ASSUME TypeOK, [Next]_vars
    PROVE  \/ Undisturbed
           \/ \E r \in Requests, s \in Submissions, restricted \in BOOLEAN : PostInsert(r, s, restricted)
           \/ \E r \in Requests : EditClear(r)
           \/ \E r \in Requests, c \in Users, s \in Submissions : RequestCheck(r, c, s)
           \/ \E r \in Requests : RequestThrottle(r)
<1>0. CallsOK
  BY DEF TypeOK, CallsOK
<1>s. {"hide clear", "edit clear", "edit open", "favorite owners", "offer insert", "offer notify",
       "request notify", "accept announce", "accept clear",
       "reject clear", "remove clear"} \subseteq Steps \ Guarded
  BY DEF Steps, Guarded
<1>1. ASSUME NEW r \in Requests, Submitting(r)
      PROVE  \/ Undisturbed
             \/ \E s \in Submissions, restricted \in BOOLEAN : PostInsert(r, s, restricted)
             \/ EditClear(r)
  <2>1. ASSUME NEW s \in Submissions, HideUpdate(r, s) \/ EditCheck(r, s)
        PROVE  Undisturbed
    <3>1. \E step \in {"hide clear", "edit clear", "edit open"} : \E user, other : Begin(r, step, user, other, s)
      BY <2>1 DEF HideUpdate, EditCheck
    <3> QED
      BY <1>0, <1>s, <3>1, Moved
  <2>2. CASE PostNotify(r) \/ HideClear(r) \/ EditUpdate(r)
    <3>1. End(r)
      BY <2>2 DEF PostNotify, HideClear, EditUpdate
    <3> QED
      BY <1>0, <1>s, <3>1, Moved
  <2> QED
    BY <1>1, <2>1, <2>2 DEF Submitting
<1>2. ASSUME NEW r \in Requests, Favoriting(r)
      PROVE  Undisturbed
  <2>1. CASE \E u \in Users, s \in Submissions : FavoriteCheck(r, u, s)
    <3>1. \E user, other, s : Begin(r, "favorite owners", user, other, s)
      BY <2>1 DEF FavoriteCheck
    <3> QED
      BY <1>0, <1>s, <3>1, Moved
  <2>2. CASE FavoriteOwners(r) /\ ~ End(r)
    <3>1. call[r].at \in Steps
      BY <2>2 DEF FavoriteOwners, At, Steps
    <3>2. call[r] \in Calls
      BY <1>0, <3>1, RunningCall
    <3> DEFINE c == [call[r] EXCEPT !.at = "favorite commit",
                                    !.notify = {OwnerOf[call[r].submit]} \cup Owners(call[r].submit)]
    <3>3. call' = [call EXCEPT ![r] = c]
      BY <1>0, <2>2 DEF FavoriteOwners, CallsOK
    <3>4. c.at \notin Guarded
      BY <3>2 DEF Calls, Guarded
    <3> HIDE DEF c
    <3> QED
      BY <1>0, <3>3, <3>4 DEF CallsOK, Undisturbed
  <2>3. CASE End(r)
    BY <1>0, <1>s, <2>3, Moved
  <2> QED
    BY <1>2, <2>1, <2>2, <2>3 DEF Favoriting, FavoriteCommit
<1>3. ASSUME NEW r \in Requests, Offering(r) \/ Requesting(r)
      PROVE  \/ Undisturbed
             \/ \E c \in Users, s \in Submissions : RequestCheck(r, c, s)
             \/ RequestThrottle(r)
  <2>1. CASE Offering(r) \/ RequestInsert(r) \/ RequestNotify(r)
    <3>1. \/ \E user, other, s : Begin(r, "offer insert", user, other, s)
          \/ /\ call[r].at \in Steps
             /\ \E step \in {"offer notify", "request notify"} : Goto(r, step)
          \/ End(r)
      BY <2>1 DEF Offering, OfferCheck, OfferInsert, OfferNotify, RequestInsert, RequestNotify, At, Steps
    <3> QED
      BY <1>0, <1>s, <3>1, Moved
  <2> QED
    BY <1>3, <2>1 DEF Requesting
<1>4. ASSUME NEW r \in Requests, Deciding(r)
      PROVE  Undisturbed
  <2>1. \/ \E step \in {"accept announce", "reject clear", "remove clear"} :
              \E user, other, s : Begin(r, step, user, other, s)
        \/ call[r].at \in Steps /\ Goto(r, "accept clear")
        \/ End(r)
    BY <1>4 DEF Deciding, AcceptUpdate, RejectDelete, RemoveDelete, AcceptAnnounce, AcceptClear,
         RejectClear, RemoveClear, At, Steps
  <2> QED
    BY <1>0, <1>s, <2>1, Moved
<1>5. ASSUME NEW s, NEW u, BulkEdit(s) \/ Unfavorite(u, s)
      PROVE  Undisturbed
  BY <1>5 DEF BulkEdit, Unfavorite, Undisturbed
<1>6. ASSUME NEW n, RemoveNotification(n)
      PROVE  Undisturbed
  BY <1>6 DEF RemoveNotification, Undisturbed
<1>7. CASE UNCHANGED vars
  BY <1>7 DEF vars, Undisturbed
<1>8. CASE Next
  BY <1>8, <1>1, <1>2, <1>3, <1>4, <1>5, <1>6 DEF Next
<1> QED
  BY <1>7, <1>8

\* A call that has just come to a guarded step did so by that step's action.
LEMMA Reached ==
    ASSUME TypeOK, [Next]_vars, NEW q \in Requests, call'[q] # call[q], call'[q].at \in Guarded
    PROVE  \/ /\ call'[q].at = "post notify"
              /\ \E s \in Submissions, restricted \in BOOLEAN : PostInsert(q, s, restricted)
           \/ call'[q].at = "edit restrict" /\ EditClear(q)
           \/ /\ call'[q].at = "request throttle"
              /\ \E c \in Users, s \in Submissions : RequestCheck(q, c, s)
           \/ call'[q].at = "request insert" /\ RequestThrottle(q)
<1>0. CallsOK
  BY DEF TypeOK, CallsOK
<1>i. "idle" \notin Guarded /\ Idle.at = "idle"
  BY DEF Guarded, Idle
<1>m. ASSUME NEW r \in Requests, NEW d, call' = [call EXCEPT ![r] = d]
      PROVE  q = r /\ call'[q] = d
  BY <1>0, <1>m DEF CallsOK
<1>g. ASSUME NEW r \in Requests, NEW step, Goto(r, step), call[r].at \in Steps
      PROVE  q = r /\ call'[q].at = step
  <2> DEFINE d == [call[r] EXCEPT !.at = step]
  <2>1. call' = [call EXCEPT ![r] = d]
    BY <1>g DEF Goto
  <2>2. d.at = step
    BY <1>0, <1>g, RunningCall DEF Calls
  <2> HIDE DEF d
  <2> QED
    BY <1>m, <2>1, <2>2
<1>1. ASSUME NEW r \in Requests, NEW s \in Submissions, NEW restricted \in BOOLEAN,
             PostInsert(r, s, restricted)
      PROVE  q = r /\ call'[q].at = "post notify"
  <2>1. PICK d : d.at = "post notify" /\ call' = [call EXCEPT ![r] = d]
    BY <1>1 DEF PostInsert
  <2> QED
    BY <1>m, <2>1
<1>2. ASSUME NEW r \in Requests, EditClear(r)
      PROVE  q = r /\ call'[q].at = "edit restrict"
  BY <1>2, <1>g DEF EditClear, At, Steps
<1>3. ASSUME NEW r \in Requests, NEW c \in Users, NEW s \in Submissions, RequestCheck(r, c, s)
      PROVE  q = r /\ call'[q].at = "request throttle"
  <2>1. PICK d : d.at = "request throttle" /\ call' = [call EXCEPT ![r] = d]
    BY <1>3 DEF RequestCheck, Begin
  <2> QED
    BY <1>m, <2>1
<1>4. ASSUME NEW r \in Requests, RequestThrottle(r)
      PROVE  q = r /\ call'[q].at = "request insert"
  <2>1. CASE End(r)
    BY <1>i, <1>m, <2>1 DEF End
  <2>2. CASE Goto(r, "request insert")
    BY <1>4, <1>g, <2>2 DEF RequestThrottle, At, Steps
  <2> QED
    BY <1>4, <2>1, <2>2 DEF RequestThrottle
<1>5. ~ Undisturbed
  BY DEF Undisturbed
<1> QED
  BY <1>1, <1>2, <1>3, <1>4, <1>5, CallFrame

\* A submission gets friends-only when it is posted or was being restricted.
LEMMA FriendsOnlyFrame ==
    ASSUME [Next]_vars, NEW s, s \in friends_only'
    PROVE  \/ Restricting(s)
           \/ s \notin posted
<1> DEFINE Kept == UNCHANGED friends_only
<1>1. ASSUME NEW r \in Requests, Submitting(r)
      PROVE  s \in friends_only \/ Restricting(s) \/ s \notin posted
  BY <1>1 DEF Submitting, PostInsert, HideUpdate, EditCheck, PostNotify, HideClear, EditClear,
       EditUpdate, rows, Restricting
<1>2. ASSUME NEW r, Favoriting(r) \/ Offering(r) \/ Requesting(r)
      PROVE  Kept
  BY <1>2 DEF Favoriting, FavoriteCheck, FavoriteOwners, FavoriteCommit,
       Offering, OfferCheck, OfferInsert, OfferNotify,
       Requesting, RequestCheck, RequestThrottle, RequestInsert, RequestNotify, rows
<1>3. ASSUME NEW r, Deciding(r)
      PROVE  Kept
  BY <1>3 DEF Deciding, AcceptUpdate, RejectDelete, RemoveDelete, AcceptAnnounce, AcceptClear,
       RejectClear, RemoveClear, rows
<1>4. ASSUME NEW t, NEW u, BulkEdit(t) \/ Unfavorite(u, t)
      PROVE  Kept
  BY <1>4 DEF BulkEdit, Unfavorite
<1>5. ASSUME NEW n, RemoveNotification(n)
      PROVE  Kept
  BY <1>5 DEF RemoveNotification, rows
<1>6. CASE UNCHANGED vars
  BY <1>6 DEF vars, rows, Restricting
<1>7. CASE Next
  <2>1. (s \in friends_only \/ Restricting(s) \/ s \notin posted) \/ Kept
    <3> HIDE DEF Kept
    <3> QED
      BY <1>7, <1>1, <1>2, <1>3, <1>4, <1>5 DEF Next
  <2> QED
    BY <2>1 DEF Restricting
<1> QED
  BY <1>6, <1>7

\* A submission only starts to be restricted when it is posted, and when the
\* notifications of strangers are deleted.
LEMMA RestrictingBefore ==
    ASSUME TypeOK, [Next]_vars, NEW s, Restricting(s)'
    PROVE  \/ Restricting(s)
           \/ s \notin posted
           \/ \E r \in Requests : EditClear(r) /\ call[r].submit = s
<1>0. CallsOK
  BY DEF TypeOK, CallsOK
<1>1. CASE s \in friends_only'
  BY <1>1, FriendsOnlyFrame
<1>2. ASSUME NEW q \in Requests, At(q, "edit restrict")', call'[q].submit = s
      PROVE  Restricting(s) \/ \E r \in Requests : EditClear(r) /\ call[r].submit = s
  <2>1. call'[q].at = "edit restrict"
    BY <1>2 DEF At
  <2>2. CASE call'[q] = call[q]
    BY <1>2, <2>1, <2>2 DEF Restricting, At
  <2>3. CASE call'[q] # call[q]
    <3>1. EditClear(q)
      BY <2>1, <2>3, Reached DEF Guarded
    <3>2. call[q].at \in Steps
      BY <3>1 DEF EditClear, At, Steps
    <3>3. call[q] \in Calls
      BY <1>0, <3>2, RunningCall
    <3>4. call'[q] = [call[q] EXCEPT !.at = "edit restrict"]
      BY <1>0, <3>1 DEF EditClear, Goto, CallsOK
    <3>5. call'[q].submit = call[q].submit
      BY <3>3, <3>4 DEF Calls
    <3> QED
      BY <1>2, <3>1, <3>5
  <2> QED
    BY <2>2, <2>3
<1> QED
  BY <1>1, <1>2 DEF Restricting

\* Every step keeps FollowersTold.
LEMMA FollowersStep ==
    ASSUME TypeOK, FavoriteToldOnce, FollowersTold, [Next]_vars
    PROVE  FollowersTold'
<1>0. NoticesOK /\ CallsOK /\ posted \subseteq Submissions
  BY DEF TypeOK, NoticesOK, CallsOK
<1>p. posted \subseteq posted' /\ late \subseteq late'
  BY RowsStep
<1>1. ASSUME NEW n \in DOMAIN welcome, n \in DOMAIN welcome', n.type = "2010"
      PROVE  /\ n.about \in posted' /\ n.other = OwnerOf[n.about]
             /\ Restricting(n.about)' /\ n.about \notin late' => n.to \in FriendsOf(n.other)
  <2>1. /\ n.about \in posted /\ n.other = OwnerOf[n.about]
        /\ Restricting(n.about) /\ n.about \notin late => n.to \in FriendsOf(n.other)
    BY <1>1 DEF FollowersTold
  <2>2. ASSUME NEW r \in Requests, EditClear(r), call[r].submit = n.about
        PROVE  n.to \in FriendsOf(n.other)
    <3> DEFINE S == {m \in NoticesOf(n.about) : m.to \notin FriendsOf(OwnerOf[n.about])}
    <3>1. welcome' = Deleted(S)
      BY <2>2 DEF EditClear
    <3>2. n \in NoticesOf(n.about)
      BY <1>1 DEF NoticesOf, Among
    <3>3. n \notin S
      <4> HIDE DEF S
      <4> QED
        BY <1>0, <1>1, <3>1, DeletedTyped
    <3> QED
      BY <2>1, <3>2, <3>3
  <2>3. ASSUME Restricting(n.about)', n.about \notin late'
        PROVE  n.to \in FriendsOf(n.other)
    <3>1. \/ Restricting(n.about)
          \/ \E r \in Requests : EditClear(r) /\ call[r].submit = n.about
      BY <2>1, <2>3, RestrictingBefore
    <3> QED
      BY <1>p, <2>1, <2>2, <2>3, <3>1
  <2> QED
    BY <1>p, <2>1, <2>3
<1>2. ASSUME NEW n \in DOMAIN welcome', n \notin DOMAIN welcome, n.type = "2010"
      PROVE  /\ n.about \in posted' /\ n.other = OwnerOf[n.about]
             /\ Restricting(n.about)' /\ n.about \notin late' => n.to \in FriendsOf(n.other)
  <2>1. ASSUME Deletes
        PROVE  FALSE
    BY <1>0, <1>2, <2>1, DeletedTyped DEF Deletes
  <2>2. ASSUME NEW r \in Requests, EditClear(r)
        PROVE  FALSE
    BY <2>1, <2>2 DEF EditClear, Deletes
  <2>3. ASSUME NEW types \in SUBSET Types, "2010" \notin types, Sends(types)
        PROVE  FALSE
    <3>1. PICK S \in SUBSET OfType(types) : welcome' = Sent(S)
      BY <2>3 DEF Sends
    <3>2. DOMAIN welcome' = DOMAIN welcome \cup S
      BY <1>0, <3>1, SentTyped
    <3> QED
      BY <1>2, <2>3, <3>2 DEF OfType
  <2>4. ASSUME NEW r \in Requests, FavoriteCommit(r)
        PROVE  FALSE
    <3>1. UNCHANGED welcome \/ Sends({"3020", "3050"})
      <4>1. CASE <<call[r].user, call[r].submit>> \in favorite
        BY <2>4, <4>1 DEF FavoriteCommit
      <4>2. CASE <<call[r].user, call[r].submit>> \notin favorite
        <5>1. call[r].at \in Steps
          BY <2>4 DEF FavoriteCommit, At, Steps
        <5>2. PICK u \in Users, s \in Submissions, notify \in SUBSET Users :
                  u = call[r].user /\ s = call[r].submit /\ notify = call[r].notify
          BY <1>0, <5>1, RunningCall DEF Calls
        <5>3. /\ Notify("3020", notify \cap {OwnerOf[s]}, u, s) \subseteq OfType({"3020"})
              /\ Notify("3050", notify \ {OwnerOf[s]}, u, s) \subseteq OfType({"3050"})
          BY NotifyTyped DEF Types, Ids
        <5>4. welcome' = Sent(Notify("3020", notify \cap {OwnerOf[s]}, u, s)
                                 \cup Notify("3050", notify \ {OwnerOf[s]}, u, s))
          BY <2>4, <4>2, <5>2 DEF FavoriteCommit, FavoriteWrites
        <5>5. Notify("3020", notify \cap {OwnerOf[s]}, u, s)
                  \cup Notify("3050", notify \ {OwnerOf[s]}, u, s) \in SUBSET OfType({"3020", "3050"})
          BY <5>3 DEF OfType
        <5> QED
          BY <5>4, <5>5 DEF Sends
      <4> QED
        BY <4>1, <4>2
    <3> QED
      BY <1>2, <2>3, <3>1 DEF Types
  <2>5. ASSUME NEW u \in Users, NEW s \in Submissions, Unfavorite(u, s)
        PROVE  FALSE
    BY <2>1, <2>5 DEF Unfavorite, Deletes
  <2>6. ASSUME NEW m, welcome' = welcome (-) SetToBag({m})
        PROVE  FALSE
    <3>1. IsABag(welcome)
      BY <1>0 DEF NoticesOK
    <3> QED
      BY <1>2, <2>6, <3>1, RemovedFacts
  <2>7. PICK r \in Requests : PostNotify(r)
    BY <1>2, <2>1, <2>2, <2>3, <2>4, <2>5, <2>6, WelcomeFrame DEF Types
  <2>8. call[r].at \in Steps
    BY <2>7 DEF PostNotify, At, Steps
  <2>9. PICK s \in posted, u \in Users, notify \in SUBSET Users :
            s = call[r].submit /\ u = call[r].user /\ notify = call[r].notify
    BY <1>0, <2>8, RunningCall DEF Calls
  <2>10. u = OwnerOf[s]
    BY <2>7, <2>9 DEF FollowersTold, PostNotify
  <2>11. /\ welcome' = Sent(Notify("2010", notify, u, s))
         /\ late' = IF Restricting(s) /\ ~notify \subseteq FriendsOf(OwnerOf[s])
                    THEN late \cup {s} ELSE late
    BY <2>7, <2>9 DEF PostNotify
  <2>12. Notify("2010", notify, u, s) \in SUBSET OfType({"2010"})
    BY <1>0, NotifyTyped DEF Types, Ids
  <2>13. n \in Notify("2010", notify, u, s)
    <3>1. DOMAIN welcome' = DOMAIN welcome \cup Notify("2010", notify, u, s)
      BY <1>0, <2>11, <2>12, SentTyped DEF Types
    <3> QED
      BY <1>2, <3>1
  <2>14. n.to \in notify /\ n.other = u /\ n.about = s
    BY <2>13 DEF Notify
  <2>15. ASSUME Restricting(s)', s \notin late'
         PROVE  n.to \in FriendsOf(u)
    <3>1. Restricting(s)
      BY <2>2, <2>15, RestrictingBefore
    <3>2. notify \subseteq FriendsOf(OwnerOf[s])
      BY <2>11, <2>15, <3>1
    <3> QED
      BY <2>10, <2>14, <3>2
  <2> QED
    BY <1>p, <2>10, <2>14, <2>15
<1>3. ASSUME NEW q \in Requests, At(q, "post notify")'
      PROVE  call'[q].user = OwnerOf[call'[q].submit]
  <2>1. call'[q].at = "post notify"
    BY <1>3 DEF At
  <2>2. CASE call'[q] = call[q]
    BY <2>1, <2>2 DEF FollowersTold, At
  <2>3. CASE call'[q] # call[q]
    <3>1. PICK t \in Submissions, restricted \in BOOLEAN : PostInsert(q, t, restricted)
      BY <2>1, <2>3, Reached DEF Guarded
    <3>2. PICK c : c.user = OwnerOf[t] /\ c.submit = t /\ call' = [call EXCEPT ![q] = c]
      BY <3>1 DEF PostInsert
    <3> QED
      BY <1>0, <3>2 DEF CallsOK
  <2> QED
    BY <2>2, <2>3
<1>4. \A n \in DOMAIN welcome' : n.type = "2010" =>
          /\ n.about \in posted' /\ n.other = OwnerOf[n.about]
          /\ Restricting(n.about)' /\ n.about \notin late' => n.to \in FriendsOf(n.other)
  BY <1>1, <1>2
<1> QED
  BY <1>3, <1>4 DEF FollowersTold, FriendsOf, Befriended

-----------------------------------------------------------------------------
\* The throttle: the requests there are, and those that have passed the count
\* and are not inserted yet, together respect the bound.
Asking(c, owner) ==
    {r \in Requests : At(r, "request insert") /\ call[r].user = c /\ call[r].other = owner}

AskedWithin ==
    /\ \A c, owner \in Users :
          Cardinality(RequestedOf(c, owner)) + Cardinality(Asking(c, owner))
              <= ThrottleLimit + Cardinality(Requests)
    /\ \A r \in Requests :
          call[r].at \in {"request throttle", "request insert"} => call[r].other = OwnerOf[call[r].submit]

\* The sets that are counted are finite.
LEMMA AskedFinite ==
    ASSUME NEW c, NEW owner
    PROVE  /\ IsFiniteSet(RequestedOf(c, owner)) /\ IsFiniteSet(Asking(c, owner))
           /\ Cardinality(RequestedOf(c, owner)) \in Nat
           /\ Cardinality(Asking(c, owner)) \in Nat
           /\ Cardinality(Requests) \in Nat
           /\ Cardinality(Asking(c, owner)) <= Cardinality(Requests)
<1>1. RequestedOf(c, owner) \subseteq Submissions /\ Asking(c, owner) \subseteq Requests
  BY DEF RequestedOf, Asking
<1> QED
  BY <1>1, FiniteAssumption, FS_Subset, FS_CardinalityType

\* Fewer of either keep the bound.
LEMMA FewerAsked ==
    ASSUME AskedWithin, NEW c \in Users, NEW owner \in Users,
           RequestedOf(c, owner)' \subseteq RequestedOf(c, owner),
           Asking(c, owner)' \subseteq Asking(c, owner)
    PROVE  Cardinality(RequestedOf(c, owner)') + Cardinality(Asking(c, owner)')
               <= ThrottleLimit + Cardinality(Requests)
<1> DEFINE R == RequestedOf(c, owner)
           A == Asking(c, owner)
<1>1. IsFiniteSet(R) /\ IsFiniteSet(A) /\ Cardinality(R) \in Nat /\ Cardinality(A) \in Nat
      /\ Cardinality(Requests) \in Nat
  BY AskedFinite
<1>2. Cardinality(R) + Cardinality(A) <= ThrottleLimit + Cardinality(Requests)
  BY DEF AskedWithin
<1>3. PICK R2, A2 : R2 = R' /\ A2 = A'
  OBVIOUS
<1>4. R2 \subseteq R /\ A2 \subseteq A
  BY <1>3
<1> HIDE DEF R, A
<1>5. /\ Cardinality(R2) <= Cardinality(R) /\ Cardinality(A2) <= Cardinality(A)
      /\ Cardinality(R2) \in Nat /\ Cardinality(A2) \in Nat
  BY <1>1, <1>4, FS_Subset, FS_CardinalityType
<1>6. Cardinality(R2) + Cardinality(A2) <= ThrottleLimit + Cardinality(Requests)
  BY <1>1, <1>2, <1>5, LimitAssumption
<1> QED
  BY <1>3, <1>6 DEF R, A

\* Only RequestInsert adds a pending request.
LEMMA RequestedFrame ==
    ASSUME TypeOK, [Next]_vars
    PROVE  \/ \A c, owner \in Users : RequestedOf(c, owner)' \subseteq RequestedOf(c, owner)
           \/ \E r \in Requests : RequestInsert(r)
<1> DEFINE Fewer == \A p \in Pairs : collection'[p] = "r" => collection[p] = "r"
<1>0. CollectionsOK
  BY DEF TypeOK, CollectionsOK
<1>s. ASSUME NEW c, NEW s, NEW row \in {"none", "p", "accepted"}, SetRow(c, s, row)
      PROVE  Fewer
  <2>1. row # "r" /\ collection' = [collection EXCEPT ![<<c, s>>] = row]
    BY <1>s DEF SetRow
  <2> QED
    BY <1>0, <2>1 DEF CollectionsOK
<1>1. ASSUME UNCHANGED collection
      PROVE  Fewer
  BY <1>1
<1>2. ASSUME NEW r \in Requests, OfferInsert(r)
      PROVE  Fewer
  <2>1. UNCHANGED collection \/ \E c, s : SetRow(c, s, "p")
    BY <1>2 DEF OfferInsert
  <2> HIDE DEF Fewer
  <2> QED
    BY <1>1, <1>s, <2>1
<1>3. ASSUME NEW r \in Requests, NEW u, NEW c, NEW s,
             AcceptUpdate(r, u, c, s) \/ RejectDelete(r, u, c, s) \/ RemoveDelete(r, c, s)
      PROVE  Fewer
  <2>1. UNCHANGED collection \/ \E row \in {"none", "accepted"} : SetRow(c, s, row)
    BY <1>3 DEF AcceptUpdate, RejectDelete, RemoveDelete
  <2> HIDE DEF Fewer
  <2> QED
    BY <1>1, <1>s, <2>1
<1>4. Fewer \/ \E r \in Requests : RequestInsert(r)
  <2> HIDE DEF Fewer
  <2> QED
    BY <1>1, <1>2, <1>3, CollectionFrame
<1>5. ASSUME Fewer
      PROVE  \A c, owner \in Users : RequestedOf(c, owner)' \subseteq RequestedOf(c, owner)
  BY <1>5 DEF RequestedOf, Pairs
<1> QED
  BY <1>4, <1>5

\* Only RequestThrottle adds a call about to insert one.
LEMMA AskingFrame ==
    ASSUME TypeOK, [Next]_vars
    PROVE  \/ \A c, owner : Asking(c, owner)' \subseteq Asking(c, owner)
           \/ \E r \in Requests : RequestThrottle(r)
<1> SUFFICES ASSUME \A r \in Requests : ~ RequestThrottle(r),
                    NEW c, NEW owner, NEW q \in Asking(c, owner)'
             PROVE  q \in Asking(c, owner)
  BY DEF Asking
<1>1. q \in Requests /\ call'[q].at = "request insert" /\ call'[q].user = c /\ call'[q].other = owner
  BY DEF Asking, At
<1>2. call'[q] = call[q]
  BY <1>1, Reached DEF Guarded
<1> QED
  BY <1>1, <1>2 DEF Asking, At

\* Every step keeps AskedWithin: an insertion moves one from the calls to the
\* rows, and the throttle lets a call pass only below the limit.
LEMMA AskedStep ==
    ASSUME TypeOK, AskedWithin, [Next]_vars
    PROVE  AskedWithin'
<1>0. CallsOK /\ CollectionsOK /\ posted \subseteq Submissions
  BY DEF TypeOK, CallsOK, CollectionsOK
<1>1. ASSUME NEW q \in Requests, call'[q].at \in {"request throttle", "request insert"}
      PROVE  call'[q].other = OwnerOf[call'[q].submit]
  <2>1. CASE call'[q] = call[q]
    BY <1>1, <2>1 DEF AskedWithin
  <2>2. ASSUME NEW c \in Users, NEW s \in Submissions, RequestCheck(q, c, s)
        PROVE  call'[q].other = OwnerOf[call'[q].submit]
    <3>1. PICK d : d.other = OwnerOf[s] /\ d.submit = s /\ call' = [call EXCEPT ![q] = d]
      BY <2>2 DEF RequestCheck, Begin
    <3> QED
      BY <1>0, <3>1 DEF CallsOK
  <2>3. ASSUME RequestThrottle(q), call'[q].at = "request insert"
        PROVE  call'[q].other = OwnerOf[call'[q].submit]
    <3>1. call[q].at \in Steps /\ call[q].at = "request throttle"
      BY <2>3 DEF RequestThrottle, At, Steps
    <3>2. call[q] \in Calls
      BY <1>0, <3>1, RunningCall
    <3>3. call'[q] = Idle \/ call'[q] = [call[q] EXCEPT !.at = "request insert"]
      BY <1>0, <2>3 DEF RequestThrottle, End, Goto, CallsOK
    <3>4. call'[q] # Idle
      <4>1. Idle.at = "idle"
        BY DEF Idle
      <4> QED
        BY <2>3, <4>1
    <3>5. call'[q].other = call[q].other /\ call'[q].submit = call[q].submit
      BY <3>2, <3>3, <3>4 DEF Calls
    <3> QED
      BY <3>1, <3>5 DEF AskedWithin
  <2> QED
    BY <1>1, <2>1, <2>2, <2>3, Reached DEF Guarded
<1> SUFFICES ASSUME NEW c \in Users, NEW owner \in Users
             PROVE  Cardinality(RequestedOf(c, owner)') + Cardinality(Asking(c, owner)')
                        <= ThrottleLimit + Cardinality(Requests)
  BY <1>1 DEF AskedWithin
<1>2. ASSUME NEW r \in Requests, RequestInsert(r)
      PROVE  Cardinality(RequestedOf(c, owner)') + Cardinality(Asking(c, owner)')
                 <= ThrottleLimit + Cardinality(Requests)
  <2>1. call[r].at \in Steps /\ call[r].at = "request insert"
    BY <1>2 DEF RequestInsert, At, Steps
  <2>2. PICK u \in Users, s \in Submissions : u = call[r].user /\ s = call[r].submit
    BY <1>0, <2>1, RunningCall DEF Calls
  <2>3. call[r].other = OwnerOf[s]
    BY <2>1, <2>2 DEF AskedWithin
  <2>4. /\ call' = [call EXCEPT ![r] = Idle] \/ call' = [call EXCEPT ![r].at = "request notify"]
        /\ UNCHANGED collection \/ SetRow(u, s, "r")
    BY <1>2, <2>2 DEF RequestInsert, End, Goto
  <2>5. call[r] \in Calls
    BY <1>0, <2>1, RunningCall
  <2>6. call'[r].at # "request insert" /\ \A q \in Requests \ {r} : call'[q] = call[q]
    <3>1. Idle.at = "idle" /\ [call[r] EXCEPT !.at = "request notify"].at = "request notify"
      BY <2>5 DEF Idle, Calls
    <3>2. call'[r] = Idle \/ call'[r] = [call[r] EXCEPT !.at = "request notify"]
      BY <1>0, <2>4 DEF CallsOK
    <3>3. \A q \in Requests \ {r} : call'[q] = call[q]
      BY <1>0, <2>4 DEF CallsOK
    <3> QED
      BY <3>1, <3>2, <3>3
  <2>7. Asking(c, owner)' \subseteq Asking(c, owner) \ {r}
    BY <2>6 DEF Asking, At
  <2>8. CASE u = c /\ OwnerOf[s] = owner
    <3>1. r \in Asking(c, owner)
      BY <2>1, <2>2, <2>3, <2>8 DEF Asking, At
    <3>2. RequestedOf(c, owner)' \subseteq RequestedOf(c, owner) \cup {s}
      BY <1>0, <2>4, <2>8 DEF RequestedOf, SetRow, CollectionsOK, Pairs
    <3>3. PICK R, A, R2, A2 : /\ R = RequestedOf(c, owner) /\ A = Asking(c, owner)
                              /\ R2 = RequestedOf(c, owner)' /\ A2 = Asking(c, owner)'
      OBVIOUS
    <3>4. /\ IsFiniteSet(R) /\ IsFiniteSet(A) /\ Cardinality(R) \in Nat /\ Cardinality(A) \in Nat
          /\ Cardinality(Requests) \in Nat
          /\ Cardinality(R) + Cardinality(A) <= ThrottleLimit + Cardinality(Requests)
      BY <3>3, AskedFinite DEF AskedWithin
    <3>5. /\ IsFiniteSet(R \cup {s}) /\ Cardinality(R \cup {s}) <= Cardinality(R) + 1
          /\ Cardinality(R \cup {s}) \in Nat
      <4>1. IsFiniteSet(R \cup {s})
            /\ Cardinality(R \cup {s}) = IF s \in R THEN Cardinality(R) ELSE Cardinality(R) + 1
        BY <3>4, FS_AddElement
      <4> QED
        BY <3>4, <4>1
    <3>6. IsFiniteSet(A \ {r}) /\ Cardinality(A \ {r}) = Cardinality(A) - 1
      BY <3>1, <3>3, <3>4, FS_RemoveElement
    <3>7. R2 \subseteq R \cup {s} /\ A2 \subseteq A \ {r}
      BY <2>7, <3>2, <3>3
    <3>8. /\ Cardinality(R2) <= Cardinality(R \cup {s}) /\ Cardinality(A2) <= Cardinality(A \ {r})
          /\ Cardinality(R2) \in Nat /\ Cardinality(A2) \in Nat
      BY <3>5, <3>6, <3>7, FS_Subset, FS_CardinalityType
    <3>9. Cardinality(R2) + Cardinality(A2) <= ThrottleLimit + Cardinality(Requests)
      BY <3>4, <3>5, <3>6, <3>8, LimitAssumption
    <3> QED
      BY <3>3, <3>9
  <2>9. CASE ~ (u = c /\ OwnerOf[s] = owner)
    <3>1. RequestedOf(c, owner)' \subseteq RequestedOf(c, owner)
      BY <1>0, <2>4, <2>9 DEF RequestedOf, SetRow, CollectionsOK, Pairs
    <3> QED
      BY <2>7, <3>1, FewerAsked
  <2> QED
    BY <2>8, <2>9
<1>3. ASSUME NEW r \in Requests, RequestThrottle(r)
      PROVE  Cardinality(RequestedOf(c, owner)') + Cardinality(Asking(c, owner)')
                 <= ThrottleLimit + Cardinality(Requests)
  <2>1. RequestedOf(c, owner)' = RequestedOf(c, owner)
    BY <1>3 DEF RequestThrottle, RequestedOf, rows
  <2>2. CASE Throttled(c, owner) \/ ~ (call[r].user = c /\ call[r].other = owner)
    <3>1. call[r].at \in Steps
      BY <1>3 DEF RequestThrottle, At, Steps
    <3>2. call[r] \in Calls
      BY <1>0, <3>1, RunningCall
    <3>3. Asking(c, owner)' \subseteq Asking(c, owner)
      <4> SUFFICES ASSUME NEW q \in Requests, call'[q].at = "request insert",
                          call'[q].user = c, call'[q].other = owner
                   PROVE  q \in Asking(c, owner)
        BY DEF Asking, At
      <4>1. CASE call'[q] = call[q]
        BY <4>1 DEF Asking, At
      <4>2. CASE q = r
        <5>1. call'[r] = Idle \/ call'[r] = [call[r] EXCEPT !.at = "request insert"]
          BY <1>0, <1>3 DEF RequestThrottle, End, Goto, CallsOK
        <5>i. Idle.at = "idle"
          BY DEF Idle
        <5>2. call'[r].user = call[r].user /\ call'[r].other = call[r].other
          BY <3>2, <4>2, <5>1, <5>i DEF Calls
        <5>3. Throttled(call[r].user, call[r].other)
          BY <2>2, <4>2, <5>2
        <5>4. call'[r] = Idle
          BY <1>0, <1>3, <5>3 DEF RequestThrottle, End, CallsOK
        <5> QED
          BY <4>2, <5>4, <5>i
      <4>3. q = r \/ call'[q] = call[q]
        BY <1>0, <1>3 DEF RequestThrottle, End, Goto, CallsOK
      <4> QED
        BY <4>1, <4>2, <4>3
    <3> QED
      BY <2>1, <3>3, FewerAsked
  <2>3. CASE ~ Throttled(c, owner)
    <3>1. PICK R, R2, A2 : /\ R = RequestedOf(c, owner)
                           /\ R2 = RequestedOf(c, owner)' /\ A2 = Asking(c, owner)'
      OBVIOUS
    <3>2. Cardinality(R) \in Nat /\ Cardinality(R) <= ThrottleLimit
      BY <2>3, <3>1, AskedFinite, LimitAssumption DEF Throttled
    <3>3. A2 \subseteq Requests /\ R2 = R
      BY <2>1, <3>1 DEF Asking
    <3>4. Cardinality(A2) <= Cardinality(Requests) /\ Cardinality(A2) \in Nat /\ Cardinality(Requests) \in Nat
      BY <3>3, FiniteAssumption, FS_Subset, FS_CardinalityType
    <3>5. Cardinality(R2) + Cardinality(A2) <= ThrottleLimit + Cardinality(Requests)
      BY <3>2, <3>3, <3>4, LimitAssumption
    <3> QED
      BY <3>1, <3>5
  <2> QED
    BY <2>2, <2>3
<1> QED
  BY <1>2, <1>3, FewerAsked, RequestedFrame, AskingFrame

-----------------------------------------------------------------------------
IInv ==
    /\ TypeOK
    /\ FavoritesCounted
    /\ FavoriteToldOnce
    /\ Consent
    /\ FollowersTold
    /\ AskedWithin

\* The invariant holds at the beginning.
LEMMA InitIInv == Init => IInv
<1> SUFFICES ASSUME Init PROVE IInv
  OBVIOUS
<1>1. DOMAIN EmptyBag = {} /\ IsABag(EmptyBag)
  BY DEF EmptyBag, SetToBag, IsABag
<1>2. \A r \in Requests : call[r] = Idle /\ ~At(r, "post notify")
  BY DEF Init, Idle, At
<1>3. TypeOK
  BY <1>1, <1>2 DEF Init, TypeOK, BagToSet, Pairs
<1>4. FavoritesCounted
  <2>1. \A s \in Submissions : {u \in Users : <<u, s>> \in favorite} = {} /\ favorites[s] = 0
    BY DEF Init
  <2> QED
    BY <2>1, FS_EmptySet DEF FavoritesCounted
<1>5. FavoriteToldOnce /\ FollowersTold
  BY <1>1, <1>2 DEF Init, FavoriteToldOnce, FollowersTold
<1>6. Consent
  BY DEF Init, Consent
<1>7. AskedWithin
  <2>1. \A c, owner \in Users : RequestedOf(c, owner) = {} /\ Asking(c, owner) = {}
    BY <1>2 DEF Init, RequestedOf, Asking, Pairs, At, Idle
  <2>2. \A r \in Requests : call[r].at \notin {"request throttle", "request insert"}
    <3>1. Idle.at = "idle"
      BY DEF Idle
    <3> QED
      BY <1>2, <3>1
  <2>3. Cardinality({}) = 0 /\ Cardinality(Requests) \in Nat
    BY FS_EmptySet, FS_CardinalityType, FiniteAssumption
  <2>4. ASSUME NEW c \in Users, NEW owner \in Users
        PROVE  Cardinality(RequestedOf(c, owner)) + Cardinality(Asking(c, owner))
                   <= ThrottleLimit + Cardinality(Requests)
    <3>1. Cardinality(RequestedOf(c, owner)) = 0 /\ Cardinality(Asking(c, owner)) = 0
      BY <2>1, <2>3
    <3> QED
      BY <2>3, <3>1, LimitAssumption
  <2> QED
    BY <2>2, <2>4 DEF AskedWithin
<1> QED
  BY <1>3, <1>4, <1>5, <1>6, <1>7 DEF IInv

\* Every step keeps the invariant.
LEMMA NextIInv == IInv /\ [Next]_vars => IInv'
<1> SUFFICES ASSUME IInv, [Next]_vars PROVE IInv'
  OBVIOUS
<1>0. TypeOK /\ FavoritesCounted /\ FavoriteToldOnce /\ Consent /\ FollowersTold /\ AskedWithin
  BY DEF IInv
<1>1. CallsOK'
  BY <1>0, CallsStep
<1>2. posted \subseteq posted' /\ RowsOK'
  BY <1>0, RowsStep
<1>3. favorites' \in [Submissions -> Nat] /\ favorite' \subseteq Users \X posted' /\ FavoritesCounted'
  BY <1>0, <1>2, FavoritesStep
<1>4. CollectionsOK' /\ Consent'
  BY <1>0, ConsentStep
<1>5. NoticesOK' /\ FavoriteToldOnce'
  BY <1>0, NoticesStep
<1>6. FollowersTold'
  BY <1>0, FollowersStep
<1>7. AskedWithin'
  BY <1>0, AskedStep
<1>8. TypeOK'
  BY <1>1, <1>2, <1>3, <1>4, <1>5 DEF CallsOK, RowsOK, CollectionsOK, NoticesOK, TypeOK
<1> QED
  BY <1>3, <1>4, <1>5, <1>6, <1>7, <1>8 DEF IInv

\* The invariant holds always.
LEMMA Invariance == Spec => []IInv
  BY InitIInv, NextIInv, PTL DEF Spec

\* Every variable keeps its type: among the rest, a favorite and a call in
\* progress are of a submission that exists (there is no action that deletes
\* one), and every notification names users and submissions.
THEOREM TypeCorrect == Spec => []TypeOK
<1>1. IInv => TypeOK
  BY DEF IInv
<1> QED
  BY <1>1, Invariance, PTL

\* The counter of favorites is the number of its rows (favorite.insert and
\* remove), for any number of calls that overlap.
THEOREM FavoritesAreCounted == Spec => []FavoritesCounted
<1>1. IInv => FavoritesCounted
  BY DEF IInv
<1> QED
  BY <1>1, Invariance, PTL

\* An owner has one notification of a favorite at most, and none of one that has
\* been taken back (welcome.favorite_insert and favorite_remove).
THEOREM FavoritesAreToldOnce == Spec => []FavoriteToldOnce
<1>1. IInv => FavoriteToldOnce
  BY DEF IInv
<1> QED
  BY <1>1, Invariance, PTL

\* Nothing is collected without the consent of both, however offers, requests,
\* decisions and removals overlap (weasyl/collection.py).
THEOREM CollectedByConsent == Spec => []Consent
<1>1. IInv => Consent
  BY DEF IInv
<1> QED
  BY <1>1, Invariance, PTL

\* Strangers lose the notification of a submission that becomes friends-only
\* (welcome.submission_became_friends_only, submission.edit).
THEOREM StrangersAreNotTold == Spec => []KeptFromStrangers
<1>1. IInv => KeptFromStrangers
  BY DEF IInv, FollowersTold, KeptFromStrangers, Restricting
<1> QED
  BY <1>1, Invariance, PTL

\* A user's requests to one owner exceed the limit by no more than the number of
\* calls that may count them at the same time (collection._check_throttle).
THEOREM RequestsAreThrottled == Spec => []RequestsThrottled
<1>1. IInv => RequestsThrottled
  <2> SUFFICES ASSUME IInv, NEW c \in Users, NEW owner \in Users
               PROVE  Cardinality(RequestedOf(c, owner)) <= ThrottleLimit + Cardinality(Requests)
    BY DEF RequestsThrottled
  <2>1. Cardinality(RequestedOf(c, owner)) + Cardinality(Asking(c, owner))
            <= ThrottleLimit + Cardinality(Requests)
    BY DEF IInv, AskedWithin
  <2> QED
    BY <2>1, AskedFinite, LimitAssumption
<1> QED
  BY <1>1, Invariance, PTL
=============================================================================
