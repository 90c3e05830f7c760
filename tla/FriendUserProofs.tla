-------------------------- MODULE FriendUserProofs ---------------------------
(***************************************************************************)
(* The invariants of FriendUser for any set of users.                      *)
(***************************************************************************)
EXTENDS FriendUser, TLAPS

-----------------------------------------------------------------------------
\* The strengthening that is inductive.

\* A row an open ignoreuser.insert() deletes stays there, and nobody else
\* deletes it, until that transaction commits.
Locks ==
    /\ \A u \in Users : \A p \in deleting[u] : frienduser[p] # "none"
    /\ \A u, w \in Users : u # w => deleting[u] \cap deleting[w] = {}

\* A row between a user and those the user is blocking is going to be deleted,
\* unless its request was late.
BlockCatches ==
    \A u \in Users : \A v \in ignoring[u] :
        /\ u # v
        /\ \A p \in Couple(u, v) :
              frienduser[p] # "none" => p \in deleting[u] \/ p \in overtaken

\* What a request has checked still holds, unless a block has overtaken it.
ChecksHold ==
    \A p \in Pairs \ overtaken :
        /\ requesting[p] # "idle" => Reverse(p) \notin ignoreuser
        /\ requesting[p] = "allowed" => p \notin ignoreuser

\* The histories are about couples.
BothWays ==
    \A p \in Pairs :
        /\ p \in overtaken <=> Reverse(p) \in overtaken
        /\ p \in severed <=> Reverse(p) \in severed

Inv ==
    /\ TypeOK
    /\ OneRow
    /\ Consent
    /\ OneRequestNotification
    /\ NotificationsTrue
    /\ BlockParts
    /\ Locks
    /\ BlockCatches
    /\ ChecksHold
    /\ BothWays

-----------------------------------------------------------------------------
\* A pair is made of two users, and so is its reverse.
LEMMA PairFacts ==
    ASSUME NEW p \in Pairs
    PROVE  /\ p = <<p[1], p[2]>> /\ p[1] \in Users /\ p[2] \in Users /\ p[1] # p[2]
           /\ Reverse(p) \in Pairs /\ Reverse(p) # p /\ Reverse(Reverse(p)) = p
           /\ Couple(p[1], p[2]) = {p, Reverse(p)}
BY DEF Pairs, Reverse, Couple

\* Two users make two pairs, each the reverse of the other.
LEMMA CoupleFacts ==
    ASSUME NEW u \in Users, NEW v \in Users, u # v
    PROVE  /\ <<u, v>> \in Pairs /\ <<v, u>> \in Pairs /\ <<u, v>> # <<v, u>>
           /\ Reverse(<<u, v>>) = <<v, u>> /\ Reverse(<<v, u>>) = <<u, v>>
           /\ Couple(u, v) = {<<u, v>>, <<v, u>>}
           /\ \A p \in Pairs : p \in Couple(u, v) <=> Reverse(p) \in Couple(u, v)
BY DEF Pairs, Reverse, Couple

\* Either pair of two users stands for the two of them.
LEMMA CoupleOf ==
    ASSUME NEW u \in Users, NEW v \in Users, u # v, NEW p \in Couple(u, v)
    PROVE  /\ p \in Pairs /\ Reverse(p) \in Pairs
           /\ Couple(u, v) = {p, Reverse(p)}
           /\ p = <<u, v>> \/ p = <<v, u>>
<1>1. CASE p = <<u, v>>
  <2>1. Reverse(p) = <<v, u>>
    BY <1>1 DEF Reverse
  <2>2. <<u, v>> \in Pairs /\ <<v, u>> \in Pairs
    BY CoupleFacts
  <2> QED BY <1>1, <2>1, <2>2 DEF Couple
<1>2. CASE p = <<v, u>>
  <2>1. Reverse(p) = <<u, v>>
    BY <1>2 DEF Reverse
  <2>2. <<u, v>> \in Pairs /\ <<v, u>> \in Pairs
    BY CoupleFacts
  <2> QED BY <1>2, <2>1, <2>2 DEF Couple
<1> QED BY <1>1, <1>2 DEF Couple

\* The first check of request(): nobody who is blocked gets past it.
LEMMA CheckIgnoredYouStep ==
    ASSUME Inv, NEW u \in Users, NEW v \in Users, u # v, CheckIgnoredYou(u, v)
    PROVE  Inv'
<1>t. TypeOK
  BY DEF Inv
<1>o. OneRow
  BY DEF Inv
<1>c. Consent
  BY DEF Inv
<1>q. OneRequestNotification
  BY DEF Inv
<1>n. NotificationsTrue
  BY DEF Inv
<1>b. BlockParts
  BY DEF Inv
<1>l. Locks
  BY DEF Inv
<1>k. BlockCatches
  BY DEF Inv
<1>h. ChecksHold
  BY DEF Inv
<1>w. BothWays
  BY DEF Inv
<1>1. UNCHANGED <<frienduser, ignoreuser, requests, accepts, ignoring, deleting,
                  asked, severed, overtaken>>
  BY DEF CheckIgnoredYou, tables, history
<1>2. <<u, v>> \in Pairs /\ Reverse(<<u, v>>) = <<v, u>>
  BY CoupleFacts
<1>3. requesting \in [Pairs -> {"idle", "checked", "allowed"}]
  BY <1>t DEF TypeOK
<1>4. requesting' \in [Pairs -> {"idle", "checked", "allowed"}]
  BY <1>2, <1>3 DEF CheckIgnoredYou
<1>5. TypeOK'
  BY <1>1, <1>4, <1>t DEF TypeOK
<1>6. ChecksHold'
  BY <1>1, <1>2, <1>3, <1>h DEF CheckIgnoredYou, ChecksHold
<1>7. OneRow'
  BY <1>1, <1>o DEF OneRow
<1>8. Consent'
  BY <1>1, <1>c DEF Consent
<1>9. OneRequestNotification'
  BY <1>1, <1>q DEF OneRequestNotification
<1>10. NotificationsTrue'
  BY <1>1, <1>n DEF NotificationsTrue
<1>11. BlockParts'
  BY <1>1, <1>b DEF BlockParts
<1>12. Locks'
  BY <1>1, <1>l DEF Locks
<1>13. BlockCatches'
  BY <1>1, <1>k DEF BlockCatches
<1>14. BothWays'
  BY <1>1, <1>w DEF BothWays
<1> QED BY <1>5, <1>6, <1>7, <1>8, <1>9, <1>10, <1>11, <1>12, <1>13, <1>14 DEF Inv

\* The second check of request().
LEMMA CheckYouIgnoredStep ==
    ASSUME Inv, NEW u \in Users, NEW v \in Users, u # v, CheckYouIgnored(u, v)
    PROVE  Inv'
<1>t. TypeOK
  BY DEF Inv
<1>o. OneRow
  BY DEF Inv
<1>c. Consent
  BY DEF Inv
<1>q. OneRequestNotification
  BY DEF Inv
<1>n. NotificationsTrue
  BY DEF Inv
<1>b. BlockParts
  BY DEF Inv
<1>l. Locks
  BY DEF Inv
<1>k. BlockCatches
  BY DEF Inv
<1>h. ChecksHold
  BY DEF Inv
<1>w. BothWays
  BY DEF Inv
<1>1. UNCHANGED <<frienduser, ignoreuser, requests, accepts, ignoring, deleting,
                  asked, severed, overtaken>>
  BY DEF CheckYouIgnored, tables, history
<1>2. <<u, v>> \in Pairs /\ Reverse(<<u, v>>) = <<v, u>>
  BY CoupleFacts
<1>3. requesting \in [Pairs -> {"idle", "checked", "allowed"}]
  BY <1>t DEF TypeOK
<1>4. requesting' \in [Pairs -> {"idle", "checked", "allowed"}]
  BY <1>2, <1>3 DEF CheckYouIgnored
<1>5. TypeOK'
  BY <1>1, <1>4, <1>t DEF TypeOK
<1>6. ChecksHold'
  BY <1>1, <1>2, <1>3, <1>h DEF CheckYouIgnored, ChecksHold
<1>7. OneRow'
  BY <1>1, <1>o DEF OneRow
<1>8. Consent'
  BY <1>1, <1>c DEF Consent
<1>9. OneRequestNotification'
  BY <1>1, <1>q DEF OneRequestNotification
<1>10. NotificationsTrue'
  BY <1>1, <1>n DEF NotificationsTrue
<1>11. BlockParts'
  BY <1>1, <1>b DEF BlockParts
<1>12. Locks'
  BY <1>1, <1>l DEF Locks
<1>13. BlockCatches'
  BY <1>1, <1>k DEF BlockCatches
<1>14. BothWays'
  BY <1>1, <1>w DEF BothWays
<1> QED BY <1>5, <1>6, <1>7, <1>8, <1>9, <1>10, <1>11, <1>12, <1>13, <1>14 DEF Inv

\* ignoreuser.remove() only ends a block.
LEMMA UnignoreStep ==
    ASSUME Inv, NEW u \in Users, NEW v \in Users, u # v, Unignore(u, v)
    PROVE  Inv'
<1>t. TypeOK
  BY DEF Inv
<1>o. OneRow
  BY DEF Inv
<1>c. Consent
  BY DEF Inv
<1>q. OneRequestNotification
  BY DEF Inv
<1>n. NotificationsTrue
  BY DEF Inv
<1>b. BlockParts
  BY DEF Inv
<1>l. Locks
  BY DEF Inv
<1>k. BlockCatches
  BY DEF Inv
<1>h. ChecksHold
  BY DEF Inv
<1>w. BothWays
  BY DEF Inv
<1>1. UNCHANGED <<frienduser, requests, accepts, requesting, ignoring, deleting,
                  asked, severed, overtaken>>
  BY DEF Unignore, history
<1>2. ignoreuser' \subseteq ignoreuser
  BY DEF Unignore
<1>3. TypeOK'
  BY <1>1, <1>2, <1>t DEF TypeOK
<1>4. BlockParts'
  BY <1>1, <1>2, <1>b DEF BlockParts
<1>5. ChecksHold'
  BY <1>1, <1>2, <1>h DEF ChecksHold
<1>6. OneRow'
  BY <1>1, <1>o DEF OneRow
<1>7. Consent'
  BY <1>1, <1>c DEF Consent
<1>8. OneRequestNotification'
  BY <1>1, <1>q DEF OneRequestNotification
<1>9. NotificationsTrue'
  BY <1>1, <1>n DEF NotificationsTrue
<1>10. Locks'
  BY <1>1, <1>l DEF Locks
<1>11. BlockCatches'
  BY <1>1, <1>k DEF BlockCatches
<1>12. BothWays'
  BY <1>1, <1>w DEF BothWays
<1> QED BY <1>3, <1>4, <1>5, <1>6, <1>7, <1>8, <1>9, <1>10, <1>11, <1>12 DEF Inv

\* message.remove() only takes notifications away.
LEMMA RemoveNotificationStep ==
    ASSUME Inv, NEW u \in Users, NEW v \in Users, u # v, RemoveNotification(u, v)
    PROVE  Inv'
<1>t. TypeOK
  BY DEF Inv
<1>o. OneRow
  BY DEF Inv
<1>c. Consent
  BY DEF Inv
<1>q. OneRequestNotification
  BY DEF Inv
<1>n. NotificationsTrue
  BY DEF Inv
<1>b. BlockParts
  BY DEF Inv
<1>l. Locks
  BY DEF Inv
<1>k. BlockCatches
  BY DEF Inv
<1>h. ChecksHold
  BY DEF Inv
<1>w. BothWays
  BY DEF Inv
<1>1. UNCHANGED <<frienduser, ignoreuser, requesting, ignoring, deleting,
                  asked, severed, overtaken>>
  BY DEF RemoveNotification, history
<1> DEFINE p == <<u, v>>
<1>2. p \in Pairs
  BY CoupleFacts
<1>3. requests \in [Pairs -> Nat] /\ accepts \in [Pairs -> Nat]
  BY <1>t DEF TypeOK
<1>4. \/ /\ requests[p] > 0 /\ accepts' = accepts
         /\ requests' = [requests EXCEPT ![p] = requests[p] - 1]
      \/ /\ accepts[p] > 0 /\ requests' = requests
         /\ accepts' = [accepts EXCEPT ![p] = accepts[p] - 1]
  BY DEF RemoveNotification
<1> HIDE DEF p
<1>5. requests' \in [Pairs -> Nat] /\ accepts' \in [Pairs -> Nat]
  <2>1. CASE /\ requests[p] > 0 /\ accepts' = accepts
             /\ requests' = [requests EXCEPT ![p] = requests[p] - 1]
    <3>1. requests[p] - 1 \in Nat
      BY <1>2, <1>3, <2>1
    <3> QED BY <1>3, <2>1, <3>1
  <2>2. CASE /\ accepts[p] > 0 /\ requests' = requests
             /\ accepts' = [accepts EXCEPT ![p] = accepts[p] - 1]
    <3>1. accepts[p] - 1 \in Nat
      BY <1>2, <1>3, <2>2
    <3> QED BY <1>3, <2>2, <3>1
  <2> QED BY <1>4, <2>1, <2>2
<1>6. TypeOK'
  BY <1>1, <1>5, <1>t DEF TypeOK
<1>7. \A q \in Pairs : q # p => requests'[q] = requests[q] /\ accepts'[q] = accepts[q]
  <2>1. CASE /\ accepts' = accepts
             /\ requests' = [requests EXCEPT ![p] = requests[p] - 1]
    BY <1>3, <2>1, Zenon
  <2>2. CASE /\ requests' = requests
             /\ accepts' = [accepts EXCEPT ![p] = accepts[p] - 1]
    BY <1>3, <2>2, Zenon
  <2> QED BY <1>4, <2>1, <2>2
<1>8. /\ requests[p] \in {0, 1} => requests'[p] \in {0, 1}
      /\ requests'[p] # 0 => requests[p] # 0
      /\ accepts'[p] # 0 => accepts[p] # 0
      /\ accepts[p] = 1 => accepts'[p] \in {0, 1}
  <2>1. CASE /\ requests[p] > 0 /\ accepts' = accepts
             /\ requests' = [requests EXCEPT ![p] = requests[p] - 1]
    <3>1. accepts'[p] = accepts[p]
      BY <2>1, Zenon
    <3>2. requests'[p] = requests[p] - 1 /\ requests[p] > 0 /\ requests[p] \in Nat
      BY <1>2, <1>3, <2>1
    <3> QED BY <3>1, <3>2
  <2>2. CASE /\ accepts[p] > 0 /\ requests' = requests
             /\ accepts' = [accepts EXCEPT ![p] = accepts[p] - 1]
    <3>1. requests'[p] = requests[p]
      BY <2>2, Zenon
    <3>2. accepts'[p] = accepts[p] - 1 /\ accepts[p] > 0 /\ accepts[p] \in Nat
      BY <1>2, <1>3, <2>2
    <3> QED BY <3>1, <3>2
  <2> QED BY <1>4, <2>1, <2>2
<1>9. OneRequestNotification'
  BY <1>7, <1>8, <1>q DEF OneRequestNotification
<1>10. NotificationsTrue'
  <2> SUFFICES ASSUME NEW q \in Pairs, q \notin severed
               PROVE  /\ requests'[q] # 0 => frienduser[Reverse(q)] = "p"
                      /\ accepts'[q] # 0 => accepts'[q] = 1 /\ frienduser[q] = ""
    BY <1>1 DEF NotificationsTrue
  <2>1. /\ requests[q] # 0 => frienduser[Reverse(q)] = "p"
        /\ accepts[q] # 0 => accepts[q] = 1 /\ frienduser[q] = ""
    BY <1>n DEF NotificationsTrue
  <2>2. CASE q # p
    BY <1>7, <2>1, <2>2
  <2>3. CASE q = p
    BY <1>8, <2>1, <2>3
  <2> QED BY <2>2, <2>3
<1>11. OneRow'
  BY <1>1, <1>o DEF OneRow
<1>12. Consent'
  BY <1>1, <1>c DEF Consent
<1>13. BlockParts'
  BY <1>1, <1>b DEF BlockParts
<1>14. Locks'
  BY <1>1, <1>l DEF Locks
<1>15. BlockCatches'
  BY <1>1, <1>k DEF BlockCatches
<1>16. ChecksHold'
  BY <1>1, <1>h DEF ChecksHold
<1>17. BothWays'
  BY <1>1, <1>w DEF BothWays
<1> QED BY <1>6, <1>9, <1>10, <1>11, <1>12, <1>13, <1>14, <1>15, <1>16, <1>17 DEF Inv

\* remove_request(): the pending row of this direction goes, if there is one.
LEMMA RemoveRequestStep ==
    ASSUME Inv, NEW u \in Users, NEW v \in Users, u # v, RemoveRequest(u, v)
    PROVE  Inv'
<1>t. TypeOK
  BY DEF Inv
<1>o. OneRow
  BY DEF Inv
<1>c. Consent
  BY DEF Inv
<1>q. OneRequestNotification
  BY DEF Inv
<1>n. NotificationsTrue
  BY DEF Inv
<1>b. BlockParts
  BY DEF Inv
<1>l. Locks
  BY DEF Inv
<1>k. BlockCatches
  BY DEF Inv
<1>h. ChecksHold
  BY DEF Inv
<1>w. BothWays
  BY DEF Inv
<1> DEFINE p == <<u, v>>
<1>1. UNCHANGED <<ignoreuser, accepts, requesting, ignoring, deleting, severed, overtaken>>
  BY DEF RemoveRequest
<1>2. /\ p \in Pairs /\ <<v, u>> = Reverse(p) /\ Reverse(p) \in Pairs /\ Reverse(p) # p
      /\ Couple(u, v) = {p, Reverse(p)}
      /\ \A q \in Pairs : Reverse(q) \in Pairs /\ Reverse(Reverse(q)) = q
  BY CoupleFacts, PairFacts
<1>3. /\ frienduser \in [Pairs -> {"none", "p", ""}]
      /\ requests \in [Pairs -> Nat]
      /\ accepts \in [Pairs -> Nat]
      /\ asked \subseteq Pairs
  BY <1>t DEF TypeOK
<1>4. \/ /\ frienduser[p] = "p"
         /\ frienduser' = [frienduser EXCEPT ![p] = "none"]
         /\ asked' = asked \ {p, Reverse(p)}
      \/ frienduser[p] # "p" /\ frienduser' = frienduser /\ asked' = asked
  BY <1>2 DEF RemoveRequest
<1>5. requests' = [requests EXCEPT ![Reverse(p)] = 0]
  BY <1>2 DEF RemoveRequest
<1>6. \A w \in Users : p \notin deleting[w]
  BY <1>2 DEF RemoveRequest, Unlocked
<1> HIDE DEF p
<1>7. \A q \in Pairs : /\ frienduser'[q] = frienduser[q] \/ frienduser'[q] = "none"
                       /\ frienduser'[q] # frienduser[q] => q = p
  BY <1>2, <1>3, <1>4
<1>8. frienduser' \in [Pairs -> {"none", "p", ""}] /\ asked' \subseteq Pairs
  BY <1>3, <1>4
<1>9. TypeOK'
  <2>1. requests' \in [Pairs -> Nat]
    BY <1>3, <1>5
  <2> QED BY <1>1, <1>8, <2>1, <1>t DEF TypeOK
<1>10. OneRow'
  BY <1>2, <1>7, <1>o DEF OneRow
<1>11. Consent'
  <2>1. CASE frienduser[p] = "p" /\ frienduser' = [frienduser EXCEPT ![p] = "none"]
             /\ asked' = asked \ {p, Reverse(p)}
    <3>1. frienduser[Reverse(p)] = "none"
      BY <1>2, <2>1, <1>o DEF OneRow
    <3> QED BY <1>2, <1>3, <2>1, <3>1, <1>c DEF Consent
  <2>2. CASE frienduser' = frienduser /\ asked' = asked
    BY <2>2, <1>c DEF Consent
  <2> QED BY <1>4, <2>1, <2>2
<1>12. \A q \in Pairs : requests'[q] = IF q = Reverse(p) THEN 0 ELSE requests[q]
  BY <1>3, <1>5
<1>13. OneRequestNotification'
  BY <1>12, <1>q DEF OneRequestNotification
<1>14. NotificationsTrue'
  <2> SUFFICES ASSUME NEW q \in Pairs, q \notin severed
               PROVE  /\ requests'[q] # 0 => frienduser'[Reverse(q)] = "p"
                      /\ accepts[q] # 0 => accepts[q] = 1 /\ frienduser'[q] = ""
    BY <1>1 DEF NotificationsTrue
  <2>1. /\ requests[q] # 0 => frienduser[Reverse(q)] = "p"
        /\ accepts[q] # 0 => accepts[q] = 1 /\ frienduser[q] = ""
    BY <1>n DEF NotificationsTrue
  <2>2. q # Reverse(p) => frienduser'[Reverse(q)] = frienduser[Reverse(q)]
    BY <1>2, <1>7
  <2>3. frienduser[q] = "" => frienduser'[q] = ""
    BY <1>2, <1>3, <1>4
  <2> QED BY <1>12, <2>1, <2>2, <2>3
<1>15. BlockParts'
  <2>1. \A q \in ignoreuser : q \in Pairs
    BY <1>t DEF TypeOK
  <2> QED BY <1>1, <1>2, <1>7, <2>1, <1>b DEF BlockParts
<1>16. Locks'
  <2>1. \A w \in Users : \A q \in deleting[w] : q \in Pairs
    BY <1>t DEF TypeOK
  <2> QED BY <1>1, <1>6, <1>7, <2>1, <1>l DEF Locks
<1>17. BlockCatches'
  <2>1. \A x \in Users : \A y \in ignoring[x] : y \in Users /\ x # y
    BY <1>t, <1>k DEF TypeOK, BlockCatches
  <2>2. \A x \in Users : \A y \in ignoring[x] : \A q \in Couple(x, y) : q \in Pairs
    BY <2>1, CoupleOf
  <2> QED BY <1>1, <1>7, <2>2, <1>k DEF BlockCatches
<1>18. ChecksHold'
  BY <1>1, <1>h DEF ChecksHold
<1>19. BothWays'
  BY <1>1, <1>w DEF BothWays
<1> QED BY <1>9, <1>10, <1>11, <1>13, <1>14, <1>15, <1>16, <1>17, <1>18, <1>19 DEF Inv
\* remove(): what the step does to each row and each notification.
LEMMA RemoveEffect ==
    ASSUME Inv, NEW u \in Users, NEW v \in Users, u # v, Remove(u, v)
    PROVE  \E p \in Couple(u, v) :
             /\ p \in Pairs /\ Reverse(p) \in Pairs
             /\ Couple(u, v) = {p, Reverse(p)}
             /\ frienduser[p] # "none" /\ frienduser[Reverse(p)] = "none"
             /\ frienduser' = [q \in Pairs |->
                                 IF q \in {p, Reverse(p)} THEN "none" ELSE frienduser[q]]
             /\ \/ /\ frienduser[p] = "p"
                   /\ requests' = [requests EXCEPT ![Reverse(p)] = 0]
                   /\ accepts' = accepts
                \/ /\ frienduser[p] = ""
                   /\ requests' = requests
                   /\ accepts' = [accepts EXCEPT ![p] = 0]
             /\ asked' = asked \ {p, Reverse(p)}
             /\ \A w \in Users : p \notin deleting[w] /\ Reverse(p) \notin deleting[w]
<1>t. TypeOK
  BY DEF Inv
<1>o. OneRow
  BY DEF Inv
<1>1. PICK p \in Couple(u, v) :
          /\ frienduser[p] # "none"
          /\ frienduser' = [q \in Pairs |->
                               IF q \in Couple(u, v) THEN "none" ELSE frienduser[q]]
          /\ IF frienduser[p] = "p"
             THEN /\ requests' = [requests EXCEPT ![Reverse(p)] = 0]
                  /\ accepts' = accepts
             ELSE /\ accepts' = [accepts EXCEPT ![p] = 0]
                  /\ requests' = requests
  BY DEF Remove
<1>2. p \in Pairs /\ Reverse(p) \in Pairs /\ Couple(u, v) = {p, Reverse(p)}
  BY CoupleOf
<1>3. frienduser[Reverse(p)] = "none"
  BY <1>1, <1>2, <1>o DEF OneRow
<1>4. frienduser[p] \in {"none", "p", ""}
  BY <1>2, <1>t DEF TypeOK
<1>5. \A w \in Users : p \notin deleting[w] /\ Reverse(p) \notin deleting[w]
  BY <1>2 DEF Remove, Unlocked
<1>6. asked' = asked \ {p, Reverse(p)}
  BY <1>2 DEF Remove
<1> QED BY <1>1, <1>2, <1>3, <1>4, <1>5, <1>6

\* remove() keeps the invariant.
LEMMA RemoveStep ==
    ASSUME Inv, NEW u \in Users, NEW v \in Users, u # v, Remove(u, v)
    PROVE  Inv'
<1>t. TypeOK
  BY DEF Inv
<1>o. OneRow
  BY DEF Inv
<1>c. Consent
  BY DEF Inv
<1>q. OneRequestNotification
  BY DEF Inv
<1>n. NotificationsTrue
  BY DEF Inv
<1>b. BlockParts
  BY DEF Inv
<1>l. Locks
  BY DEF Inv
<1>k. BlockCatches
  BY DEF Inv
<1>h. ChecksHold
  BY DEF Inv
<1>w. BothWays
  BY DEF Inv
<1>1. PICK p \in Couple(u, v) :
             /\ p \in Pairs /\ Reverse(p) \in Pairs
             /\ Couple(u, v) = {p, Reverse(p)}
             /\ frienduser[p] # "none" /\ frienduser[Reverse(p)] = "none"
             /\ frienduser' = [q \in Pairs |->
                                 IF q \in {p, Reverse(p)} THEN "none" ELSE frienduser[q]]
             /\ \/ /\ frienduser[p] = "p"
                   /\ requests' = [requests EXCEPT ![Reverse(p)] = 0]
                   /\ accepts' = accepts
                \/ /\ frienduser[p] = ""
                   /\ requests' = requests
                   /\ accepts' = [accepts EXCEPT ![p] = 0]
             /\ asked' = asked \ {p, Reverse(p)}
             /\ \A w \in Users : p \notin deleting[w] /\ Reverse(p) \notin deleting[w]
  BY RemoveEffect
<1>2. UNCHANGED <<ignoreuser, requesting, ignoring, deleting, severed, overtaken>>
  BY DEF Remove
<1>3. /\ frienduser \in [Pairs -> {"none", "p", ""}]
      /\ requests \in [Pairs -> Nat]
      /\ accepts \in [Pairs -> Nat]
  BY <1>t DEF TypeOK
<1>4. TypeOK'
  <2>1. frienduser' \in [Pairs -> {"none", "p", ""}]
    BY <1>1, <1>3
  <2>2. requests' \in [Pairs -> Nat] /\ accepts' \in [Pairs -> Nat]
    <3>1. CASE requests' = [requests EXCEPT ![Reverse(p)] = 0] /\ accepts' = accepts
      BY <1>3, <3>1
    <3>2. CASE requests' = requests /\ accepts' = [accepts EXCEPT ![p] = 0]
      BY <1>3, <3>2
    <3> QED BY <1>1, <3>1, <3>2
  <2>3. asked' \subseteq Pairs
    BY <1>1, <1>t DEF TypeOK
  <2> QED BY <1>2, <2>1, <2>2, <2>3, <1>t DEF TypeOK
<1>r. \A q \in Pairs : Reverse(q) \in Pairs /\ Reverse(Reverse(q)) = q
  BY PairFacts
<1>5. OneRow'
  BY <1>1, <1>r, <1>o DEF OneRow
<1>6. Consent'
  BY <1>1, <1>r, <1>c DEF Consent
<1>7. OneRequestNotification'
  <2> SUFFICES ASSUME NEW q \in Pairs
               PROVE  requests'[q] \in {0, 1}
    BY DEF OneRequestNotification
  <2>1. requests[q] \in {0, 1} /\ requests[q] \in Nat
    BY <1>3, <1>q DEF OneRequestNotification
  <2>2. requests'[q] = requests[q] \/ requests'[q] = 0
    BY <1>1, <1>3
  <2> QED BY <2>1, <2>2
<1>8. NotificationsTrue'
  <2> SUFFICES ASSUME NEW q \in Pairs, q \notin severed
               PROVE  /\ requests'[q] # 0 => frienduser'[Reverse(q)] = "p"
                      /\ accepts'[q] # 0 => accepts'[q] = 1 /\ frienduser'[q] = ""
    BY <1>2 DEF NotificationsTrue
  <2>1. /\ requests[q] # 0 => frienduser[Reverse(q)] = "p"
        /\ accepts[q] # 0 => accepts[q] = 1 /\ frienduser[q] = ""
    BY <1>n DEF NotificationsTrue
  <2>2. CASE q \notin {p, Reverse(p)}
    <3>1. Reverse(q) \notin {p, Reverse(p)}
      BY <1>1, <1>r, <2>2
    <3>2. requests'[q] = requests[q] /\ accepts'[q] = accepts[q]
      BY <1>1, <1>3, <2>2
    <3>3. frienduser'[q] = frienduser[q] /\ frienduser'[Reverse(q)] = frienduser[Reverse(q)]
      BY <1>1, <1>r, <2>2, <3>1
    <3> QED BY <2>1, <3>2, <3>3
  <2>3. CASE q \in {p, Reverse(p)}
    <3>1. requests[q] \in Nat /\ accepts[q] \in Nat
      BY <1>3
    <3>2. requests'[q] = requests[q] \/ requests'[q] = 0
      BY <1>1, <1>3
    <3>3. accepts'[q] = accepts[q] \/ accepts'[q] = 0
      BY <1>1, <1>3
    <3>4. CASE q = p
      <4>0. frienduser[Reverse(q)] = "none"
        BY <1>1, <3>4
      <4>1. requests[q] = 0
        BY <2>1, <3>1, <4>0
      <4>2. accepts'[q] = 0
        <5>1. CASE frienduser[p] = "p"
          BY <1>1, <2>1, <3>1, <3>3, <3>4, <5>1
        <5>2. CASE frienduser[p] = ""
          BY <1>1, <1>3, <3>4, <5>2
        <5> QED BY <1>1, <5>1, <5>2
      <4> QED BY <3>2, <4>1, <4>2
    <3>5. CASE q = Reverse(p)
      <4>0. frienduser[q] = "none" /\ Reverse(q) = p
        BY <1>1, <1>r, <3>5
      <4>1. accepts[q] = 0
        BY <2>1, <3>1, <4>0
      <4>2. requests'[q] = 0
        <5>1. CASE frienduser[p] = ""
          BY <2>1, <3>1, <3>2, <4>0, <5>1
        <5>2. CASE frienduser[p] = "p"
          BY <1>1, <1>3, <3>5, <5>2
        <5> QED BY <1>1, <5>1, <5>2
      <4> QED BY <3>3, <4>1, <4>2
    <3> QED BY <2>3, <3>4, <3>5
  <2> QED BY <2>2, <2>3
<1>9. BlockParts'
  BY <1>1, <1>2, <1>r, <1>b, <1>t DEF BlockParts, TypeOK
<1>10. Locks'
  BY <1>1, <1>2, <1>l, <1>t DEF Locks, TypeOK
<1>11. BlockCatches'
  <2> SUFFICES ASSUME NEW x \in Users, NEW y \in ignoring[x]
               PROVE  /\ x # y
                      /\ \A q \in Couple(x, y) :
                            frienduser'[q] # "none" => q \in deleting[x] \/ q \in overtaken
    BY <1>2 DEF BlockCatches
  <2>1. /\ x # y
        /\ \A q \in Couple(x, y) :
              frienduser[q] # "none" => q \in deleting[x] \/ q \in overtaken
    BY <1>k DEF BlockCatches
  <2>2. y \in Users
    BY <1>t DEF TypeOK
  <2>3. \A q \in Couple(x, y) : q \in Pairs
    BY <2>1, <2>2, CoupleOf
  <2> QED BY <1>1, <2>1, <2>3
<1>12. ChecksHold'
  BY <1>2, <1>h DEF ChecksHold
<1>13. BothWays'
  BY <1>2, <1>w DEF BothWays
<1> QED BY <1>4, <1>5, <1>6, <1>7, <1>8, <1>9, <1>10, <1>11, <1>12, <1>13 DEF Inv

\* request()'s transaction creates a row, accepts the other user's, or leaves
\* everything as it is.
LEMMA RequestStep ==
    ASSUME Inv, NEW u \in Users, NEW v \in Users, u # v, Request(u, v)
    PROVE  Inv'
<1>t. TypeOK
  BY DEF Inv
<1>o. OneRow
  BY DEF Inv
<1>c. Consent
  BY DEF Inv
<1>q. OneRequestNotification
  BY DEF Inv
<1>n. NotificationsTrue
  BY DEF Inv
<1>b. BlockParts
  BY DEF Inv
<1>l. Locks
  BY DEF Inv
<1>k. BlockCatches
  BY DEF Inv
<1>h. ChecksHold
  BY DEF Inv
<1>w. BothWays
  BY DEF Inv
<1> DEFINE p == <<u, v>>
           r == <<v, u>>
<1>1. /\ UNCHANGED <<ignoreuser, ignoring, deleting, severed>>
      /\ requesting[p] = "allowed"
      /\ requesting' = [requesting EXCEPT ![p] = "idle"]
  BY DEF Request
<1>2. /\ p \in Pairs /\ r \in Pairs /\ r = Reverse(p) /\ p = Reverse(r) /\ r # p
      /\ Couple(u, v) = {p, r}
      /\ \A q \in Pairs : Reverse(q) \in Pairs /\ Reverse(Reverse(q)) = q /\ Reverse(q) # q
  BY CoupleFacts, PairFacts
<1>3. /\ frienduser \in [Pairs -> {"none", "p", ""}]
      /\ requests \in [Pairs -> Nat]
      /\ accepts \in [Pairs -> Nat]
      /\ requesting \in [Pairs -> {"idle", "checked", "allowed"}]
      /\ asked \subseteq Pairs /\ overtaken \subseteq Pairs
  BY <1>t DEF TypeOK
<1>4. \/ /\ frienduser[p] = "none" /\ frienduser[r] = "none"
         /\ frienduser' = [frienduser EXCEPT ![p] = "p"]
         /\ requests' = [requests EXCEPT ![r] = 1]
         /\ accepts' = accepts
         /\ asked' = asked \cup {p}
      \/ /\ frienduser[r] = "p"
         /\ frienduser' = [frienduser EXCEPT ![r] = ""]
         /\ requests' = [requests EXCEPT ![p] = 0]
         /\ accepts' = [accepts EXCEPT ![r] = accepts[r] + 1]
         /\ asked' = asked \cup {p}
      \/ UNCHANGED <<frienduser, requests, accepts, asked>>
  BY DEF Request, Created, Accepted, AlreadyThere
<1>5. \A w \in Users : p \notin deleting[w] /\ r \notin deleting[w]
  BY <1>2 DEF Request, Unlocked
<1>6. overtaken' = overtaken \/ overtaken' = overtaken \cup {p, r}
  BY <1>2 DEF Request
<1>7. v \in ignoring[u] \/ u \in ignoring[v] => p \in overtaken' /\ r \in overtaken'
  BY <1>2 DEF Request, BeingBlocked
<1>8. \A x \in Users : \A y \in ignoring[x] :
         (p \in Couple(x, y) \/ r \in Couple(x, y)) => p \in overtaken' /\ r \in overtaken'
  <2> SUFFICES ASSUME NEW x \in Users, NEW y \in ignoring[x],
                      p \in Couple(x, y) \/ r \in Couple(x, y)
               PROVE  p \in overtaken' /\ r \in overtaken'
    OBVIOUS
  <2>1. (x = u /\ y = v) \/ (x = v /\ y = u)
    BY DEF Couple
  <2> QED BY <1>7, <2>1
<1> HIDE DEF p, r
<1>9. \A q \in Pairs : frienduser'[q] = frienduser[q] \/ q \in {p, r}
  BY <1>2, <1>3, <1>4
<1>10. \A q \in Pairs : frienduser[q] = "none" => frienduser'[q] = "none" \/ q = p
  BY <1>2, <1>3, <1>4
<1>11. TypeOK'
  <2>1. frienduser' \in [Pairs -> {"none", "p", ""}]
    BY <1>3, <1>4
  <2>r. requests' \in [Pairs -> Nat]
    <3>1. [requests EXCEPT ![r] = 1] \in [Pairs -> Nat]
      BY <1>3
    <3>2. [requests EXCEPT ![p] = 0] \in [Pairs -> Nat]
      BY <1>3
    <3> QED BY <1>3, <1>4, <3>1, <3>2, Zenon
  <2>3. accepts' \in [Pairs -> Nat]
    <3>1. accepts[r] \in Nat
      BY <1>2, <1>3
    <3>2. accepts[r] + 1 \in Nat
      BY <3>1
    <3> QED BY <1>3, <1>4, <3>2
  <2>4. requesting' \in [Pairs -> {"idle", "checked", "allowed"}]
    BY <1>1, <1>3
  <2>5. asked' \subseteq Pairs /\ overtaken' \subseteq Pairs
    BY <1>2, <1>3, <1>4, <1>6
  <2> QED BY <1>1, <2>1, <2>r, <2>3, <2>4, <2>5, <1>t DEF TypeOK
<1>12. OneRow' /\ Consent' /\ OneRequestNotification' /\ NotificationsTrue'
  <2>1. CASE /\ frienduser[p] = "none" /\ frienduser[r] = "none"
              /\ frienduser' = [frienduser EXCEPT ![p] = "p"]
              /\ requests' = [requests EXCEPT ![r] = 1]
              /\ accepts' = accepts
              /\ asked' = asked \cup {p}
    <3>1. \A q \in Pairs : /\ frienduser'[q] = IF q = p THEN "p" ELSE frienduser[q]
                           /\ requests'[q] = IF q = r THEN 1 ELSE requests[q]
      BY <1>3, <2>1
    <3>2. OneRow'
      BY <1>2, <2>1, <3>1, <1>o DEF OneRow
    <3>3. r \notin asked
      BY <1>2, <2>1, <1>c DEF Consent
    <3>4. Consent'
      <4> SUFFICES ASSUME NEW q \in Pairs
                   PROVE  /\ frienduser'[q] = "p" => q \in asked' /\ Reverse(q) \notin asked'
                          /\ frienduser'[q] = "" => q \in asked' /\ Reverse(q) \in asked'
                          /\ frienduser'[q] = "none" /\ frienduser'[Reverse(q)] = "none"
                               => q \notin asked'
        BY DEF Consent
      <4>1. /\ frienduser[q] = "p" => q \in asked /\ Reverse(q) \notin asked
            /\ frienduser[q] = "" => q \in asked /\ Reverse(q) \in asked
            /\ frienduser[q] = "none" /\ frienduser[Reverse(q)] = "none" => q \notin asked
        BY <1>c DEF Consent
      <4>a. /\ frienduser'[p] = "p" /\ frienduser'[r] = "none"
            /\ p \in asked' /\ r \notin asked'
        BY <1>2, <2>1, <3>1, <3>3
      <4>b. Reverse(p) = r /\ Reverse(r) = p
        BY <1>2
      <4>2. CASE q = p
        BY <4>a, <4>b, <4>2
      <4>3. CASE q = r
        BY <4>a, <4>b, <4>3
      <4>4. CASE q \notin {p, r}
        <5>1. Reverse(q) \in Pairs /\ Reverse(q) \notin {p, r}
          BY <1>2, <4>4
        <5> QED BY <2>1, <3>1, <4>1, <4>4, <5>1
      <4> QED BY <4>2, <4>3, <4>4
    <3>5. OneRequestNotification'
      BY <3>1, <1>q DEF OneRequestNotification
    <3>6. NotificationsTrue'
      <4> SUFFICES ASSUME NEW q \in Pairs, q \notin severed
                   PROVE  /\ requests'[q] # 0 => frienduser'[Reverse(q)] = "p"
                          /\ accepts'[q] # 0 => accepts'[q] = 1 /\ frienduser'[q] = ""
        BY <1>1 DEF NotificationsTrue
      <4>1. /\ requests[q] # 0 => frienduser[Reverse(q)] = "p"
            /\ accepts[q] # 0 => accepts[q] = 1 /\ frienduser[q] = ""
        BY <1>n DEF NotificationsTrue
      <4>2. CASE q = p
        BY <1>2, <2>1, <3>1, <4>1, <4>2
      <4>3. CASE q = r
        BY <1>2, <2>1, <3>1, <4>1, <4>3
      <4>4. CASE q \notin {p, r}
        <5>1. Reverse(q) \in Pairs /\ Reverse(q) \notin {p, r}
          BY <1>2, <4>4
        <5> QED BY <1>2, <2>1, <3>1, <4>1, <4>4, <5>1
      <4> QED BY <4>2, <4>3, <4>4
    <3> QED BY <3>2, <3>4, <3>5, <3>6
  <2>2. CASE /\ frienduser[r] = "p"
              /\ frienduser' = [frienduser EXCEPT ![r] = ""]
              /\ requests' = [requests EXCEPT ![p] = 0]
              /\ accepts' = [accepts EXCEPT ![r] = accepts[r] + 1]
              /\ asked' = asked \cup {p}
    <3>1. \A q \in Pairs : /\ frienduser'[q] = IF q = r THEN "" ELSE frienduser[q]
                           /\ requests'[q] = IF q = p THEN 0 ELSE requests[q]
                           /\ accepts'[q] = IF q = r THEN accepts[r] + 1 ELSE accepts[q]
      BY <1>3, <2>2
    <3>2. OneRow'
      BY <1>2, <2>2, <3>1, <1>o DEF OneRow
    <3>3. frienduser[p] = "none" /\ r \in asked
      BY <1>2, <2>2, <1>o, <1>c DEF OneRow, Consent
    <3>4. Consent'
      <4> SUFFICES ASSUME NEW q \in Pairs
                   PROVE  /\ frienduser'[q] = "p" => q \in asked' /\ Reverse(q) \notin asked'
                          /\ frienduser'[q] = "" => q \in asked' /\ Reverse(q) \in asked'
                          /\ frienduser'[q] = "none" /\ frienduser'[Reverse(q)] = "none"
                               => q \notin asked'
        BY DEF Consent
      <4>1. /\ frienduser[q] = "p" => q \in asked /\ Reverse(q) \notin asked
            /\ frienduser[q] = "" => q \in asked /\ Reverse(q) \in asked
            /\ frienduser[q] = "none" /\ frienduser[Reverse(q)] = "none" => q \notin asked
        BY <1>c DEF Consent
      <4>a. /\ frienduser'[p] = "none" /\ frienduser'[r] = ""
            /\ p \in asked' /\ r \in asked'
        BY <1>2, <2>2, <3>1, <3>3
      <4>b. Reverse(p) = r /\ Reverse(r) = p
        BY <1>2
      <4>2. CASE q = p
        BY <4>a, <4>b, <4>2
      <4>3. CASE q = r
        BY <4>a, <4>b, <4>3
      <4>4. CASE q \notin {p, r}
        <5>1. Reverse(q) \in Pairs /\ Reverse(q) \notin {p, r}
          BY <1>2, <4>4
        <5> QED BY <2>2, <3>1, <4>1, <4>4, <5>1
      <4> QED BY <4>2, <4>3, <4>4
    <3>5. OneRequestNotification'
      BY <3>1, <1>q DEF OneRequestNotification
    <3>6. r \notin severed => accepts'[r] = 1
      <4>1. r \notin severed => accepts[r] = 0
        BY <1>2, <2>2, <1>n DEF NotificationsTrue
      <4>2. accepts'[r] = accepts[r] + 1
        BY <1>2, <3>1
      <4> QED BY <4>1, <4>2
    <3>7. NotificationsTrue'
      <4> SUFFICES ASSUME NEW q \in Pairs, q \notin severed
                   PROVE  /\ requests'[q] # 0 => frienduser'[Reverse(q)] = "p"
                          /\ accepts'[q] # 0 => accepts'[q] = 1 /\ frienduser'[q] = ""
        BY <1>1 DEF NotificationsTrue
      <4>1. /\ requests[q] # 0 => frienduser[Reverse(q)] = "p"
            /\ accepts[q] # 0 => accepts[q] = 1 /\ frienduser[q] = ""
        BY <1>n DEF NotificationsTrue
      <4>2. CASE q = p
        BY <1>2, <2>2, <3>1, <3>3, <3>6, <4>1, <4>2
      <4>3. CASE q = r
        BY <1>2, <2>2, <3>1, <3>3, <3>6, <4>1, <4>3
      <4>4. CASE q \notin {p, r}
        <5>1. Reverse(q) \in Pairs /\ Reverse(q) \notin {p, r}
          BY <1>2, <4>4
        <5> QED BY <1>2, <2>2, <3>1, <3>3, <3>6, <4>1, <4>4, <5>1
      <4> QED BY <4>2, <4>3, <4>4
    <3> QED BY <3>2, <3>4, <3>5, <3>7
  <2>3. CASE UNCHANGED <<frienduser, requests, accepts, asked>>
    <3>1. OneRow' /\ Consent' /\ OneRequestNotification'
      BY <2>3, <1>o, <1>c, <1>q DEF OneRow, Consent, OneRequestNotification
    <3>2. NotificationsTrue'
      BY <1>1, <2>3, <1>n DEF NotificationsTrue
    <3> QED BY <3>1, <3>2
  <2> QED BY <1>4, <2>1, <2>2, <2>3
<1>13. BlockParts'
  <2>1. \A q \in ignoreuser : q \in Pairs
    BY <1>t DEF TypeOK
  <2>2. p \in overtaken \/ (p \notin ignoreuser /\ r \notin ignoreuser)
    <3>1. requesting[p] = "allowed" /\ requesting[p] # "idle"
      BY <1>1
    <3>2. p \notin overtaken => p \notin ignoreuser /\ Reverse(p) \notin ignoreuser
      BY <1>2, <3>1, <1>h DEF ChecksHold
    <3>3. r = Reverse(p)
      BY <1>2
    <3> QED BY <3>2, <3>3
  <2>3. r \in overtaken <=> p \in overtaken
    BY <1>2, <1>w DEF BothWays
  <2> QED BY <1>1, <1>2, <1>6, <1>10, <2>1, <2>2, <2>3, <1>b DEF BlockParts
<1>14. Locks'
  <2>1. \A w \in Users : \A q \in deleting[w] : q \in Pairs
    BY <1>t DEF TypeOK
  <2> QED BY <1>1, <1>5, <1>9, <2>1, <1>l DEF Locks
<1>15. BlockCatches'
  <2> SUFFICES ASSUME NEW x \in Users, NEW y \in ignoring[x]
               PROVE  /\ x # y
                      /\ \A q \in Couple(x, y) :
                            frienduser'[q] # "none" => q \in deleting[x] \/ q \in overtaken'
    BY <1>1 DEF BlockCatches
  <2>1. /\ x # y
        /\ \A q \in Couple(x, y) :
              frienduser[q] # "none" => q \in deleting[x] \/ q \in overtaken
    BY <1>k DEF BlockCatches
  <2>2. y \in Users
    BY <1>t DEF TypeOK
  <2>3. \A q \in Couple(x, y) : q \in Pairs
    BY <2>1, <2>2, CoupleOf
  <2> QED BY <1>6, <1>8, <1>9, <2>1, <2>3
<1>16. ChecksHold'
  <2>1. \A q \in Pairs : requesting'[q] = IF q = p THEN "idle" ELSE requesting[q]
    BY <1>1, <1>3
  <2> QED BY <1>1, <1>6, <2>1, <1>h DEF ChecksHold
<1>17. BothWays'
  BY <1>1, <1>2, <1>6, <1>w DEF BothWays
<1> QED BY <1>11, <1>12, <1>13, <1>14, <1>15, <1>16, <1>17 DEF Inv

\* ignoreuser.insert() up to its commit: nothing changes but the locks.
LEMMA IgnoreStep ==
    ASSUME Inv, NEW u \in Users, NEW others \in SUBSET Users, Ignore(u, others)
    PROVE  Inv'
<1>t. TypeOK
  BY DEF Inv
<1>o. OneRow
  BY DEF Inv
<1>c. Consent
  BY DEF Inv
<1>q. OneRequestNotification
  BY DEF Inv
<1>n. NotificationsTrue
  BY DEF Inv
<1>b. BlockParts
  BY DEF Inv
<1>l. Locks
  BY DEF Inv
<1>k. BlockCatches
  BY DEF Inv
<1>h. ChecksHold
  BY DEF Inv
<1>w. BothWays
  BY DEF Inv
<1>1. /\ UNCHANGED <<frienduser, ignoreuser, requests, accepts, requesting,
                     asked, severed, overtaken>>
      /\ u \notin others
      /\ \A v \in others : \A w \in Users : deleting[w] \cap Couple(u, v) = {}
      /\ ignoring' = [ignoring EXCEPT ![u] = others]
      /\ deleting' = [deleting EXCEPT ![u] = FriendRows(u, others)]
  BY DEF Ignore, tables, history, Unlocked
<1>2. ignoring \in [Users -> SUBSET Users] /\ deleting \in [Users -> SUBSET Pairs]
  BY <1>t DEF TypeOK
<1>3. /\ FriendRows(u, others) \subseteq Pairs
      /\ \A p \in FriendRows(u, others) :
            frienduser[p] # "none" /\ \E v \in others : p \in Couple(u, v)
      /\ \A v \in others : \A p \in Couple(u, v) :
            p \in Pairs /\ frienduser[p] # "none" => p \in FriendRows(u, others)
  BY DEF FriendRows
<1>4. TypeOK'
  BY <1>1, <1>2, <1>3, <1>t DEF TypeOK
<1>5. Locks'
  <2>1. \A w \in Users : w # u => deleting'[w] = deleting[w]
    BY <1>1, <1>2
  <2>2. deleting'[u] = FriendRows(u, others)
    BY <1>1, <1>2
  <2>3. \A w \in Users : \A p \in FriendRows(u, others) : p \notin deleting[w]
    BY <1>1, <1>3
  <2>4. ASSUME NEW x \in Users, NEW p \in deleting'[x]
        PROVE  frienduser'[p] # "none"
    <3>1. CASE x = u
      BY <1>1, <1>3, <2>2, <3>1
    <3>2. CASE x # u
      BY <1>1, <2>1, <3>2, <1>l DEF Locks
    <3> QED BY <3>1, <3>2
  <2>5. ASSUME NEW x \in Users, NEW w \in Users, x # w
        PROVE  deleting'[x] \cap deleting'[w] = {}
    <3>1. CASE x = u
      BY <2>1, <2>2, <2>3, <2>5, <3>1
    <3>2. CASE w = u
      BY <2>1, <2>2, <2>3, <2>5, <3>2
    <3>3. CASE x # u /\ w # u
      BY <2>1, <2>5, <3>3, <1>l DEF Locks
    <3> QED BY <3>1, <3>2, <3>3
  <2> QED BY <2>4, <2>5 DEF Locks
<1>6. BlockCatches'
  <2> SUFFICES ASSUME NEW x \in Users, NEW y \in ignoring'[x]
               PROVE  /\ x # y
                      /\ \A q \in Couple(x, y) :
                            frienduser[q] # "none" => q \in deleting'[x] \/ q \in overtaken
    BY <1>1 DEF BlockCatches
  <2>1. CASE x = u
    <3>1. y \in others /\ y \in Users /\ u # y /\ deleting'[x] = FriendRows(u, others)
      BY <1>1, <1>2, <2>1
    <3>2. \A q \in Couple(u, y) : q \in Pairs
      BY <3>1, CoupleOf
    <3> QED BY <1>3, <2>1, <3>1, <3>2
  <2>2. CASE x # u
    <3>1. y \in ignoring[x] /\ deleting'[x] = deleting[x]
      BY <1>1, <1>2, <2>2
    <3> QED BY <3>1, <1>k DEF BlockCatches
  <2> QED BY <2>1, <2>2
<1>7. OneRow'
  BY <1>1, <1>o DEF OneRow
<1>8. Consent'
  BY <1>1, <1>c DEF Consent
<1>9. OneRequestNotification'
  BY <1>1, <1>q DEF OneRequestNotification
<1>10. NotificationsTrue'
  BY <1>1, <1>n DEF NotificationsTrue
<1>11. BlockParts'
  BY <1>1, <1>b DEF BlockParts
<1>12. ChecksHold'
  BY <1>1, <1>h DEF ChecksHold
<1>13. BothWays'
  BY <1>1, <1>w DEF BothWays
<1> QED BY <1>4, <1>5, <1>6, <1>7, <1>8, <1>9, <1>10, <1>11, <1>12, <1>13 DEF Inv

\* The commit of ignoreuser.insert(): the locked rows go and the block counts.
LEMMA IgnoreCommitStep ==
    ASSUME Inv, NEW u \in Users, IgnoreCommit(u)
    PROVE  Inv'
<1>t. TypeOK
  BY DEF Inv
<1>o. OneRow
  BY DEF Inv
<1>c. Consent
  BY DEF Inv
<1>q. OneRequestNotification
  BY DEF Inv
<1>n. NotificationsTrue
  BY DEF Inv
<1>b. BlockParts
  BY DEF Inv
<1>l. Locks
  BY DEF Inv
<1>k. BlockCatches
  BY DEF Inv
<1>h. ChecksHold
  BY DEF Inv
<1>w. BothWays
  BY DEF Inv
<1> DEFINE cut(p) == p \in deleting[u] \/ Reverse(p) \in deleting[u]
           busy(p) == requesting[p] # "idle" \/ requesting[Reverse(p)] # "idle"
<1>1. UNCHANGED <<requests, accepts, requesting>>
  BY DEF IgnoreCommit
<1>2. /\ frienduser \in [Pairs -> {"none", "p", ""}]
      /\ ignoreuser \subseteq Pairs /\ asked \subseteq Pairs
      /\ severed \subseteq Pairs /\ overtaken \subseteq Pairs
      /\ ignoring \in [Users -> SUBSET Users] /\ deleting \in [Users -> SUBSET Pairs]
  BY <1>t DEF TypeOK
<1>3. \A p \in Pairs : /\ Couple(p[1], p[2]) = {p, Reverse(p)}
                       /\ Reverse(p) \in Pairs /\ Reverse(Reverse(p)) = p
  BY PairFacts
<1>4. \A v \in ignoring[u] : /\ v \in Users /\ u # v
                             /\ <<u, v>> \in Pairs /\ Reverse(<<u, v>>) = <<v, u>>
                             /\ \A p \in Couple(u, v) : p \in Pairs
  <2> TAKE v \in ignoring[u]
  <2>1. v \in Users /\ u # v
    BY <1>2, <1>k DEF BlockCatches
  <2> QED BY <2>1, CoupleFacts, CoupleOf
<1>5. /\ frienduser' \in [Pairs -> {"none", "p", ""}]
      /\ \A p \in Pairs : frienduser'[p] =
                             IF p \in deleting[u] THEN "none" ELSE frienduser[p]
  BY <1>2 DEF IgnoreCommit
<1>6. /\ asked' \subseteq Pairs
      /\ \A p \in Pairs : p \in asked' <=> p \in asked /\ ~ cut(p)
  BY <1>2, <1>3 DEF IgnoreCommit
<1>7. /\ severed' \subseteq Pairs
      /\ \A p \in Pairs : p \in severed' <=> p \in severed \/ cut(p)
  BY <1>2, <1>3 DEF IgnoreCommit
<1>8. /\ overtaken' \subseteq Pairs
      /\ \A p \in Pairs : p \in overtaken' <=>
            \/ p \in overtaken
            \/ busy(p) /\ \E v \in ignoring[u] : p \in Couple(u, v)
  BY <1>2, <1>3 DEF IgnoreCommit
<1>9. /\ ignoring' = [ignoring EXCEPT ![u] = {}]
      /\ deleting' = [deleting EXCEPT ![u] = {}]
  BY DEF IgnoreCommit
<1>10. ignoreuser' = ignoreuser \cup {<<u, v>> : v \in ignoring[u]}
  BY DEF IgnoreCommit
<1>11. \A p \in deleting[u] : /\ p \in Pairs /\ frienduser[p] # "none"
                              /\ frienduser[Reverse(p)] = "none"
  BY <1>2, <1>l, <1>o DEF Locks, OneRow
<1>12. TypeOK'
  <2>1. ignoreuser' \subseteq Pairs
    BY <1>2, <1>4, <1>10
  <2>2. ignoring' \in [Users -> SUBSET Users] /\ deleting' \in [Users -> SUBSET Pairs]
    BY <1>2, <1>9
  <2> QED BY <1>1, <1>5, <1>6, <1>7, <1>8, <2>1, <2>2, <1>t DEF TypeOK
<1>13. OneRow'
  BY <1>3, <1>5, <1>o DEF OneRow
<1>14. Consent'
  <2> SUFFICES ASSUME NEW q \in Pairs
               PROVE  /\ frienduser'[q] = "p" => q \in asked' /\ Reverse(q) \notin asked'
                      /\ frienduser'[q] = "" => q \in asked' /\ Reverse(q) \in asked'
                      /\ frienduser'[q] = "none" /\ frienduser'[Reverse(q)] = "none"
                           => q \notin asked'
    BY DEF Consent
  <2>1. /\ frienduser[q] = "p" => q \in asked /\ Reverse(q) \notin asked
        /\ frienduser[q] = "" => q \in asked /\ Reverse(q) \in asked
        /\ frienduser[q] = "none" /\ frienduser[Reverse(q)] = "none" => q \notin asked
    BY <1>c DEF Consent
  <2>2. Reverse(q) \in Pairs /\ (cut(Reverse(q)) <=> cut(q))
    BY <1>3
  <2>3. CASE cut(q)
    <3>1. frienduser'[q] = "none"
      <4>1. CASE q \in deleting[u]
        BY <1>5, <4>1
      <4>2. CASE Reverse(q) \in deleting[u]
        BY <1>3, <1>5, <1>11, <4>2
      <4> QED BY <2>3, <4>1, <4>2
    <3> QED BY <1>6, <2>3, <3>1
  <2>4. CASE ~ cut(q)
    BY <1>5, <1>6, <2>1, <2>2, <2>4
  <2> QED BY <2>3, <2>4
<1>15. OneRequestNotification'
  BY <1>1, <1>q DEF OneRequestNotification
<1>16. NotificationsTrue'
  <2> SUFFICES ASSUME NEW q \in Pairs, q \notin severed'
               PROVE  /\ requests[q] # 0 => frienduser'[Reverse(q)] = "p"
                      /\ accepts[q] # 0 => accepts[q] = 1 /\ frienduser'[q] = ""
    BY <1>1 DEF NotificationsTrue
  <2>1. q \notin severed /\ ~ cut(q) /\ Reverse(q) \in Pairs
    BY <1>3, <1>7
  <2>2. /\ requests[q] # 0 => frienduser[Reverse(q)] = "p"
        /\ accepts[q] # 0 => accepts[q] = 1 /\ frienduser[q] = ""
    BY <2>1, <1>n DEF NotificationsTrue
  <2> QED BY <1>5, <2>1, <2>2
<1>17. BlockParts'
  <2> SUFFICES ASSUME NEW q \in ignoreuser', q \notin overtaken'
               PROVE  frienduser'[q] = "none" /\ frienduser'[Reverse(q)] = "none"
    BY DEF BlockParts
  <2>1. CASE q \in ignoreuser
    <3>1. q \in Pairs /\ Reverse(q) \in Pairs /\ q \notin overtaken
      BY <1>2, <1>3, <1>8, <2>1
    <3>2. frienduser[q] = "none" /\ frienduser[Reverse(q)] = "none"
      BY <2>1, <3>1, <1>b DEF BlockParts
    <3> QED BY <1>5, <3>1, <3>2
  <2>2. CASE q \notin ignoreuser
    <3>1. PICK v \in ignoring[u] : q = <<u, v>>
      BY <1>10, <2>2
    <3>2. /\ q \in Pairs /\ Reverse(q) \in Pairs
          /\ q \in Couple(u, v) /\ Reverse(q) \in Couple(u, v)
      BY <1>3, <1>4, <3>1 DEF Couple
    <3>3. q \notin overtaken /\ Reverse(q) \notin overtaken
      BY <1>8, <3>2, <1>w DEF BothWays
    <3>4. /\ frienduser[q] # "none" => q \in deleting[u]
          /\ frienduser[Reverse(q)] # "none" => Reverse(q) \in deleting[u]
      BY <3>2, <3>3, <1>k DEF BlockCatches
    <3> QED BY <1>5, <3>2, <3>4
  <2> QED BY <2>1, <2>2
<1>18. \A w \in Users : /\ w # u => deleting'[w] = deleting[w] /\ ignoring'[w] = ignoring[w]
                        /\ deleting'[u] = {} /\ ignoring'[u] = {}
  BY <1>2, <1>9
<1>19. Locks'
  <2>1. ASSUME NEW x \in Users, NEW p \in deleting'[x]
        PROVE  frienduser'[p] # "none"
    <3>1. x # u /\ p \in deleting[x]
      BY <1>18
    <3>2. p \in Pairs /\ p \notin deleting[u] /\ frienduser[p] # "none"
      BY <1>2, <3>1, <1>l DEF Locks
    <3> QED BY <1>5, <3>2
  <2>2. ASSUME NEW x \in Users, NEW w \in Users, x # w
        PROVE  deleting'[x] \cap deleting'[w] = {}
    BY <1>18, <2>2, <1>l DEF Locks
  <2> QED BY <2>1, <2>2 DEF Locks
<1>20. BlockCatches'
  <2> SUFFICES ASSUME NEW x \in Users, NEW y \in ignoring'[x]
               PROVE  /\ x # y
                      /\ \A q \in Couple(x, y) :
                            frienduser'[q] # "none" => q \in deleting'[x] \/ q \in overtaken'
    BY DEF BlockCatches
  <2>1. x # u /\ y \in ignoring[x] /\ deleting'[x] = deleting[x]
    BY <1>18
  <2>2. /\ x # y /\ y \in Users
        /\ \A q \in Couple(x, y) :
              frienduser[q] # "none" => q \in deleting[x] \/ q \in overtaken
    BY <1>2, <2>1, <1>k DEF BlockCatches
  <2>3. \A q \in Couple(x, y) : q \in Pairs
    BY <2>2, CoupleOf
  <2>4. \A q \in Couple(x, y) : frienduser'[q] # "none" => frienduser[q] # "none"
    BY <1>5, <2>3
  <2> QED BY <1>8, <2>1, <2>2, <2>3, <2>4
<1>21. ChecksHold'
  <2> SUFFICES ASSUME NEW q \in Pairs, q \notin overtaken'
               PROVE  /\ requesting[q] # "idle" => Reverse(q) \notin ignoreuser'
                      /\ requesting[q] = "allowed" => q \notin ignoreuser'
    BY <1>1 DEF ChecksHold
  <2>1. q \notin overtaken
    BY <1>8
  <2>2. /\ requesting[q] # "idle" => Reverse(q) \notin ignoreuser
        /\ requesting[q] = "allowed" => q \notin ignoreuser
    BY <2>1, <1>h DEF ChecksHold
  <2>3. busy(q) => \A v \in ignoring[u] : q # <<u, v>> /\ Reverse(q) # <<u, v>>
    <3> SUFFICES ASSUME busy(q), NEW v \in ignoring[u]
                 PROVE  q # <<u, v>> /\ Reverse(q) # <<u, v>>
      OBVIOUS
    <3>1. q \notin Couple(u, v)
      BY <1>8
    <3>2. q # <<u, v>> /\ q # <<v, u>>
      BY <3>1 DEF Couple
    <3>3. Reverse(q) = <<u, v>> => q = <<v, u>>
      BY <1>3, <1>4
    <3> QED BY <3>2, <3>3
  <2> QED BY <1>10, <2>2, <2>3
<1>22. BothWays'
  <2> SUFFICES ASSUME NEW q \in Pairs
               PROVE  /\ q \in overtaken' <=> Reverse(q) \in overtaken'
                      /\ q \in severed' <=> Reverse(q) \in severed'
    BY DEF BothWays
  <2>1. /\ Reverse(q) \in Pairs /\ Reverse(Reverse(q)) = q
        /\ q \in overtaken <=> Reverse(q) \in overtaken
        /\ q \in severed <=> Reverse(q) \in severed
    BY <1>3, <1>w DEF BothWays
  <2>2. \A v \in ignoring[u] : q \in Couple(u, v) <=> Reverse(q) \in Couple(u, v)
    BY <1>4, CoupleFacts
  <2>3. (busy(q) <=> busy(Reverse(q))) /\ (cut(q) <=> cut(Reverse(q)))
    BY <2>1
  <2>4. q \in overtaken' <=> Reverse(q) \in overtaken'
    BY <1>8, <2>1, <2>2, <2>3
  <2>5. q \in severed' <=> Reverse(q) \in severed'
    BY <1>7, <2>1, <2>3
  <2> QED BY <2>4, <2>5
<1> QED BY <1>12, <1>13, <1>14, <1>15, <1>16, <1>17, <1>19, <1>20, <1>21, <1>22 DEF Inv

-----------------------------------------------------------------------------
\* The theorems.

\* Every step keeps the invariant.
LEMMA Inductive == Inv /\ [Next]_vars => Inv'
<1> SUFFICES ASSUME Inv, [Next]_vars
             PROVE  Inv'
  OBVIOUS
<1>1. CASE Next
  <2>1. PICK u \in Users :
          \/ \E v \in Users \ {u} :
                \/ CheckIgnoredYou(u, v)
                \/ CheckYouIgnored(u, v)
                \/ Request(u, v)
                \/ Remove(u, v)
                \/ RemoveRequest(u, v)
                \/ Unignore(u, v)
                \/ RemoveNotification(u, v)
          \/ \E others \in SUBSET Users : Ignore(u, others)
          \/ IgnoreCommit(u)
    BY <1>1 DEF Next
  <2>2. ASSUME NEW v \in Users \ {u},
               \/ CheckIgnoredYou(u, v)
               \/ CheckYouIgnored(u, v)
               \/ Request(u, v)
               \/ Remove(u, v)
               \/ RemoveRequest(u, v)
               \/ Unignore(u, v)
               \/ RemoveNotification(u, v)
        PROVE  Inv'
    BY <2>2, CheckIgnoredYouStep, CheckYouIgnoredStep, RequestStep, RemoveStep,
       RemoveRequestStep, UnignoreStep, RemoveNotificationStep
  <2>3. ASSUME NEW others \in SUBSET Users, Ignore(u, others)
        PROVE  Inv'
    BY <2>3, IgnoreStep
  <2>4. CASE IgnoreCommit(u)
    BY <2>4, IgnoreCommitStep
  <2> QED BY <2>1, <2>2, <2>3, <2>4
<1>2. CASE UNCHANGED vars
  <2>1. UNCHANGED <<frienduser, ignoreuser, requests, accepts, requesting, ignoring,
                    deleting, asked, severed, overtaken>>
    BY <1>2 DEF vars, tables, history
  <2> QED BY <2>1 DEF Inv, TypeOK, OneRow, Consent, OneRequestNotification,
              NotificationsTrue, BlockParts, Locks, BlockCatches, ChecksHold, BothWays
<1> QED BY <1>1, <1>2

\* The invariant of the tables, the requests and blocks in progress and the
\* histories, from which the properties below follow.
THEOREM Invariance == Spec => []Inv
<1>1. Init => Inv
  <2> SUFFICES ASSUME Init
               PROVE  Inv
    OBVIOUS
  <2> USE DEF Init
  <2>1. TypeOK
    BY DEF TypeOK
  <2>2. \A p \in Pairs : /\ Reverse(p) \in Pairs
                         /\ frienduser[p] = "none" /\ frienduser[Reverse(p)] = "none"
                         /\ requests[p] = 0 /\ accepts[p] = 0 /\ requesting[p] = "idle"
    BY PairFacts
  <2>3. OneRow /\ Consent /\ OneRequestNotification /\ NotificationsTrue
    BY <2>2 DEF OneRow, Consent, OneRequestNotification, NotificationsTrue
  <2>4. BlockParts /\ Locks /\ BlockCatches /\ ChecksHold /\ BothWays
    BY <2>2 DEF BlockParts, Locks, BlockCatches, ChecksHold, BothWays
  <2> QED BY <2>1, <2>3, <2>4 DEF Inv
<1> QED BY <1>1, Inductive, PTL DEF Spec

\* The tables and the requests and blocks in progress are always well formed.
THEOREM TypeCorrect == Spec => []TypeOK
<1>1. Inv => TypeOK
  BY DEF Inv
<1> QED BY <1>1, Invariance, PTL

\* No interleaving of requests, removals and blocks leaves two users with two
\* rows of frienduser.
THEOREM OneRowHolds == Spec => []OneRow
<1>1. Inv => OneRow
  BY DEF Inv
<1> QED BY <1>1, Invariance, PTL

\* Nobody becomes a friend without having asked or confirmed.
THEOREM ConsentHolds == Spec => []Consent
<1>1. Inv => Consent
  BY DEF Inv
<1> QED BY <1>1, Invariance, PTL

\* However request, remove, confirm and block meet, a user has at most one
\* notification of the other's request (request in frienduser.py inserts it, and
\* what ends the request takes it back).
THEOREM RequestsAnnouncedOnce == Spec => []OneRequestNotification
<1>1. Inv => OneRequestNotification
  BY DEF Inv
<1> QED BY <1>1, Invariance, PTL

\* What is announced is true unless a block parted the two users.
THEOREM NotificationsHold == Spec => []NotificationsTrue
<1>1. Inv => NotificationsTrue
  BY DEF Inv
<1> QED BY <1>1, Invariance, PTL

\* A block ends the friendship, in both directions, unless a request whose
\* checks had already run was overtaken by it.
THEOREM BlockPartsHolds == Spec => []BlockParts
<1>1. Inv => BlockParts
  BY DEF Inv
<1> QED BY <1>1, Invariance, PTL
-----------------------------------------------------------------------------
\* The refinement of Friendship.

\* What Relation is of the rows of a table.
RowOf(f, c) == {p \in Pairs : {p[1], p[2]} = c /\ f[p] # "none"}
StateOf(f, p) == [is |-> IF f[p] = "p" THEN "request" ELSE "friends", from |-> p[1]]
RelationOf(f) ==
    [c \in {{p[1], p[2]} : p \in Pairs} |->
        IF RowOf(f, c) = {} THEN [is |-> "initial"] ELSE StateOf(f, CHOOSE p \in RowOf(f, c) : TRUE)]

\* One row at most between two users.
Single(f) == \A p \in Pairs : f[p] # "none" => f[Reverse(p)] = "none"

\* An open ignoreuser.insert() deletes rows of those it is blocking.
DeletesItsOwn ==
    \A u \in Users : /\ ignoring[u] \subseteq Users \ {u}
                     /\ \A p \in deleting[u] : p \in Pairs /\ \E v \in ignoring[u] : p \in Couple(u, v)

LEMMA RelationIs ==
    /\ Relation = RelationOf(frienduser) /\ Relation' = RelationOf(frienduser')
    /\ OneRow <=> Single(frienduser)
    /\ OneRow' <=> Single(frienduser')
BY DEF Relation, RelationOf, RowOf, StateOf, OneRow, Single

\* Couples as the two modules write them.
LEMMA CouplesAre ==
    /\ {{p[1], p[2]} : p \in Pairs} = Abstract!Couples
    /\ \A p \in Pairs : {p[1], p[2]} \in Abstract!Couples
    /\ \A c \in Abstract!Couples : \E p \in Pairs : c = {p[1], p[2]}
    /\ \A u, v \in Users : u # v => {u, v} \in Abstract!Couples
<1>1. ASSUME NEW p \in Pairs
      PROVE  {p[1], p[2]} \in Abstract!Couples
  <2>1. p[1] \in Users /\ p[2] \in Users /\ p[1] # p[2]
    BY DEF Pairs
  <2> QED BY <2>1 DEF Abstract!Couples
<1>2. ASSUME NEW u \in Users, NEW v \in Users, u # v
      PROVE  \E p \in Pairs : {u, v} = {p[1], p[2]}
  <2>1. <<u, v>> \in Pairs
    BY <1>2, CoupleFacts
  <2> QED BY <2>1
<1>3. ASSUME NEW c \in Abstract!Couples
      PROVE  \E p \in Pairs : c = {p[1], p[2]}
  <2>1. PICK u \in Users, v \in Users : c = {u, v}
    BY DEF Abstract!Couples
  <2>2. u # v
    BY <2>1 DEF Abstract!Couples
  <2> QED BY <1>2, <2>1, <2>2
<1>4. \A u, v \in Users : u # v => {u, v} \in Abstract!Couples
  BY DEF Abstract!Couples
<1> QED BY <1>1, <1>3, <1>4

\* The pairs that two users make.
LEMMA PairsOf ==
    ASSUME NEW p \in Pairs, NEW q \in Pairs
    PROVE  {p[1], p[2]} = {q[1], q[2]} <=> q \in {p, Reverse(p)}
<1>1. p = <<p[1], p[2]>> /\ q = <<q[1], q[2]>> /\ p[1] # p[2] /\ q[1] # q[2]
  BY PairFacts
<1>2. Reverse(p) = <<p[2], p[1]>>
  BY DEF Reverse
<1> QED BY <1>1, <1>2

\* What the row between two users makes of them.
LEMMA RelationAt ==
    ASSUME NEW f, Single(f), NEW p \in Pairs
    PROVE  /\ f[p] = "p" => RelationOf(f)[{p[1], p[2]}] = Abstract!REQUEST_FROM(p[1])
           /\ f[p] \notin {"p", "none"} => RelationOf(f)[{p[1], p[2]}] = Abstract!FRIENDS_FROM(p[1])
           /\ f[p] = "none" /\ f[Reverse(p)] = "none" => RelationOf(f)[{p[1], p[2]}] = Abstract!INITIAL
<1> DEFINE c == {p[1], p[2]}
<1>1. c \in {{q[1], q[2]} : q \in Pairs}
  OBVIOUS
<1>2. RelationOf(f)[c] = IF RowOf(f, c) = {} THEN [is |-> "initial"]
                         ELSE StateOf(f, CHOOSE q \in RowOf(f, c) : TRUE)
  BY <1>1 DEF RelationOf
<1>3. \A q \in Pairs : {q[1], q[2]} = c <=> q \in {p, Reverse(p)}
  BY PairsOf
<1>4. ASSUME f[p] # "none"
      PROVE  RelationOf(f)[c] = StateOf(f, p)
  <2>1. f[Reverse(p)] = "none" /\ Reverse(p) \in Pairs
    BY <1>4, PairFacts DEF Single
  <2>2. RowOf(f, c) = {p}
    BY <1>3, <1>4, <2>1 DEF RowOf
  <2>3. (CHOOSE q \in RowOf(f, c) : TRUE) = p
    BY <2>2
  <2> QED BY <1>2, <2>2, <2>3
<1>5. ASSUME f[p] = "none", f[Reverse(p)] = "none"
      PROVE  RelationOf(f)[c] = [is |-> "initial"]
  <2>1. RowOf(f, c) = {}
    BY <1>3, <1>5 DEF RowOf
  <2> QED BY <1>2, <2>1
<1> HIDE DEF c
<1>6. f[p] = "p" => RelationOf(f)[c] = Abstract!REQUEST_FROM(p[1])
  BY <1>4 DEF StateOf, Abstract!REQUEST_FROM
<1>7. f[p] \notin {"p", "none"} => RelationOf(f)[c] = Abstract!FRIENDS_FROM(p[1])
  BY <1>4 DEF StateOf, Abstract!FRIENDS_FROM
<1>8. f[p] = "none" /\ f[Reverse(p)] = "none" => RelationOf(f)[c] = Abstract!INITIAL
  BY <1>5 DEF Abstract!INITIAL
<1> QED BY <1>6, <1>7, <1>8 DEF c

\* Rows that stay leave the two users what they were.
LEMMA RelationStays ==
    ASSUME NEW f, NEW g, NEW p \in Pairs, g[p] = f[p], g[Reverse(p)] = f[Reverse(p)]
    PROVE  RelationOf(g)[{p[1], p[2]}] = RelationOf(f)[{p[1], p[2]}]
<1> DEFINE c == {p[1], p[2]}
<1>1. c \in {{q[1], q[2]} : q \in Pairs}
  OBVIOUS
<1>2. \A q \in Pairs : {q[1], q[2]} = c => g[q] = f[q]
  BY PairsOf
<1>3. RowOf(g, c) = RowOf(f, c)
  BY <1>2 DEF RowOf
<1>4. RelationOf(g)[c] = IF RowOf(g, c) = {} THEN [is |-> "initial"]
                         ELSE StateOf(g, CHOOSE q \in RowOf(g, c) : TRUE)
  BY <1>1 DEF RelationOf
<1>5. RelationOf(f)[c] = IF RowOf(f, c) = {} THEN [is |-> "initial"]
                         ELSE StateOf(f, CHOOSE q \in RowOf(f, c) : TRUE)
  BY <1>1 DEF RelationOf
<1>6. CASE RowOf(f, c) = {}
  BY <1>3, <1>4, <1>5, <1>6
<1>7. CASE RowOf(f, c) # {}
  <2> DEFINE r == CHOOSE q \in RowOf(f, c) : TRUE
  <2>1. r \in RowOf(f, c)
    BY <1>7
  <2>2. g[r] = f[r]
    BY <1>2, <2>1 DEF RowOf
  <2>3. StateOf(g, r) = StateOf(f, r)
    BY <2>2 DEF StateOf
  <2> QED BY <1>3, <1>4, <1>5, <1>7, <2>3
<1> QED BY <1>6, <1>7

\* A change of the rows between two users is one of their relation.
LEMMA RelationBecomes ==
    ASSUME NEW f, NEW g, NEW u \in Users, NEW v \in Users, u # v,
           \A q \in Pairs : q \notin Couple(u, v) => g[q] = f[q]
    PROVE  RelationOf(g) = [RelationOf(f) EXCEPT ![{u, v}] = RelationOf(g)[{u, v}]]
<1>1. {u, v} \in Abstract!Couples
  BY CouplesAre
<1>2. ASSUME NEW c \in Abstract!Couples, c # {u, v}
      PROVE  RelationOf(g)[c] = RelationOf(f)[c]
  <2>1. PICK p \in Pairs : c = {p[1], p[2]}
    BY CouplesAre
  <2>2. p \notin Couple(u, v)
    BY <1>2, <2>1 DEF Couple
  <2>3. Reverse(p) \in Pairs /\ Reverse(p) \notin Couple(u, v)
    BY <2>2, PairFacts, CoupleFacts
  <2> QED BY <2>1, <2>2, <2>3, RelationStays
<1>3. DOMAIN RelationOf(f) = Abstract!Couples /\ DOMAIN RelationOf(g) = Abstract!Couples
  BY CouplesAre DEF RelationOf
<1>4. RelationOf(g) = [c \in Abstract!Couples |-> RelationOf(g)[c]]
  BY CouplesAre DEF RelationOf
<1>5. RelationOf(f) = [c \in Abstract!Couples |-> RelationOf(f)[c]]
  BY CouplesAre DEF RelationOf
<1> HIDE DEF RelationOf
<1> QED BY <1>1, <1>2, <1>4, <1>5

\* Only ignoreuser.insert() and its commit change what it deletes.
LEMMA DeletesStep == TypeOK /\ DeletesItsOwn /\ [Next]_vars => DeletesItsOwn'
<1> SUFFICES ASSUME TypeOK, DeletesItsOwn, [Next]_vars
             PROVE  DeletesItsOwn'
  OBVIOUS
<1>t. ignoring \in [Users -> SUBSET Users] /\ deleting \in [Users -> SUBSET Pairs]
  BY DEF TypeOK
<1>1. ASSUME UNCHANGED <<ignoring, deleting>>
      PROVE  DeletesItsOwn'
  BY <1>1 DEF DeletesItsOwn
<1>2. ASSUME NEW u \in Users, NEW others \in SUBSET Users, Ignore(u, others)
      PROVE  DeletesItsOwn'
  <2>1. /\ u \notin others
        /\ ignoring' = [ignoring EXCEPT ![u] = others]
        /\ deleting' = [deleting EXCEPT ![u] = FriendRows(u, others)]
    BY <1>2 DEF Ignore
  <2>2. \A p \in FriendRows(u, others) : p \in Pairs /\ \E v \in others : p \in Couple(u, v)
    BY DEF FriendRows
  <2> QED BY <1>t, <2>1, <2>2 DEF DeletesItsOwn
<1>3. ASSUME NEW u \in Users, IgnoreCommit(u)
      PROVE  DeletesItsOwn'
  <2>1. /\ ignoring' = [ignoring EXCEPT ![u] = {}]
        /\ deleting' = [deleting EXCEPT ![u] = {}]
    BY <1>3 DEF IgnoreCommit
  <2> QED BY <1>t, <2>1 DEF DeletesItsOwn
<1>4. ASSUME NEW u \in Users, NEW v \in Users \ {u},
             \/ CheckIgnoredYou(u, v)
             \/ CheckYouIgnored(u, v)
             \/ Request(u, v)
             \/ Remove(u, v)
             \/ RemoveRequest(u, v)
             \/ Unignore(u, v)
             \/ RemoveNotification(u, v)
      PROVE  UNCHANGED <<ignoring, deleting>>
  BY <1>4 DEF CheckIgnoredYou, CheckYouIgnored, Request, Remove, RemoveRequest, Unignore, RemoveNotification
<1>5. CASE UNCHANGED vars
  BY <1>1, <1>5 DEF vars
<1>6. CASE Next
  BY <1>1, <1>2, <1>3, <1>4, <1>6 DEF Next
<1> QED BY <1>5, <1>6

\* request() records a request, accepts one, or does nothing.
LEMMA RequestRelates ==
    ASSUME Inv, Inv', NEW u \in Users, NEW v \in Users, u # v, Request(u, v)
    PROVE  Abstract!Add(u, v) \/ Relation' = Relation
<1>1. /\ <<u, v>> \in Pairs /\ <<v, u>> \in Pairs /\ <<u, v>> # <<v, u>>
      /\ Reverse(<<u, v>>) = <<v, u>> /\ Reverse(<<v, u>>) = <<u, v>>
      /\ Couple(u, v) = {<<u, v>>, <<v, u>>}
      /\ {<<u, v>>[1], <<u, v>>[2]} = {u, v} /\ {v, u} = {u, v}
  BY CoupleFacts
<1>2. Single(frienduser) /\ Single(frienduser')
  BY RelationIs DEF Inv
<1>3. frienduser \in [Pairs -> {"none", "p", ""}]
  BY DEF Inv, TypeOK
<1>4. CASE Created(u, v)
  <2>1. /\ frienduser[<<u, v>>] = "none" /\ frienduser[<<v, u>>] = "none"
        /\ frienduser' = [frienduser EXCEPT ![<<u, v>>] = "p"]
    BY <1>4 DEF Created
  <2>2. RelationOf(frienduser)[{u, v}] = Abstract!INITIAL
    BY <1>1, <1>2, <2>1, RelationAt
  <2>3. frienduser'[<<u, v>>] = "p"
    BY <1>1, <1>3, <2>1
  <2>4. RelationOf(frienduser')[{u, v}] = Abstract!REQUEST_FROM(u)
    BY <1>1, <1>2, <2>3, RelationAt
  <2>5. \A q \in Pairs : q \notin Couple(u, v) => frienduser'[q] = frienduser[q]
    BY <1>1, <1>3, <2>1
  <2>6. RelationOf(frienduser') = [RelationOf(frienduser) EXCEPT ![{u, v}] = Abstract!REQUEST_FROM(u)]
    BY <2>4, <2>5, RelationBecomes
  <2> QED BY <2>2, <2>6, RelationIs DEF Abstract!Add, Abstract!Become
<1>5. CASE Accepted(u, v)
  <2>1. /\ frienduser[<<v, u>>] = "p"
        /\ frienduser' = [frienduser EXCEPT ![<<v, u>>] = ""]
    BY <1>5 DEF Accepted
  <2>2. RelationOf(frienduser)[{u, v}] = Abstract!REQUEST_FROM(v)
    <3>1. RelationOf(frienduser)[{v, u}] = Abstract!REQUEST_FROM(v)
      BY <1>1, <1>2, <2>1, RelationAt
    <3> QED BY <1>1, <3>1
  <2>3. frienduser'[<<v, u>>] = ""
    BY <1>1, <1>3, <2>1
  <2>4. RelationOf(frienduser')[{u, v}] = Abstract!FRIENDS_FROM(v)
    <3>1. RelationOf(frienduser')[{v, u}] = Abstract!FRIENDS_FROM(v)
      BY <1>1, <1>2, <2>3, RelationAt
    <3> QED BY <1>1, <3>1
  <2>5. \A q \in Pairs : q \notin Couple(u, v) => frienduser'[q] = frienduser[q]
    BY <1>1, <1>3, <2>1
  <2>6. RelationOf(frienduser') = [RelationOf(frienduser) EXCEPT ![{u, v}] = Abstract!FRIENDS_FROM(v)]
    BY <2>4, <2>5, RelationBecomes
  <2> QED BY <2>2, <2>6, RelationIs DEF Abstract!Add, Abstract!Become
<1>6. CASE AlreadyThere(u, v)
  BY <1>6, RelationIs DEF AlreadyThere
<1> QED BY <1>4, <1>5, <1>6 DEF Request

\* remove() ends whatever there is between the two.
LEMMA RemoveRelates ==
    ASSUME Inv, Inv', NEW u \in Users, NEW v \in Users, u # v, Remove(u, v)
    PROVE  Abstract!Remove(u, v)
<1>1. /\ <<u, v>> \in Pairs /\ <<v, u>> \in Pairs
      /\ Reverse(<<u, v>>) = <<v, u>>
      /\ Couple(u, v) = {<<u, v>>, <<v, u>>}
      /\ {<<u, v>>[1], <<u, v>>[2]} = {u, v}
  BY CoupleFacts
<1>2. Single(frienduser')
  BY RelationIs DEF Inv
<1>3. frienduser' = [q \in Pairs |-> IF q \in Couple(u, v) THEN "none" ELSE frienduser[q]]
  BY DEF Remove
<1>4. frienduser'[<<u, v>>] = "none" /\ frienduser'[<<v, u>>] = "none"
  BY <1>1, <1>3
<1>5. RelationOf(frienduser')[{u, v}] = Abstract!INITIAL
  BY <1>1, <1>2, <1>4, RelationAt
<1>6. \A q \in Pairs : q \notin Couple(u, v) => frienduser'[q] = frienduser[q]
  BY <1>3
<1>7. RelationOf(frienduser') = [RelationOf(frienduser) EXCEPT ![{u, v}] = Abstract!INITIAL]
  BY <1>5, <1>6, RelationBecomes
<1> QED BY <1>7, RelationIs DEF Abstract!Remove, Abstract!Become

\* remove_request() withdraws a request that is pending, and no friendship.
LEMMA RemoveRequestRelates ==
    ASSUME Inv, Inv', NEW u \in Users, NEW v \in Users, u # v, RemoveRequest(u, v)
    PROVE  Abstract!Withdraw(u, v) \/ Relation' = Relation
<1>1. /\ <<u, v>> \in Pairs /\ <<v, u>> \in Pairs /\ <<u, v>> # <<v, u>>
      /\ Reverse(<<u, v>>) = <<v, u>>
      /\ Couple(u, v) = {<<u, v>>, <<v, u>>}
      /\ {<<u, v>>[1], <<u, v>>[2]} = {u, v}
  BY CoupleFacts
<1>2. Single(frienduser) /\ Single(frienduser')
  BY RelationIs DEF Inv
<1>3. frienduser \in [Pairs -> {"none", "p", ""}]
  BY DEF Inv, TypeOK
<1>4. CASE frienduser[<<u, v>>] = "p"
  <2>1. frienduser' = [frienduser EXCEPT ![<<u, v>>] = "none"]
    BY <1>4 DEF RemoveRequest
  <2>2. RelationOf(frienduser)[{u, v}] = Abstract!REQUEST_FROM(u)
    BY <1>1, <1>2, <1>4, RelationAt
  <2>3. frienduser[<<v, u>>] = "none"
    BY <1>1, <1>2, <1>4 DEF Single
  <2>4. frienduser'[<<u, v>>] = "none" /\ frienduser'[<<v, u>>] = "none"
    BY <1>1, <1>3, <2>1, <2>3
  <2>5. RelationOf(frienduser')[{u, v}] = Abstract!INITIAL
    BY <1>1, <1>2, <2>4, RelationAt
  <2>6. \A q \in Pairs : q \notin Couple(u, v) => frienduser'[q] = frienduser[q]
    BY <1>1, <1>3, <2>1
  <2>7. RelationOf(frienduser') = [RelationOf(frienduser) EXCEPT ![{u, v}] = Abstract!INITIAL]
    BY <2>5, <2>6, RelationBecomes
  <2> QED BY <2>2, <2>7, RelationIs DEF Abstract!Withdraw, Abstract!Become
<1>5. CASE frienduser[<<u, v>>] # "p"
  <2>1. frienduser' = frienduser
    BY <1>5 DEF RemoveRequest
  <2> QED BY <2>1, RelationIs
<1> QED BY <1>4, <1>5

\* A block's commit ends the relations whose rows its DELETE found.
LEMMA IgnoreCommitRelates ==
    ASSUME Inv, Inv', DeletesItsOwn, NEW u \in Users, IgnoreCommit(u)
    PROVE  \E others \in SUBSET (Users \ {u}) : Abstract!Block(u, others)
<1> DEFINE others == {v \in ignoring[u] : Couple(u, v) \cap deleting[u] # {}}
<1>1. others \in SUBSET (Users \ {u})
  BY DEF DeletesItsOwn
<1>2. Single(frienduser) /\ Single(frienduser')
  BY RelationIs DEF Inv
<1>3. frienduser' = [p \in Pairs |-> IF p \in deleting[u] THEN "none" ELSE frienduser[p]]
  BY DEF IgnoreCommit
<1>4. \A p \in deleting[u] : p \in Pairs /\ frienduser[p] # "none" /\ \E v \in others : p \in Couple(u, v)
  BY DEF DeletesItsOwn, Inv, Locks
<1>5. ASSUME NEW c \in Abstract!Couples
      PROVE  RelationOf(frienduser')[c] = IF \E v \in others : c = {u, v} THEN Abstract!INITIAL
                                          ELSE RelationOf(frienduser)[c]
  <2>1. CASE \E v \in others : c = {u, v}
    <3>1. PICK v \in others : c = {u, v}
      BY <2>1
    <3>2. v \in Users /\ u # v
      BY <1>1
    <3>3. PICK p \in Couple(u, v) : p \in deleting[u]
      BY <3>1
    <3>4. p \in Pairs /\ Reverse(p) \in Pairs /\ (p = <<u, v>> \/ p = <<v, u>>)
      BY <3>2, CoupleOf
    <3>5. c = {p[1], p[2]}
      BY <3>1, <3>4
    <3>6. frienduser[Reverse(p)] = "none"
      BY <1>2, <1>4, <3>3, <3>4 DEF Single
    <3>7. frienduser'[p] = "none" /\ frienduser'[Reverse(p)] = "none"
      BY <1>3, <3>3, <3>4, <3>6
    <3>8. RelationOf(frienduser')[c] = Abstract!INITIAL
      BY <1>2, <3>4, <3>5, <3>7, RelationAt
    <3> QED BY <2>1, <3>8
  <2>2. CASE ~ \E v \in others : c = {u, v}
    <3>1. PICK p \in Pairs : c = {p[1], p[2]}
      BY CouplesAre
    <3>2. Reverse(p) \in Pairs /\ {Reverse(p)[1], Reverse(p)[2]} = c
      BY <3>1, PairFacts DEF Reverse
    <3>3. ASSUME NEW q \in deleting[u]
          PROVE  {q[1], q[2]} # c
      <4>1. PICK v \in others : q \in Couple(u, v)
        BY <1>4
      <4>2. {q[1], q[2]} = {u, v}
        BY <4>1 DEF Couple
      <4> QED BY <2>2, <4>1, <4>2
    <3>4. p \notin deleting[u] /\ Reverse(p) \notin deleting[u]
      BY <3>1, <3>2, <3>3
    <3>5. frienduser'[p] = frienduser[p] /\ frienduser'[Reverse(p)] = frienduser[Reverse(p)]
      BY <1>3, <3>2, <3>4
    <3>6. RelationOf(frienduser')[c] = RelationOf(frienduser)[c]
      BY <3>1, <3>5, RelationStays
    <3> QED BY <2>2, <3>6
  <2> QED BY <2>1, <2>2
<1> HIDE DEF others
<1>6. RelationOf(frienduser') = [c \in Abstract!Couples |-> RelationOf(frienduser')[c]]
  BY CouplesAre DEF RelationOf
<1>7. RelationOf(frienduser') = [c \in Abstract!Couples |-> IF \E v \in others : c = {u, v} THEN Abstract!INITIAL
                                                            ELSE RelationOf(frienduser)[c]]
  BY <1>5, <1>6
<1>8. Abstract!Block(u, others)
  BY <1>7, RelationIs DEF Abstract!Block
<1> QED BY <1>1, <1>8

\* Whatever order requests, removals and blocks commit in, two users go through
\* the states of the table that test_frienduser.py walks: one asks, the other
\* confirms, either of them or a block ends it, and nothing else happens.
THEOREM FollowsTheTable == Spec => ImplementsFriendship
<1>1. Init => Abstract!RelationInit /\ DeletesItsOwn
  <2> SUFFICES ASSUME Init
               PROVE  Abstract!RelationInit /\ DeletesItsOwn
    OBVIOUS
  <2>1. frienduser = [p \in Pairs |-> "none"]
    BY DEF Init
  <2>2. Single(frienduser)
    BY <2>1, PairFacts DEF Single
  <2>3. ASSUME NEW c \in Abstract!Couples
        PROVE  RelationOf(frienduser)[c] = Abstract!INITIAL
    <3>1. PICK p \in Pairs : c = {p[1], p[2]}
      BY CouplesAre
    <3>2. frienduser[p] = "none" /\ frienduser[Reverse(p)] = "none"
      BY <2>1, PairFacts
    <3> QED BY <2>2, <3>1, <3>2, RelationAt
  <2>4. RelationOf(frienduser) = [c \in Abstract!Couples |-> RelationOf(frienduser)[c]]
    BY CouplesAre DEF RelationOf
  <2>5. RelationOf(frienduser) = [c \in Abstract!Couples |-> Abstract!INITIAL]
    BY <2>3, <2>4
  <2>6. Abstract!RelationInit
    BY <2>5, RelationIs DEF Abstract!RelationInit
  <2>7. DeletesItsOwn
    BY DEF Init, DeletesItsOwn
  <2> QED BY <2>6, <2>7
<1>2. Inv /\ Inv' /\ DeletesItsOwn /\ [Next]_vars => [Abstract!RelationNext]_Relation
  <2> SUFFICES ASSUME Inv, Inv', DeletesItsOwn, [Next]_vars
               PROVE  Abstract!RelationNext \/ Relation' = Relation
    OBVIOUS
  <2>1. ASSUME frienduser' = frienduser
        PROVE  Relation' = Relation
    BY <2>1, RelationIs
  <2>2. ASSUME NEW u \in Users, NEW v \in Users \ {u},
               \/ CheckIgnoredYou(u, v)
               \/ CheckYouIgnored(u, v)
               \/ Request(u, v)
               \/ Remove(u, v)
               \/ RemoveRequest(u, v)
               \/ Unignore(u, v)
               \/ RemoveNotification(u, v)
        PROVE  Abstract!RelationNext \/ Relation' = Relation
    <3>1. ASSUME Abstract!Add(u, v) \/ Abstract!Remove(u, v) \/ Abstract!Withdraw(u, v)
          PROVE  Abstract!RelationNext
      BY <3>1 DEF Abstract!RelationNext
    <3>2. CASE Request(u, v)
      BY <3>1, <3>2, RequestRelates
    <3>3. CASE Remove(u, v)
      BY <3>1, <3>3, RemoveRelates
    <3>4. CASE RemoveRequest(u, v)
      BY <3>1, <3>4, RemoveRequestRelates
    <3>5. CASE \/ CheckIgnoredYou(u, v) \/ CheckYouIgnored(u, v)
               \/ Unignore(u, v) \/ RemoveNotification(u, v)
      BY <2>1, <3>5 DEF CheckIgnoredYou, CheckYouIgnored, Unignore, RemoveNotification, tables
    <3> QED BY <2>2, <3>2, <3>3, <3>4, <3>5
  <2>3. ASSUME NEW u \in Users, NEW others \in SUBSET Users, Ignore(u, others)
        PROVE  Relation' = Relation
    BY <2>1, <2>3 DEF Ignore, tables
  <2>4. ASSUME NEW u \in Users, IgnoreCommit(u)
        PROVE  Abstract!RelationNext
    BY <2>4, IgnoreCommitRelates DEF Abstract!RelationNext
  <2>5. CASE UNCHANGED vars
    BY <2>1, <2>5 DEF vars, tables
  <2>6. CASE Next
    BY <2>2, <2>3, <2>4, <2>6 DEF Next
  <2> QED BY <2>5, <2>6
<1>3. Inv => TypeOK
  BY DEF Inv
<1> QED
  BY <1>1, <1>2, <1>3, DeletesStep, Invariance, PTL DEF Spec, ImplementsFriendship, Abstract!RelationSpec
=============================================================================
