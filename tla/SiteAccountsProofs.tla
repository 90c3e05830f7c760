-------------------------- MODULE SiteAccountsProofs --------------------------
(***************************************************************************)
(* Proofs about the parts of SiteAccounts: accounts, what they post, and   *)
(* the lists one reads.  Sign-ins, passwords, addresses; bans, suspensions,*)
(* ratings and ages with the cached settings; the names that lead to       *)
(* accounts with their cache; who follows and blocks whom; posts with their*)
(* counts and what followers are told of them; lists page by page; and who *)
(* sees which post.                                                        *)
(* They are for any members, names, tokens, session ids, posts, calls, rows*)
(* and sizes of a page.                                                    *)
(***************************************************************************)
EXTENDS SiteAccountsInvariants, FiniteSetTheorems, TLAPS
-----------------------------------------------------------------------------
\* A behaviour is of one part.
LEMMA PartStays == [AccountsNext]_all_accounts_vars => part' = part
  BY DEF AccountsNext, all_accounts_vars
-----------------------------------------------------------------------------
LEMMA LoginsIdleIs == SignIn!Idle \in LoginsRecord /\ SignIn!Idle.at = "idle"
  BY DEF SignIn!Idle, LoginsRecord

LEMMA LoginsKinds ==
    ASSUME NEW q \in LoginsRecord
    PROVE  /\ q.at = "create session" => q \in LoginsSigninCall /\ q.user \in Members /\ q.password \in SignIn!Passwords
           /\ q.at \in {"update", "revoke"} => q \in LoginsPasswordCall /\ q.user \in Members /\ q.session \in SignIn!SessionOrNone
           /\ q.at \in {"email check", "email verify"} => q \in LoginsAddressCall /\ q.user \in Members /\ q.address \in Emails
           /\ q.at = "email update" => q \in LoginsUpdateCall /\ q.user \in Members /\ q.address \in Emails
           /\ q.at = "reset" => q \in LoginsResetCall /\ q.user \in Members /\ q.token \in Tokens
<1>1. q \in LoginsSigninCall => q.at = "create session" /\ q.user \in Members /\ q.password \in SignIn!Passwords
  BY DEF LoginsSigninCall
<1>2. q \in LoginsPasswordCall => q.at \in {"update", "revoke"} /\ q.user \in Members /\ q.session \in SignIn!SessionOrNone
  BY DEF LoginsPasswordCall
<1>3. q \in LoginsAddressCall => q.at \in {"email check", "email verify"} /\ q.user \in Members /\ q.address \in Emails
  BY DEF LoginsAddressCall
<1>4. q \in LoginsUpdateCall => q.at = "email update" /\ q.user \in Members /\ q.address \in Emails
  BY DEF LoginsUpdateCall
<1>5. q \in LoginsResetCall => q.at = "reset" /\ q.user \in Members /\ q.token \in Tokens
  BY DEF LoginsResetCall
<1> QED
  BY <1>1, <1>2, <1>3, <1>4, <1>5, LoginsIdleIs DEF LoginsRecord

LEMMA LoginsTypes ==
    ASSUME SignIn!TypeOK
    PROVE  call \in [Calls -> LoginsRecord]
  BY DEF SignIn!TypeOK, SignIn!CallRecords, LoginsRecord, LoginsSigninCall, LoginsPasswordCall,
     LoginsAddressCall, LoginsUpdateCall, LoginsResetCall

LEMMA LoginsBecomes ==
    ASSUME SignIn!TypeOK, NEW r \in Calls, NEW q \in LoginsRecord, call' = [call EXCEPT ![r] = q]
    PROVE  LoginsBecame(r, q)
  BY LoginsTypes DEF LoginsBecame, LoginsElsewhere

LEMMA LoginsEnds == ASSUME SignIn!TypeOK, NEW r \in Calls, SignIn!End(r) PROVE LoginsBecame(r, SignIn!Idle)
  BY LoginsBecomes, LoginsIdleIs DEF SignIn!End

LEMMA LoginsStarts ==
    ASSUME SignIn!TypeOK, NEW r \in Calls, NEW q \in LoginsRecord, SignIn!Start(r, q)
    PROVE  LoginsBecame(r, q) /\ call[r].at = "idle"
  BY LoginsBecomes, LoginsIdleIs DEF SignIn!Start

LEMMA LoginsOvertakes ==
    ASSUME SignIn!TypeOK, NEW r \in Calls, NEW u, NEW next \in LoginsRecord, SignIn!Overtaking(r, u, next)
    PROVE  /\ call' \in [Calls -> LoginsRecord] /\ call'[r] = next
           /\ \A q \in Calls \ {r} :
                  \/ call'[q] = call[q] /\ ~(SignIn!At(q, "create session") /\ call[q].user = u)
                  \/ /\ SignIn!At(q, "create session")
                     /\ call'[q].at = "create session" /\ call'[q].late
<1>1. call' = [q \in Calls |-> call'[q]] /\ call'[r] = next
  BY DEF SignIn!Overtaking
<1>2. ASSUME NEW q \in Calls \ {r}
      PROVE  /\ call'[q] \in LoginsRecord
             /\ \/ call'[q] = call[q] /\ ~(SignIn!At(q, "create session") /\ call[q].user = u)
                \/ SignIn!At(q, "create session") /\ call'[q].at = "create session" /\ call'[q].late
  <2>1. CASE SignIn!At(q, "create session") /\ call[q].user = u
    <3> DEFINE w == [call[q] EXCEPT !.late = TRUE]
    <3>1. call'[q] = w
      BY <2>1 DEF SignIn!Overtaking
    <3>2. call[q] \in LoginsSigninCall
      BY <2>1, LoginsTypes, LoginsKinds DEF SignIn!At
    <3>3. w \in LoginsSigninCall /\ w.at = "create session" /\ w.late = TRUE
      BY <3>2 DEF LoginsSigninCall
    <3> HIDE DEF w
    <3> QED
      BY <2>1, <3>1, <3>3 DEF LoginsRecord
  <2>2. CASE ~(SignIn!At(q, "create session") /\ call[q].user = u)
    BY <2>2, LoginsTypes DEF SignIn!Overtaking
  <2> QED
    BY <2>1, <2>2
<1> QED
  BY <1>1, <1>2

LEMMA LoginsTypeParts ==
    /\ SignIn!TypeOK <=> LoginsTables /\ call \in [Calls -> LoginsRecord]
    /\ SignIn!TypeOK' <=> LoginsTables' /\ call' \in [Calls -> LoginsRecord]
  BY DEF SignIn!TypeOK, LoginsTables, SignIn!CallRecords, LoginsRecord, LoginsSigninCall,
     LoginsPasswordCall, LoginsAddressCall, LoginsUpdateCall, LoginsResetCall

LEMMA LoginsInitInv == SignIn!ConstantsOK /\ SignIn!Init => LoginsIInv
<1> SUFFICES ASSUME SignIn!ConstantsOK, SignIn!Init PROVE LoginsIInv
  OBVIOUS
<1>1. \A r \in Calls : call[r] = SignIn!Idle /\ call[r].at = "idle"
  BY LoginsIdleIs DEF SignIn!Init
<1>2. SignIn!TypeOK
  BY <1>1 DEF SignIn!Init, SignIn!TypeOK, SignIn!ConstantsOK, SignIn!Passwords
<1>3. LoginsOwned /\ LoginsSessionsKnow
  BY <1>1 DEF SignIn!Init, LoginsOwned, LoginsSessionsKnow, SignIn!At
<1>4. LoginsSigninsKnow /\ LoginsLinksDrawn
  BY <1>1 DEF SignIn!Init, LoginsSigninsKnow, LoginsLinksDrawn, SignIn!At
<1>5. LoginsResetsOnce
  BY <1>1 DEF SignIn!Init, LoginsResetsOnce, SignIn!At
<1> QED
  BY <1>2, <1>3, <1>4, <1>5 DEF LoginsIInv
-----------------------------------------------------------------------------
LEMMA LoginsSessionsStay ==
    ASSUME LoginsIInv, UNCHANGED <<authbcrypt, sessions, knows, excused>>, drawn \subseteq drawn',
           \A r \in Calls : \/ call'[r] = call[r]
                            \/ LoginsSessionless(call'[r]) /\ ~SignIn!At(r, "revoke")
    PROVE  LoginsOwned' /\ LoginsSigninsKnow' /\ LoginsSessionsKnow'
<1>1. LoginsOwned'
  <2>1. \A s \in Sessions : sessions'[s] # None => s \in drawn'
    BY DEF LoginsIInv, LoginsOwned
  <2>2. ASSUME NEW q \in Calls, SignIn!At(q, "update")' \/ SignIn!At(q, "revoke")', call'[q].session # None
        PROVE  call'[q].session \in drawn' /\ sessions'[call'[q].session] \in {None, call'[q].user}
    <3>1. call'[q] = call[q] /\ (SignIn!At(q, "update") \/ SignIn!At(q, "revoke"))
      BY <2>2 DEF LoginsSessionless, SignIn!At
    <3> QED
      BY <2>2, <3>1 DEF LoginsIInv, LoginsOwned
  <2> QED
    BY <2>1, <2>2 DEF LoginsOwned, SignIn!At
<1>2. LoginsSigninsKnow'
  BY DEF LoginsIInv, LoginsSigninsKnow, SignIn!At, LoginsSessionless
<1>3. \A s \in Sessions : LoginsWillEnd(s) => LoginsWillEnd(s)'
  BY DEF LoginsWillEnd, SignIn!At, LoginsSessionless
<1>4. LoginsSessionsKnow'
  BY <1>3 DEF LoginsIInv, LoginsSessionsKnow
<1> QED
  BY <1>1, <1>2, <1>4

\* What leaves the links alone.
LEMMA LoginsLinksStay ==
    ASSUME LoginsIInv, UNCHANGED <<emailverify, forgotpassword, mailed, spent>>, drawn \subseteq drawn',
           \A r \in Calls : call'[r] = call[r] \/ call'[r].at # "reset"
    PROVE  LoginsLinksDrawn' /\ LoginsResetsOnce'
<1>1. LoginsLinksDrawn'
  BY DEF LoginsIInv, LoginsLinksDrawn
<1>2. LoginsResetsOnce'
  BY DEF LoginsIInv, LoginsResetsOnce, SignIn!At
<1> QED
  BY <1>1, <1>2

LEMMA LoginsSigninCheckInv ==
    ASSUME SignIn!ConstantsOK, LoginsIInv, NEW r \in Calls, NEW u \in Members, SignIn!SigninCheck(r, u)
    PROVE  LoginsIInv'
<1> USE LoginsTypeParts
<1> DEFINE q == [at |-> "create session", user |-> u, password |-> authbcrypt[u], late |-> FALSE]
<1>1. /\ q \in LoginsRecord /\ q.at = "create session" /\ q.user = u /\ q.password = authbcrypt[u] /\ q.late = FALSE
  BY DEF LoginsRecord, LoginsSigninCall, LoginsIInv, LoginsTables
<1>2. SignIn!Start(r, q) /\ UNCHANGED <<SignIn!tables, drawn, SignIn!history>>
  BY DEF SignIn!SigninCheck
<1> HIDE DEF q
<1>3. LoginsBecame(r, q) /\ call[r].at = "idle"
  BY <1>1, <1>2, LoginsStarts DEF LoginsIInv
<1>4. UNCHANGED <<email, authbcrypt, sessions, emailverify, forgotpassword, drawn, newest, knows, mailed, spent, excused>>
  BY <1>2 DEF SignIn!tables, SignIn!history
<1>5. SignIn!TypeOK'
  BY <1>3, <1>4 DEF LoginsIInv, LoginsTables, LoginsBecame
<1>6. LoginsLinksDrawn' /\ LoginsResetsOnce'
  BY <1>1, <1>3, <1>4, LoginsLinksStay DEF LoginsBecame, LoginsElsewhere
<1>7. LoginsOwned'
  <2>1. \A t \in Sessions : sessions'[t] # None => t \in drawn'
    BY <1>4 DEF LoginsIInv, LoginsOwned
  <2>2. ASSUME NEW p \in Calls, SignIn!At(p, "update")' \/ SignIn!At(p, "revoke")', call'[p].session # None
        PROVE  call'[p].session \in drawn' /\ sessions'[call'[p].session] \in {None, call'[p].user}
    <3>1. call'[p] = call[p] /\ (SignIn!At(p, "update") \/ SignIn!At(p, "revoke"))
      BY <1>1, <1>3, <2>2 DEF LoginsBecame, LoginsElsewhere, SignIn!At
    <3> QED
      BY <1>4, <2>2, <3>1 DEF LoginsIInv, LoginsOwned
  <2> QED
    BY <2>1, <2>2 DEF LoginsOwned, SignIn!At
<1>8. LoginsSigninsKnow'
  BY <1>1, <1>3, <1>4 DEF LoginsIInv, LoginsSigninsKnow, SignIn!At, LoginsBecame, LoginsElsewhere
<1>9. \A t \in Sessions : LoginsWillEnd(t) => LoginsWillEnd(t)'
  BY <1>3, <1>4 DEF LoginsWillEnd, SignIn!At, LoginsBecame, LoginsElsewhere
<1>10. LoginsSessionsKnow'
  BY <1>4, <1>9 DEF LoginsIInv, LoginsSessionsKnow
<1> QED
  BY <1>5, <1>6, <1>7, <1>8, <1>10 DEF LoginsIInv

LEMMA LoginsSigninCreateInv ==
    ASSUME SignIn!ConstantsOK, LoginsIInv, NEW r \in Calls, NEW s \in Sessions, SignIn!SigninCreate(r, s)
    PROVE  LoginsIInv'
<1> USE LoginsTypeParts
<1>1. /\ SignIn!At(r, "create session") /\ s \notin drawn /\ drawn' = drawn \cup {s}
      /\ sessions' = [sessions EXCEPT ![s] = call[r].user]
      /\ knows' = [knows EXCEPT ![s] = call[r].password]
      /\ excused' = IF call[r].late THEN excused \cup {s} ELSE excused
      /\ SignIn!End(r)
      /\ UNCHANGED <<email, authbcrypt, emailverify, forgotpassword, newest, mailed, spent>>
  BY DEF SignIn!SigninCreate
<1>2. LoginsBecame(r, SignIn!Idle) /\ SignIn!Idle.at = "idle"
  BY <1>1, LoginsEnds, LoginsIdleIs DEF LoginsIInv
<1>3. call[r].user \in Members /\ call[r].password \in SignIn!Passwords
  BY <1>1, LoginsKinds DEF LoginsIInv, SignIn!At
<1>4. SignIn!TypeOK'
  BY <1>1, <1>2, <1>3 DEF LoginsIInv, LoginsTables, LoginsBecame
<1>5. LoginsLinksDrawn' /\ LoginsResetsOnce'
  BY <1>1, <1>2, LoginsLinksStay DEF LoginsBecame, LoginsElsewhere
<1>6. /\ sessions'[s] = call[r].user /\ knows'[s] = call[r].password
      /\ \A t \in Sessions \ {s} : sessions'[t] = sessions[t] /\ knows'[t] = knows[t]
  BY <1>1 DEF LoginsIInv, LoginsTables
<1>7. LoginsOwned'
  <2>1. \A t \in Sessions : sessions'[t] # None => t \in drawn'
    BY <1>1, <1>6 DEF LoginsIInv, LoginsOwned
  <2>2. ASSUME NEW q \in Calls, SignIn!At(q, "update")' \/ SignIn!At(q, "revoke")', call'[q].session # None
        PROVE  call'[q].session \in drawn' /\ sessions'[call'[q].session] \in {None, call'[q].user}
    <3>1. call'[q] = call[q] /\ call[q].session \in Sessions
      BY <1>2, <2>2, LoginsKinds DEF LoginsIInv, LoginsBecame, LoginsElsewhere, SignIn!At,
         SignIn!SessionOrNone
    <3>2. call[q].session \in drawn /\ sessions[call[q].session] \in {None, call[q].user}
      BY <2>2, <3>1 DEF LoginsIInv, LoginsOwned, SignIn!At
    <3> QED
      BY <1>1, <1>6, <3>1, <3>2
  <2> QED
    BY <2>1, <2>2 DEF LoginsOwned, SignIn!At
<1>8. LoginsSigninsKnow'
  BY <1>1, <1>2 DEF LoginsIInv, LoginsSigninsKnow, SignIn!At, LoginsBecame, LoginsElsewhere
<1>9. LoginsSessionsKnow'
  <2> SUFFICES ASSUME NEW t \in Sessions \ excused', sessions'[t] # None
               PROVE  knows'[t] = authbcrypt'[sessions'[t]] \/ LoginsWillEnd(t)'
    BY DEF LoginsSessionsKnow
  <2>1. CASE t = s
    BY <1>1, <1>6, <2>1 DEF LoginsIInv, LoginsSigninsKnow
  <2>2. CASE t # s
    <3>1. knows[t] = authbcrypt[sessions[t]] \/ LoginsWillEnd(t)
      BY <1>1, <1>6, <2>2 DEF LoginsIInv, LoginsSessionsKnow
    <3>2. LoginsWillEnd(t) => LoginsWillEnd(t)'
      BY <1>1, <1>2, <1>6, <2>2 DEF LoginsWillEnd, SignIn!At, LoginsBecame, LoginsElsewhere
    <3> QED
      BY <1>1, <1>6, <2>2, <3>1, <3>2
  <2> QED
    BY <2>1, <2>2
<1> QED
  BY <1>4, <1>5, <1>7, <1>8, <1>9 DEF LoginsIInv

\* Sessions end.
LEMMA LoginsSessionsEnd ==
    ASSUME SignIn!ConstantsOK, LoginsIInv, UNCHANGED <<authbcrypt, knows, drawn, call, excused>>,
           sessions' \in [Sessions -> Members \cup {None}],
           \A s \in Sessions : sessions'[s] \in {None, sessions[s]}
    PROVE  LoginsOwned' /\ LoginsSigninsKnow' /\ LoginsSessionsKnow'
<1> USE LoginsTypeParts
<1>1. LoginsOwned'
  <2>1. \A q \in Calls : SignIn!At(q, "update") \/ SignIn!At(q, "revoke") => call[q].session \in Sessions \cup {None}
    BY LoginsKinds DEF LoginsIInv, SignIn!At, SignIn!SessionOrNone
  <2> QED
    BY <2>1 DEF LoginsIInv, LoginsOwned, SignIn!At
<1>2. LoginsSigninsKnow'
  BY DEF LoginsIInv, LoginsSigninsKnow, SignIn!At
<1>3. LoginsSessionsKnow'
  BY DEF LoginsIInv, LoginsSessionsKnow, LoginsWillEnd, SignIn!At
<1> QED
  BY <1>1, <1>2, <1>3

LEMMA LoginsSignoutInv ==
    ASSUME SignIn!ConstantsOK, LoginsIInv, NEW s \in Sessions, SignIn!Signout(s)
    PROVE  LoginsIInv'
<1> USE LoginsTypeParts
<1>1. /\ sessions' = [sessions EXCEPT ![s] = None]
      /\ UNCHANGED <<email, authbcrypt, emailverify, forgotpassword, drawn, call, newest, knows, mailed, spent, excused>>
  BY DEF SignIn!Signout, SignIn!history
<1>2. SignIn!TypeOK' /\ \A t \in Sessions : sessions'[t] \in {None, sessions[t]}
  BY <1>1 DEF LoginsIInv, LoginsTables
<1>3. LoginsOwned' /\ LoginsSigninsKnow' /\ LoginsSessionsKnow'
  BY <1>1, <1>2, LoginsSessionsEnd DEF LoginsTables
<1>4. LoginsLinksDrawn' /\ LoginsResetsOnce'
  BY <1>1, LoginsLinksStay
<1> QED
  BY <1>2, <1>3, <1>4 DEF LoginsIInv

\* A session proves that it knows the password.
LEMMA LoginsProves ==
    ASSUME SignIn!ConstantsOK, LoginsIInv, NEW r \in Calls, NEW s \in Sessions, NEW q \in LoginsRecord,
           sessions[s] # None, LoginsBecame(r, q), call[r].at = "idle",
           q.at # "reset", q.at # "create session",
           q.at \in {"update", "revoke"} => q.session = s /\ q.user = sessions[s],
           knows' = [knows EXCEPT ![s] = authbcrypt[sessions[s]]],
           UNCHANGED <<SignIn!tables, drawn, newest, mailed, spent, excused>>
    PROVE  LoginsIInv'
<1> USE LoginsTypeParts
<1>1. UNCHANGED <<email, authbcrypt, sessions, emailverify, forgotpassword, drawn, newest, mailed, spent, excused>>
  BY DEF SignIn!tables
<1>2. sessions[s] \in Members /\ s \in drawn
  BY DEF LoginsIInv, LoginsTables, LoginsOwned
<1>3. SignIn!TypeOK'
  BY <1>1, <1>2 DEF LoginsIInv, LoginsTables, LoginsBecame
<1>4. LoginsLinksDrawn' /\ LoginsResetsOnce'
  BY <1>1, LoginsLinksStay DEF LoginsBecame, LoginsElsewhere
<1>5. LoginsOwned'
  BY <1>1, <1>2 DEF LoginsIInv, LoginsOwned, SignIn!At, LoginsBecame, LoginsElsewhere
<1>6. LoginsSigninsKnow'
  BY <1>1 DEF LoginsIInv, LoginsSigninsKnow, SignIn!At, LoginsBecame, LoginsElsewhere
<1>7. \A t \in Sessions : knows'[t] = knows[t] \/ knows'[t] = authbcrypt[sessions[t]]
  BY DEF LoginsIInv, LoginsTables
<1>8. \A t \in Sessions : LoginsWillEnd(t) => LoginsWillEnd(t)'
  BY <1>1 DEF LoginsWillEnd, SignIn!At, LoginsBecame, LoginsElsewhere
<1>9. LoginsSessionsKnow'
  BY <1>1, <1>7, <1>8 DEF LoginsIInv, LoginsSessionsKnow
<1> QED
  BY <1>3, <1>4, <1>5, <1>6, <1>9 DEF LoginsIInv

LEMMA LoginsEditPasswordInv ==
    ASSUME SignIn!ConstantsOK, LoginsIInv, NEW r \in Calls, NEW s \in Sessions, SignIn!EditPassword(r, s)
    PROVE  LoginsIInv'
<1> USE LoginsTypeParts
<1> DEFINE q == [at |-> "update", user |-> sessions[s], session |-> s]
<1>1. sessions[s] \in Members
  BY DEF SignIn!EditPassword, LoginsIInv, LoginsTables
<1>2. q \in LoginsRecord /\ q.at = "update" /\ q.user = sessions[s] /\ q.session = s
  BY <1>1 DEF LoginsRecord, LoginsPasswordCall, SignIn!SessionOrNone
<1>3. /\ sessions[s] # None /\ SignIn!Start(r, q) /\ knows' = [knows EXCEPT ![s] = authbcrypt[sessions[s]]]
      /\ UNCHANGED <<SignIn!tables, drawn, newest, mailed, spent, excused>>
  BY DEF SignIn!EditPassword
<1> HIDE DEF q
<1>4. LoginsBecame(r, q) /\ call[r].at = "idle"
  BY <1>2, <1>3, LoginsStarts DEF LoginsIInv
<1> QED
  BY <1>2, <1>3, <1>4, LoginsProves

LEMMA LoginsEditEmailInv ==
    ASSUME SignIn!ConstantsOK, LoginsIInv, NEW r \in Calls, NEW s \in Sessions, NEW address \in Emails,
           SignIn!EditEmail(r, s, address)
    PROVE  LoginsIInv'
<1> USE LoginsTypeParts
<1> DEFINE q == [at |-> "email check", user |-> sessions[s], address |-> address]
<1>1. sessions[s] \in Members
  BY DEF SignIn!EditEmail, LoginsIInv, LoginsTables
<1>2. q \in LoginsRecord /\ q.at = "email check"
  BY <1>1 DEF LoginsRecord, LoginsAddressCall
<1>3. /\ sessions[s] # None /\ SignIn!Start(r, q) /\ knows' = [knows EXCEPT ![s] = authbcrypt[sessions[s]]]
      /\ UNCHANGED <<SignIn!tables, drawn, newest, mailed, spent, excused>>
  BY DEF SignIn!EditEmail
<1> HIDE DEF q
<1>4. LoginsBecame(r, q) /\ call[r].at = "idle"
  BY <1>2, <1>3, LoginsStarts DEF LoginsIInv
<1> QED
  BY <1>2, <1>3, <1>4, LoginsProves
-----------------------------------------------------------------------------
\* What changes no password and no session, from one call to another.
LEMMA LoginsCallMoves ==
    ASSUME LoginsIInv, SignIn!TypeOK', NEW r \in Calls, NEW q \in LoginsRecord, LoginsBecame(r, q),
           q.at \in {"idle", "email check", "email verify", "email update"}, ~SignIn!At(r, "revoke"),
           UNCHANGED <<authbcrypt, sessions, knows, excused>>, drawn \subseteq drawn'
    PROVE  LoginsOwned' /\ LoginsSigninsKnow' /\ LoginsSessionsKnow'
  BY LoginsSessionsStay DEF LoginsBecame, LoginsElsewhere, LoginsSessionless

LEMMA LoginsEmailExistsInv ==
    ASSUME SignIn!ConstantsOK, LoginsIInv, NEW r \in Calls, SignIn!EmailExists(r)
    PROVE  LoginsIInv'
<1> USE LoginsTypeParts
<1> DEFINE w == [call[r] EXCEPT !.at = "email verify"]
<1>1. SignIn!At(r, "email check") /\ UNCHANGED <<SignIn!tables, drawn, SignIn!history>>
  BY DEF SignIn!EmailExists
<1>2. UNCHANGED <<email, authbcrypt, sessions, emailverify, forgotpassword, drawn, newest, knows, mailed, spent, excused>>
  BY <1>1 DEF SignIn!tables, SignIn!history
<1>3. call[r] \in LoginsAddressCall
  BY <1>1, LoginsKinds DEF LoginsIInv, SignIn!At
<1>4. w \in LoginsRecord /\ w.at = "email verify"
  BY <1>3 DEF LoginsAddressCall, LoginsRecord
<1>5. SignIn!End(r) \/ call' = [call EXCEPT ![r] = w]
  BY DEF SignIn!EmailExists
<1> HIDE DEF w
<1>6. \E q \in LoginsRecord : LoginsBecame(r, q) /\ q.at \in {"idle", "email verify"}
  BY <1>4, <1>5, LoginsBecomes, LoginsEnds, LoginsIdleIs DEF LoginsIInv
<1>7. PICK q \in LoginsRecord : LoginsBecame(r, q) /\ q.at \in {"idle", "email verify"}
  BY <1>6
<1>8. SignIn!TypeOK'
  BY <1>2, <1>7 DEF LoginsIInv, LoginsTables, LoginsBecame
<1>9. LoginsOwned' /\ LoginsSigninsKnow' /\ LoginsSessionsKnow'
  BY <1>1, <1>2, <1>7, <1>8, LoginsCallMoves DEF SignIn!At
<1>10. LoginsLinksDrawn' /\ LoginsResetsOnce'
  BY <1>2, <1>7, LoginsLinksStay DEF LoginsBecame, LoginsElsewhere
<1> QED
  BY <1>8, <1>9, <1>10 DEF LoginsIInv

LEMMA LoginsEmailVerifyInv ==
    ASSUME SignIn!ConstantsOK, LoginsIInv, NEW r \in Calls, NEW token \in Tokens, SignIn!EmailVerify(r, token)
    PROVE  LoginsIInv'
<1> USE LoginsTypeParts
<1> DEFINE u == call[r].user
           address == call[r].address
           row == [token |-> token, address |-> address]
<1>1. /\ SignIn!At(r, "email verify") /\ token \notin drawn /\ SignIn!End(r)
      /\ UNCHANGED <<email, authbcrypt, sessions, forgotpassword, newest, knows, spent, excused>>
      /\ \/ UNCHANGED <<emailverify, drawn, mailed>>
         \/ /\ emailverify' = [emailverify EXCEPT ![u] = row]
            /\ drawn' = drawn \cup {token}
            /\ mailed' = [mailed EXCEPT ![token] = address]
  BY DEF SignIn!EmailVerify
<1>2. u \in Members /\ address \in Emails
  BY <1>1, LoginsKinds DEF LoginsIInv, SignIn!At
<1>3. row \in [token : Tokens, address : Emails] /\ row.token = token /\ row.address = address
  BY <1>2
<1> HIDE DEF u, address, row
<1>4. LoginsBecame(r, SignIn!Idle) /\ SignIn!Idle.at = "idle" /\ SignIn!Idle \in LoginsRecord
  BY <1>1, LoginsEnds, LoginsIdleIs DEF LoginsIInv
<1>5. SignIn!TypeOK' /\ drawn \subseteq drawn'
  <2>1. emailverify' \in [Members -> {None} \cup [token : Tokens, address : Emails]]
    BY <1>1, <1>2, <1>3 DEF LoginsIInv, LoginsTables
  <2>2. mailed' \in [Tokens -> Emails \cup {None}] /\ drawn \subseteq drawn' /\ drawn' \subseteq Tokens \cup Sessions
    <3>1. mailed \in [Tokens -> Emails \cup {None}] /\ drawn \subseteq Tokens \cup Sessions
      BY DEF LoginsIInv, LoginsTables
    <3>2. CASE UNCHANGED <<emailverify, drawn, mailed>>
      BY <3>1, <3>2
    <3>3. CASE mailed' = [mailed EXCEPT ![token] = address] /\ drawn' = drawn \cup {token}
      BY <1>2, <3>1, <3>3
    <3> QED
      BY <1>1, <3>2, <3>3
  <2> QED
    BY <1>1, <1>4, <2>1, <2>2 DEF LoginsIInv, LoginsTables, LoginsBecame
<1>6. LoginsOwned' /\ LoginsSigninsKnow' /\ LoginsSessionsKnow'
  BY <1>1, <1>4, <1>5, LoginsCallMoves DEF SignIn!At
<1>7. CASE UNCHANGED <<emailverify, drawn, mailed>>
  <2>1. LoginsLinksDrawn' /\ LoginsResetsOnce'
    BY <1>1, <1>4, <1>7, LoginsLinksStay DEF LoginsBecame, LoginsElsewhere
  <2> QED
    BY <1>5, <1>6, <2>1 DEF LoginsIInv
<1>8. CASE /\ emailverify' = [emailverify EXCEPT ![u] = row]
           /\ drawn' = drawn \cup {token}
           /\ mailed' = [mailed EXCEPT ![token] = address]
  <2>1. \A v \in Members : v # u => emailverify'[v] = emailverify[v]
    BY <1>8 DEF LoginsIInv, LoginsTables
  <2>2. emailverify'[u] = row /\ mailed'[token] = address /\ token \in drawn'
    BY <1>2, <1>8 DEF LoginsIInv, LoginsTables
  <2>3. \A t \in Tokens : t \in drawn => t # token /\ mailed'[t] = mailed[t] /\ t \in drawn'
    BY <1>1, <1>8 DEF LoginsIInv, LoginsTables
  <2>4. LoginsLinksDrawn'
    <3> SUFFICES ASSUME NEW v \in Members, emailverify'[v] # None
                 PROVE  emailverify'[v].token \in drawn' /\ mailed'[emailverify'[v].token] = emailverify'[v].address
      BY DEF LoginsLinksDrawn
    <3>1. CASE v = u
      BY <1>3, <2>2, <3>1
    <3>2. CASE v # u
      <4>1. emailverify[v].token \in Tokens
        BY <2>1, <3>2 DEF LoginsIInv, LoginsTables
      <4>2. emailverify[v].token \in drawn /\ mailed[emailverify[v].token] = emailverify[v].address
        BY <2>1, <3>2 DEF LoginsIInv, LoginsLinksDrawn
      <4> QED
        BY <2>1, <2>3, <3>2, <4>1, <4>2
    <3> QED
      BY <3>1, <3>2
  <2>5. LoginsResetsOnce'
    <3>1. forgotpassword' = forgotpassword /\ spent' = spent
      BY <1>1
    <3>2. \A q \in Calls : SignIn!At(q, "reset")' => call'[q] = call[q] /\ SignIn!At(q, "reset")
      BY <1>4 DEF LoginsBecame, LoginsElsewhere, SignIn!At
    <3> QED
      BY <1>5, <3>1, <3>2 DEF LoginsIInv, LoginsResetsOnce
  <2> QED
    BY <1>5, <1>6, <2>4, <2>5 DEF LoginsIInv
<1> QED
  BY <1>1, <1>7, <1>8

LEMMA LoginsLinkEnds ==
    ASSUME LoginsIInv, NEW u \in Members, emailverify' = [emailverify EXCEPT ![u] = None],
           UNCHANGED <<forgotpassword, drawn, mailed, spent>>,
           \A r \in Calls : call'[r] = call[r] \/ call'[r].at # "reset"
    PROVE  LoginsLinksDrawn' /\ LoginsResetsOnce'
<1> USE LoginsTypeParts
<1>1. \A v \in Members : emailverify'[v] \in {None, emailverify[v]}
  BY DEF LoginsIInv, LoginsTables
<1>2. LoginsLinksDrawn'
  BY <1>1 DEF LoginsIInv, LoginsLinksDrawn
<1>3. LoginsResetsOnce'
  BY DEF LoginsIInv, LoginsResetsOnce, SignIn!At
<1> QED
  BY <1>2, <1>3

LEMMA LoginsVerifyEmailChangeInv ==
    ASSUME SignIn!ConstantsOK, LoginsIInv, NEW r \in Calls, NEW u \in Members, SignIn!VerifyEmailChange(r, u)
    PROVE  LoginsIInv'
<1> USE LoginsTypeParts
<1> DEFINE q == [at |-> "email update", user |-> u, address |-> emailverify[u].address]
<1>1. /\ emailverify[u] # None /\ SignIn!Start(r, q) /\ emailverify' = [emailverify EXCEPT ![u] = None]
      /\ UNCHANGED <<email, authbcrypt, sessions, forgotpassword, drawn, newest, knows, mailed, spent, excused>>
  BY DEF SignIn!VerifyEmailChange, SignIn!history
<1>2. emailverify[u].address \in Emails
  BY <1>1 DEF LoginsIInv, LoginsTables
<1>3. q \in LoginsRecord /\ q.at = "email update"
  BY <1>2 DEF LoginsRecord, LoginsUpdateCall
<1> HIDE DEF q
<1>4. LoginsBecame(r, q) /\ call[r].at = "idle"
  BY <1>1, <1>3, LoginsStarts DEF LoginsIInv
<1>5. SignIn!TypeOK'
  BY <1>1, <1>4 DEF LoginsIInv, LoginsTables, LoginsBecame
<1>6. LoginsOwned' /\ LoginsSigninsKnow' /\ LoginsSessionsKnow'
  BY <1>1, <1>3, <1>4, <1>5, LoginsCallMoves DEF SignIn!At
<1>7. LoginsLinksDrawn' /\ LoginsResetsOnce'
  BY <1>1, <1>3, <1>4, LoginsLinkEnds DEF LoginsBecame, LoginsElsewhere
<1> QED
  BY <1>5, <1>6, <1>7 DEF LoginsIInv

LEMMA LoginsExpireEmailVerifyInv ==
    ASSUME SignIn!ConstantsOK, LoginsIInv, NEW u \in Members, SignIn!ExpireEmailVerify(u)
    PROVE  LoginsIInv'
<1> USE LoginsTypeParts
<1>1. /\ emailverify' = [emailverify EXCEPT ![u] = None]
      /\ UNCHANGED <<email, authbcrypt, sessions, forgotpassword, drawn, call, newest, knows, mailed, spent, excused>>
  BY DEF SignIn!ExpireEmailVerify, SignIn!history
<1>2. SignIn!TypeOK'
  BY <1>1 DEF LoginsIInv, LoginsTables
<1>3. LoginsOwned' /\ LoginsSigninsKnow' /\ LoginsSessionsKnow'
  BY <1>1, LoginsSessionsStay
<1>4. LoginsLinksDrawn' /\ LoginsResetsOnce'
  BY <1>1, LoginsLinkEnds
<1> QED
  BY <1>2, <1>3, <1>4 DEF LoginsIInv

LEMMA LoginsUpdateEmailInv ==
    ASSUME SignIn!ConstantsOK, LoginsIInv, NEW r \in Calls, SignIn!UpdateEmail(r)
    PROVE  LoginsIInv'
<1> USE LoginsTypeParts
<1>1. /\ SignIn!At(r, "email update") /\ SignIn!End(r) /\ email' = [email EXCEPT ![call[r].user] = call[r].address]
      /\ UNCHANGED <<authbcrypt, sessions, emailverify, forgotpassword, drawn, newest, knows, mailed, spent, excused>>
  BY DEF SignIn!UpdateEmail, SignIn!history
<1>2. call[r].user \in Members /\ call[r].address \in Emails
  BY <1>1, LoginsKinds DEF LoginsIInv, SignIn!At
<1>3. LoginsBecame(r, SignIn!Idle) /\ SignIn!Idle.at = "idle" /\ SignIn!Idle \in LoginsRecord
  BY <1>1, LoginsEnds, LoginsIdleIs DEF LoginsIInv
<1>4. SignIn!TypeOK'
  BY <1>1, <1>2, <1>3 DEF LoginsIInv, LoginsTables, LoginsBecame
<1>5. LoginsOwned' /\ LoginsSigninsKnow' /\ LoginsSessionsKnow'
  BY <1>1, <1>3, <1>4, LoginsCallMoves DEF SignIn!At
<1>6. LoginsLinksDrawn' /\ LoginsResetsOnce'
  BY <1>1, <1>3, LoginsLinksStay DEF LoginsBecame, LoginsElsewhere
<1> QED
  BY <1>4, <1>5, <1>6 DEF LoginsIInv
-----------------------------------------------------------------------------
LEMMA LoginsCutShortInv ==
    ASSUME SignIn!ConstantsOK, LoginsIInv, NEW r \in Calls, SignIn!CutShort(r)
    PROVE  LoginsIInv'
<1> USE LoginsTypeParts
<1>1. /\ excused' = (IF SignIn!At(r, "revoke") THEN excused \cup SignIn!SessionsOf(call[r].user) ELSE excused) /\ SignIn!End(r)
      /\ UNCHANGED <<email, authbcrypt, sessions, emailverify, forgotpassword, drawn, newest, knows, mailed, spent>>
  BY DEF SignIn!CutShort, SignIn!tables
<1>2. LoginsBecame(r, SignIn!Idle) /\ SignIn!Idle.at = "idle"
  BY <1>1, LoginsEnds, LoginsIdleIs DEF LoginsIInv
<1>3. SignIn!TypeOK'
  BY <1>1, <1>2 DEF LoginsIInv, LoginsTables, LoginsBecame, SignIn!SessionsOf
<1>4. LoginsLinksDrawn' /\ LoginsResetsOnce'
  BY <1>1, <1>2, LoginsLinksStay DEF LoginsBecame, LoginsElsewhere
<1>5. LoginsOwned' /\ LoginsSigninsKnow'
  BY <1>1, <1>2 DEF LoginsIInv, LoginsOwned, LoginsSigninsKnow, SignIn!At, LoginsBecame, LoginsElsewhere
<1>6. LoginsSessionsKnow'
  <2> SUFFICES ASSUME NEW t \in Sessions \ excused', sessions[t] # None
               PROVE  knows[t] = authbcrypt[sessions[t]] \/ LoginsWillEnd(t)'
    BY <1>1 DEF LoginsSessionsKnow
  <2>1. t \notin excused /\ ~(SignIn!At(r, "revoke") /\ call[r].user = sessions[t])
    BY <1>1 DEF SignIn!SessionsOf
  <2>2. knows[t] = authbcrypt[sessions[t]] \/ LoginsWillEnd(t)
    BY <2>1 DEF LoginsIInv, LoginsSessionsKnow
  <2>3. LoginsWillEnd(t) => LoginsWillEnd(t)'
    BY <1>1, <1>2, <2>1 DEF LoginsWillEnd, SignIn!At, LoginsBecame, LoginsElsewhere
  <2> QED
    BY <2>2, <2>3
<1> QED
  BY <1>3, <1>4, <1>5, <1>6 DEF LoginsIInv

LEMMA LoginsRevokeSessionsInv ==
    ASSUME SignIn!ConstantsOK, LoginsIInv, NEW r \in Calls, SignIn!RevokeSessions(r)
    PROVE  LoginsIInv'
<1> USE LoginsTypeParts
<1>1. /\ SignIn!At(r, "revoke") /\ SignIn!End(r)
      /\ sessions' = [s \in Sessions |->
            IF sessions[s] = call[r].user /\ s # call[r].session THEN None ELSE sessions[s]]
      /\ UNCHANGED <<email, authbcrypt, emailverify, forgotpassword, drawn, newest, knows, mailed, spent, excused>>
  BY DEF SignIn!RevokeSessions, SignIn!history
<1>2. LoginsBecame(r, SignIn!Idle) /\ SignIn!Idle.at = "idle"
  BY <1>1, LoginsEnds, LoginsIdleIs DEF LoginsIInv
<1>3. SignIn!TypeOK'
  BY <1>1, <1>2 DEF LoginsIInv, LoginsTables, LoginsBecame
<1>4. LoginsLinksDrawn' /\ LoginsResetsOnce'
  BY <1>1, <1>2, LoginsLinksStay DEF LoginsBecame, LoginsElsewhere
<1>5. \A s \in Sessions : /\ sessions'[s] \in {None, sessions[s]}
                          /\ sessions'[s] # None => ~(sessions[s] = call[r].user /\ s # call[r].session)
  BY <1>1
<1>6. LoginsOwned'
  <2>1. \A t \in Sessions : sessions'[t] # None => t \in drawn'
    BY <1>1, <1>5 DEF LoginsIInv, LoginsOwned
  <2>2. ASSUME NEW p \in Calls, SignIn!At(p, "update")' \/ SignIn!At(p, "revoke")', call'[p].session # None
        PROVE  call'[p].session \in drawn' /\ sessions'[call'[p].session] \in {None, call'[p].user}
    <3>1. call'[p] = call[p] /\ (SignIn!At(p, "update") \/ SignIn!At(p, "revoke"))
      BY <1>2, <2>2 DEF LoginsBecame, LoginsElsewhere, SignIn!At
    <3>2. call[p].session \in Sessions
      BY <2>2, <3>1, LoginsKinds DEF LoginsIInv, SignIn!At, SignIn!SessionOrNone
    <3>3. call[p].session \in drawn /\ sessions[call[p].session] \in {None, call[p].user}
      BY <2>2, <3>1 DEF LoginsIInv, LoginsOwned
    <3> QED
      BY <1>1, <1>5, <3>1, <3>2, <3>3
  <2> QED
    BY <2>1, <2>2 DEF LoginsOwned, SignIn!At
<1>7. LoginsSigninsKnow'
  BY <1>1, <1>2 DEF LoginsIInv, LoginsSigninsKnow, SignIn!At, LoginsBecame, LoginsElsewhere
<1>8. LoginsSessionsKnow'
  <2> SUFFICES ASSUME NEW t \in Sessions \ excused, sessions'[t] # None
               PROVE  knows[t] = authbcrypt[sessions'[t]] \/ LoginsWillEnd(t)'
    BY <1>1 DEF LoginsSessionsKnow
  <2>1. sessions'[t] = sessions[t] /\ ~(sessions[t] = call[r].user /\ t # call[r].session)
    BY <1>5
  <2>2. knows[t] = authbcrypt[sessions[t]] \/ LoginsWillEnd(t)
    BY <2>1 DEF LoginsIInv, LoginsSessionsKnow
  <2>3. LoginsWillEnd(t) => LoginsWillEnd(t)'
    BY <1>1, <1>2, <2>1 DEF LoginsWillEnd, SignIn!At, LoginsBecame, LoginsElsewhere
  <2> QED
    BY <2>1, <2>2, <2>3
<1> QED
  BY <1>3, <1>4, <1>6, <1>7, <1>8 DEF LoginsIInv
-----------------------------------------------------------------------------
\* A new password, by a session or by none, and what is left to do.
LEMMA LoginsPasswordChanges ==
    ASSUME SignIn!ConstantsOK, LoginsIInv, NEW r \in Calls, NEW u \in Members,
           NEW session \in SignIn!SessionOrNone,
           NEW next \in LoginsPasswordCall, next.at = "revoke", next.user = u, next.session = session,
           session # None => session \in drawn /\ sessions[session] \in {None, u},
           SignIn!NextPassword(u), SignIn!Overtaking(r, u, next), ~SignIn!At(r, "revoke"),
           knows' \in [Sessions -> SignIn!Passwords],
           session # None => knows'[session] = authbcrypt'[u],
           \A s \in Sessions : s # session => knows'[s] = knows[s],
           UNCHANGED <<sessions, drawn, excused>>
    PROVE  /\ authbcrypt' \in [Members -> SignIn!Passwords] /\ newest' \in [Members -> SignIn!Passwords]
           /\ call' \in [Calls -> LoginsRecord]
           /\ \A q \in Calls : SignIn!At(q, "reset")' => q # r /\ call'[q] = call[q] /\ SignIn!At(q, "reset")
           /\ LoginsOwned' /\ LoginsSigninsKnow' /\ LoginsSessionsKnow'
<1> USE LoginsTypeParts
<1>1. /\ newest[u] < MaxPassword /\ newest' = [newest EXCEPT ![u] = @ + 1]
      /\ authbcrypt' = [authbcrypt EXCEPT ![u] = newest'[u]]
  BY DEF SignIn!NextPassword
<1>2. newest[u] + 1 \in SignIn!Passwords
  BY <1>1 DEF LoginsIInv, LoginsTables, SignIn!Passwords, SignIn!ConstantsOK
<1>3. authbcrypt' \in [Members -> SignIn!Passwords] /\ newest' \in [Members -> SignIn!Passwords]
  BY <1>1, <1>2 DEF LoginsIInv, LoginsTables
<1>4. \A v \in Members : v # u => authbcrypt'[v] = authbcrypt[v]
  BY <1>1 DEF LoginsIInv, LoginsTables
<1>5. next \in LoginsRecord
  BY DEF LoginsRecord
<1>6. /\ call' \in [Calls -> LoginsRecord] /\ call'[r] = next
      /\ \A q \in Calls \ {r} :
             \/ call'[q] = call[q] /\ ~(SignIn!At(q, "create session") /\ call[q].user = u)
             \/ /\ SignIn!At(q, "create session")
                /\ call'[q].at = "create session" /\ call'[q].late
  BY <1>5, LoginsOvertakes DEF LoginsIInv
<1>7. \A q \in Calls : SignIn!At(q, "reset")' => q # r /\ call'[q] = call[q] /\ SignIn!At(q, "reset")
  BY <1>6 DEF SignIn!At
<1>8. LoginsOwned'
  <2>1. \A t \in Sessions : sessions'[t] # None => t \in drawn'
    BY DEF LoginsIInv, LoginsOwned
  <2>2. ASSUME NEW p \in Calls, SignIn!At(p, "update")' \/ SignIn!At(p, "revoke")', call'[p].session # None
        PROVE  call'[p].session \in drawn' /\ sessions'[call'[p].session] \in {None, call'[p].user}
    <3>1. CASE p = r
      BY <1>6, <2>2, <3>1
    <3>2. CASE p # r
      <4>1. call'[p] = call[p] /\ (SignIn!At(p, "update") \/ SignIn!At(p, "revoke"))
        BY <1>6, <2>2, <3>2 DEF SignIn!At
      <4> QED
        BY <2>2, <4>1 DEF LoginsIInv, LoginsOwned
    <3> QED
      BY <3>1, <3>2
  <2> QED
    BY <2>1, <2>2 DEF LoginsOwned, SignIn!At
<1>9. LoginsSigninsKnow'
  <2> SUFFICES ASSUME NEW q \in Calls, SignIn!At(q, "create session")', ~call'[q].late
               PROVE  call'[q].password = authbcrypt'[call'[q].user]
    BY DEF LoginsSigninsKnow, SignIn!At
  <2>1. q # r /\ call'[q] = call[q] /\ SignIn!At(q, "create session") /\ call[q].user # u
    BY <1>6 DEF SignIn!At
  <2>2. call[q].user \in Members
    BY <2>1, LoginsKinds DEF LoginsIInv, SignIn!At
  <2> QED
    BY <1>4, <2>1, <2>2 DEF LoginsIInv, LoginsSigninsKnow
<1>10. LoginsSessionsKnow'
  <2> SUFFICES ASSUME NEW t \in Sessions \ excused, sessions[t] # None
               PROVE  knows'[t] = authbcrypt'[sessions[t]] \/ LoginsWillEnd(t)'
    BY DEF LoginsSessionsKnow
  <2>1. CASE t = session
    BY <2>1 DEF SignIn!ConstantsOK
  <2>2. CASE t # session /\ sessions[t] = u
    BY <1>6, <2>2 DEF LoginsWillEnd, SignIn!At
  <2>3. CASE t # session /\ sessions[t] # u
    <3>1. sessions[t] \in Members
      BY DEF LoginsIInv, LoginsTables
    <3>2. knows[t] = authbcrypt[sessions[t]] \/ LoginsWillEnd(t)
      BY DEF LoginsIInv, LoginsSessionsKnow
    <3>3. LoginsWillEnd(t) => LoginsWillEnd(t)'
      <4> SUFFICES ASSUME NEW q \in Calls, SignIn!At(q, "revoke"), call[q].user = sessions[t], call[q].session # t
                   PROVE  LoginsWillEnd(t)'
        BY DEF LoginsWillEnd
      <4>1. call'[q] = call[q]
        BY <1>6 DEF SignIn!At
      <4> QED
        BY <4>1 DEF LoginsWillEnd, SignIn!At
    <3>4. sessions'[t] = sessions[t] /\ knows'[t] = knows[t] /\ authbcrypt'[sessions[t]] = authbcrypt[sessions[t]]
      BY <1>4, <2>3, <3>1
    <3> QED
      BY <3>2, <3>3, <3>4
  <2> QED
    BY <2>1, <2>2, <2>3
<1> QED
  BY <1>3, <1>6, <1>7, <1>8, <1>9, <1>10

LEMMA LoginsUpdatePasswordInv ==
    ASSUME SignIn!ConstantsOK, LoginsIInv, NEW r \in Calls, SignIn!UpdatePassword(r)
    PROVE  LoginsIInv'
<1> USE LoginsTypeParts
<1> DEFINE u == call[r].user
           s == call[r].session
           next == [at |-> "revoke", user |-> u, session |-> s]
<1>1. /\ SignIn!At(r, "update") /\ SignIn!NextPassword(u) /\ knows' = [knows EXCEPT ![s] = newest'[u]]
      /\ SignIn!Overtaking(r, u, next)
      /\ UNCHANGED <<email, sessions, emailverify, forgotpassword, drawn, mailed, spent, excused>>
  BY DEF SignIn!UpdatePassword
<1>2. u \in Members /\ s \in SignIn!SessionOrNone
  BY <1>1, LoginsKinds DEF LoginsIInv, SignIn!At
<1>3. next \in LoginsPasswordCall /\ next.at = "revoke" /\ next.user = u /\ next.session = s
  BY <1>2 DEF LoginsPasswordCall
<1>4. s # None => s \in drawn /\ sessions[s] \in {None, u}
  BY <1>1 DEF LoginsIInv, LoginsOwned
<1> HIDE DEF u, s, next
<1>5. newest'[u] = authbcrypt'[u] /\ newest'[u] \in SignIn!Passwords
  BY <1>1, <1>2 DEF SignIn!NextPassword, LoginsIInv, LoginsTables, SignIn!Passwords, SignIn!ConstantsOK
<1>6. /\ knows' \in [Sessions -> SignIn!Passwords] /\ (s # None => knows'[s] = authbcrypt'[u])
      /\ \A t \in Sessions : t # s => knows'[t] = knows[t]
  BY <1>1, <1>2, <1>5 DEF LoginsIInv, LoginsTables, SignIn!SessionOrNone
<1>7. ~SignIn!At(r, "revoke")
  BY <1>1 DEF SignIn!At
<1>8. UNCHANGED <<sessions, drawn, excused>>
  BY <1>1
<1>9. /\ authbcrypt' \in [Members -> SignIn!Passwords] /\ newest' \in [Members -> SignIn!Passwords]
      /\ call' \in [Calls -> LoginsRecord]
      /\ \A q \in Calls : SignIn!At(q, "reset")' => q # r /\ call'[q] = call[q] /\ SignIn!At(q, "reset")
      /\ LoginsOwned' /\ LoginsSigninsKnow' /\ LoginsSessionsKnow'
  BY <1>1, <1>2, <1>3, <1>4, <1>6, <1>7, <1>8, LoginsPasswordChanges
<1>10. SignIn!TypeOK'
  BY <1>1, <1>6, <1>9 DEF LoginsIInv, LoginsTables
<1>11. LoginsLinksDrawn' /\ LoginsResetsOnce'
  BY <1>1, <1>9, LoginsLinksStay DEF SignIn!At
<1> QED
  BY <1>9, <1>10, <1>11 DEF LoginsIInv
-----------------------------------------------------------------------------
LEMMA LoginsRequestResetInv ==
    ASSUME SignIn!ConstantsOK, LoginsIInv, NEW token \in Tokens, NEW address \in Emails,
           SignIn!RequestReset(token, address)
    PROVE  LoginsIInv'
<1> USE LoginsTypeParts
<1>1. /\ token \notin drawn /\ drawn' = drawn \cup {token}
      /\ forgotpassword' = [forgotpassword EXCEPT ![token] = address]
      /\ mailed' = [mailed EXCEPT ![token] = address]
      /\ UNCHANGED <<email, authbcrypt, sessions, emailverify, call, newest, knows, spent, excused>>
  BY DEF SignIn!RequestReset
<1>2. SignIn!TypeOK'
  BY <1>1 DEF LoginsIInv, LoginsTables
<1>3. LoginsOwned' /\ LoginsSigninsKnow' /\ LoginsSessionsKnow'
  BY <1>1, LoginsSessionsStay
<1>4. \A t \in drawn : t # token /\ mailed'[t] = mailed[t]
  BY <1>1 DEF LoginsIInv, LoginsTables
<1>5. LoginsLinksDrawn'
  BY <1>1, <1>4 DEF LoginsIInv, LoginsLinksDrawn
<1>6. address # None /\ forgotpassword'[token] = address
  BY <1>1 DEF SignIn!ConstantsOK, LoginsIInv, LoginsTables
<1>7. \A t \in Tokens : t # token => forgotpassword'[t] = forgotpassword[t]
  BY <1>1 DEF LoginsIInv, LoginsTables
<1>8. \A q \in Calls : SignIn!At(q, "reset") => call[q].token \in Tokens
  BY LoginsKinds DEF LoginsIInv, SignIn!At
<1>9. LoginsResetsOnce'
  BY <1>1, <1>6, <1>7, <1>8 DEF LoginsIInv, LoginsResetsOnce, SignIn!At
<1> QED
  BY <1>2, <1>3, <1>5, <1>9 DEF LoginsIInv

LEMMA LoginsResetFindInv ==
    ASSUME SignIn!ConstantsOK, LoginsIInv, NEW r \in Calls, NEW token \in Tokens, NEW u \in Members,
           SignIn!ResetFind(r, token, u)
    PROVE  LoginsIInv'
<1> USE LoginsTypeParts
<1> DEFINE q == [at |-> "reset", user |-> u, token |-> token]
<1>1. /\ forgotpassword[token] # None /\ token \notin SignIn!Held /\ SignIn!Start(r, q)
      /\ UNCHANGED <<email, authbcrypt, sessions, emailverify, forgotpassword, drawn, newest, knows, mailed, spent, excused>>
  BY DEF SignIn!ResetFind, SignIn!tables, SignIn!history
<1>2. q \in LoginsRecord /\ q.at = "reset" /\ q.token = token
  BY DEF LoginsRecord, LoginsResetCall
<1> HIDE DEF q
<1>3. LoginsBecame(r, q) /\ call[r].at = "idle"
  BY <1>1, <1>2, LoginsStarts DEF LoginsIInv
<1>4. SignIn!TypeOK'
  BY <1>1, <1>3 DEF LoginsIInv, LoginsTables, LoginsBecame
<1>5. LoginsOwned' /\ LoginsSigninsKnow' /\ LoginsSessionsKnow'
  BY <1>1, <1>2, <1>3, LoginsSessionsStay DEF LoginsBecame, LoginsElsewhere, LoginsSessionless, SignIn!At
<1>6. LoginsLinksDrawn'
  BY <1>1 DEF LoginsIInv, LoginsLinksDrawn
<1>7. \A p \in Calls : SignIn!At(p, "reset") => call[p].token # token
  BY <1>1 DEF SignIn!Held
<1>8. \A p \in Calls \ {r} : call'[p] = call[p]
  BY <1>3 DEF LoginsBecame, LoginsElsewhere
<1>9. call'[r].token = token
  BY <1>2, <1>3 DEF LoginsBecame
<1>10. LoginsResetsOnce'
  <2>1. \A p \in Calls : SignIn!At(p, "reset")' => forgotpassword'[call'[p].token] # None
    BY <1>1, <1>8, <1>9 DEF LoginsIInv, LoginsResetsOnce, SignIn!At
  <2>2. \A o, p \in Calls : SignIn!At(o, "reset")' /\ SignIn!At(p, "reset")' /\ call'[o].token = call'[p].token => o = p
    BY <1>7, <1>8, <1>9 DEF LoginsIInv, LoginsResetsOnce, SignIn!At
  <2> QED
    BY <1>1, <2>1, <2>2 DEF LoginsIInv, LoginsResetsOnce, SignIn!At
<1> QED
  BY <1>4, <1>5, <1>6, <1>10 DEF LoginsIInv

\* A reset token that nobody else holds goes.
LEMMA LoginsTokenGoes ==
    ASSUME SignIn!ConstantsOK, LoginsIInv, NEW token \in Tokens,
           forgotpassword' = [forgotpassword EXCEPT ![token] = None],
           drawn' = drawn, spent' \in [Tokens -> Nat], spent'[token] \in {0, 1},
           spent'[token] = 0 \/ token \in drawn,
           \A t \in Tokens : t # token => spent'[t] = spent[t],
           \A q \in Calls : SignIn!At(q, "reset")' =>
               call'[q] = call[q] /\ SignIn!At(q, "reset") /\ call[q].token # token
    PROVE  LoginsResetsOnce'
<1> USE LoginsTypeParts
<1>1. forgotpassword'[token] = None /\ \A t \in Tokens : t # token => forgotpassword'[t] = forgotpassword[t]
  BY DEF LoginsIInv, LoginsTables
<1>2. \A t \in Tokens : forgotpassword'[t] # None => t \in drawn' /\ spent'[t] = 0
  BY <1>1 DEF LoginsIInv, LoginsResetsOnce
<1>3. \A t \in Tokens : spent'[t] <= 1 /\ (t \notin drawn' => spent'[t] = 0)
  <2>1. spent'[token] <= 1
    OBVIOUS
  <2> QED
    BY <2>1 DEF LoginsIInv, LoginsResetsOnce
<1>4. \A q \in Calls : SignIn!At(q, "reset") => call[q].token \in Tokens
  BY LoginsKinds DEF LoginsIInv, SignIn!At
<1>5. \A q \in Calls : SignIn!At(q, "reset")' => forgotpassword'[call'[q].token] # None
  BY <1>1, <1>4 DEF LoginsIInv, LoginsResetsOnce
<1>6. \A p, q \in Calls : SignIn!At(p, "reset")' /\ SignIn!At(q, "reset")' /\ call'[p].token = call'[q].token => p = q
  BY DEF LoginsIInv, LoginsResetsOnce
<1> QED
  BY <1>2, <1>3, <1>5, <1>6 DEF LoginsResetsOnce, SignIn!At

LEMMA LoginsResetCommitInv ==
    ASSUME SignIn!ConstantsOK, LoginsIInv, NEW r \in Calls, SignIn!ResetCommit(r)
    PROVE  LoginsIInv'
<1> USE LoginsTypeParts
<1> DEFINE u == call[r].user
           token == call[r].token
           next == [at |-> "revoke", user |-> u, session |-> None]
<1>1. /\ SignIn!At(r, "reset") /\ SignIn!NextPassword(u) /\ SignIn!Overtaking(r, u, next)
      /\ forgotpassword' = [forgotpassword EXCEPT ![token] = None]
      /\ spent' = [spent EXCEPT ![token] = @ + 1]
      /\ UNCHANGED <<email, sessions, emailverify, drawn, knows, mailed, excused>>
  BY DEF SignIn!ResetCommit
<1>2. u \in Members /\ token \in Tokens
  BY <1>1, LoginsKinds DEF LoginsIInv, SignIn!At
<1>3. next \in LoginsPasswordCall /\ next.at = "revoke" /\ next.user = u /\ next.session = None /\ None \in SignIn!SessionOrNone
  BY <1>2 DEF LoginsPasswordCall, SignIn!SessionOrNone
<1>4. forgotpassword[token] # None
  BY <1>1 DEF LoginsIInv, LoginsResetsOnce
<1>5. \A q \in Calls : q # r /\ SignIn!At(q, "reset") => call[q].token # token
  BY <1>1 DEF LoginsIInv, LoginsResetsOnce
<1> HIDE DEF u, token, next
<1>6. ~SignIn!At(r, "revoke")
  BY <1>1 DEF SignIn!At
<1>7. UNCHANGED <<sessions, drawn, excused>> /\ knows' = knows /\ knows' \in [Sessions -> SignIn!Passwords]
  BY <1>1 DEF LoginsIInv, LoginsTables
<1>8. /\ authbcrypt' \in [Members -> SignIn!Passwords] /\ newest' \in [Members -> SignIn!Passwords]
      /\ call' \in [Calls -> LoginsRecord]
      /\ \A q \in Calls : SignIn!At(q, "reset")' => q # r /\ call'[q] = call[q] /\ SignIn!At(q, "reset")
      /\ LoginsOwned' /\ LoginsSigninsKnow' /\ LoginsSessionsKnow'
  BY <1>1, <1>2, <1>3, <1>6, <1>7, LoginsPasswordChanges
<1>9. token \in drawn /\ spent[token] = 0
  BY <1>2, <1>4 DEF LoginsIInv, LoginsResetsOnce
<1>10. /\ spent' \in [Tokens -> Nat] /\ spent'[token] = 1
       /\ \A t \in Tokens : t # token => spent'[t] = spent[t]
  BY <1>1, <1>2, <1>9 DEF LoginsIInv, LoginsTables
<1>11. SignIn!TypeOK'
  BY <1>1, <1>2, <1>8, <1>10 DEF LoginsIInv, LoginsTables
<1>12. \A q \in Calls : SignIn!At(q, "reset")' => call'[q] = call[q] /\ SignIn!At(q, "reset") /\ call[q].token # token
  BY <1>5, <1>8
<1>13. LoginsResetsOnce'
  BY <1>1, <1>2, <1>9, <1>10, <1>12, LoginsTokenGoes
<1>14. LoginsLinksDrawn'
  BY <1>1 DEF LoginsIInv, LoginsLinksDrawn
<1> QED
  BY <1>8, <1>11, <1>13, <1>14 DEF LoginsIInv

LEMMA LoginsExpireResetInv ==
    ASSUME SignIn!ConstantsOK, LoginsIInv, NEW token \in Tokens, SignIn!ExpireReset(token)
    PROVE  LoginsIInv'
<1> USE LoginsTypeParts
<1>1. /\ forgotpassword[token] # None /\ token \notin SignIn!Held
      /\ forgotpassword' = [forgotpassword EXCEPT ![token] = None]
      /\ UNCHANGED <<email, authbcrypt, sessions, emailverify, drawn, call, newest, knows, mailed, spent, excused>>
  BY DEF SignIn!ExpireReset, SignIn!history
<1>2. SignIn!TypeOK'
  BY <1>1 DEF LoginsIInv, LoginsTables
<1>3. LoginsOwned' /\ LoginsSigninsKnow' /\ LoginsSessionsKnow'
  BY <1>1, LoginsSessionsStay
<1>4. LoginsLinksDrawn'
  BY <1>1 DEF LoginsIInv, LoginsLinksDrawn
<1>5. \A q \in Calls : SignIn!At(q, "reset")' => call'[q] = call[q] /\ SignIn!At(q, "reset") /\ call[q].token # token
  BY <1>1 DEF SignIn!At, SignIn!Held
<1>6. spent'[token] = 0 /\ spent' \in [Tokens -> Nat]
  BY <1>1 DEF LoginsIInv, LoginsResetsOnce, LoginsTables
<1>7. LoginsResetsOnce'
  BY <1>1, <1>5, <1>6, LoginsTokenGoes
<1> QED
  BY <1>2, <1>3, <1>4, <1>7 DEF LoginsIInv
-----------------------------------------------------------------------------
LEMMA LoginsStepInv ==
    ASSUME SignIn!ConstantsOK, LoginsIInv, SignIn!Next
    PROVE  LoginsIInv'
<1>1. CASE \E s \in Sessions : SignIn!Signout(s)
  BY <1>1, LoginsSignoutInv
<1>2. CASE \E u \in Members : SignIn!ExpireEmailVerify(u)
  BY <1>2, LoginsExpireEmailVerifyInv
<1>3. CASE \E token \in Tokens : SignIn!ExpireReset(token)
  BY <1>3, LoginsExpireResetInv
<1>4. CASE \E token \in Tokens : \E address \in Emails : SignIn!RequestReset(token, address)
  BY <1>4, LoginsRequestResetInv
<1>5. CASE \E r \in Calls : \E u \in Members : SignIn!SigninCheck(r, u) \/ SignIn!VerifyEmailChange(r, u)
  BY <1>5, LoginsSigninCheckInv, LoginsVerifyEmailChangeInv
<1>6. CASE \E r \in Calls : \E s \in Sessions : SignIn!SigninCreate(r, s) \/ SignIn!EditPassword(r, s)
  BY <1>6, LoginsSigninCreateInv, LoginsEditPasswordInv
<1>7. CASE \E r \in Calls : SignIn!UpdatePassword(r) \/ SignIn!RevokeSessions(r) \/ SignIn!CutShort(r)
  BY <1>7, LoginsUpdatePasswordInv, LoginsRevokeSessionsInv, LoginsCutShortInv
<1>8. CASE \E r \in Calls : \E s \in Sessions, address \in Emails : SignIn!EditEmail(r, s, address)
  BY <1>8, LoginsEditEmailInv
<1>9. CASE \E r \in Calls : SignIn!EmailExists(r) \/ SignIn!UpdateEmail(r) \/ SignIn!ResetCommit(r)
  BY <1>9, LoginsEmailExistsInv, LoginsUpdateEmailInv, LoginsResetCommitInv
<1>10. CASE \E r \in Calls : \E token \in Tokens : SignIn!EmailVerify(r, token) \/ \E u \in Members : SignIn!ResetFind(r, token, u)
  BY <1>10, LoginsEmailVerifyInv, LoginsResetFindInv
<1> QED
  BY <1>1, <1>2, <1>3, <1>4, <1>5, <1>6, <1>7, <1>8, <1>9, <1>10 DEF SignIn!Next

LEMMA LoginsStillInv ==
    ASSUME LoginsIInv, UNCHANGED SignIn!vars
    PROVE  LoginsIInv'
<1> USE LoginsTypeParts
<1>1. UNCHANGED <<email, authbcrypt, sessions, emailverify, forgotpassword, drawn, call, newest, knows, mailed, spent, excused>>
  BY DEF SignIn!vars, SignIn!tables, SignIn!history
<1>2. SignIn!TypeOK'
  BY <1>1 DEF LoginsIInv, LoginsTables
<1>3. LoginsOwned' /\ LoginsSigninsKnow' /\ LoginsSessionsKnow'
  BY <1>1, LoginsSessionsStay
<1>4. LoginsLinksDrawn' /\ LoginsResetsOnce'
  BY <1>1, LoginsLinksStay
<1> QED
  BY <1>2, <1>3, <1>4 DEF LoginsIInv

LEMMA LoginsNextInv == SignIn!ConstantsOK /\ LoginsIInv /\ [SignIn!Next]_SignIn!vars => LoginsIInv'
  BY LoginsStepInv, LoginsStillInv

LEMMA LoginsPromises ==
    ASSUME LoginsIInv
    PROVE  SignIn!SessionsKnowPassword /\ SignIn!LinksWorkOnce /\ SignIn!LinksConfirmTheirAddress
<1>1. SignIn!SessionsKnowPassword
  BY DEF LoginsIInv, LoginsSessionsKnow, SignIn!SessionsKnowPassword, LoginsWillEnd, SignIn!Changing
<1>2. SignIn!LinksWorkOnce
  BY DEF LoginsIInv, LoginsResetsOnce, SignIn!LinksWorkOnce
<1>3. SignIn!LinksConfirmTheirAddress
  BY DEF LoginsIInv, LoginsLinksDrawn, SignIn!LinksConfirmTheirAddress
<1> QED
  BY <1>1, <1>2, <1>3
-----------------------------------------------------------------------------
\* While the part moves it has its invariant; and so it has in every state.
LoginsHold == part = "credentials" => LoginsIInv

LEMMA LoginsAreHeld == AccountsSpec => []LoginsHold
<1>1. AccountsInit => LoginsHold
  BY LoginsInitInv, AccountsAssumption DEF AccountsInit, LoginsHold
<1>2. LoginsHold /\ [AccountsNext]_all_accounts_vars => LoginsHold'
  <2> SUFFICES ASSUME LoginsHold, [AccountsNext]_all_accounts_vars, part' = "credentials" PROVE LoginsIInv'
    BY DEF LoginsHold
  <2>1. part = "credentials" /\ LoginsIInv
    BY PartStays DEF LoginsHold
  <2>2. SignIn!Next \/ UNCHANGED <<credentials_vars, call>>
    BY <2>1 DEF AccountsNext, all_accounts_vars
  <2>3. UNCHANGED <<credentials_vars, call>> => UNCHANGED SignIn!vars
    BY DEF credentials_vars, SignIn!vars, SignIn!tables, SignIn!history
  <2> QED
    BY <2>1, <2>2, <2>3, LoginsNextInv, AccountsAssumption
<1> QED
  BY <1>1, <1>2, PTL DEF AccountsSpec

\* signin, edit_email_password and reset (weasyl/login.py, profile.py,
\* resetpassword.py): a changed password ends the sessions that do not know it, but
\* for those of a sign-in it overtook and of a change cut short; a reset link works
\* once, used by any number of calls at a time; and a link that confirms an address
\* was sent to it.
THEOREM CredentialsStayGood == AccountsSpec => []CredentialsHold
<1>1. LoginsHold => CredentialsHold
  BY LoginsPromises DEF LoginsHold, LoginsIInv, CredentialsHold
<1> QED
  BY <1>1, LoginsAreHeld, PTL
-----------------------------------------------------------------------------
LEMMA ConfigTypeParts ==
    /\ Accounts!TypeOK <=> ConfigTables /\ call \in [Calls -> ConfigRecord]
    /\ Accounts!TypeOK' <=> ConfigTables' /\ call' \in [Calls -> ConfigRecord]
  BY DEF Accounts!TypeOK, ConfigTables, ConfigRecord

LEMMA ConfigIdleIs == Accounts!Idle \in ConfigRecord /\ Accounts!Idle.at = "idle" /\ "owed" \notin DOMAIN Accounts!Idle /\ Accounts!Idle \notin Accounts!UserCalls
<1>1. \A q \in Accounts!UserCalls : q.at # "idle"
  BY DEF Accounts!UserCalls
<1>2. "owed" \notin DOMAIN Accounts!Idle
  BY DEF Accounts!Idle
<1> QED
  BY <1>1, <1>2 DEF Accounts!Idle, ConfigRecord

LEMMA ConfigModIs ==
    ASSUME NEW q \in Accounts!ModCalls
    PROVE  /\ q.at \in {"delete", "commit", "manage rating", "invalidate"} /\ q \in ConfigRecord
           /\ q.doing \in {"b", "s", "x", "manage", "vouch"} /\ q.deletes \in SUBSET {"permaban", "suspension"}
           /\ "owed" \notin DOMAIN q /\ q \notin Accounts!UserCalls
<1>1. /\ q.at \in {"delete", "commit", "manage rating", "invalidate"} /\ q \in ConfigRecord
      /\ q.doing \in {"b", "s", "x", "manage", "vouch"} /\ q.deletes \in SUBSET {"permaban", "suspension"}
  BY DEF Accounts!ModCalls, ConfigRecord
<1>2. "owed" \notin DOMAIN q
  BY DEF Accounts!ModCalls
<1>3. \A p \in Accounts!UserCalls : "owed" \in DOMAIN p
  BY DEF Accounts!UserCalls
<1> QED
  BY <1>1, <1>2, <1>3

LEMMA ConfigUserIs ==
    ASSUME NEW q \in Accounts!UserCalls
    PROVE  /\ q.at \in {"config", "fill", "decide", "suspension", "lift", "admitted", "assert", "prefer", "invalidate"}
           /\ q \in ConfigRecord /\ q.doing \in Accounts!UserRequests /\ q.seen \in Accounts!Configs \cup {None}
           /\ q.late \in BOOLEAN /\ q.owed \in BOOLEAN /\ "owed" \in DOMAIN q
  BY DEF Accounts!UserCalls, ConfigRecord

LEMMA ConfigKinds ==
    ASSUME NEW q \in ConfigRecord
    PROVE  /\ q.at \in {"config", "fill", "decide", "suspension", "lift", "admitted", "assert", "prefer"} => q \in Accounts!UserCalls
           /\ q.at \in {"delete", "commit", "manage rating"} => q \in Accounts!ModCalls
           /\ q \in Accounts!UserCalls \/ ~ConfigOwing(q)
  BY ConfigModIs, ConfigUserIs, ConfigIdleIs DEF ConfigRecord, ConfigOwing

\* A request of the user goes on.
LEMMA ConfigUserGoes ==
    ASSUME NEW p \in Accounts!UserCalls,
           NEW a \in {"config", "fill", "decide", "suspension", "lift", "admitted", "assert", "prefer", "invalidate"}
    PROVE  LET q == [p EXCEPT !.at = a]
           IN  /\ q \in Accounts!UserCalls /\ q \in ConfigRecord /\ q.at = a
               /\ q.doing = p.doing /\ q.seen = p.seen /\ q.late = p.late /\ q.owed = p.owed
  BY DEF Accounts!UserCalls, ConfigRecord

\* A request that no longer has to be stopped.
LEMMA ConfigExcuses ==
    ASSUME Accounts!TypeOK, NEW t \in Calls
    PROVE  /\ Accounts!Excused(t) \in ConfigRecord /\ Accounts!Excused(t).at = call[t].at /\ ~ConfigOwing(Accounts!Excused(t))
           /\ Accounts!Excused(t) = Accounts!Idle <=> call[t] = Accounts!Idle
           /\ Accounts!At(t, "fill") => Accounts!Excused(t).seen = call[t].seen /\ Accounts!Excused(t).late = call[t].late
<1>1. CASE call[t] \in Accounts!UserCalls
  <2> DEFINE p == call[t]
             q == [p EXCEPT !.owed = FALSE]
  <2>1. Accounts!Excused(t) = q
    BY <1>1, ConfigUserIs DEF Accounts!Excused
  <2>2. q \in Accounts!UserCalls /\ q.at = p.at /\ q.seen = p.seen /\ q.late = p.late /\ q.owed = FALSE
    BY <1>1 DEF Accounts!UserCalls
  <2>3. q # Accounts!Idle /\ p # Accounts!Idle
    BY <1>1, <2>2, ConfigIdleIs
  <2> HIDE DEF q
  <2> QED
    BY <1>1, <2>1, <2>2, <2>3, ConfigUserIs DEF ConfigOwing
<1>2. CASE call[t] \in Accounts!ModCalls \cup {Accounts!Idle}
  <2>1. Accounts!Excused(t) = call[t]
    BY <1>2, ConfigModIs, ConfigIdleIs DEF Accounts!Excused
  <2> QED
    BY <1>2, <2>1, ConfigModIs, ConfigIdleIs DEF ConfigOwing
<1> QED
  BY <1>1, <1>2, ConfigTypeParts DEF ConfigRecord

LEMMA ConfigBecomes ==
    ASSUME Accounts!TypeOK, NEW t \in Calls, NEW q \in ConfigRecord, call' = [call EXCEPT ![t] = q]
    PROVE  ConfigBecame(t, q)
  BY ConfigTypeParts DEF ConfigBecame, ConfigElsewhere

LEMMA ConfigGoes ==
    ASSUME Accounts!TypeOK, NEW t \in Calls, call[t] \in Accounts!UserCalls,
           NEW a \in {"config", "fill", "decide", "suspension", "lift", "admitted", "assert", "prefer", "invalidate"},
           Accounts!Goto(t, a)
    PROVE  ConfigGone(t, a)
<1>0. PICK p \in Accounts!UserCalls : p = call[t]
  OBVIOUS
<1> DEFINE q == [p EXCEPT !.at = a]
<1>1. q \in Accounts!UserCalls /\ q \in ConfigRecord /\ q.at = a /\ q.owed = p.owed
  BY DEF Accounts!UserCalls, ConfigRecord
<1>2. call' = [call EXCEPT ![t] = q]
  BY <1>0 DEF Accounts!Goto
<1> HIDE DEF q
<1>3. ConfigBecame(t, q)
  BY <1>1, <1>2, ConfigBecomes
<1> QED
  BY <1>0, <1>1, <1>3 DEF ConfigGone

LEMMA ConfigEnds ==
    ASSUME Accounts!TypeOK, NEW t \in Calls, Accounts!End(t)
    PROVE  /\ ConfigBecame(t, Accounts!Idle) /\ local' \in [Calls -> Accounts!Configs \cup {None}] /\ local'[t] = None
           /\ \A u \in Calls \ {t} : local'[u] = local[u]
<1>1. ConfigBecame(t, Accounts!Idle)
  BY ConfigBecomes, ConfigIdleIs DEF Accounts!End
<1> QED
  BY <1>1, ConfigTypeParts DEF Accounts!End, ConfigTables

LEMMA ConfigInitInv == Accounts!ConstantsOK /\ Accounts!Init => ConfigIInv
<1> SUFFICES ASSUME Accounts!ConstantsOK, Accounts!Init PROVE ConfigIInv
  OBVIOUS
<1>1. \A t \in Calls : call[t] = Accounts!Idle /\ call[t].at = "idle" /\ ~ConfigOwing(call[t])
  BY ConfigIdleIs DEF Accounts!Init, ConfigOwing
<1>2. Accounts!TypeOK
  BY <1>1 DEF Accounts!Init, Accounts!TypeOK
<1>3. ConfigCacheFits /\ ConfigOwedHolds
  BY <1>1 DEF Accounts!Init, ConfigCacheFits, ConfigOwedHolds, ConfigFits, Accounts!At
<1>4. ConfigLocalsEmpty /\ ConfigAges
  BY <1>1 DEF Accounts!Init, ConfigLocalsEmpty, ConfigAges, Accounts!At, Accounts!RatingIsAsserted,
     Accounts!Saving, Accounts!MinorsSeeGeneral
<1> QED
  BY <1>2, <1>3, <1>4 DEF ConfigIInv
-----------------------------------------------------------------------------
\* One call moves, without a change of bans, suspensions or memcached.
LEMMA ConfigCacheMoves ==
    ASSUME ConfigIInv, UNCHANGED <<permaban, suspension, stored, overtaken_config>>,
           NEW t \in Calls, NEW q \in ConfigRecord, ConfigBecame(t, q), ~Accounts!At(t, "invalidate"),
           q.at = "fill" => ConfigFits(q.seen),
           ConfigOwing(q) => ConfigStoppable(q)
    PROVE  ConfigCacheFits' /\ ConfigOwedHolds'
<1>1. \A value : ConfigFits(value)' <=> ConfigFits(value)
  BY DEF ConfigFits
<1>2. ConfigCacheFits'
  <2> SUFFICES ASSUME \A u \in Calls : ~Accounts!At(u, "invalidate")'
               PROVE  /\ ~overtaken_config => ConfigFits(stored)
                      /\ \A u \in Calls : call'[u].at = "fill" /\ ~call'[u].late => ConfigFits(call'[u].seen)
    BY <1>1 DEF ConfigCacheFits, Accounts!At, ConfigFits
  <2>1. \A u \in Calls : ~Accounts!At(u, "invalidate")
    BY DEF ConfigBecame, ConfigElsewhere, Accounts!At
  <2> QED
    BY <2>1 DEF ConfigIInv, ConfigCacheFits, ConfigBecame, ConfigElsewhere, Accounts!At
<1>3. ConfigFillsFit => \A u \in Calls : call'[u].at = "fill" => ConfigFits(call'[u].seen)
  BY DEF ConfigFillsFit, Accounts!At, ConfigBecame, ConfigElsewhere
<1>4. ConfigFillsFit => ConfigFillsFit'
  BY <1>1, <1>3 DEF ConfigFillsFit, Accounts!At, ConfigFits
<1>5. ConfigOwedHolds'
  <2> SUFFICES ASSUME NEW u \in Calls, ConfigOwing(call'[u])
               PROVE  ConfigStoppable(call[u])'
    BY DEF ConfigOwedHolds, ConfigOwing
  <2>1. ConfigStoppable(call'[u])
    BY DEF ConfigIInv, ConfigOwedHolds, ConfigBecame, ConfigElsewhere
  <2> QED
    BY <1>1, <1>4, <2>1 DEF ConfigStoppable, Accounts!Barred, ConfigFits
<1> QED
  BY <1>2, <1>5

LEMMA ConfigLocalsMove ==
    ASSUME ConfigIInv, NEW t \in Calls, NEW q, ConfigBecame(t, q),
           q = Accounts!Idle \/ q.at = "config" => local'[t] = None,
           \A u \in Calls \ {t} : local'[u] = local[u]
    PROVE  ConfigLocalsEmpty'
  BY DEF ConfigIInv, ConfigLocalsEmpty, ConfigBecame, ConfigElsewhere, Accounts!At

LEMMA ConfigAgesStay ==
    ASSUME ConfigIInv, UNCHANGED <<rating, birthday, raced>>, asserted_adult => asserted_adult',
           \A u \in Calls :
               /\ call'[u].at = "prefer" => Accounts!At(u, "prefer") \/ asserted_adult'
               /\ call'[u].at \in {"assert", "prefer"} =>
                      call[u].at \in {"assert", "prefer"} \/ birthday # "minor" \/ raced
               /\ Accounts!At(u, "manage rating") => call'[u].at = "manage rating"
    PROVE  ConfigAges'
<1>1. \A u \in Calls : Accounts!At(u, "prefer")' => asserted_adult'
  BY DEF ConfigIInv, ConfigAges, Accounts!At
<1>2. Accounts!RatingIsAsserted'
  BY DEF ConfigIInv, ConfigAges, Accounts!RatingIsAsserted
<1>3. Accounts!Saving' /\ birthday' = "minor" => raced'
  BY DEF ConfigIInv, ConfigAges, Accounts!Saving
<1>4. Accounts!MinorsSeeGeneral'
  BY DEF ConfigIInv, ConfigAges, Accounts!MinorsSeeGeneral, Accounts!At
<1> QED
  BY <1>1, <1>2, <1>3, <1>4 DEF ConfigAges

\* Steps of a request, or of a moderator, that change no row.
LEMMA ConfigMoves ==
    ASSUME ConfigIInv, ConfigTables',
           UNCHANGED <<permaban, suspension, rating, birthday, asserted_adult, stored, overtaken_config, raced>>,
           NEW t \in Calls, NEW q \in ConfigRecord, ConfigBecame(t, q), ~Accounts!At(t, "invalidate"), ~Accounts!At(t, "manage rating"),
           q.at = "fill" => ConfigFits(q.seen),
           ConfigOwing(q) => ConfigStoppable(q),
           q.at # "prefer", q.at = "assert" => birthday # "minor",
           q = Accounts!Idle \/ q.at = "config" => local'[t] = None,
           \A u \in Calls \ {t} : local'[u] = local[u]
    PROVE  ConfigIInv'
<1>1. Accounts!TypeOK'
  BY ConfigTypeParts DEF ConfigBecame
<1>2. ConfigCacheFits' /\ ConfigOwedHolds'
  BY ConfigCacheMoves
<1>3. ConfigLocalsEmpty'
  BY ConfigLocalsMove
<1>4. ConfigAges'
  BY ConfigAgesStay DEF ConfigBecame, ConfigElsewhere, Accounts!At
<1> QED
  BY <1>1, <1>2, <1>3, <1>4 DEF ConfigIInv

LEMMA ConfigBeginInv ==
    ASSUME Accounts!ConstantsOK, ConfigIInv, NEW t \in Calls, NEW doing \in Accounts!UserRequests,
           Accounts!Begin(t, doing)
    PROVE  ConfigIInv'
<1> DEFINE q == [at |-> "config", doing |-> doing, seen |-> None, late |-> FALSE, owed |-> Accounts!Barred /\ Accounts!Announced]
<1>1. /\ call[t] = Accounts!Idle /\ call' = [call EXCEPT ![t] = q]
      /\ UNCHANGED <<permaban, suspension, voucher, rating, birthday, asserted_adult, stored, local, overtaken_config, raced>>
  BY DEF Accounts!Begin, Accounts!tables, Accounts!caches
<1>2. (Accounts!Barred /\ Accounts!Announced) \in BOOLEAN
  BY DEF Accounts!Barred, Accounts!Announced
<1>3. q \in Accounts!UserCalls /\ q \in ConfigRecord /\ q.at = "config" /\ (q.owed <=> Accounts!Barred /\ Accounts!Announced)
  BY <1>2 DEF Accounts!UserCalls, ConfigRecord
<1> HIDE DEF q
<1>4. ConfigBecame(t, q) /\ ~Accounts!At(t, "invalidate") /\ ~Accounts!At(t, "manage rating")
  BY <1>1, <1>3, ConfigBecomes, ConfigIdleIs DEF ConfigIInv, Accounts!At
<1>5. Accounts!Announced => ConfigFits(stored) /\ ConfigFillsFit
  BY DEF Accounts!Announced, ConfigFillsFit, ConfigIInv, ConfigCacheFits
<1>6. ConfigOwing(q) => ConfigStoppable(q)
  BY <1>3, <1>5 DEF ConfigOwing, ConfigStoppable
<1>7. local'[t] = None
  BY <1>1 DEF ConfigIInv, ConfigLocalsEmpty
<1>8. ConfigTables'
  BY <1>1, ConfigTypeParts DEF ConfigIInv, ConfigTables
<1> QED
  BY <1>1, <1>3, <1>4, <1>6, <1>7, <1>8, ConfigMoves

LEMMA ConfigGetCachedInv ==
    ASSUME Accounts!ConstantsOK, ConfigIInv, NEW t \in Calls, Accounts!GetCached(t)
    PROVE  ConfigIInv'
<1> DEFINE value == IF local[t] # None THEN local[t] ELSE stored
<1>1. /\ Accounts!At(t, "config") /\ value # None /\ local' = [local EXCEPT ![t] = value]
      /\ call' = [call EXCEPT ![t].at = "decide", ![t].seen = value]
      /\ UNCHANGED <<permaban, suspension, voucher, rating, birthday, asserted_adult, stored, overtaken_config, raced>>
  BY DEF Accounts!GetCached, Accounts!tables
<1>2. value = stored
  BY <1>1 DEF ConfigIInv, ConfigLocalsEmpty
<1>3. call[t] \in Accounts!UserCalls
  BY <1>1, ConfigKinds, ConfigTypeParts DEF ConfigIInv, Accounts!At
<1>4. value \in Accounts!Configs
  BY <1>1, <1>2, ConfigTypeParts DEF ConfigIInv, ConfigTables
<1> HIDE DEF value
<1> DEFINE q == [call[t] EXCEPT !.at = "decide", !.seen = value]
<1>5. q \in Accounts!UserCalls /\ q \in ConfigRecord /\ q.at = "decide" /\ q.seen = value /\ q.owed = call[t].owed
  BY <1>3, <1>4 DEF Accounts!UserCalls, ConfigRecord
<1>6. call' = [call EXCEPT ![t] = q]
  BY <1>1, ConfigTypeParts DEF ConfigIInv
<1> HIDE DEF q
<1>7. ConfigBecame(t, q) /\ ~Accounts!At(t, "invalidate") /\ ~Accounts!At(t, "manage rating")
  BY <1>1, <1>5, <1>6, ConfigBecomes DEF ConfigIInv, Accounts!At
<1>8. ConfigOwing(q) => ConfigStoppable(q)
  BY <1>1, <1>2, <1>3, <1>5 DEF ConfigOwing, ConfigIInv, ConfigOwedHolds, ConfigStoppable
<1>9. ConfigTables' /\ \A u \in Calls \ {t} : local'[u] = local[u]
  BY <1>1, <1>4, ConfigTypeParts DEF ConfigIInv, ConfigTables
<1>10. q # Accounts!Idle
  BY <1>5, ConfigIdleIs
<1> QED
  BY <1>1, <1>5, <1>7, <1>8, <1>9, <1>10, ConfigMoves

LEMMA ConfigQueryInv ==
    ASSUME Accounts!ConstantsOK, ConfigIInv, NEW t \in Calls, Accounts!Query(t)
    PROVE  ConfigIInv'
<1>1. /\ Accounts!At(t, "config") /\ call' = [call EXCEPT ![t].at = "fill", ![t].seen = Accounts!Config]
      /\ UNCHANGED <<permaban, suspension, voucher, rating, birthday, asserted_adult, stored, local, overtaken_config, raced>>
  BY DEF Accounts!Query, Accounts!tables, Accounts!caches
<1>2. Accounts!Config \in Accounts!Configs /\ Accounts!Config # None /\ ConfigFits(Accounts!Config)
  <2>1. /\ permaban \in BOOLEAN /\ voucher \in BOOLEAN /\ (suspension # "none") \in BOOLEAN
        /\ rating \in {"general", "adult"}
    BY ConfigTypeParts DEF ConfigIInv, ConfigTables
  <2>2. Accounts!Config \in Accounts!Configs
    BY <2>1 DEF Accounts!Config, Accounts!Configs
  <2>3. ConfigFits(Accounts!Config)
    BY DEF Accounts!Config, ConfigFits
  <2> QED
    BY <2>2, <2>3 DEF Accounts!ConstantsOK
<1>3. call[t] \in Accounts!UserCalls
  BY <1>1, ConfigKinds, ConfigTypeParts DEF ConfigIInv, Accounts!At
<1> DEFINE q == [call[t] EXCEPT !.at = "fill", !.seen = Accounts!Config]
<1>4. q \in Accounts!UserCalls /\ q \in ConfigRecord /\ q.at = "fill" /\ q.seen = Accounts!Config /\ q.owed = call[t].owed
  BY <1>2, <1>3 DEF Accounts!UserCalls, ConfigRecord
<1>5. call' = [call EXCEPT ![t] = q]
  BY <1>1, ConfigTypeParts DEF ConfigIInv
<1> HIDE DEF q
<1>6. ConfigBecame(t, q) /\ ~Accounts!At(t, "invalidate") /\ ~Accounts!At(t, "manage rating")
  BY <1>1, <1>4, <1>5, ConfigBecomes DEF ConfigIInv, Accounts!At
<1>7. ConfigOwing(q) => ConfigStoppable(q)
  BY <1>1, <1>2, <1>3, <1>4 DEF ConfigOwing, ConfigIInv, ConfigOwedHolds, ConfigStoppable
<1>8. ConfigTables'
  BY <1>1, ConfigTypeParts DEF ConfigIInv, ConfigTables
<1>9. q # Accounts!Idle
  BY <1>4, ConfigIdleIs
<1> QED
  BY <1>1, <1>2, <1>4, <1>6, <1>7, <1>8, <1>9, ConfigMoves

LEMMA ConfigStatusCheckInv ==
    ASSUME Accounts!ConstantsOK, ConfigIInv, NEW t \in Calls, Accounts!StatusCheck(t)
    PROVE  ConfigIInv'
<1>1. /\ Accounts!At(t, "decide")
      /\ UNCHANGED <<permaban, suspension, voucher, rating, birthday, asserted_adult, stored, overtaken_config, raced>>
      /\ Accounts!End(t) \/ (~(call[t].seen.banned \/ call[t].seen.suspended) /\ Accounts!Goto(t, "admitted") /\ local' = local)
  BY DEF Accounts!StatusCheck, Accounts!tables
<1>2. call[t] \in Accounts!UserCalls /\ ~Accounts!At(t, "invalidate") /\ ~Accounts!At(t, "manage rating")
  BY <1>1, ConfigKinds, ConfigTypeParts DEF ConfigIInv, Accounts!At
<1>3. CASE Accounts!End(t)
  <2>1. /\ ConfigBecame(t, Accounts!Idle) /\ local' \in [Calls -> Accounts!Configs \cup {None}] /\ local'[t] = None
        /\ \A u \in Calls \ {t} : local'[u] = local[u]
    BY <1>3, ConfigEnds DEF ConfigIInv
  <2>2. ConfigTables'
    BY <1>1, <2>1, ConfigTypeParts DEF ConfigIInv, ConfigTables
  <2> QED
    BY <1>1, <1>2, <2>1, <2>2, ConfigIdleIs, ConfigMoves DEF ConfigOwing
<1>4. CASE ~(call[t].seen.banned \/ call[t].seen.suspended) /\ Accounts!Goto(t, "admitted") /\ local' = local
  <2>1. PICK q \in Accounts!UserCalls : ConfigBecame(t, q) /\ q.at = "admitted" /\ q \in ConfigRecord /\ q.owed = call[t].owed
    <3>1. Accounts!TypeOK /\ Accounts!Goto(t, "admitted")
      BY <1>4 DEF ConfigIInv
    <3>2. ConfigGone(t, "admitted")
      BY <1>2, <3>1, ConfigGoes
    <3> QED
      BY <3>2 DEF ConfigGone
  <2>2. ~q.owed
    <3> SUFFICES ASSUME q.owed PROVE FALSE
      OBVIOUS
    <3>1. ConfigStoppable(call[t])
      BY <1>2, <2>1 DEF ConfigIInv, ConfigOwedHolds, ConfigOwing
    <3>2. Accounts!Barred /\ ConfigFits(call[t].seen) /\ call[t].seen # None
      BY <1>1, <3>1 DEF ConfigStoppable, Accounts!At
    <3> QED
      BY <1>4, <3>2, ConfigTypeParts DEF ConfigFits, Accounts!Barred, ConfigIInv, ConfigTables
  <2>3. ConfigTables' /\ q # Accounts!Idle
    BY <1>1, <1>4, <2>1, ConfigTypeParts, ConfigIdleIs DEF ConfigIInv, ConfigTables
  <2> QED
    BY <1>1, <1>2, <1>4, <2>1, <2>2, <2>3, ConfigMoves DEF ConfigOwing
<1> QED
  BY <1>1, <1>3, <1>4

LEMMA ConfigSigninInv ==
    ASSUME Accounts!ConstantsOK, ConfigIInv, NEW t \in Calls, Accounts!Signin(t)
    PROVE  ConfigIInv'
<1>1. /\ Accounts!At(t, "decide")
      /\ UNCHANGED <<permaban, suspension, voucher, rating, birthday, asserted_adult, stored, overtaken_config, raced>>
      /\ \/ Accounts!End(t)
         \/ ~call[t].seen.banned /\ Accounts!Goto(t, "suspension") /\ local' = local
         \/ ~call[t].seen.banned /\ ~call[t].seen.suspended /\ Accounts!Goto(t, "admitted") /\ local' = local
  BY DEF Accounts!Signin, Accounts!tables
<1>2. call[t] \in Accounts!UserCalls /\ ~Accounts!At(t, "invalidate") /\ ~Accounts!At(t, "manage rating")
  BY <1>1, ConfigKinds, ConfigTypeParts DEF ConfigIInv, Accounts!At
<1>3. CASE Accounts!End(t)
  <2>1. /\ ConfigBecame(t, Accounts!Idle) /\ local' \in [Calls -> Accounts!Configs \cup {None}] /\ local'[t] = None
        /\ \A u \in Calls \ {t} : local'[u] = local[u]
    BY <1>3, ConfigEnds DEF ConfigIInv
  <2>2. ConfigTables'
    BY <1>1, <2>1, ConfigTypeParts DEF ConfigIInv, ConfigTables
  <2> QED
    BY <1>1, <1>2, <2>1, <2>2, ConfigIdleIs, ConfigMoves DEF ConfigOwing
<1>4. ASSUME call[t].owed
      PROVE  ConfigStoppable(call[t]) /\ Accounts!Barred /\ ConfigFits(call[t].seen) /\ call[t].seen # None
  <2>1. ConfigStoppable(call[t])
    BY <1>2, <1>4 DEF ConfigIInv, ConfigOwedHolds, ConfigOwing
  <2> QED
    BY <1>1, <2>1 DEF ConfigStoppable, Accounts!At
<1>5. CASE ~call[t].seen.banned /\ Accounts!Goto(t, "suspension") /\ local' = local
  <2>1. PICK q \in Accounts!UserCalls : ConfigBecame(t, q) /\ q.at = "suspension" /\ q \in ConfigRecord /\ q.owed = call[t].owed
    <3>1. Accounts!TypeOK /\ Accounts!Goto(t, "suspension")
      BY <1>5 DEF ConfigIInv
    <3>2. ConfigGone(t, "suspension")
      BY <1>2, <3>1, ConfigGoes
    <3> QED
      BY <3>2 DEF ConfigGone
  <2>2. ConfigOwing(q) => ConfigStoppable(q)
    BY <1>4, <1>5, <2>1, ConfigTypeParts DEF ConfigOwing, ConfigStoppable, ConfigFits, ConfigIInv,
       ConfigTables
  <2>3. ConfigTables' /\ q # Accounts!Idle
    BY <1>1, <1>5, <2>1, ConfigTypeParts, ConfigIdleIs DEF ConfigIInv, ConfigTables
  <2> QED
    BY <1>1, <1>2, <1>5, <2>1, <2>2, <2>3, ConfigMoves
<1>6. CASE ~call[t].seen.banned /\ ~call[t].seen.suspended /\ Accounts!Goto(t, "admitted") /\ local' = local
  <2>1. PICK q \in Accounts!UserCalls : ConfigBecame(t, q) /\ q.at = "admitted" /\ q \in ConfigRecord /\ q.owed = call[t].owed
    <3>1. Accounts!TypeOK /\ Accounts!Goto(t, "admitted")
      BY <1>6 DEF ConfigIInv
    <3>2. ConfigGone(t, "admitted")
      BY <1>2, <3>1, ConfigGoes
    <3> QED
      BY <3>2 DEF ConfigGone
  <2>2. ~q.owed
    BY <1>4, <1>6, <2>1, ConfigTypeParts DEF ConfigFits, Accounts!Barred, ConfigIInv, ConfigTables
  <2>3. ConfigTables' /\ q # Accounts!Idle
    BY <1>1, <1>6, <2>1, ConfigTypeParts, ConfigIdleIs DEF ConfigIInv, ConfigTables
  <2> QED
    BY <1>1, <1>2, <1>6, <2>1, <2>2, <2>3, ConfigMoves DEF ConfigOwing
<1> QED
  BY <1>1, <1>3, <1>5, <1>6

LEMMA ConfigReadSuspensionInv ==
    ASSUME Accounts!ConstantsOK, ConfigIInv, NEW t \in Calls, Accounts!ReadSuspension(t)
    PROVE  ConfigIInv'
<1>1. /\ Accounts!At(t, "suspension")
      /\ UNCHANGED <<permaban, suspension, voucher, rating, birthday, asserted_adult, stored, overtaken_config, raced>>
      /\ Accounts!End(t) \/ (suspension = "over" /\ Accounts!Goto(t, "lift") /\ local' = local)
  BY DEF Accounts!ReadSuspension, Accounts!tables
<1>2. call[t] \in Accounts!UserCalls /\ ~Accounts!At(t, "invalidate") /\ ~Accounts!At(t, "manage rating")
  BY <1>1, ConfigKinds, ConfigTypeParts DEF ConfigIInv, Accounts!At
<1>3. CASE Accounts!End(t)
  <2>1. /\ ConfigBecame(t, Accounts!Idle) /\ local' \in [Calls -> Accounts!Configs \cup {None}] /\ local'[t] = None
        /\ \A u \in Calls \ {t} : local'[u] = local[u]
    BY <1>3, ConfigEnds DEF ConfigIInv
  <2>2. ConfigTables'
    BY <1>1, <2>1, ConfigTypeParts DEF ConfigIInv, ConfigTables
  <2> QED
    BY <1>1, <1>2, <2>1, <2>2, ConfigIdleIs, ConfigMoves DEF ConfigOwing
<1>4. CASE suspension = "over" /\ Accounts!Goto(t, "lift") /\ local' = local
  <2>1. PICK q \in Accounts!UserCalls : ConfigBecame(t, q) /\ q.at = "lift" /\ q \in ConfigRecord /\ q.owed = call[t].owed
    <3>1. Accounts!TypeOK /\ Accounts!Goto(t, "lift")
      BY <1>4 DEF ConfigIInv
    <3>2. ConfigGone(t, "lift")
      BY <1>2, <3>1, ConfigGoes
    <3> QED
      BY <3>2 DEF ConfigGone
  <2>2. ~q.owed
    BY <1>1, <1>2, <1>4, <2>1 DEF ConfigIInv, ConfigOwedHolds, ConfigOwing, ConfigStoppable,
       Accounts!Barred, Accounts!At
  <2>3. ConfigTables' /\ q # Accounts!Idle
    BY <1>1, <1>4, <2>1, ConfigTypeParts, ConfigIdleIs DEF ConfigIInv, ConfigTables
  <2> QED
    BY <1>1, <1>2, <1>4, <2>1, <2>2, <2>3, ConfigMoves DEF ConfigOwing
<1> QED
  BY <1>1, <1>3, <1>4

LEMMA ConfigServedInv ==
    ASSUME Accounts!ConstantsOK, ConfigIInv, NEW t \in Calls, Accounts!Served(t)
    PROVE  ConfigIInv'
<1>1. /\ Accounts!At(t, "admitted") /\ Accounts!End(t)
      /\ UNCHANGED <<permaban, suspension, voucher, rating, birthday, asserted_adult, stored, overtaken_config, raced>>
  BY DEF Accounts!Served, Accounts!tables
<1>2. /\ ConfigBecame(t, Accounts!Idle) /\ local' \in [Calls -> Accounts!Configs \cup {None}] /\ local'[t] = None
      /\ \A u \in Calls \ {t} : local'[u] = local[u]
  BY <1>1, ConfigEnds DEF ConfigIInv
<1>3. ConfigTables' /\ ~Accounts!At(t, "invalidate") /\ ~Accounts!At(t, "manage rating")
  BY <1>1, <1>2, ConfigTypeParts DEF ConfigIInv, ConfigTables, Accounts!At
<1> QED
  BY <1>1, <1>2, <1>3, ConfigIdleIs, ConfigMoves DEF ConfigOwing

\* A request that has been admitted goes on.
LEMMA ConfigAdmittedGoes ==
    ASSUME Accounts!ConstantsOK, ConfigIInv, NEW t \in Calls, call[t].at \in {"lift", "admitted", "assert",
           "prefer"},
           NEW a \in {"assert", "prefer", "invalidate"}, Accounts!Goto(t, a)
    PROVE  \E q \in ConfigRecord : ConfigBecame(t, q) /\ q.at = a /\ ~ConfigOwing(q) /\ q # Accounts!Idle
<1>1. call[t] \in Accounts!UserCalls
  BY ConfigKinds, ConfigTypeParts DEF ConfigIInv
<1>2. PICK q \in Accounts!UserCalls : ConfigBecame(t, q) /\ q.at = a /\ q \in ConfigRecord /\ q.owed = call[t].owed
  <2>1. Accounts!TypeOK
    BY DEF ConfigIInv
  <2>2. ConfigGone(t, a)
    BY <1>1, <2>1, ConfigGoes
  <2> QED
    BY <2>2 DEF ConfigGone
<1>3. ~call[t].owed
  BY <1>1 DEF ConfigIInv, ConfigOwedHolds, ConfigOwing, ConfigStoppable
<1> QED
  BY <1>2, <1>3, ConfigIdleIs DEF ConfigOwing

LEMMA ConfigEditProfileInv ==
    ASSUME Accounts!ConstantsOK, ConfigIInv, NEW t \in Calls, Accounts!EditProfile(t) \/ Accounts!ReadAge(t)
    PROVE  ConfigIInv'
<1>1. /\ Accounts!At(t, "admitted") /\ (Accounts!Goto(t, "invalidate") \/ (birthday # "minor" /\ Accounts!Goto(t, "assert")))
      /\ UNCHANGED <<permaban, suspension, voucher, rating, birthday, asserted_adult, stored, local, overtaken_config, raced>>
  BY DEF Accounts!EditProfile, Accounts!ReadAge, Accounts!tables, Accounts!caches
<1>2. \E q \in ConfigRecord : /\ ConfigBecame(t, q) /\ ~ConfigOwing(q) /\ q # Accounts!Idle
                              /\ q.at = "invalidate" \/ (q.at = "assert" /\ birthday # "minor")
  BY <1>1, ConfigAdmittedGoes DEF Accounts!At
<1>3. PICK q \in ConfigRecord : /\ ConfigBecame(t, q) /\ ~ConfigOwing(q) /\ q # Accounts!Idle
                                /\ q.at = "invalidate" \/ (q.at = "assert" /\ birthday # "minor")
  BY <1>2
<1>4. ConfigTables' /\ ~Accounts!At(t, "invalidate") /\ ~Accounts!At(t, "manage rating")
  BY <1>1, ConfigTypeParts DEF ConfigIInv, ConfigTables, Accounts!At
<1> QED
  BY <1>1, <1>3, <1>4, ConfigMoves
-----------------------------------------------------------------------------
\* Steps that change the rating, the birthday or what has been asserted.
LEMMA ConfigAssertAdultInv ==
    ASSUME Accounts!ConstantsOK, ConfigIInv, NEW t \in Calls, Accounts!AssertAdult(t)
    PROVE  ConfigIInv'
<1>1. /\ Accounts!At(t, "assert") /\ Accounts!Goto(t, "prefer") /\ asserted_adult' = TRUE
      /\ UNCHANGED <<permaban, suspension, voucher, rating, birthday, stored, local, overtaken_config, raced>>
  BY DEF Accounts!AssertAdult, Accounts!caches
<1>2. PICK q \in ConfigRecord : ConfigBecame(t, q) /\ q.at = "prefer" /\ ~ConfigOwing(q) /\ q # Accounts!Idle
  BY <1>1, ConfigAdmittedGoes DEF Accounts!At
<1>3. Accounts!TypeOK' /\ ~Accounts!At(t, "invalidate")
  BY <1>1, <1>2, ConfigTypeParts DEF ConfigIInv, ConfigTables, Accounts!At, ConfigBecame
<1>4. ConfigCacheFits' /\ ConfigOwedHolds'
  BY <1>1, <1>2, <1>3, ConfigCacheMoves
<1>5. ConfigLocalsEmpty'
  BY <1>1, <1>2, ConfigLocalsMove
<1>6. ConfigAges'
  BY <1>1, <1>2, ConfigAgesStay DEF ConfigBecame, ConfigElsewhere, Accounts!At
<1> QED
  BY <1>3, <1>4, <1>5, <1>6 DEF ConfigIInv

LEMMA ConfigPostAdultInv ==
    ASSUME ConfigIInv, Accounts!PostAdult
    PROVE  ConfigIInv'
<1>1. /\ asserted_adult' = TRUE
      /\ UNCHANGED <<permaban, suspension, voucher, rating, birthday, stored, local, call, overtaken_config, raced>>
  BY DEF Accounts!PostAdult, Accounts!caches
<1>2. Accounts!TypeOK'
  BY <1>1, ConfigTypeParts DEF ConfigIInv, ConfigTables
<1>3. ConfigCacheFits' /\ ConfigOwedHolds'
  BY <1>1 DEF ConfigIInv, ConfigCacheFits, ConfigOwedHolds, ConfigOwing, ConfigStoppable, Accounts!Barred,
     ConfigFillsFit, ConfigFits, Accounts!At
<1>4. ConfigLocalsEmpty'
  BY <1>1 DEF ConfigIInv, ConfigLocalsEmpty, Accounts!At
<1>5. ConfigAges'
  BY <1>1, ConfigAgesStay DEF Accounts!At
<1> QED
  BY <1>2, <1>3, <1>4, <1>5 DEF ConfigIInv

LEMMA ConfigPreferInv ==
    ASSUME Accounts!ConstantsOK, ConfigIInv, NEW t \in Calls,
           Accounts!PreferGeneral(t) \/ Accounts!PreferAdult(t)
    PROVE  ConfigIInv'
<1>1. /\ \/ rating' = "general" /\ Accounts!At(t, "admitted")
         \/ rating' = "adult" /\ Accounts!At(t, "prefer")
      /\ Accounts!Goto(t, "invalidate")
      /\ UNCHANGED <<permaban, suspension, voucher, birthday, asserted_adult, stored, local, overtaken_config, raced>>
  BY DEF Accounts!PreferGeneral, Accounts!PreferAdult, Accounts!caches
<1>2. PICK q \in ConfigRecord : ConfigBecame(t, q) /\ q.at = "invalidate" /\ ~ConfigOwing(q) /\ q # Accounts!Idle
  BY <1>1, ConfigAdmittedGoes DEF Accounts!At
<1>3. Accounts!TypeOK' /\ ~Accounts!At(t, "invalidate") /\ ~Accounts!At(t, "manage rating")
  BY <1>1, <1>2, ConfigTypeParts DEF ConfigIInv, ConfigTables, Accounts!At, ConfigBecame
<1>4. ConfigCacheFits' /\ ConfigOwedHolds'
  BY <1>1, <1>2, <1>3, ConfigCacheMoves
<1>5. ConfigLocalsEmpty'
  BY <1>1, <1>2, ConfigLocalsMove
<1>6. Accounts!Saving' => Accounts!Saving
  BY <1>2 DEF Accounts!Saving, ConfigBecame, ConfigElsewhere
<1>7. rating' = "adult" => asserted_adult /\ (birthday = "minor" => raced)
  BY <1>1 DEF ConfigIInv, ConfigAges, Accounts!Saving, Accounts!At
<1>8. ConfigAges'
  <2>1. \A u \in Calls : Accounts!At(u, "prefer")' => asserted_adult'
    BY <1>1, <1>2 DEF ConfigIInv, ConfigAges, Accounts!At, ConfigBecame, ConfigElsewhere
  <2> QED
    BY <1>1, <1>6, <1>7, <2>1 DEF ConfigIInv, ConfigAges, Accounts!RatingIsAsserted,
       Accounts!MinorsSeeGeneral
<1> QED
  BY <1>3, <1>4, <1>5, <1>8 DEF ConfigIInv

LEMMA ConfigEditUserinfoInv ==
    ASSUME Accounts!ConstantsOK, ConfigIInv, NEW t \in Calls, NEW born \in {"minor", "adult"},
           Accounts!EditUserinfo(t, born)
    PROVE  ConfigIInv'
<1>1. /\ Accounts!At(t, "admitted") /\ Accounts!Goto(t, "invalidate")
      /\ \/ /\ birthday = "none" /\ (born = "minor" => ~asserted_adult)
            /\ birthday' = born /\ raced' = (raced \/ (Accounts!Saving /\ born = "minor"))
         \/ UNCHANGED <<birthday, raced>>
      /\ UNCHANGED <<permaban, suspension, voucher, rating, asserted_adult, stored, local, overtaken_config>>
  BY DEF Accounts!EditUserinfo, Accounts!caches
<1>2. PICK q \in ConfigRecord : ConfigBecame(t, q) /\ q.at = "invalidate" /\ ~ConfigOwing(q) /\ q # Accounts!Idle
  BY <1>1, ConfigAdmittedGoes DEF Accounts!At
<1>3. Accounts!TypeOK' /\ ~Accounts!At(t, "invalidate") /\ ~Accounts!At(t, "manage rating")
  BY <1>1, <1>2, ConfigTypeParts DEF ConfigIInv, ConfigTables, Accounts!At, ConfigBecame
<1>4. ConfigCacheFits' /\ ConfigOwedHolds'
  BY <1>1, <1>2, <1>3, ConfigCacheMoves
<1>5. ConfigLocalsEmpty'
  BY <1>1, <1>2, ConfigLocalsMove
<1>6. Accounts!Saving' => Accounts!Saving
  BY <1>2 DEF Accounts!Saving, ConfigBecame, ConfigElsewhere
<1>7. \A u \in Calls : (Accounts!At(u, "prefer")' => Accounts!At(u, "prefer")) /\ (Accounts!At(u, "manage rating") => Accounts!At(u, "manage rating")')
  BY <1>2, <1>3 DEF Accounts!At, ConfigBecame, ConfigElsewhere
<1>8. ConfigAges'
  <2>1. \A u \in Calls : Accounts!At(u, "prefer")' => asserted_adult'
    BY <1>1, <1>7 DEF ConfigIInv, ConfigAges
  <2>2. Accounts!RatingIsAsserted'
    BY <1>1 DEF ConfigIInv, ConfigAges, Accounts!RatingIsAsserted
  <2>3. Accounts!Saving' /\ birthday' = "minor" => raced'
    <3>1. CASE birthday' = born /\ raced' = (raced \/ (Accounts!Saving /\ born = "minor"))
      BY <1>6, <3>1
    <3>2. CASE UNCHANGED <<birthday, raced>>
      BY <1>6, <3>2 DEF ConfigIInv, ConfigAges
    <3> QED
      BY <1>1, <3>1, <3>2
  <2>4. Accounts!MinorsSeeGeneral'
    <3>1. CASE (born = "minor" => ~asserted_adult) /\ birthday' = born
      BY <1>1, <3>1 DEF ConfigIInv, ConfigAges, Accounts!RatingIsAsserted, Accounts!MinorsSeeGeneral
    <3>2. CASE UNCHANGED <<birthday, raced>>
      BY <1>1, <1>7, <3>2 DEF ConfigIInv, ConfigAges, Accounts!MinorsSeeGeneral
    <3> QED
      BY <1>1, <3>1, <3>2
  <2> QED
    BY <2>1, <2>2, <2>3, <2>4 DEF ConfigAges
<1> QED
  BY <1>3, <1>4, <1>5, <1>8 DEF ConfigIInv

\* A moderator begins.
LEMMA ConfigModBegins ==
    ASSUME ConfigIInv, NEW t \in Calls, NEW step \in {"delete", "commit", "manage rating", "invalidate"},
           NEW doing \in {"b", "s", "x", "manage", "vouch"}, NEW deletes \in SUBSET {"permaban", "suspension"},
           Accounts!ModBegin(t, step, doing, deletes)
    PROVE  \E q \in ConfigRecord : /\ ConfigBecame(t, q) /\ q.at = step /\ ~ConfigOwing(q) /\ q # Accounts!Idle
                                   /\ call[t] = Accounts!Idle /\ ~Accounts!At(t, "invalidate") /\ ~Accounts!At(t, "manage rating")
<1> DEFINE q == [at |-> step, doing |-> doing, deletes |-> deletes]
<1>1. q \in Accounts!ModCalls /\ q.at = step
  BY DEF Accounts!ModCalls
<1>2. call[t] = Accounts!Idle /\ call' = [call EXCEPT ![t] = q]
  BY DEF Accounts!ModBegin
<1> HIDE DEF q
<1>3. q \in ConfigRecord /\ ~ConfigOwing(q) /\ q # Accounts!Idle
  BY <1>1, ConfigModIs, ConfigIdleIs DEF ConfigOwing
<1>4. ConfigBecame(t, q)
  BY <1>2, <1>3, ConfigBecomes DEF ConfigIInv
<1> QED
  BY <1>1, <1>2, <1>3, <1>4, ConfigIdleIs DEF Accounts!At

LEMMA ConfigModeDeleteInv ==
    ASSUME Accounts!ConstantsOK, ConfigIInv, NEW t \in Calls, NEW mode \in {"b", "s", "x"},
           Accounts!ModeDelete(t, mode)
    PROVE  ConfigIInv'
<1>1. /\ Accounts!ModBegin(t, "commit", mode, Accounts!Rows) /\ Accounts!Rows \in SUBSET {"permaban", "suspension"}
      /\ UNCHANGED <<permaban, suspension, voucher, rating, birthday, asserted_adult, stored, local, overtaken_config, raced>>
  BY DEF Accounts!ModeDelete, Accounts!tables, Accounts!caches, Accounts!Rows
<1>2. PICK q \in ConfigRecord : /\ ConfigBecame(t, q) /\ q.at = "commit" /\ ~ConfigOwing(q) /\ q # Accounts!Idle
                                /\ ~Accounts!At(t, "invalidate") /\ ~Accounts!At(t, "manage rating")
  BY <1>1, ConfigModBegins
<1>3. ConfigTables'
  BY <1>1, ConfigTypeParts DEF ConfigIInv, ConfigTables
<1> QED
  BY <1>1, <1>2, <1>3, ConfigMoves

LEMMA ConfigVouchInv ==
    ASSUME Accounts!ConstantsOK, ConfigIInv, NEW t \in Calls, Accounts!Vouch(t)
    PROVE  ConfigIInv'
<1>1. /\ Accounts!ModBegin(t, "invalidate", "vouch", {}) /\ voucher' = TRUE
      /\ UNCHANGED <<permaban, suspension, rating, birthday, asserted_adult, stored, local, overtaken_config, raced>>
  BY DEF Accounts!Vouch, Accounts!caches
<1>2. PICK q \in ConfigRecord : /\ ConfigBecame(t, q) /\ q.at = "invalidate" /\ ~ConfigOwing(q) /\ q # Accounts!Idle
                                /\ ~Accounts!At(t, "invalidate") /\ ~Accounts!At(t, "manage rating")
  BY <1>1, ConfigModBegins
<1>3. ConfigTables'
  BY <1>1, ConfigTypeParts DEF ConfigIInv, ConfigTables
<1> QED
  BY <1>1, <1>2, <1>3, ConfigMoves

LEMMA ConfigManageBirthdayInv ==
    ASSUME Accounts!ConstantsOK, ConfigIInv, NEW t \in Calls, NEW born \in {"none", "minor", "adult"},
           Accounts!ManageBirthday(t, born)
    PROVE  ConfigIInv'
<1>1. /\ \/ born = "minor" /\ Accounts!ModBegin(t, "manage rating", "manage", {})
         \/ born # "minor" /\ call' = call
      /\ birthday' = born /\ raced' = (raced \/ (Accounts!Saving /\ born = "minor"))
      /\ UNCHANGED <<permaban, suspension, voucher, rating, asserted_adult, stored, local, overtaken_config>>
  BY DEF Accounts!ManageBirthday, Accounts!caches
<1>2. CASE born = "minor" /\ Accounts!ModBegin(t, "manage rating", "manage", {})
  <2>1. PICK q \in ConfigRecord : /\ ConfigBecame(t, q) /\ q.at = "manage rating" /\ ~ConfigOwing(q) /\ q # Accounts!Idle
                                  /\ ~Accounts!At(t, "invalidate") /\ ~Accounts!At(t, "manage rating")
    BY <1>2, ConfigModBegins
  <2>2. Accounts!TypeOK'
    BY <1>1, <2>1, ConfigTypeParts DEF ConfigIInv, ConfigTables, ConfigBecame
  <2>3. ConfigCacheFits' /\ ConfigOwedHolds'
    BY <1>1, <2>1, ConfigCacheMoves
  <2>4. ConfigLocalsEmpty'
    BY <1>1, <2>1, ConfigLocalsMove
  <2>5. Accounts!Saving' => Accounts!Saving
    BY <2>1 DEF Accounts!Saving, ConfigBecame, ConfigElsewhere
  <2>6. \E u \in Calls : Accounts!At(u, "manage rating")'
    BY <2>1 DEF Accounts!At, ConfigBecame
  <2>7. \A u \in Calls : Accounts!At(u, "prefer")' => asserted_adult'
    BY <1>1, <2>1 DEF ConfigIInv, ConfigAges, Accounts!At, ConfigBecame, ConfigElsewhere
  <2>8. ConfigAges'
    BY <1>1, <1>2, <2>5, <2>6, <2>7 DEF ConfigIInv, ConfigAges, Accounts!RatingIsAsserted,
       Accounts!MinorsSeeGeneral
  <2> QED
    BY <2>2, <2>3, <2>4, <2>8 DEF ConfigIInv
<1>3. CASE born # "minor" /\ call' = call
  <2>1. Accounts!TypeOK'
    BY <1>1, <1>3, ConfigTypeParts DEF ConfigIInv, ConfigTables
  <2>2. ConfigCacheFits' /\ ConfigOwedHolds'
    BY <1>1, <1>3 DEF ConfigIInv, ConfigCacheFits, ConfigOwedHolds, ConfigOwing, ConfigStoppable,
       Accounts!Barred, ConfigFillsFit, ConfigFits, Accounts!At
  <2>3. ConfigLocalsEmpty'
    BY <1>1, <1>3 DEF ConfigIInv, ConfigLocalsEmpty, Accounts!At
  <2>4. ConfigAges'
    BY <1>1, <1>3 DEF ConfigIInv, ConfigAges, Accounts!RatingIsAsserted, Accounts!MinorsSeeGeneral,
       Accounts!At
  <2> QED
    BY <2>1, <2>2, <2>3, <2>4 DEF ConfigIInv
<1> QED
  BY <1>1, <1>2, <1>3

LEMMA ConfigManageRatingInv ==
    ASSUME Accounts!ConstantsOK, ConfigIInv, NEW t \in Calls, Accounts!ManageRating(t)
    PROVE  ConfigIInv'
<1>1. /\ Accounts!At(t, "manage rating") /\ rating' = "general" /\ Accounts!Goto(t, "invalidate")
      /\ UNCHANGED <<permaban, suspension, voucher, birthday, asserted_adult, stored, local, overtaken_config, raced>>
  BY DEF Accounts!ManageRating, Accounts!caches
<1> DEFINE q == [call[t] EXCEPT !.at = "invalidate"]
<1>2. call[t] \in Accounts!ModCalls
  BY <1>1, ConfigKinds, ConfigTypeParts DEF ConfigIInv, Accounts!At
<1>3. q \in Accounts!ModCalls /\ q.at = "invalidate"
  BY <1>2 DEF Accounts!ModCalls
<1>4. call' = [call EXCEPT ![t] = q]
  BY <1>1 DEF Accounts!Goto
<1> HIDE DEF q
<1>5. q \in ConfigRecord /\ ~ConfigOwing(q) /\ q # Accounts!Idle
  BY <1>3, ConfigModIs, ConfigIdleIs DEF ConfigOwing
<1>6. ConfigBecame(t, q) /\ ~Accounts!At(t, "invalidate")
  BY <1>1, <1>4, <1>5, ConfigBecomes DEF ConfigIInv, Accounts!At
<1>7. Accounts!TypeOK'
  BY <1>1, <1>6, ConfigTypeParts DEF ConfigIInv, ConfigTables, ConfigBecame
<1>8. ConfigCacheFits' /\ ConfigOwedHolds'
  BY <1>1, <1>3, <1>5, <1>6, ConfigCacheMoves
<1>9. ConfigLocalsEmpty'
  BY <1>1, <1>3, <1>5, <1>6, ConfigLocalsMove
<1>10. (Accounts!Saving' => Accounts!Saving) /\ \A u \in Calls : Accounts!At(u, "prefer")' => Accounts!At(u, "prefer")
  BY <1>3, <1>6 DEF Accounts!Saving, ConfigBecame, ConfigElsewhere, Accounts!At
<1>11. ConfigAges'
  BY <1>1, <1>10 DEF ConfigIInv, ConfigAges, Accounts!RatingIsAsserted, Accounts!MinorsSeeGeneral
<1> QED
  BY <1>7, <1>8, <1>9, <1>11 DEF ConfigIInv
-----------------------------------------------------------------------------
\* A change of bans and suspensions excuses the others, and is to be announced.
LEMMA ConfigChanges ==
    ASSUME ConfigIInv, ConfigTables', UNCHANGED <<rating, birthday, asserted_adult, local, raced>>,
           NEW t \in Calls, NEW q \in ConfigRecord, q.at = "invalidate", q # Accounts!Idle, ~ConfigOwing(q), ~Accounts!At(t, "manage rating"),
           call' = [u \in Calls |-> IF u = t THEN q ELSE Accounts!Excused(u)]
    PROVE  ConfigIInv'
<1>1. \A u \in Calls : /\ call'[u] \in ConfigRecord /\ ~ConfigOwing(call'[u])
                       /\ \/ call'[u].at = call[u].at /\ (call'[u] = Accounts!Idle <=> call[u] = Accounts!Idle)
                          \/ u = t /\ call'[u].at = "invalidate" /\ call'[u] # Accounts!Idle
  BY ConfigExcuses DEF ConfigIInv
<1>2. Accounts!TypeOK'
  BY <1>1, ConfigTypeParts
<1>3. Accounts!At(t, "invalidate")'
  BY <1>1 DEF Accounts!At
<1>4. ConfigCacheFits'
  BY <1>3 DEF ConfigCacheFits
<1>5. ConfigOwedHolds'
  BY <1>1 DEF ConfigOwedHolds, ConfigOwing
<1>6. ConfigLocalsEmpty'
  BY <1>1 DEF ConfigIInv, ConfigLocalsEmpty, Accounts!At
<1>7. ConfigAges'
  BY <1>1, ConfigAgesStay DEF Accounts!At
<1> QED
  BY <1>2, <1>4, <1>5, <1>6, <1>7 DEF ConfigIInv

LEMMA ConfigLiftInv ==
    ASSUME Accounts!ConstantsOK, ConfigIInv, NEW t \in Calls, Accounts!Lift(t)
    PROVE  ConfigIInv'
<1> DEFINE q == [call[t] EXCEPT !.at = "invalidate"]
<1>1. /\ Accounts!At(t, "lift") /\ suspension' = "none"
      /\ call' = [u \in Calls |-> IF u = t THEN q ELSE Accounts!Excused(u)]
      /\ UNCHANGED <<permaban, voucher, rating, birthday, asserted_adult, stored, local, overtaken_config, raced>>
  BY DEF Accounts!Lift, Accounts!caches
<1>2. call[t] \in Accounts!UserCalls /\ ~Accounts!At(t, "manage rating")
  BY <1>1, ConfigKinds, ConfigTypeParts DEF ConfigIInv, Accounts!At
<1>3. q \in Accounts!UserCalls /\ q \in ConfigRecord /\ q.at = "invalidate" /\ q.owed = call[t].owed
  BY <1>2, ConfigUserGoes
<1> HIDE DEF q
<1>4. ~ConfigOwing(q)
  BY <1>1, <1>2, <1>3 DEF ConfigIInv, ConfigOwedHolds, ConfigOwing, ConfigStoppable, Accounts!At
<1>5. q # Accounts!Idle
  BY <1>3, ConfigIdleIs
<1>6. ConfigTables'
  BY <1>1, ConfigTypeParts DEF ConfigIInv, ConfigTables
<1> QED
  BY <1>1, <1>2, <1>3, <1>4, <1>5, <1>6, ConfigChanges

LEMMA ConfigModeCommitInv ==
    ASSUME Accounts!ConstantsOK, ConfigIInv, NEW t \in Calls, Accounts!ModeCommit(t)
    PROVE  ConfigIInv'
<1> DEFINE q == [call[t] EXCEPT !.at = "invalidate", !.deletes = {}]
<1>1. /\ Accounts!At(t, "commit")
      /\ UNCHANGED <<voucher, rating, birthday, asserted_adult, stored, overtaken_config, raced>>
      /\ \/ Accounts!End(t) /\ UNCHANGED <<permaban, suspension>>
         \/ /\ permaban' \in BOOLEAN /\ suspension' \in {"none", "running", "over"}
            /\ call' = [u \in Calls |-> IF u = t THEN q ELSE Accounts!Excused(u)]
            /\ local' = local
  BY ConfigTypeParts DEF Accounts!ModeCommit, ConfigIInv, ConfigTables
<1>2. call[t] \in Accounts!ModCalls /\ ~Accounts!At(t, "invalidate") /\ ~Accounts!At(t, "manage rating")
  BY <1>1, ConfigKinds, ConfigTypeParts DEF ConfigIInv, Accounts!At
<1>3. CASE Accounts!End(t) /\ UNCHANGED <<permaban, suspension>>
  <2>1. /\ ConfigBecame(t, Accounts!Idle) /\ local' \in [Calls -> Accounts!Configs \cup {None}] /\ local'[t] = None
        /\ \A u \in Calls \ {t} : local'[u] = local[u]
    BY <1>3, ConfigEnds DEF ConfigIInv
  <2>2. ConfigTables'
    BY <1>1, <1>3, <2>1, ConfigTypeParts DEF ConfigIInv, ConfigTables
  <2> QED
    BY <1>1, <1>2, <1>3, <2>1, <2>2, ConfigIdleIs, ConfigMoves DEF ConfigOwing
<1>4. CASE /\ permaban' \in BOOLEAN /\ suspension' \in {"none", "running", "over"}
           /\ call' = [u \in Calls |-> IF u = t THEN q ELSE Accounts!Excused(u)]
           /\ local' = local
  <2>1. q \in Accounts!ModCalls /\ q.at = "invalidate"
    BY <1>2 DEF Accounts!ModCalls
  <2> HIDE DEF q
  <2>2. q \in ConfigRecord /\ ~ConfigOwing(q) /\ q # Accounts!Idle
    BY <2>1, ConfigModIs, ConfigIdleIs DEF ConfigOwing
  <2>3. ConfigTables'
    BY <1>1, <1>4, ConfigTypeParts DEF ConfigIInv, ConfigTables
  <2> QED
    BY <1>1, <1>2, <1>4, <2>1, <2>2, <2>3, ConfigChanges
<1> QED
  BY <1>1, <1>3, <1>4

LEMMA ConfigReleaseInv ==
    ASSUME Accounts!ConstantsOK, ConfigIInv, Accounts!Release
    PROVE  ConfigIInv'
<1>1. /\ suspension = "running" /\ suspension' = "over"
      /\ call' = [t \in Calls |-> IF permaban THEN call[t] ELSE Accounts!Excused(t)]
      /\ UNCHANGED <<permaban, voucher, rating, birthday, asserted_adult, stored, local, overtaken_config, raced>>
  BY DEF Accounts!Release, Accounts!caches
<1>2. \A value : ConfigFits(value)' <=> ConfigFits(value)
  BY <1>1 DEF ConfigFits
<1>3. \A u \in Calls : /\ call'[u] \in ConfigRecord
                       /\ call'[u].at = call[u].at /\ (call'[u] = Accounts!Idle <=> call[u] = Accounts!Idle)
                       /\ Accounts!At(u, "fill") => call'[u].seen = call[u].seen /\ call'[u].late = call[u].late
                       /\ ConfigOwing(call'[u]) => call'[u] = call[u] /\ permaban
  BY <1>1, ConfigExcuses, ConfigTypeParts DEF ConfigIInv
<1>4. Accounts!TypeOK'
  BY <1>1, <1>3, ConfigTypeParts DEF ConfigIInv, ConfigTables
<1>5. ConfigCacheFits'
  <2> SUFFICES ASSUME \A u \in Calls : ~Accounts!At(u, "invalidate")'
               PROVE  /\ ~overtaken_config => ConfigFits(stored)
                      /\ \A u \in Calls : call'[u].at = "fill" /\ ~call'[u].late => ConfigFits(call'[u].seen)
    BY <1>1, <1>2 DEF ConfigCacheFits, Accounts!At, ConfigFits
  <2> QED
    BY <1>3 DEF ConfigIInv, ConfigCacheFits, Accounts!At
<1>6. ConfigFillsFit => \A u \in Calls : call'[u].at = "fill" => ConfigFits(call'[u].seen)
  BY <1>3 DEF ConfigFillsFit, Accounts!At
<1>7. ConfigFillsFit => ConfigFillsFit'
  BY <1>2, <1>6 DEF ConfigFillsFit, Accounts!At, ConfigFits
<1>8. ConfigOwedHolds'
  <2> SUFFICES ASSUME NEW u \in Calls, ConfigOwing(call'[u])
               PROVE  ConfigStoppable(call[u])'
    BY DEF ConfigOwedHolds, ConfigOwing
  <2>1. ConfigStoppable(call[u]) /\ call'[u] = call[u] /\ permaban
    BY <1>3 DEF ConfigIInv, ConfigOwedHolds
  <2> QED
    BY <1>1, <1>2, <1>7, <2>1 DEF ConfigStoppable, Accounts!Barred, ConfigFits
<1>9. ConfigLocalsEmpty'
  BY <1>1, <1>3 DEF ConfigIInv, ConfigLocalsEmpty, Accounts!At
<1>10. ConfigAges'
  BY <1>1, <1>3, ConfigAgesStay DEF Accounts!At
<1> QED
  BY <1>4, <1>5, <1>8, <1>9, <1>10 DEF ConfigIInv
-----------------------------------------------------------------------------
LEMMA ConfigSetCachedInv ==
    ASSUME Accounts!ConstantsOK, ConfigIInv, NEW t \in Calls, Accounts!SetCached(t)
    PROVE  ConfigIInv'
<1> DEFINE q == [call[t] EXCEPT !.at = "decide", !.late = FALSE]
           value == call[t].seen
<1>1. /\ Accounts!At(t, "fill") /\ stored' = value /\ local' = [local EXCEPT ![t] = value]
      /\ overtaken_config' = (overtaken_config \/ call[t].late)
      /\ call' = [call EXCEPT ![t].at = "decide", ![t].late = FALSE]
      /\ UNCHANGED <<permaban, suspension, voucher, rating, birthday, asserted_adult, raced>>
  BY DEF Accounts!SetCached, Accounts!tables
<1>2. call[t] \in Accounts!UserCalls
  BY <1>1, ConfigKinds, ConfigTypeParts DEF ConfigIInv, Accounts!At
<1>3. value \in Accounts!Configs \cup {None} /\ call[t].late \in BOOLEAN
  BY <1>2, ConfigUserIs
<1>4. q \in Accounts!UserCalls /\ q \in ConfigRecord /\ q.at = "decide" /\ q.seen = value /\ q.owed = call[t].owed
  BY <1>2 DEF Accounts!UserCalls, ConfigRecord
<1>5. call' = [call EXCEPT ![t] = q]
  BY <1>1, ConfigTypeParts DEF ConfigIInv
<1> HIDE DEF q, value
<1>6. ConfigBecame(t, q) /\ q # Accounts!Idle
  BY <1>4, <1>5, ConfigBecomes, ConfigIdleIs DEF ConfigIInv
<1>7. Accounts!TypeOK'
  BY <1>1, <1>3, <1>6, ConfigTypeParts DEF ConfigIInv, ConfigTables, ConfigBecame
<1>8. \A v : ConfigFits(v)' <=> ConfigFits(v)
  BY <1>1 DEF ConfigFits
<1>9. ConfigCacheFits'
  <2> SUFFICES ASSUME \A u \in Calls : ~Accounts!At(u, "invalidate")'
               PROVE  /\ ~overtaken_config' => ConfigFits(value)
                      /\ \A u \in Calls : call'[u].at = "fill" /\ ~call'[u].late => ConfigFits(call'[u].seen)
    BY <1>1, <1>8 DEF ConfigCacheFits, Accounts!At, ConfigFits
  <2>1. \A u \in Calls : ~Accounts!At(u, "invalidate")
    BY <1>1, <1>6 DEF ConfigBecame, ConfigElsewhere, Accounts!At
  <2>2. ~overtaken_config' => ConfigFits(value)
    BY <1>1, <2>1 DEF ConfigIInv, ConfigCacheFits, value
  <2> QED
    BY <1>4, <1>6, <2>1, <2>2 DEF ConfigIInv, ConfigCacheFits, ConfigBecame, ConfigElsewhere, Accounts!At
<1>10. ConfigOwedHolds'
  <2> SUFFICES ASSUME NEW u \in Calls, ConfigOwing(call'[u])
               PROVE  ConfigStoppable(call[u])'
    BY DEF ConfigOwedHolds, ConfigOwing
  <2>1. CASE u = t
    <3>1. ConfigStoppable(call[t]) /\ ConfigFits(value) /\ value # None
      BY <1>1, <1>2, <1>4, <1>6, <2>1 DEF ConfigIInv, ConfigOwedHolds, ConfigOwing, ConfigStoppable,
         ConfigFillsFit, ConfigBecame, Accounts!At, value
    <3>2. \A w \in Calls : call'[w].at = "fill" => ConfigFits(call'[w].seen)
      BY <1>4, <1>6, <3>1 DEF ConfigStoppable, ConfigFillsFit, ConfigBecame, ConfigElsewhere, Accounts!At
    <3> QED
      BY <1>1, <1>4, <1>6, <1>8, <2>1, <3>1, <3>2 DEF ConfigStoppable, ConfigFillsFit, ConfigFits,
         Accounts!Barred, ConfigBecame, Accounts!At
  <2>2. CASE u # t
    <3>1. ConfigStoppable(call'[u]) /\ ConfigFits(value)
      BY <1>1, <1>6, <2>2 DEF ConfigIInv, ConfigOwedHolds, ConfigStoppable, ConfigFillsFit, ConfigBecame,
         ConfigElsewhere, value
    <3>2. \A w \in Calls : call'[w].at = "fill" => ConfigFits(call'[w].seen)
      BY <1>4, <1>6, <3>1 DEF ConfigStoppable, ConfigFillsFit, ConfigBecame, ConfigElsewhere, Accounts!At
    <3> QED
      BY <1>1, <1>8, <3>1, <3>2 DEF ConfigStoppable, ConfigFillsFit, ConfigFits, Accounts!Barred,
         Accounts!At
  <2> QED
    BY <2>1, <2>2
<1>11. ConfigLocalsEmpty'
  <2>1. \A u \in Calls \ {t} : local'[u] = local[u]
    BY <1>1, ConfigTypeParts DEF ConfigIInv, ConfigTables
  <2> QED
    BY <1>4, <1>6, <2>1, ConfigLocalsMove
<1>12. ConfigAges'
  BY <1>1, <1>4, <1>6, ConfigAgesStay DEF ConfigBecame, ConfigElsewhere, Accounts!At
<1> QED
  BY <1>7, <1>9, <1>10, <1>11, <1>12 DEF ConfigIInv

\* What is on its way to memcached is late from here on.
LEMMA ConfigInvalidateInv ==
    ASSUME Accounts!ConstantsOK, ConfigIInv, NEW t \in Calls, Accounts!Invalidate(t)
    PROVE  ConfigIInv'
<1> DEFINE q == IF call[t].doing = "signin" THEN [call[t] EXCEPT !.at = "admitted"] ELSE Accounts!Idle
<1>1. /\ Accounts!At(t, "invalidate") /\ stored' = None /\ local' = [local EXCEPT ![t] = None] /\ overtaken_config' = FALSE
      /\ call' = [u \in Calls |->
            IF u = t THEN q ELSE IF Accounts!At(u, "fill") THEN [call[u] EXCEPT !.late = TRUE] ELSE call[u]]
      /\ UNCHANGED <<permaban, suspension, voucher, rating, birthday, asserted_adult, raced>>
  BY DEF Accounts!Invalidate, Accounts!tables
<1>2. ~ConfigOwing(call[t])
  BY <1>1 DEF ConfigIInv, ConfigOwedHolds, ConfigStoppable, Accounts!At
<1>3. q \in ConfigRecord /\ ~ConfigOwing(q) /\ (q = Accounts!Idle \/ q.at = "admitted")
  <2>1. CASE call[t] \in Accounts!UserCalls /\ call[t].doing = "signin"
    BY <1>2, <2>1, ConfigUserGoes DEF ConfigOwing
  <2>2. CASE call[t].doing # "signin"
    BY <2>2, ConfigIdleIs DEF ConfigOwing
  <2>3. call[t].doing = "signin" => call[t] \in Accounts!UserCalls
    BY <1>1, ConfigModIs, ConfigIdleIs, ConfigTypeParts DEF ConfigIInv, Accounts!At, ConfigRecord
  <2> QED
    BY <2>1, <2>2, <2>3
<1> HIDE DEF q
<1>4. \A u \in Calls : Accounts!At(u, "fill") =>
          LET p == [call[u] EXCEPT !.late = TRUE]
          IN  /\ p \in ConfigRecord /\ p \in Accounts!UserCalls /\ p # Accounts!Idle /\ p.at = "fill" /\ p.seen = call[u].seen
              /\ p.late = TRUE /\ p.owed = call[u].owed
  <2> SUFFICES ASSUME NEW u \in Calls, Accounts!At(u, "fill")
               PROVE  LET p == [call[u] EXCEPT !.late = TRUE]
                      IN  /\ p \in ConfigRecord /\ p \in Accounts!UserCalls /\ p # Accounts!Idle /\ p.at = "fill" /\ p.seen = call[u].seen
                          /\ p.late = TRUE /\ p.owed = call[u].owed
    OBVIOUS
  <2> DEFINE p == [call[u] EXCEPT !.late = TRUE]
  <2>1. call[u] \in Accounts!UserCalls /\ call[u].at = "fill"
    BY ConfigKinds, ConfigTypeParts DEF ConfigIInv, Accounts!At
  <2>2. /\ p \in Accounts!UserCalls /\ p \in ConfigRecord /\ p.at = "fill" /\ p.seen = call[u].seen
        /\ p.late = TRUE /\ p.owed = call[u].owed
    BY <2>1 DEF Accounts!UserCalls, ConfigRecord
  <2> HIDE DEF p
  <2>3. p # Accounts!Idle
    BY <2>2, ConfigIdleIs
  <2> QED
    BY <2>2, <2>3 DEF p
<1>5. \A u \in Calls \ {t} :
          /\ call'[u] \in ConfigRecord /\ call'[u].at = call[u].at /\ (call'[u] = Accounts!Idle <=> call[u] = Accounts!Idle)
          /\ Accounts!At(u, "fill") => call'[u].seen = call[u].seen /\ call'[u].late
          /\ ~Accounts!At(u, "fill") => call'[u] = call[u]
          /\ ConfigOwing(call'[u]) => ConfigOwing(call[u])
  <2> SUFFICES ASSUME NEW u \in Calls \ {t}
               PROVE  /\ call'[u] \in ConfigRecord /\ call'[u].at = call[u].at /\ (call'[u] = Accounts!Idle <=> call[u] = Accounts!Idle)
                      /\ Accounts!At(u, "fill") => call'[u].seen = call[u].seen /\ call'[u].late
                      /\ ~Accounts!At(u, "fill") => call'[u] = call[u]
                      /\ ConfigOwing(call'[u]) => ConfigOwing(call[u])
    OBVIOUS
  <2>1. CASE Accounts!At(u, "fill")
    <3>1. call'[u] = [call[u] EXCEPT !.late = TRUE]
      BY <1>1, <2>1
    <3>2. call[u] \in Accounts!UserCalls /\ call[u] # Accounts!Idle /\ call[u].at = "fill"
      BY <2>1, ConfigKinds, ConfigIdleIs, ConfigTypeParts DEF ConfigIInv, Accounts!At
    <3> QED
      BY <1>4, <2>1, <3>1, <3>2 DEF ConfigOwing
  <2>2. CASE ~Accounts!At(u, "fill")
    BY <1>1, <2>2, ConfigTypeParts DEF ConfigIInv
  <2> QED
    BY <2>1, <2>2
<1>6. call'[t] = q /\ call' \in [Calls -> ConfigRecord] /\ ~ConfigOwing(call'[t])
  BY <1>1, <1>3, <1>5
<1>7. Accounts!TypeOK'
  BY <1>1, <1>6, ConfigTypeParts DEF ConfigIInv, ConfigTables
<1>8. \A v : ConfigFits(v)' <=> ConfigFits(v)
  BY <1>1 DEF ConfigFits
<1>9. call'[t].at # "fill" /\ call'[t].at # "config"
  BY <1>3, <1>6, ConfigIdleIs
<1>10. ConfigCacheFits'
  BY <1>1, <1>5, <1>9 DEF ConfigCacheFits, Accounts!At, ConfigFits
<1>11. ConfigOwedHolds'
  <2> SUFFICES ASSUME NEW u \in Calls, ConfigOwing(call'[u])
               PROVE  ConfigStoppable(call[u])'
    BY DEF ConfigOwedHolds, ConfigOwing
  <2>1. u # t /\ ConfigOwing(call[u])
    BY <1>5, <1>6
  <2>2. ConfigStoppable(call[u])
    BY <2>1 DEF ConfigIInv, ConfigOwedHolds
  <2>3. call'[u].at = call[u].at /\ (call[u].at \in {"fill", "decide"} => call'[u].seen = call[u].seen)
    BY <1>5, <2>1 DEF Accounts!At
  <2>4. ConfigFillsFit'
    BY <1>5, <1>8, <1>9, <2>2 DEF ConfigStoppable, ConfigFillsFit, Accounts!At, ConfigFits
  <2> QED
    BY <1>1, <1>8, <2>2, <2>3, <2>4 DEF ConfigStoppable, Accounts!Barred, ConfigFits
<1>12. ConfigLocalsEmpty'
  <2>1. local'[t] = None /\ \A u \in Calls \ {t} : local'[u] = local[u]
    BY <1>1, ConfigTypeParts DEF ConfigIInv, ConfigTables
  <2> QED
    BY <1>5, <2>1 DEF ConfigIInv, ConfigLocalsEmpty, Accounts!At
<1>13. ConfigAges'
  <2>1. call'[t].at \in {"idle", "admitted"} /\ ~Accounts!At(t, "manage rating")
    BY <1>1, <1>3, <1>6, ConfigIdleIs DEF Accounts!At
  <2> QED
    BY <1>1, <1>5, <2>1, ConfigAgesStay DEF Accounts!At
<1> QED
  BY <1>7, <1>10, <1>11, <1>12, <1>13 DEF ConfigIInv
-----------------------------------------------------------------------------
LEMMA ConfigUserStepInv ==
    ASSUME Accounts!ConstantsOK, ConfigIInv, NEW t \in Calls,
           \/ \E doing \in Accounts!UserRequests : Accounts!Begin(t, doing)
           \/ Accounts!GetCached(t) \/ Accounts!Query(t) \/ Accounts!SetCached(t) \/ Accounts!Invalidate(t)
           \/ Accounts!StatusCheck(t) \/ Accounts!Signin(t) \/ Accounts!ReadSuspension(t) \/ Accounts!Lift(t) \/ Accounts!Served(t)
           \/ Accounts!EditProfile(t) \/ Accounts!PreferGeneral(t) \/ Accounts!ReadAge(t) \/ Accounts!AssertAdult(t) \/ Accounts!PreferAdult(t)
           \/ \E born \in {"minor", "adult"} : Accounts!EditUserinfo(t, born)
    PROVE  ConfigIInv'
<1>1. CASE \E doing \in Accounts!UserRequests : Accounts!Begin(t, doing)
  BY <1>1, ConfigBeginInv
<1>2. CASE Accounts!GetCached(t) \/ Accounts!Query(t) \/ Accounts!SetCached(t) \/ Accounts!Invalidate(t)
  BY <1>2, ConfigGetCachedInv, ConfigQueryInv, ConfigSetCachedInv, ConfigInvalidateInv
<1>3. CASE Accounts!StatusCheck(t) \/ Accounts!Signin(t) \/ Accounts!ReadSuspension(t) \/ Accounts!Lift(t) \/ Accounts!Served(t)
  BY <1>3, ConfigStatusCheckInv, ConfigSigninInv, ConfigReadSuspensionInv, ConfigLiftInv, ConfigServedInv
<1>4. CASE Accounts!EditProfile(t) \/ Accounts!PreferGeneral(t) \/ Accounts!ReadAge(t) \/ Accounts!AssertAdult(t) \/ Accounts!PreferAdult(t)
  BY <1>4, ConfigEditProfileInv, ConfigPreferInv, ConfigAssertAdultInv
<1>5. CASE \E born \in {"minor", "adult"} : Accounts!EditUserinfo(t, born)
  BY <1>5, ConfigEditUserinfoInv
<1> QED
  BY <1>1, <1>2, <1>3, <1>4, <1>5

LEMMA ConfigModStepInv ==
    ASSUME Accounts!ConstantsOK, ConfigIInv, NEW t \in Calls,
           \/ \E mode \in {"b", "s", "x"} : Accounts!ModeDelete(t, mode)
           \/ Accounts!ModeCommit(t) \/ Accounts!Vouch(t) \/ Accounts!ManageRating(t)
           \/ \E born \in {"none", "minor", "adult"} : Accounts!ManageBirthday(t, born)
    PROVE  ConfigIInv'
  BY ConfigModeDeleteInv, ConfigModeCommitInv, ConfigVouchInv, ConfigManageRatingInv,
     ConfigManageBirthdayInv

LEMMA ConfigStillInv == ConfigIInv /\ UNCHANGED Accounts!vars => ConfigIInv'
<1> SUFFICES ASSUME ConfigIInv, UNCHANGED Accounts!vars PROVE ConfigIInv'
  OBVIOUS
<1>1. UNCHANGED <<permaban, suspension, voucher, rating, birthday, asserted_adult, stored, local, call, overtaken_config, raced>>
  BY DEF Accounts!vars, Accounts!tables, Accounts!caches
<1>2. Accounts!TypeOK'
  BY <1>1 DEF ConfigIInv, Accounts!TypeOK
<1>3. ConfigCacheFits' /\ ConfigOwedHolds'
  BY <1>1 DEF ConfigIInv, ConfigCacheFits, ConfigOwedHolds, ConfigOwing, ConfigStoppable, Accounts!Barred,
     ConfigFillsFit, ConfigFits, Accounts!At
<1>4. ConfigLocalsEmpty'
  BY <1>1 DEF ConfigIInv, ConfigLocalsEmpty, Accounts!At
<1>5. ConfigAges'
  BY <1>1 DEF ConfigIInv, ConfigAges, Accounts!RatingIsAsserted, Accounts!Saving,
     Accounts!MinorsSeeGeneral, Accounts!At
<1> QED
  BY <1>2, <1>3, <1>4, <1>5 DEF ConfigIInv

LEMMA ConfigNextInv == Accounts!ConstantsOK /\ ConfigIInv /\ [Accounts!Next]_Accounts!vars => ConfigIInv'
<1> SUFFICES ASSUME Accounts!ConstantsOK, ConfigIInv, [Accounts!Next]_Accounts!vars PROVE ConfigIInv'
  OBVIOUS
<1>1. CASE Accounts!PostAdult \/ Accounts!Release
  BY <1>1, ConfigPostAdultInv, ConfigReleaseInv
<1>2. CASE UNCHANGED Accounts!vars
  BY <1>2, ConfigStillInv
<1>3. CASE \E t \in Calls :
              \/ \E doing \in Accounts!UserRequests : Accounts!Begin(t, doing)
              \/ Accounts!GetCached(t) \/ Accounts!Query(t) \/ Accounts!SetCached(t) \/ Accounts!Invalidate(t)
              \/ Accounts!StatusCheck(t) \/ Accounts!Signin(t) \/ Accounts!ReadSuspension(t) \/ Accounts!Lift(t) \/ Accounts!Served(t)
              \/ Accounts!EditProfile(t) \/ Accounts!PreferGeneral(t) \/ Accounts!ReadAge(t) \/ Accounts!AssertAdult(t) \/ Accounts!PreferAdult(t)
              \/ \E born \in {"minor", "adult"} : Accounts!EditUserinfo(t, born)
  BY <1>3, ConfigUserStepInv
<1>4. CASE \E t \in Calls :
              \/ \E mode \in {"b", "s", "x"} : Accounts!ModeDelete(t, mode)
              \/ Accounts!ModeCommit(t) \/ Accounts!Vouch(t) \/ Accounts!ManageRating(t)
              \/ \E born \in {"none", "minor", "adult"} : Accounts!ManageBirthday(t, born)
  BY <1>4, ConfigModStepInv
<1> QED
  BY <1>1, <1>2, <1>3, <1>4 DEF Accounts!Next

LEMMA ConfigPromises == ConfigIInv => Accounts!BarredAreRefused /\ Accounts!MinorsSeeGeneral /\ Accounts!RatingIsAsserted
<1> SUFFICES ASSUME ConfigIInv PROVE Accounts!BarredAreRefused /\ Accounts!MinorsSeeGeneral /\ Accounts!RatingIsAsserted
  OBVIOUS
<1>1. Accounts!BarredAreRefused
  <2> SUFFICES ASSUME NEW t \in Calls, Accounts!At(t, "admitted"), call[t].owed PROVE FALSE
    BY DEF Accounts!BarredAreRefused
  <2>1. call[t] \in Accounts!UserCalls
    BY ConfigKinds, ConfigTypeParts DEF ConfigIInv, Accounts!At
  <2> QED
    BY <2>1 DEF ConfigIInv, ConfigOwedHolds, ConfigOwing, ConfigStoppable, Accounts!At
<1> QED
  BY <1>1 DEF ConfigIInv, ConfigAges
-----------------------------------------------------------------------------
\* While the part moves it has its invariant; and so it has in every state.
ConfigHold == part = "accounts" => ConfigIInv

LEMMA ConfigAreHeld == AccountsSpec => []ConfigHold
<1>1. AccountsInit => ConfigHold
  BY ConfigInitInv, AccountsAssumption DEF AccountsInit, ConfigHold
<1>2. ConfigHold /\ [AccountsNext]_all_accounts_vars => ConfigHold'
  <2> SUFFICES ASSUME ConfigHold, [AccountsNext]_all_accounts_vars, part' = "accounts" PROVE ConfigIInv'
    BY DEF ConfigHold
  <2>1. part = "accounts" /\ ConfigIInv
    BY PartStays DEF ConfigHold
  <2>2. Accounts!Next \/ UNCHANGED <<accounts_vars, call>>
    BY <2>1 DEF AccountsNext, all_accounts_vars
  <2>3. UNCHANGED <<accounts_vars, call>> => UNCHANGED Accounts!vars
    BY DEF accounts_vars, Accounts!vars, Accounts!tables, Accounts!caches
  <2> QED
    BY <2>1, <2>2, <2>3, ConfigNextInv, AccountsAssumption
<1> QED
  BY <1>1, <1>2, PTL DEF AccountsSpec
-----------------------------------------------------------------------------
LEMMA NamesTypeParts ==
    /\ Naming!TypeOK <=> NamesTables /\ call \in [Calls -> NamesRecord]
    /\ Naming!TypeOK' <=> NamesTables' /\ call' \in [Calls -> NamesRecord]
  BY DEF Naming!TypeOK, NamesTables, NamesRecord

LEMMA NamesIdleIs == Naming!Idle \in NamesRecord /\ Naming!Idle.at = "idle"
  BY DEF Naming!Idle, NamesRecord

LEMMA NamesKinds ==
    ASSUME NEW q \in NamesRecord
    PROVE  /\ q.at = "fill" => q \in Naming!LookupCall /\ q.name \in Ids /\ q.user \in Members /\ q.late \in BOOLEAN
           /\ q.at \in {"release", "commit"} =>
                  /\ q \in Naming!ChangeCall /\ q.user \in Members /\ q.from \in Ids /\ q.to \in Ids
                  /\ q.released \in Ids \cup {None} /\ q.again \in BOOLEAN
           /\ q.at = "invalidate" => q \in Naming!InvalidateCall /\ q.name \in Ids
           /\ q.at = "alias" => q \in Naming!AliasCall /\ q.user \in Members /\ q.name \in Ids
<1>1. q \in Naming!LookupCall => q.at = "fill" /\ q.name \in Ids /\ q.user \in Members /\ q.late \in BOOLEAN
  BY DEF Naming!LookupCall
<1>2. q \in Naming!ChangeCall =>
          /\ q.at \in {"release", "commit"} /\ q.user \in Members /\ q.from \in Ids /\ q.to \in Ids
          /\ q.released \in Ids \cup {None} /\ q.again \in BOOLEAN
  BY DEF Naming!ChangeCall
<1>3. q \in Naming!InvalidateCall => q.at = "invalidate" /\ q.name \in Ids
  BY DEF Naming!InvalidateCall
<1>4. q \in Naming!AliasCall => q.at = "alias" /\ q.user \in Members /\ q.name \in Ids
  BY DEF Naming!AliasCall
<1> QED
  BY <1>1, <1>2, <1>3, <1>4, NamesIdleIs DEF NamesRecord

\* The lookups that are overtaken, and the others.
LEMMA NamesOvertakes ==
    ASSUME NEW calls \in [Calls -> NamesRecord], NEW n
    PROVE  /\ Naming!Overtake(calls, n) \in [Calls -> NamesRecord]
           /\ \A c \in Calls :
                  \/ Naming!Overtake(calls, n)[c] = calls[c] /\ ~(calls[c].at = "fill" /\ calls[c].name = n)
                  \/ Naming!Overtake(calls, n)[c].at = "fill" /\ Naming!Overtake(calls, n)[c].late /\ calls[c].at = "fill"
<1> DEFINE w(c) == [calls[c] EXCEPT !.late = TRUE]
           new == Naming!Overtake(calls, n)
<1>1. new = [c \in Calls |-> IF calls[c].at = "fill" /\ calls[c].name = n THEN w(c) ELSE calls[c]]
  BY DEF Naming!Overtake
<1>2. ASSUME NEW c \in Calls, calls[c].at = "fill"
      PROVE  w(c) \in NamesRecord /\ w(c).at = "fill" /\ w(c).late
  <2>1. calls[c] \in Naming!LookupCall
    BY <1>2, NamesKinds
  <2> QED
    BY <2>1 DEF Naming!LookupCall, NamesRecord
<1> HIDE DEF w, new
<1>3. \A c \in Calls : new[c] = IF calls[c].at = "fill" /\ calls[c].name = n THEN w(c) ELSE calls[c]
  BY <1>1
<1>4. \A c \in Calls :
          /\ new[c] \in NamesRecord
          /\ \/ new[c] = calls[c] /\ ~(calls[c].at = "fill" /\ calls[c].name = n)
             \/ new[c].at = "fill" /\ new[c].late /\ calls[c].at = "fill"
  BY <1>2, <1>3
<1>5. new \in [Calls -> NamesRecord]
  BY <1>1, <1>4
<1> QED
  BY <1>4, <1>5 DEF new

\* A change that has released n is told, and the others are not.
LEMMA NamesReturns ==
    ASSUME NEW calls \in [Calls -> NamesRecord], NEW n
    PROVE  /\ Naming!Returned(calls, n) \in [Calls -> NamesRecord]
           /\ \A c \in Calls :
                  \/ Naming!Returned(calls, n)[c] = calls[c] /\ ~(calls[c].at = "commit" /\ calls[c].released = n)
                  \/ Naming!Returned(calls, n)[c].at = "commit" /\ Naming!Returned(calls, n)[c].again /\ calls[c].at = "commit"
<1> DEFINE w(c) == [calls[c] EXCEPT !.again = TRUE]
           new == Naming!Returned(calls, n)
<1>1. new = [c \in Calls |-> IF calls[c].at = "commit" /\ calls[c].released = n THEN w(c) ELSE calls[c]]
  BY DEF Naming!Returned
<1>2. ASSUME NEW c \in Calls, calls[c].at = "commit"
      PROVE  w(c) \in NamesRecord /\ w(c).at = "commit" /\ w(c).again
  <2>1. calls[c] \in Naming!ChangeCall
    BY <1>2, NamesKinds
  <2> QED
    BY <1>2, <2>1 DEF Naming!ChangeCall, NamesRecord
<1> HIDE DEF w, new
<1>3. \A c \in Calls : new[c] = IF calls[c].at = "commit" /\ calls[c].released = n THEN w(c) ELSE calls[c]
  BY <1>1
<1>4. \A c \in Calls :
          /\ new[c] \in NamesRecord
          /\ \/ new[c] = calls[c] /\ ~(calls[c].at = "commit" /\ calls[c].released = n)
             \/ new[c].at = "commit" /\ new[c].again /\ calls[c].at = "commit"
  BY <1>2, <1>3
<1>5. new \in [Calls -> NamesRecord]
  BY <1>1, <1>4
<1> QED
  BY <1>4, <1>5 DEF new
-----------------------------------------------------------------------------
LEMMA NamesInitInv == Naming!ConstantsOK /\ Naming!Init => NamesIInv
<1> SUFFICES ASSUME Naming!ConstantsOK, Naming!Init PROVE NamesIInv
  OBVIOUS
<1>1. \A c \in Calls : call[c] = Naming!Idle /\ call[c].at = "idle"
  BY NamesIdleIs DEF Naming!Init, Naming!AllIdle
<1>2. Naming!TypeOK
  BY <1>1, NamesIdleIs, NamesTypeParts DEF Naming!Init, NamesTables, Naming!AllIdle
<1> QED
  BY <1>1, <1>2 DEF Naming!Init, NamesIInv, NamesFillsFind, NamesCommitsKnow, Naming!LookupsFindTheHolder,
     Naming!At

\* Nobody gives up a name, and the cache stays: invalidations may start.
LEMMA NamesNobodyLoses ==
    ASSUME NamesIInv, Naming!TypeOK', cached_names' = cached_names, lingering \subseteq lingering',
           \A n \in Ids : Naming!Holders(n) \subseteq Naming!Holders(n)',
           \A c \in Calls :
               \/ call'[c] = call[c]
               \/ ~Naming!At(c, "invalidate") /\ call'[c].at \notin {"fill", "commit"}
               \/ ~Naming!At(c, "invalidate") /\ call'[c].at = "fill"
                  /\ \E n \in Ids : call'[c].name = n /\ call'[c].user \in Naming!Holders(n)'
               \/ Naming!At(c, "fill") /\ call'[c].at = "fill" /\ call'[c].late
    PROVE  NamesIInv'
<1>1. \A n \in Ids : NamesInvalidating(n) => NamesInvalidating(n)'
  BY DEF NamesInvalidating, Naming!At
<1>2. \A c \in Calls : Naming!At(c, "fill") => call[c].name \in Ids
  BY NamesKinds, NamesTypeParts DEF NamesIInv, Naming!At
<1>3. NamesFillsFind'
  <2> SUFFICES ASSUME NEW c \in Calls, Naming!At(c, "fill")', ~call'[c].late, NEW m, call'[c].name = m
               PROVE  call'[c].user \in Naming!Holders(m)' \/ NamesInvalidating(m)'
    BY DEF NamesFillsFind, Naming!At, NamesInvalidating, Naming!Holders, Naming!NamesOf
  <2>1. CASE call'[c] = call[c]
    <3>1. Naming!At(c, "fill") /\ ~call[c].late
      BY <2>1 DEF Naming!At
    <3>2. call[c].user \in Naming!Holders(call[c].name) \/ NamesInvalidating(call[c].name)
      BY <3>1 DEF NamesIInv, NamesFillsFind
    <3> QED
      BY <1>1, <1>2, <2>1, <3>1, <3>2
  <2> QED
    BY <2>1 DEF Naming!At
<1>4. NamesCommitsKnow'
  BY DEF NamesIInv, NamesCommitsKnow, Naming!At
<1>5. Naming!LookupsFindTheHolder'
  <2>1. \A n \in Ids \ lingering : cached_names[n] # None => cached_names[n] \in Naming!Holders(n) \/ NamesInvalidating(n)
    BY DEF NamesIInv, Naming!LookupsFindTheHolder, NamesInvalidating
  <2>2. \A n \in Ids \ lingering' : cached_names'[n] # None => cached_names'[n] \in Naming!Holders(n)' \/ NamesInvalidating(n)'
    BY <1>1, <2>1
  <2> QED
    BY <2>2 DEF Naming!LookupsFindTheHolder, NamesInvalidating, Naming!At, Naming!Holders, Naming!NamesOf
<1> QED
  BY <1>3, <1>4, <1>5 DEF NamesIInv

LEMMA NamesVerifyInv ==
    ASSUME Naming!ConstantsOK, NamesIInv, NEW u \in Members, NEW n \in Ids, Naming!Verify(u, n)
    PROVE  NamesIInv'
<1>1. login[u] = None /\ login' = [login EXCEPT ![u] = n] /\ UNCHANGED <<useralias, redirect, cached_names, lingering, call>>
  BY DEF Naming!Verify
<1>2. Naming!TypeOK'
  BY <1>1, NamesTypeParts DEF NamesIInv, NamesTables
<1>3. \A k \in Ids : Naming!Holders(k) \subseteq Naming!Holders(k)'
  BY <1>1, NamesTypeParts DEF Naming!Holders, Naming!NamesOf, NamesIInv, NamesTables, Naming!ConstantsOK
<1> QED
  BY <1>1, <1>2, <1>3, NamesNobodyLoses

LEMMA NamesAliasInsertInv ==
    ASSUME Naming!ConstantsOK, NamesIInv, NEW c \in Calls, Naming!AliasInsert(c)
    PROVE  NamesIInv'
<1> DEFINE u == call[c].user
<1>1. /\ Naming!At(c, "alias") /\ Naming!End(c)
      /\ useralias' = useralias \/ (useralias[u] = None /\ useralias' = [useralias EXCEPT ![u] = call[c].name])
      /\ UNCHANGED <<login, redirect, cached_names, lingering>>
  BY DEF Naming!AliasInsert
<1>2. u \in Members /\ call[c].name \in Ids
  BY <1>1, NamesKinds, NamesTypeParts DEF NamesIInv, Naming!At
<1> HIDE DEF u
<1>3. call' \in [Calls -> NamesRecord] /\ call'[c].at = "idle" /\ NamesElsewhere(c)
  BY <1>1, NamesIdleIs, NamesTypeParts DEF Naming!End, NamesIInv, NamesElsewhere
<1>4. Naming!TypeOK'
  BY <1>1, <1>2, <1>3, NamesTypeParts DEF NamesIInv, NamesTables
<1>5. \A k \in Ids : Naming!Holders(k) \subseteq Naming!Holders(k)'
  BY <1>1, <1>2, NamesTypeParts DEF Naming!Holders, Naming!NamesOf, NamesIInv, NamesTables,
     Naming!ConstantsOK
<1>6. \A d \in Calls : call'[d] = call[d] \/ (~Naming!At(d, "invalidate") /\ call'[d].at \notin {"fill", "commit"})
  BY <1>1, <1>3 DEF Naming!At, NamesElsewhere
<1> QED
  BY <1>1, <1>4, <1>5, <1>6, NamesNobodyLoses

LEMMA NamesChangeBeginInv ==
    ASSUME Naming!ConstantsOK, NamesIInv, NEW c \in Calls, NEW u \in Members, NEW n \in Ids,
           Naming!ChangeBegin(c, u, n)
    PROVE  NamesIInv'
<1> DEFINE q == [at |-> "release", user |-> u, from |-> login[u], to |-> n, released |-> None, again |-> FALSE]
<1>1. login[u] # None /\ Naming!Start(c, q) /\ UNCHANGED <<login, useralias, redirect, cached_names, lingering>>
  BY DEF Naming!ChangeBegin
<1>2. q \in NamesRecord /\ q.at = "release"
  BY <1>1, NamesTypeParts DEF NamesRecord, Naming!ChangeCall, NamesIInv, NamesTables
<1> HIDE DEF q
<1>3. call' \in [Calls -> NamesRecord] /\ call'[c] = q /\ NamesElsewhere(c) /\ ~Naming!At(c, "invalidate")
  BY <1>1, <1>2, NamesIdleIs, NamesTypeParts DEF Naming!Start, NamesIInv, NamesElsewhere, Naming!At
<1>4. Naming!TypeOK'
  BY <1>1, <1>3, NamesTypeParts DEF NamesIInv, NamesTables
<1>5. \A k \in Ids : Naming!Holders(k)' = Naming!Holders(k)
  BY <1>1 DEF Naming!Holders, Naming!NamesOf
<1>6. \A d \in Calls : call'[d] = call[d] \/ (~Naming!At(d, "invalidate") /\ call'[d].at \notin {"fill", "commit"})
  BY <1>2, <1>3 DEF NamesElsewhere
<1> QED
  BY <1>1, <1>4, <1>5, <1>6, NamesNobodyLoses

LEMMA NamesLookupReadInv ==
    ASSUME Naming!ConstantsOK, NamesIInv, NEW c \in Calls, NEW n \in Ids, Naming!LookupRead(c, n)
    PROVE  NamesIInv'
<1>1. PICK u \in Naming!Holders(n) : Naming!Start(c, [at |-> "fill", name |-> n, user |-> u, late |-> FALSE])
  BY DEF Naming!LookupRead
<1> DEFINE q == [at |-> "fill", name |-> n, user |-> u, late |-> FALSE]
<1>2. Naming!Start(c, q) /\ UNCHANGED <<login, useralias, redirect, cached_names, lingering>>
  BY <1>1 DEF Naming!LookupRead
<1>3. q \in NamesRecord /\ q.at = "fill" /\ q.name = n /\ q.user = u
  BY DEF NamesRecord, Naming!LookupCall, Naming!Holders
<1> HIDE DEF q
<1>4. call' \in [Calls -> NamesRecord] /\ call'[c] = q /\ NamesElsewhere(c) /\ ~Naming!At(c, "invalidate")
  BY <1>2, <1>3, NamesIdleIs, NamesTypeParts DEF Naming!Start, NamesIInv, NamesElsewhere, Naming!At
<1>5. Naming!TypeOK'
  BY <1>2, <1>4, NamesTypeParts DEF NamesIInv, NamesTables
<1>6. \A k \in Ids : Naming!Holders(k)' = Naming!Holders(k)
  BY <1>2 DEF Naming!Holders, Naming!NamesOf
<1>7. \A d \in Calls : \/ call'[d] = call[d]
                       \/ ~Naming!At(d, "invalidate") /\ call'[d].at = "fill"
                          /\ \E k \in Ids : call'[d].name = k /\ call'[d].user \in Naming!Holders(k)'
  BY <1>3, <1>4, <1>6 DEF NamesElsewhere
<1> QED
  BY <1>2, <1>5, <1>6, <1>7, NamesNobodyLoses
-----------------------------------------------------------------------------
\* Of the rows of one user, all names stay but one, whose lookups are
\* overtaken and which lingers if it is cached.
LEMMA NamesOneLoses ==
    ASSUME NamesIInv, Naming!TypeOK', cached_names' = cached_names, lingering \subseteq lingering', NEW given,
           given \in Ids /\ cached_names[given] # None => given \in lingering',
           \A n \in Ids : n # given => Naming!Holders(n) \subseteq Naming!Holders(n)',
           \A c \in Calls :
               \/ call'[c] = call[c] /\ ~(Naming!At(c, "fill") /\ call[c].name = given)
               \/ ~Naming!At(c, "invalidate") /\ call'[c].at \notin {"fill", "commit"}
               \/ Naming!At(c, "fill") /\ call'[c].at = "fill" /\ call'[c].late
    PROVE  NamesIInv'
<1>1. \A n \in Ids : NamesInvalidating(n) => NamesInvalidating(n)'
  BY DEF NamesInvalidating, Naming!At
<1>2. \A c \in Calls : Naming!At(c, "fill") => call[c].name \in Ids
  BY NamesKinds, NamesTypeParts DEF NamesIInv, Naming!At
<1>3. NamesFillsFind'
  <2> SUFFICES ASSUME NEW c \in Calls, Naming!At(c, "fill")', ~call'[c].late, NEW m, call'[c].name = m
               PROVE  call'[c].user \in Naming!Holders(m)' \/ NamesInvalidating(m)'
    BY DEF NamesFillsFind, Naming!At, NamesInvalidating, Naming!Holders, Naming!NamesOf
  <2>1. call'[c] = call[c] /\ Naming!At(c, "fill") /\ ~call[c].late /\ call[c].name # given
    BY DEF Naming!At
  <2>2. call[c].user \in Naming!Holders(call[c].name) \/ NamesInvalidating(call[c].name)
    BY <2>1 DEF NamesIInv, NamesFillsFind
  <2> QED
    BY <1>1, <1>2, <2>1, <2>2
<1>4. NamesCommitsKnow'
  BY DEF NamesIInv, NamesCommitsKnow, Naming!At
<1>5. Naming!LookupsFindTheHolder'
  <2>1. \A n \in Ids \ lingering : cached_names[n] # None => cached_names[n] \in Naming!Holders(n) \/ NamesInvalidating(n)
    BY DEF NamesIInv, Naming!LookupsFindTheHolder, NamesInvalidating
  <2>2. \A n \in Ids \ lingering' : cached_names'[n] # None => cached_names'[n] \in Naming!Holders(n)' \/ NamesInvalidating(n)'
    BY <1>1, <2>1
  <2> QED
    BY <2>2 DEF Naming!LookupsFindTheHolder, NamesInvalidating, Naming!At, Naming!Holders, Naming!NamesOf
<1> QED
  BY <1>3, <1>4, <1>5 DEF NamesIInv

LEMMA NamesAliasDeleteInv ==
    ASSUME Naming!ConstantsOK, NamesIInv, NEW c \in Calls, NEW u \in Members, NEW n \in Ids \cup {None},
           Naming!AliasDelete(c, u, n)
    PROVE  NamesIInv'
<1> DEFINE q == IF n = None THEN Naming!Idle ELSE [at |-> "alias", user |-> u, name |-> n]
           calls == [call EXCEPT ![c] = q]
<1>1. /\ call[c] = Naming!Idle
      /\ useralias' = [useralias EXCEPT ![u] = None]
      /\ lingering' = lingering \cup {k \in Ids : k = useralias[u] /\ cached_names[k] # None}
      /\ call' = Naming!Overtake(calls, useralias[u])
      /\ UNCHANGED <<login, redirect, cached_names>>
  BY DEF Naming!AliasDelete
<1>2. q \in NamesRecord /\ q.at \in {"idle", "alias"}
  BY NamesIdleIs DEF NamesRecord, Naming!AliasCall
<1> HIDE DEF q
<1>3. calls \in [Calls -> NamesRecord] /\ calls[c] = q /\ \A d \in Calls \ {c} : calls[d] = call[d]
  BY <1>2, NamesTypeParts DEF NamesIInv
<1> HIDE DEF calls
<1>4. /\ call' \in [Calls -> NamesRecord]
      /\ \A d \in Calls :
             \/ call'[d] = calls[d] /\ ~(calls[d].at = "fill" /\ calls[d].name = useralias[u])
             \/ call'[d].at = "fill" /\ call'[d].late /\ calls[d].at = "fill"
  BY <1>1, <1>3, NamesOvertakes
<1>5. Naming!TypeOK'
  BY <1>1, <1>4, NamesTypeParts DEF NamesIInv, NamesTables
<1>6. \A k \in Ids : k # useralias[u] => Naming!Holders(k) \subseteq Naming!Holders(k)'
  BY <1>1, NamesTypeParts DEF Naming!Holders, Naming!NamesOf, NamesIInv, NamesTables, Naming!ConstantsOK
<1>7. ~Naming!At(c, "invalidate")
  BY <1>1, NamesIdleIs DEF Naming!At
<1>8. \A d \in Calls :
          \/ call'[d] = call[d] /\ ~(Naming!At(d, "fill") /\ call[d].name = useralias[u])
          \/ ~Naming!At(d, "invalidate") /\ call'[d].at \notin {"fill", "commit"}
          \/ Naming!At(d, "fill") /\ call'[d].at = "fill" /\ call'[d].late
  BY <1>2, <1>3, <1>4, <1>7 DEF Naming!At
<1>9. useralias[u] \in Ids /\ cached_names[useralias[u]] # None => useralias[u] \in lingering'
  BY <1>1
<1> QED
  BY <1>1, <1>5, <1>6, <1>8, <1>9, NamesOneLoses

LEMMA NamesChangeCommitInv ==
    ASSUME Naming!ConstantsOK, NamesIInv, NEW c \in Calls, Naming!ChangeCommit(c)
    PROVE  NamesIInv'
<1>0. call[c].user \in Members
  BY NamesKinds, NamesTypeParts DEF NamesIInv, Naming!At, Naming!ChangeCommit
<1> PICK u \in Members : u = call[c].user
  BY <1>0
<1> DEFINE q == call[c]
           given_up == IF q.released = q.to THEN None ELSE q.released
           next == [at |-> "invalidate", name |-> q.from]
           calls == [call EXCEPT ![c] = next]
           back == [call[c] EXCEPT !.at = "release"]
<1>1. /\ Naming!At(c, "commit") /\ UNCHANGED <<useralias, cached_names>>
      /\ \/ /\ login[u] = q.from /\ redirect[u] = q.released
            /\ login' = [login EXCEPT ![u] = q.to]
            /\ redirect' = [redirect EXCEPT ![u] = q.from]
            /\ call' = Naming!Overtake(calls, given_up)
            /\ lingering' = lingering \cup {n \in Ids : n = given_up /\ q.again}
         \/ Naming!Goto(c, "release") /\ UNCHANGED <<login, redirect, lingering>>
  BY DEF Naming!ChangeCommit
<1>2. /\ q \in Naming!ChangeCall /\ q.from \in Ids /\ q.to \in Ids
      /\ q.released \in Ids \cup {None} /\ q.again \in BOOLEAN
  BY <1>1, NamesKinds, NamesTypeParts DEF NamesIInv, Naming!At
<1>3. CASE /\ login[u] = q.from /\ redirect[u] = q.released
           /\ login' = [login EXCEPT ![u] = q.to]
           /\ redirect' = [redirect EXCEPT ![u] = q.from]
           /\ call' = Naming!Overtake(calls, given_up)
           /\ lingering' = lingering \cup {n \in Ids : n = given_up /\ q.again}
  <2>1. next \in NamesRecord /\ next.at = "invalidate"
    BY <1>2 DEF NamesRecord, Naming!InvalidateCall
  <2> HIDE DEF next
  <2>2. calls \in [Calls -> NamesRecord] /\ calls[c] = next /\ \A d \in Calls \ {c} : calls[d] = call[d]
    BY <2>1, NamesTypeParts DEF NamesIInv
  <2>3. /\ given_up \in Ids => q.released = given_up /\ given_up # None
        /\ q.released \in Ids /\ q.released # q.to => given_up = q.released
    BY DEF Naming!ConstantsOK
  <2>4. given_up \in Ids /\ cached_names[given_up] # None => q.again
    BY <1>1, <2>3 DEF NamesIInv, NamesCommitsKnow
  <2> HIDE DEF calls, given_up
  <2>5. /\ call' \in [Calls -> NamesRecord]
        /\ \A d \in Calls :
               \/ call'[d] = calls[d] /\ ~(calls[d].at = "fill" /\ calls[d].name = given_up)
               \/ call'[d].at = "fill" /\ call'[d].late /\ calls[d].at = "fill"
    BY <1>3, <2>2, NamesOvertakes
  <2>6. Naming!TypeOK'
    BY <1>1, <1>2, <1>3, <2>5, NamesTypeParts DEF NamesIInv, NamesTables
  <2>7. /\ login'[u] = q.to /\ redirect'[u] = q.from /\ useralias' = useralias
        /\ \A v \in Members : v # u => login'[v] = login[v] /\ redirect'[v] = redirect[v]
    BY <1>1, <1>3, NamesTypeParts DEF NamesIInv, NamesTables
  <2>8. ASSUME NEW k \in Ids, k # given_up, NEW v \in Members, k \in Naming!NamesOf(v)
        PROVE  k \in Naming!NamesOf(v)'
    <3>1. CASE v = u
      <4>1. k \in {q.from, useralias[u], q.released}
        BY <1>3, <2>8, <3>1 DEF Naming!NamesOf
      <4>2. k = q.released => k = q.to
        BY <2>3, <2>8, <4>1
      <4> QED
        BY <2>7, <3>1, <4>1, <4>2 DEF Naming!NamesOf
    <3>2. CASE v # u
      BY <2>7, <2>8, <3>2 DEF Naming!NamesOf
    <3> QED
      BY <3>1, <3>2
  <2>9. \A k \in Ids : k # given_up => Naming!Holders(k) \subseteq Naming!Holders(k)'
    BY <2>8 DEF Naming!Holders, Naming!NamesOf
  <2>10. \A d \in Calls :
             \/ call'[d] = call[d] /\ ~(Naming!At(d, "fill") /\ call[d].name = given_up)
             \/ ~Naming!At(d, "invalidate") /\ call'[d].at \notin {"fill", "commit"}
             \/ Naming!At(d, "fill") /\ call'[d].at = "fill" /\ call'[d].late
    BY <1>1, <2>1, <2>2, <2>5 DEF Naming!At
  <2>11. given_up \in Ids /\ cached_names[given_up] # None => given_up \in lingering'
    BY <1>3, <2>4
  <2> QED
    BY <1>1, <1>3, <2>6, <2>9, <2>10, <2>11, NamesOneLoses
<1>4. CASE Naming!Goto(c, "release") /\ UNCHANGED <<login, redirect, lingering>>
  <2>1. back \in NamesRecord /\ back.at = "release"
    BY <1>2 DEF NamesRecord, Naming!ChangeCall
  <2>2. call' = [call EXCEPT ![c] = back]
    BY <1>4 DEF Naming!Goto
  <2> HIDE DEF back
  <2>3. call' \in [Calls -> NamesRecord] /\ call'[c] = back /\ NamesElsewhere(c)
    BY <2>1, <2>2, NamesTypeParts DEF NamesIInv, NamesElsewhere
  <2>4. Naming!TypeOK'
    BY <1>1, <1>4, <2>3, NamesTypeParts DEF NamesIInv, NamesTables
  <2>5. \A k \in Ids : Naming!Holders(k)' = Naming!Holders(k)
    BY <1>1, <1>4 DEF Naming!Holders, Naming!NamesOf
  <2>6. \A d \in Calls : call'[d] = call[d] \/ (~Naming!At(d, "invalidate") /\ call'[d].at \notin {"fill", "commit"})
    BY <1>1, <2>1, <2>3 DEF NamesElsewhere, Naming!At
  <2> QED
    BY <1>1, <1>4, <2>4, <2>5, <2>6, NamesNobodyLoses
<1> QED
  BY <1>1, <1>3, <1>4

LEMMA NamesReleaseInv ==
    ASSUME Naming!ConstantsOK, NamesIInv, NEW c \in Calls, NEW u \in Members, Naming!Release(c, u)
    PROVE  NamesIInv'
<1>0. redirect[u] \in Ids
  BY NamesTypeParts DEF Naming!Release, NamesIInv, NamesTables
<1> PICK n \in Ids : n = redirect[u]
  BY <1>0
<1> DEFINE q == [at |-> "invalidate", name |-> n]
<1>1. /\ n # None /\ Naming!Start(c, q) /\ redirect' = [redirect EXCEPT ![u] = None]
      /\ UNCHANGED <<login, useralias, cached_names, lingering>>
  BY DEF Naming!Release
<1>3. q \in NamesRecord /\ q.at = "invalidate" /\ q.name = n
  BY DEF NamesRecord, Naming!InvalidateCall
<1> HIDE DEF q
<1>4. call' \in [Calls -> NamesRecord] /\ call'[c] = q /\ NamesElsewhere(c) /\ ~Naming!At(c, "invalidate")
  BY <1>1, <1>3, NamesIdleIs, NamesTypeParts DEF Naming!Start, NamesIInv, NamesElsewhere, Naming!At
<1>5. Naming!TypeOK'
  BY <1>1, <1>4, NamesTypeParts DEF NamesIInv, NamesTables
<1>6. NamesInvalidating(n)' /\ \A k \in Ids : NamesInvalidating(k) => NamesInvalidating(k)'
  BY <1>3, <1>4 DEF NamesInvalidating, Naming!At, NamesElsewhere
<1>7. \A k \in Ids : k # n => Naming!Holders(k) \subseteq Naming!Holders(k)'
  BY <1>1, NamesTypeParts DEF Naming!Holders, Naming!NamesOf, NamesIInv, NamesTables, Naming!ConstantsOK
<1>8. \A d \in Calls : Naming!At(d, "fill")' => call'[d] = call[d] /\ Naming!At(d, "fill") /\ call[d].name \in Ids
  BY <1>3, <1>4, NamesKinds, NamesTypeParts DEF Naming!At, NamesElsewhere, NamesIInv
<1>9. NamesFillsFind'
  <2> SUFFICES ASSUME NEW d \in Calls, Naming!At(d, "fill")', ~call'[d].late, NEW m, call'[d].name = m
               PROVE  call'[d].user \in Naming!Holders(m)' \/ NamesInvalidating(m)'
    BY DEF NamesFillsFind, Naming!At, NamesInvalidating, Naming!Holders, Naming!NamesOf
  <2>1. call[d].user \in Naming!Holders(call[d].name) \/ NamesInvalidating(call[d].name)
    BY <1>8 DEF NamesIInv, NamesFillsFind
  <2> QED
    BY <1>6, <1>7, <1>8, <2>1
<1>10. NamesCommitsKnow'
  BY <1>1, <1>3, <1>4 DEF NamesIInv, NamesCommitsKnow, Naming!At, NamesElsewhere
<1>11. Naming!LookupsFindTheHolder'
  <2>1. \A k \in Ids \ lingering : cached_names[k] # None => cached_names[k] \in Naming!Holders(k) \/ NamesInvalidating(k)
    BY DEF NamesIInv, Naming!LookupsFindTheHolder, NamesInvalidating
  <2>2. \A k \in Ids \ lingering' : cached_names'[k] # None => cached_names'[k] \in Naming!Holders(k)' \/ NamesInvalidating(k)'
    BY <1>1, <1>6, <1>7, <2>1
  <2> QED
    BY <2>2 DEF Naming!LookupsFindTheHolder, NamesInvalidating, Naming!At, Naming!Holders, Naming!NamesOf
<1> QED
  BY <1>5, <1>9, <1>10, <1>11 DEF NamesIInv
-----------------------------------------------------------------------------
\* A name is invalidated, and its lookups are overtaken.
LEMMA NamesFillsFound ==
    ASSUME \A d \in Calls : \A m :
               Naming!At(d, "fill")' /\ ~call'[d].late /\ call'[d].name = m =>
                   call'[d].user \in Naming!Holders(m)' \/ NamesInvalidating(m)'
    PROVE  NamesFillsFind'
  BY DEF NamesFillsFind, Naming!At, NamesInvalidating, Naming!Holders, Naming!NamesOf

LEMMA NamesNameGoes ==
    ASSUME Naming!ConstantsOK, NamesIInv, NEW n, NEW c \in Calls, NEW q \in NamesRecord,
           ~Naming!At(c, "invalidate") \/ call[c].name = n,
           q.at # "fill", q.at = "commit" => q.released = n, q.at # "commit" \/ n \in Ids \cup {None},
           Naming!Invalidated(n), call' = Naming!Overtake([call EXCEPT ![c] = q], n),
           UNCHANGED <<login, useralias, redirect>>
    PROVE  NamesIInv'
<1> DEFINE calls == [call EXCEPT ![c] = q]
<1>1. calls \in [Calls -> NamesRecord] /\ calls[c] = q /\ \A d \in Calls \ {c} : calls[d] = call[d]
  BY NamesTypeParts DEF NamesIInv
<1>2. call' = Naming!Overtake(calls, n)
  OBVIOUS
<1> HIDE DEF calls
<1>3. /\ call' \in [Calls -> NamesRecord]
      /\ \A d \in Calls :
             \/ call'[d] = calls[d] /\ ~(calls[d].at = "fill" /\ calls[d].name = n)
             \/ call'[d].at = "fill" /\ call'[d].late /\ calls[d].at = "fill"
  <2> DEFINE new == Naming!Overtake(calls, n)
  <2>1. /\ new \in [Calls -> NamesRecord]
        /\ \A d \in Calls :
               \/ new[d] = calls[d] /\ ~(calls[d].at = "fill" /\ calls[d].name = n)
               \/ new[d].at = "fill" /\ new[d].late /\ calls[d].at = "fill"
    BY <1>1, NamesOvertakes
  <2> QED
    BY <1>2, <2>1
<1>4. /\ cached_names' \in [Ids -> Members \cup {None}] /\ lingering' = lingering \ {n}
      /\ \A k \in Ids : cached_names'[k] = IF k = n THEN None ELSE cached_names[k]
  BY NamesTypeParts DEF Naming!Invalidated, NamesIInv, NamesTables
<1>5. Naming!TypeOK'
  BY <1>3, <1>4, NamesTypeParts DEF NamesIInv, NamesTables
<1>6. \A k \in Ids : Naming!Holders(k)' = Naming!Holders(k)
  BY DEF Naming!Holders, Naming!NamesOf
<1>7. \A k \in Ids : k # n /\ NamesInvalidating(k) => NamesInvalidating(k)'
  <2> SUFFICES ASSUME NEW k \in Ids, k # n, NEW d \in Calls, Naming!At(d, "invalidate"), call[d].name = k
               PROVE  NamesInvalidating(k)'
    BY DEF NamesInvalidating
  <2>1. d # c /\ call'[d] = call[d]
    BY <1>1, <1>3 DEF Naming!At
  <2> QED
    BY <2>1 DEF NamesInvalidating, Naming!At
<1>8. NamesFillsFind'
  <2> SUFFICES ASSUME NEW d \in Calls, Naming!At(d, "fill")', ~call'[d].late, NEW m, call'[d].name = m
               PROVE  call'[d].user \in Naming!Holders(m)' \/ NamesInvalidating(m)'
    BY NamesFillsFound
  <2>1. d # c /\ call'[d] = call[d] /\ Naming!At(d, "fill") /\ call[d].name # n
    BY <1>1, <1>3 DEF Naming!At
  <2>2. call[d].name \in Ids
    BY <2>1, NamesKinds, NamesTypeParts DEF NamesIInv, Naming!At
  <2>3. call[d].user \in Naming!Holders(call[d].name) \/ NamesInvalidating(call[d].name)
    BY <2>1 DEF NamesIInv, NamesFillsFind
  <2> QED
    BY <1>6, <1>7, <2>1, <2>2, <2>3
<1>9. NamesCommitsKnow'
  <2> SUFFICES ASSUME NEW d \in Calls, Naming!At(d, "commit")', call'[d].released # None,
                      cached_names'[call'[d].released] # None
               PROVE  call'[d].again
    BY DEF NamesCommitsKnow, Naming!At
  <2>1. call'[d] = calls[d] /\ call'[d].released \in Ids
    BY <1>3, NamesKinds DEF Naming!At
  <2>2. call'[d].released # n
    BY <1>4, <2>1
  <2>3. d # c /\ call'[d] = call[d]
    BY <1>1, <2>1, <2>2 DEF Naming!At
  <2> QED
    BY <1>4, <2>1, <2>2, <2>3 DEF NamesIInv, NamesCommitsKnow, Naming!At
<1>10. Naming!LookupsFindTheHolder'
  <2>1. \A k \in Ids \ lingering : cached_names[k] # None => cached_names[k] \in Naming!Holders(k) \/ NamesInvalidating(k)
    BY DEF NamesIInv, Naming!LookupsFindTheHolder, NamesInvalidating
  <2>2. \A k \in Ids \ lingering' : cached_names'[k] # None => cached_names'[k] \in Naming!Holders(k)' \/ NamesInvalidating(k)'
    BY <1>4, <1>6, <1>7, <2>1
  <2> QED
    BY <2>2 DEF Naming!LookupsFindTheHolder, NamesInvalidating, Naming!At, Naming!Holders, Naming!NamesOf
<1> QED
  BY <1>5, <1>8, <1>9, <1>10 DEF NamesIInv

LEMMA NamesChangeReleaseInv ==
    ASSUME Naming!ConstantsOK, NamesIInv, NEW c \in Calls, Naming!ChangeRelease(c)
    PROVE  NamesIInv'
<1> DEFINE u == call[c].user
           goes == [at |-> "commit", user |-> u, from |-> call[c].from, to |-> call[c].to,
                    released |-> redirect[u], again |-> FALSE]
           held == Naming!Holders(call[c].to) \subseteq {u} /\ useralias[u] # call[c].to
           q == IF held /\ login[u] = call[c].from THEN goes ELSE Naming!Idle
<1>1. /\ Naming!At(c, "release") /\ Naming!Invalidated(redirect[u])
      /\ call' = Naming!Overtake([call EXCEPT ![c] = q], redirect[u])
      /\ UNCHANGED <<login, useralias, redirect>>
  BY DEF Naming!ChangeRelease
<1>2. u \in Members /\ call[c].from \in Ids /\ call[c].to \in Ids
  BY <1>1, NamesKinds, NamesTypeParts DEF NamesIInv, Naming!At
<1>3. redirect[u] \in Ids \cup {None}
  BY <1>2, NamesTypeParts DEF NamesIInv, NamesTables
<1>4. goes \in NamesRecord /\ goes.at = "commit" /\ goes.released = redirect[u]
  BY <1>2, <1>3 DEF NamesRecord, Naming!ChangeCall
<1> HIDE DEF goes, held
<1>5. q \in NamesRecord /\ q.at # "fill" /\ (q.at = "commit" => q.released = redirect[u])
  BY <1>4, NamesIdleIs
<1> HIDE DEF q
<1>6. ~Naming!At(c, "invalidate")
  BY <1>1 DEF Naming!At
<1> QED
  BY <1>1, <1>3, <1>5, <1>6, NamesNameGoes

LEMMA NamesInvalidateInv ==
    ASSUME Naming!ConstantsOK, NamesIInv, NEW c \in Calls, Naming!Invalidate(c)
    PROVE  NamesIInv'
  BY NamesIdleIs, NamesNameGoes DEF Naming!Invalidate

LEMMA NamesEvictInv ==
    ASSUME Naming!ConstantsOK, NamesIInv, NEW n \in Ids, Naming!Evict(n)
    PROVE  NamesIInv'
<1>1. /\ lingering' = lingering \ {n} /\ UNCHANGED <<login, useralias, redirect, call>>
      /\ cached_names' = [k \in Ids |-> IF k = n THEN None ELSE cached_names[k]]
  BY DEF Naming!Evict, Naming!Invalidated
<1>2. Naming!TypeOK'
  BY <1>1, NamesTypeParts DEF NamesIInv, NamesTables
<1>3. \A k \in Ids : Naming!Holders(k)' = Naming!Holders(k)
  BY <1>1 DEF Naming!Holders, Naming!NamesOf
<1>4. NamesFillsFind'
  BY <1>1 DEF NamesIInv, NamesFillsFind, Naming!At, NamesInvalidating, Naming!Holders, Naming!NamesOf
<1>5. NamesCommitsKnow'
  <2>1. \A d \in Calls : Naming!At(d, "commit") => call[d].released \in Ids \cup {None}
    BY NamesKinds, NamesTypeParts DEF NamesIInv, Naming!At
  <2> QED
    BY <1>1, <2>1 DEF NamesIInv, NamesCommitsKnow, Naming!At
<1>6. Naming!LookupsFindTheHolder'
  BY <1>1, <1>3 DEF NamesIInv, Naming!LookupsFindTheHolder, Naming!At
<1> QED
  BY <1>2, <1>4, <1>5, <1>6 DEF NamesIInv

LEMMA NamesLookupFillInv ==
    ASSUME Naming!ConstantsOK, NamesIInv, NEW c \in Calls, Naming!LookupFill(c)
    PROVE  NamesIInv'
<1> DEFINE n == call[c].name
           u == call[c].user
           calls == [call EXCEPT ![c] = Naming!Idle]
<1>1. /\ Naming!At(c, "fill") /\ cached_names' = [cached_names EXCEPT ![n] = u]
      /\ lingering' = IF call[c].late THEN lingering \cup {n} ELSE lingering \ {n}
      /\ call' = Naming!Returned(calls, n)
      /\ UNCHANGED <<login, useralias, redirect>>
  BY DEF Naming!LookupFill
<1>2. n \in Ids /\ u \in Members
  BY <1>1, NamesKinds, NamesTypeParts DEF NamesIInv, Naming!At
<1>3. call[c].late \/ u \in Naming!Holders(n) \/ NamesInvalidating(n)
  BY <1>1 DEF NamesIInv, NamesFillsFind
<1>4. calls \in [Calls -> NamesRecord] /\ calls[c].at = "idle" /\ \A d \in Calls \ {c} : calls[d] = call[d]
  BY NamesIdleIs, NamesTypeParts DEF NamesIInv
<1> HIDE DEF n, u, calls
<1>5. /\ call' \in [Calls -> NamesRecord]
      /\ \A d \in Calls :
             \/ call'[d] = calls[d] /\ ~(calls[d].at = "commit" /\ calls[d].released = n)
             \/ call'[d].at = "commit" /\ call'[d].again /\ calls[d].at = "commit"
  BY <1>1, <1>4, NamesReturns
<1>6. Naming!TypeOK'
  BY <1>1, <1>2, <1>5, NamesTypeParts DEF NamesIInv, NamesTables
<1>7. \A k \in Ids : Naming!Holders(k)' = Naming!Holders(k)
  BY <1>1 DEF Naming!Holders, Naming!NamesOf
<1>8. \A k \in Ids : NamesInvalidating(k) => NamesInvalidating(k)'
  <2> SUFFICES ASSUME NEW k \in Ids, NEW d \in Calls, Naming!At(d, "invalidate"), call[d].name = k
               PROVE  NamesInvalidating(k)'
    BY DEF NamesInvalidating
  <2>1. d # c /\ call'[d] = call[d]
    BY <1>1, <1>4, <1>5 DEF Naming!At
  <2> QED
    BY <2>1 DEF NamesInvalidating, Naming!At
<1>9. \A k \in Ids : cached_names'[k] = IF k = n THEN u ELSE cached_names[k]
  BY <1>1, NamesTypeParts DEF NamesIInv, NamesTables
<1>10. NamesFillsFind'
  <2> SUFFICES ASSUME NEW d \in Calls, Naming!At(d, "fill")', ~call'[d].late, NEW m, call'[d].name = m
               PROVE  call'[d].user \in Naming!Holders(m)' \/ NamesInvalidating(m)'
    BY DEF NamesFillsFind, Naming!At, NamesInvalidating, Naming!Holders, Naming!NamesOf
  <2>1. call'[d] = call[d] /\ Naming!At(d, "fill")
    BY <1>4, <1>5 DEF Naming!At
  <2>2. call[d].name \in Ids
    BY <2>1, NamesKinds, NamesTypeParts DEF NamesIInv, Naming!At
  <2>3. call[d].user \in Naming!Holders(call[d].name) \/ NamesInvalidating(call[d].name)
    BY <2>1 DEF NamesIInv, NamesFillsFind
  <2> QED
    BY <1>7, <1>8, <2>1, <2>2, <2>3
<1>11. NamesCommitsKnow'
  <2> SUFFICES ASSUME NEW d \in Calls, Naming!At(d, "commit")', call'[d].released # None,
                      cached_names'[call'[d].released] # None,
                      ~call'[d].again
               PROVE  FALSE
    BY DEF NamesCommitsKnow, Naming!At
  <2>1. call'[d] = calls[d] /\ calls[d].released # n
    BY <1>5 DEF Naming!At
  <2>2. call'[d] = call[d] /\ call[d].released \in Ids
    BY <1>4, <2>1, NamesKinds, NamesTypeParts DEF NamesIInv, Naming!At
  <2> QED
    BY <1>9, <2>1, <2>2 DEF NamesIInv, NamesCommitsKnow, Naming!At
<1>12. Naming!LookupsFindTheHolder'
  <2>1. \A k \in Ids \ lingering : cached_names[k] # None => cached_names[k] \in Naming!Holders(k) \/ NamesInvalidating(k)
    BY DEF NamesIInv, Naming!LookupsFindTheHolder, NamesInvalidating
  <2>2. \A k \in Ids \ lingering' : cached_names'[k] # None => cached_names'[k] \in Naming!Holders(k)' \/ NamesInvalidating(k)'
    BY <1>1, <1>2, <1>3, <1>7, <1>8, <1>9, <2>1
  <2> QED
    BY <2>2 DEF Naming!LookupsFindTheHolder, NamesInvalidating, Naming!At, Naming!Holders, Naming!NamesOf
<1> QED
  BY <1>6, <1>10, <1>11, <1>12 DEF NamesIInv
-----------------------------------------------------------------------------
LEMMA NamesStepInv ==
    ASSUME Naming!ConstantsOK, NamesIInv, Naming!Next
    PROVE  NamesIInv'
<1>1. CASE \E u \in Members, n \in Ids : Naming!Verify(u, n)
  BY <1>1, NamesVerifyInv
<1>2. CASE \E n \in Ids : Naming!Evict(n)
  BY <1>2, NamesEvictInv
<1>3. CASE \E c \in Calls : \E u \in Members, n \in Ids \cup {None} : Naming!AliasDelete(c, u, n)
  BY <1>3, NamesAliasDeleteInv
<1>4. CASE \E c \in Calls : \E u \in Members, n \in Ids : Naming!ChangeBegin(c, u, n)
  BY <1>4, NamesChangeBeginInv
<1>5. CASE \E c \in Calls : Naming!AliasInsert(c) \/ Naming!ChangeRelease(c) \/ Naming!ChangeCommit(c)
  BY <1>5, NamesAliasInsertInv, NamesChangeReleaseInv, NamesChangeCommitInv
<1>6. CASE \E c \in Calls : \E u \in Members : Naming!Release(c, u)
  BY <1>6, NamesReleaseInv
<1>7. CASE \E c \in Calls : Naming!Invalidate(c) \/ Naming!LookupFill(c)
  BY <1>7, NamesInvalidateInv, NamesLookupFillInv
<1>8. CASE \E c \in Calls : \E n \in Ids : Naming!LookupRead(c, n)
  BY <1>8, NamesLookupReadInv
<1> QED
  BY <1>1, <1>2, <1>3, <1>4, <1>5, <1>6, <1>7, <1>8 DEF Naming!Next

LEMMA NamesStillInv ==
    ASSUME NamesIInv, UNCHANGED Naming!vars
    PROVE  NamesIInv'
<1>1. UNCHANGED <<login, useralias, redirect, cached_names, lingering, call>>
  BY DEF Naming!vars
<1>2. Naming!TypeOK' /\ \A k \in Ids : Naming!Holders(k)' = Naming!Holders(k)
  BY <1>1, NamesTypeParts DEF NamesIInv, NamesTables, Naming!Holders, Naming!NamesOf
<1> QED
  BY <1>1, <1>2, NamesNobodyLoses

LEMMA NamesNextInv == Naming!ConstantsOK /\ NamesIInv /\ [Naming!Next]_Naming!vars => NamesIInv'
  BY NamesStepInv, NamesStillInv
-----------------------------------------------------------------------------
\* While the part moves it has its invariant; and so it has in every state.
NamesHold == part = "names" => NamesIInv

LEMMA NamesAreHeld == AccountsSpec => []NamesHold
<1>1. AccountsInit => NamesHold
  BY NamesInitInv, AccountsAssumption DEF AccountsInit, NamesHold
<1>2. NamesHold /\ [AccountsNext]_all_accounts_vars => NamesHold'
  <2> SUFFICES ASSUME NamesHold, [AccountsNext]_all_accounts_vars, part' = "names" PROVE NamesIInv'
    BY DEF NamesHold
  <2>1. part = "names" /\ NamesIInv
    BY PartStays DEF NamesHold
  <2>2. Naming!Next \/ UNCHANGED <<names_vars, call>>
    BY <2>1 DEF AccountsNext, all_accounts_vars
  <2>3. UNCHANGED <<names_vars, call>> => UNCHANGED Naming!vars
    BY DEF names_vars, Naming!vars
  <2> QED
    BY <2>1, <2>2, <2>3, NamesNextInv, AccountsAssumption
<1> QED
  BY <1>1, <1>2, PTL DEF AccountsSpec

\* setusermode, do_manage, edit_preferences and the cached settings, and get_ids with
\* the changes of usernames (weasyl/moderation.py, profile.py, define.py, login.py): a
\* request that begins once a ban is announced is refused, a minor has the general
\* rating and who has another asserted to be an adult, with the excuses that
\* MinorsSeeGeneral names; and a name that is looked up leads to a holder of it.
THEOREM AccountsStayKnown == AccountsSpec => []AccountsAreKnown
<1>1. ConfigHold => (part = "accounts" =>
          Accounts!BarredAreRefused /\ Accounts!MinorsSeeGeneral /\ Accounts!RatingIsAsserted)
  BY ConfigPromises DEF ConfigHold
<1>2. NamesHold => (part = "names" => Naming!LookupsFindTheHolder)
  BY DEF NamesHold, NamesIInv
<1>3. ConfigHold /\ NamesHold => AccountsAreKnown
  BY <1>1, <1>2 DEF AccountsAreKnown
<1> QED
  BY <1>3, ConfigAreHeld, NamesAreHeld, PTL
-----------------------------------------------------------------------------
LEMMA FollowTypeParts ==
    /\ Watching!TypeOK <=> FollowTables /\ call \in [Calls -> FollowRecord]
    /\ Watching!TypeOK' <=> FollowTables' /\ call' \in [Calls -> FollowRecord]
  BY DEF Watching!TypeOK, FollowTables, FollowRecord

LEMMA FollowIdleIs == Watching!Idle \in FollowRecord /\ Watching!Idle.at = "idle" /\ FollowSubjects(Watching!Idle) = {} /\ ~FollowFollows(Watching!Idle) /\ ~FollowBlocks(Watching!Idle) /\ ~FollowStreams(Watching!Idle)
  BY DEF Watching!Idle, FollowRecord, FollowSubjects, FollowFollows, FollowBlocks, FollowStreams

LEMMA FollowFollowCallsAre ==
    ASSUME NEW q \in Watching!FollowCalls
    PROVE  q \in FollowRecord /\ FollowFollows(q) /\ ~FollowBlocks(q) /\ ~FollowStreams(q) /\ q.pair \in Watching!Pairs /\ FollowSubjects(q) = {q.pair} /\ q.at # "idle"
<1>1. q = [at |-> q.at, pair |-> q.pair] /\ FollowFollows(q) /\ q.pair \in Watching!Pairs
  BY DEF Watching!FollowCalls, FollowFollows
<1>2. "pair" \in DOMAIN q
  BY <1>1
<1> QED
  BY <1>1, <1>2 DEF FollowSubjects, FollowFollows, FollowBlocks, FollowStreams, FollowRecord

LEMMA FollowBlockCallsAre ==
    ASSUME NEW q \in Watching!BlockCalls
    PROVE  /\ q \in FollowRecord /\ ~FollowFollows(q) /\ FollowBlocks(q) /\ ~FollowStreams(q) /\ FollowSubjects(q) = {} /\ q.at # "idle"
           /\ q.user \in Watchers /\ q.blocks \subseteq Watchers /\ q.deletes \subseteq Watching!Pairs
<1>1. /\ q = [at |-> q.at, user |-> q.user, blocks |-> q.blocks, deletes |-> q.deletes] /\ FollowBlocks(q)
      /\ q.user \in Watchers /\ q.blocks \subseteq Watchers /\ q.deletes \subseteq Watching!Pairs
  BY DEF Watching!BlockCalls, FollowBlocks
<1>2. DOMAIN q = {"at", "user", "blocks", "deletes"}
  BY <1>1
<1> QED
  BY <1>1, <1>2 DEF FollowSubjects, FollowFollows, FollowBlocks, FollowStreams, FollowRecord

LEMMA FollowStreamCallsAre ==
    ASSUME NEW q \in Watching!StreamCalls
    PROVE  /\ q \in FollowRecord /\ ~FollowFollows(q) /\ ~FollowBlocks(q) /\ FollowStreams(q) /\ FollowSubjects(q) = {q.user} /\ q.at # "idle"
           /\ q.user \in Watchers /\ q.set \in {"", "start", "later", "still"}
<1>1. /\ q = [at |-> q.at, user |-> q.user, set |-> q.set] /\ FollowStreams(q)
      /\ q.user \in Watchers /\ q.set \in {"", "start", "later", "still"}
  BY DEF Watching!StreamCalls, FollowStreams
<1>2. DOMAIN q = {"at", "user", "set"}
  BY <1>1
<1> QED
  BY <1>1, <1>2 DEF FollowSubjects, FollowFollows, FollowBlocks, FollowStreams, FollowRecord

LEMMA FollowKinds ==
    ASSUME NEW q \in FollowRecord
    PROVE  /\ q.at = "idle" => q = Watching!Idle
           /\ FollowFollows(q) => q \in Watching!FollowCalls
           /\ FollowBlocks(q) => q \in Watching!BlockCalls
           /\ FollowStreams(q) => q \in Watching!StreamCalls
  BY FollowIdleIs, FollowFollowCallsAre, FollowBlockCallsAre, FollowStreamCallsAre DEF FollowRecord

LEMMA FollowSubjectIs == \A c : Watching!Subject(c) = FollowSubjects(call[c])
  BY DEF Watching!Subject, FollowSubjects

LEMMA FollowBecomes ==
    ASSUME Watching!TypeOK, NEW c \in Calls, NEW q \in FollowRecord, call' = [call EXCEPT ![c] = q]
    PROVE  FollowBecame(c, q)
  BY FollowTypeParts DEF FollowBecame, FollowElsewhere

LEMMA FollowEnds == ASSUME Watching!TypeOK, NEW c \in Calls, Watching!End(c) PROVE FollowBecame(c, Watching!Idle)
  BY FollowBecomes, FollowIdleIs DEF Watching!End

LEMMA FollowInitInv == Watching!Init => FollowIInv
<1> SUFFICES ASSUME Watching!Init PROVE FollowIInv
  OBVIOUS
<1>1. \A c \in Calls : call[c] = Watching!Idle
  BY DEF Watching!Init, Watching!AllIdle
<1>2. Watching!TypeOK
  BY DEF Watching!Init, Watching!AllIdle, Watching!TypeOK
<1>3. FollowOneSubject
  BY <1>1, FollowIdleIs, FollowSubjectIs DEF FollowOneSubject
<1>4. FollowCatching /\ FollowTelling /\ FollowStaging
  BY <1>1, FollowIdleIs DEF FollowCatching, FollowCatches, FollowTelling, FollowTells, FollowStaging, FollowStage
<1>5. FollowQuiets
  BY DEF Watching!Init, FollowQuiets, FollowQuiet, FollowOf, Watching!Types
<1>6. Watching!BlockEndsFollowing /\ Watching!FollowersTold
  BY DEF Watching!Init, Watching!BlockEndsFollowing, Watching!FollowersTold
<1> QED
  BY <1>2, <1>3, <1>4, <1>5, <1>6 DEF FollowIInv
-----------------------------------------------------------------------------
\* One request moves: its subject stays, or it begins with one.
LEMMA FollowSubjectMove ==
    ASSUME FollowIInv, mixed \subseteq mixed', NEW c \in Calls, NEW q \in FollowRecord, FollowBecame(c, q), FollowSubjects(q) \subseteq FollowSubjects(call[c])
    PROVE  FollowOneSubject'
<1> SUFFICES ASSUME NEW x \in (Watching!Pairs \cup Watchers) \ mixed', NEW d \in Calls, NEW e \in Calls, x \in FollowSubjects(call'[d]), x \in FollowSubjects(call'[e])
             PROVE  d = e
  BY FollowSubjectIs DEF FollowOneSubject, Watching!Subject, FollowSubjects
<1>1. x \in FollowSubjects(call[d]) /\ x \in FollowSubjects(call[e])
  BY DEF FollowBecame, FollowElsewhere
<1> QED
  BY <1>1, FollowSubjectIs DEF FollowIInv, FollowOneSubject

LEMMA FollowSubjectBegin ==
    ASSUME FollowIInv, NEW c \in Calls, NEW q \in FollowRecord, call[c] = Watching!Idle, FollowBecame(c, q), NEW x, FollowSubjects(q) \subseteq {x}, Watching!Mixing(x) \subseteq mixed'
    PROVE  FollowOneSubject'
<1> SUFFICES ASSUME NEW y \in (Watching!Pairs \cup Watchers) \ mixed', NEW d \in Calls, NEW e \in Calls, y \in FollowSubjects(call'[d]), y \in FollowSubjects(call'[e])
             PROVE  d = e
  BY FollowSubjectIs DEF FollowOneSubject, Watching!Subject, FollowSubjects
<1>1. y \notin mixed
  BY DEF Watching!Mixing
<1>2. CASE d # c /\ e # c
  BY <1>1, <1>2, FollowSubjectIs DEF FollowIInv, FollowOneSubject, FollowBecame, FollowElsewhere
<1>3. CASE d = c \/ e = c
  <2>1. y = x
    BY <1>3 DEF FollowBecame
  <2>2. \A b \in Calls : x \notin Watching!Subject(b)
    BY <2>1 DEF Watching!Mixing
  <2>3. \A b \in Calls \ {c} : x \notin FollowSubjects(call'[b])
    BY <2>2, FollowSubjectIs DEF FollowBecame, FollowElsewhere
  <2> QED
    BY <2>1, <2>3
<1> QED
  BY <1>2, <1>3

\* A request that does not move keeps what it has, if what changes is not its own.
LEMMA FollowCatchesStays ==
    ASSUME overtaken_blocks \subseteq overtaken_blocks', NEW q \in FollowRecord, FollowCatches(q),
           \A v \in q.blocks : FollowBlocks(q) => watchuser[<<q.user, v>>] # "none" \/ watchuser'[<<q.user, v>>] = "none"
                                                  \/ <<q.user, v>> \in overtaken_blocks'
    PROVE  FollowCatches(q)'
  BY DEF FollowCatches, FollowBlocks

LEMMA FollowTellsStays ==
    ASSUME severed \subseteq severed', mixed \subseteq mixed', NEW q \in FollowRecord, FollowTells(q),
           FollowFollows(q) /\ q.pair \notin severed' \cup mixed' /\ watchuser[q.pair] # "none" => watchuser'[q.pair] # "none",
           FollowFollows(q) /\ q.pair \notin mixed' /\ follows[q.pair] = 0 => follows'[q.pair] = 0
    PROVE  FollowTells(q)'
  BY DEF FollowTells, FollowFollows

LEMMA FollowStageStays ==
    ASSUME mixed \subseteq mixed', NEW q \in FollowRecord, FollowStage(q), FollowStreams(q) /\ q.user \notin mixed' => FollowKept(q.user)
    PROVE  FollowStage(q)'
<1> SUFFICES ASSUME FollowStreams(q), q.user \notin mixed' PROVE FollowStage(q)'
  BY DEF FollowStage, FollowStreams
<1>1. FollowKept(q.user) /\ q.user \notin mixed /\ "now" \in Watching!Types /\ "later" \in Watching!Types
  BY DEF Watching!Types
<1>2. /\ q.at = "stream insert" => q.set = "start" /\ q.user \notin user_streams'
      /\ q.at # "stream insert" => (q.user \in user_streams' <=> q.set \in {"start", "still"})
      /\ q.at = "stream clear" => q.set # "still"
      /\ q.at = "stream notify" => q.set \in {"start", "later"}
  BY <1>1 DEF FollowStage, FollowKept
<1>3. ASSUME NEW p \in FollowOf(q.user)
      PROVE  /\ q.at = "stream notify" => streams'[<<p, "now">>] = 0 /\ streams'[<<p, "later">>] = 0
             /\ q.at = "stream profile" =>
                 /\ streams'[<<p, "now">>] = 0 \/ (streams'[<<p, "now">>] = 1 /\ q.set \in {"start", "still"})
                 /\ streams'[<<p, "later">>] = 0 \/ (streams'[<<p, "later">>] = 1 /\ q.set = "later")
  BY <1>1 DEF FollowStage, FollowKept
<1> QED
  BY <1>2, <1>3 DEF FollowStage, FollowOf

LEMMA FollowQuietStays ==
    ASSUME NEW u, FollowQuiet(u), FollowKept(u), u \in streaming_later => u \in streaming_later'
    PROVE  FollowQuiet(u)'
<1>1. "now" \in Watching!Types /\ "later" \in Watching!Types
  BY DEF Watching!Types
<1>2. \A p \in FollowOf(u) :
        /\ streams'[<<p, "now">>] = 0 \/ (streams'[<<p, "now">>] = 1 /\ u \in user_streams')
        /\ streams'[<<p, "later">>] = 0 \/ (streams'[<<p, "later">>] = 1 /\ u \in streaming_later' /\ u \notin user_streams')
  BY <1>1 DEF FollowQuiet, FollowKept
<1> QED
  BY <1>2 DEF FollowQuiet, FollowOf

LEMMA FollowSoleIs ==
    ASSUME FollowIInv, NEW c \in Calls, NEW x \in (Watching!Pairs \cup Watchers) \ mixed
    PROVE  x \in FollowSubjects(call[c]) => FollowSole(c, x)
  BY FollowSubjectIs DEF FollowIInv, FollowOneSubject, FollowSole

LEMMA FollowSoleBegins ==
    ASSUME NEW c \in Calls, NEW x, Watching!Mixing(x) \subseteq mixed', x \notin mixed'
    PROVE  FollowSole(c, x)
  BY FollowSubjectIs DEF Watching!Mixing, FollowSole

LEMMA FollowCatchingMove ==
    ASSUME FollowIInv, overtaken_blocks \subseteq overtaken_blocks', NEW c \in Calls, NEW q \in FollowRecord, FollowBecame(c, q), FollowCatches(q)',
           \A p \in Watching!Pairs : watchuser[p] # "none" \/ watchuser'[p] = "none" \/ p \in overtaken_blocks'
    PROVE  FollowCatching'
<1> SUFFICES ASSUME NEW d \in Calls PROVE FollowCatches(call[d])'
  BY DEF FollowCatching, FollowCatches, FollowBlocks
<1>1. CASE d = c
  BY <1>1 DEF FollowBecame, FollowCatches, FollowBlocks
<1>2. CASE d # c
  <2>1. call'[d] = call[d] /\ call[d] \in FollowRecord /\ FollowCatches(call[d])
    BY <1>2, FollowTypeParts DEF FollowIInv, FollowBecame, FollowElsewhere, FollowCatching
  <2>2. PICK r \in FollowRecord : r = call[d]
    BY <2>1
  <2>3. FollowCatches(r)'
    BY <2>1, <2>2, FollowCatchesStays DEF FollowCatches
  <2> QED
    BY <2>1, <2>2, <2>3 DEF FollowCatches, FollowBlocks
<1> QED
  BY <1>1, <1>2

LEMMA FollowTellingMove ==
    ASSUME FollowIInv, severed \subseteq severed', mixed \subseteq mixed', NEW c \in Calls, NEW q \in FollowRecord, FollowBecame(c, q), FollowTells(q)',
           \A p \in Watching!Pairs \ (severed' \cup mixed') : watchuser[p] # "none" => watchuser'[p] # "none" \/ FollowSole(c, p),
           \A p \in Watching!Pairs \ mixed' : follows[p] = 0 => follows'[p] = 0 \/ FollowSole(c, p)
    PROVE  FollowTelling'
<1> SUFFICES ASSUME NEW d \in Calls PROVE FollowTells(call[d])'
  BY DEF FollowTelling, FollowTells
<1>1. CASE d = c
  BY <1>1 DEF FollowBecame, FollowTells
<1>2. CASE d # c
  <2>1. call'[d] = call[d] /\ call[d] \in FollowRecord /\ FollowTells(call[d])
    BY <1>2, FollowTypeParts DEF FollowIInv, FollowBecame, FollowElsewhere, FollowTelling
  <2>2. PICK r \in FollowRecord : r = call[d]
    BY <2>1
  <2>3. FollowFollows(r) => r.pair \in Watching!Pairs /\ ~FollowSole(c, r.pair)
    BY <1>2, <2>2, FollowKinds, FollowFollowCallsAre DEF FollowSole
  <2>4. FollowTells(r)'
    BY <2>1, <2>2, <2>3, FollowTellsStays
  <2> QED
    BY <2>1, <2>2, <2>4 DEF FollowTells
<1> QED
  BY <1>1, <1>2

LEMMA FollowStagingMove ==
    ASSUME FollowIInv, mixed \subseteq mixed', NEW c \in Calls, NEW q \in FollowRecord, FollowBecame(c, q), FollowStage(q)',
           \A u \in Watchers \ mixed' : FollowKept(u) \/ FollowSole(c, u)
    PROVE  FollowStaging'
<1> SUFFICES ASSUME NEW d \in Calls PROVE FollowStage(call[d])'
  BY DEF FollowStaging, FollowStage, FollowStreams, FollowOf
<1>1. CASE d = c
  BY <1>1 DEF FollowBecame, FollowStage, FollowStreams, FollowOf
<1>2. CASE d # c
  <2>1. call'[d] = call[d] /\ call[d] \in FollowRecord /\ FollowStage(call[d])
    BY <1>2, FollowTypeParts DEF FollowIInv, FollowBecame, FollowElsewhere, FollowStaging
  <2>2. PICK r \in FollowRecord : r = call[d]
    BY <2>1
  <2>3. FollowStreams(r) => r.user \in Watchers /\ ~FollowSole(c, r.user)
    BY <1>2, <2>2, FollowKinds, FollowStreamCallsAre DEF FollowSole
  <2>4. FollowStage(r)'
    BY <2>1, <2>2, <2>3, FollowStageStays
  <2> QED
    BY <2>1, <2>2, <2>4 DEF FollowStage, FollowStreams, FollowOf
<1> QED
  BY <1>1, <1>2

LEMMA FollowQuietsMove ==
    ASSUME FollowIInv, mixed \subseteq mixed', NEW c \in Calls, NEW q \in FollowRecord, FollowBecame(c, q),
           \A u \in Watchers \ mixed' : FollowEdits(q, u) \/ FollowQuiet(u)' \/
               (~FollowEdits(call[c], u) /\ FollowKept(u) /\ (u \in streaming_later => u \in streaming_later'))
    PROVE  FollowQuiets'
<1> SUFFICES ASSUME NEW u \in Watchers \ mixed', \A d \in Calls : ~FollowEdits(call'[d], u), ~FollowQuiet(u)' PROVE FALSE
  BY DEF FollowQuiets, FollowQuiet, FollowEdits, FollowStreams, FollowOf
<1>1. ~FollowEdits(call[c], u) /\ FollowKept(u) /\ (u \in streaming_later => u \in streaming_later')
  BY DEF FollowBecame
<1>2. \A d \in Calls : ~FollowEdits(call[d], u)
  BY <1>1 DEF FollowBecame, FollowElsewhere
<1> QED
  BY <1>1, <1>2, FollowQuietStays DEF FollowIInv, FollowQuiets

\* A request of a follower, or a block, moves, and no stream is changed.
LEMMA FollowStreamsKeep ==
    ASSUME FollowIInv, UNCHANGED <<streams, user_streams, streaming_later>>, mixed \subseteq mixed',
           NEW c \in Calls, NEW q \in FollowRecord, FollowBecame(c, q), ~FollowStreams(q), ~FollowStreams(call[c])
    PROVE  FollowStaging' /\ FollowQuiets'
<1>1. \A u : FollowKept(u)
  BY DEF FollowKept
<1>2. FollowStage(q)'
  BY DEF FollowStage, FollowStreams
<1>3. \A u : ~FollowEdits(call[c], u)
  BY DEF FollowEdits
<1> QED
  BY <1>1, <1>2, <1>3, FollowStagingMove, FollowQuietsMove

\* An edit of the streaming settings moves, and no follower is changed.
LEMMA FollowFollowersKeep ==
    ASSUME FollowIInv, UNCHANGED <<watchuser, ignoreuser, follows, severed, overtaken_blocks>>, mixed \subseteq mixed',
           NEW c \in Calls, NEW q \in FollowRecord, FollowBecame(c, q), ~FollowFollows(q), ~FollowBlocks(q), ~FollowFollows(call[c])
    PROVE  FollowCatching' /\ FollowTelling' /\ Watching!BlockEndsFollowing' /\ Watching!FollowersTold'
<1>1. FollowCatches(q)' /\ FollowTells(q)'
  BY DEF FollowCatches, FollowBlocks, FollowTells, FollowFollows
<1>2. FollowCatching' /\ FollowTelling'
  BY <1>1, FollowCatchingMove, FollowTellingMove
<1>3. Watching!BlockEndsFollowing'
  BY DEF FollowIInv, Watching!BlockEndsFollowing
<1>4. Watching!FollowersTold'
  <2> SUFFICES ASSUME NEW p \in Watching!Pairs \ (severed \cup mixed')
               PROVE  /\ follows[p] <= 1
                      /\ follows[p] = 1 => watchuser[p] # "none" \/ \E d \in Calls : call'[d].at = "remove clear" /\ call'[d].pair = p
    BY DEF Watching!FollowersTold, Watching!At
  <2>1. \A d \in Calls : Watching!At(d, "remove clear") => call'[d] = call[d]
    BY DEF FollowBecame, FollowElsewhere, Watching!At, FollowFollows
  <2> QED
    BY <2>1 DEF FollowIInv, Watching!FollowersTold, Watching!At
<1> QED
  BY <1>2, <1>3, <1>4

LEMMA FollowZeroIs == FollowFew(0) /\ 0 # 1
  BY DEF FollowFew

LEMMA FollowToldMove ==
    ASSUME FollowIInv, severed \subseteq severed', mixed \subseteq mixed', NEW c \in Calls, NEW q \in FollowRecord, FollowBecame(c, q),
           \A p \in Watching!Pairs \ (severed' \cup mixed') :
              \/ follows'[p] = 0
              \/ FollowFew(follows'[p]) /\ watchuser'[p] # "none"
              \/ FollowFew(follows'[p]) /\ q.at = "remove clear" /\ q.pair = p
              \/ /\ follows'[p] = follows[p] /\ watchuser'[p] = watchuser[p]
                 /\ ~(call[c].at = "remove clear" /\ call[c].pair = p)
    PROVE  Watching!FollowersTold'
<1> SUFFICES ASSUME NEW p \in Watching!Pairs \ (severed' \cup mixed')
             PROVE  /\ FollowFew(follows'[p])
                    /\ follows'[p] = 1 => watchuser'[p] # "none" \/ \E d \in Calls : call'[d].at = "remove clear" /\ call'[d].pair = p
  BY DEF Watching!FollowersTold, Watching!At, FollowFew
<1>1. CASE follows'[p] = 0
  BY <1>1, FollowZeroIs, Zenon
<1>2. CASE FollowFew(follows'[p]) /\ watchuser'[p] # "none"
  BY <1>2
<1>3. CASE FollowFew(follows'[p]) /\ q.at = "remove clear" /\ q.pair = p
  BY <1>3 DEF FollowBecame
<1>4. CASE follows'[p] = follows[p] /\ watchuser'[p] = watchuser[p] /\ ~(call[c].at = "remove clear" /\ call[c].pair = p)
  <2>1. /\ FollowFew(follows[p])
        /\ follows[p] = 1 => watchuser[p] # "none" \/ \E d \in Calls : call[d].at = "remove clear" /\ call[d].pair = p
    BY DEF FollowIInv, Watching!FollowersTold, Watching!At, FollowFew
  <2>2. \A d \in Calls : call[d].at = "remove clear" /\ call[d].pair = p => call'[d].at = "remove clear" /\ call'[d].pair = p
    BY <1>4 DEF FollowBecame, FollowElsewhere
  <2> QED
    BY <1>4, <2>1, <2>2
<1> QED
  BY <1>1, <1>2, <1>3, <1>4

\* A request of a follower goes on.
LEMMA FollowFollowGoes ==
    ASSUME FollowIInv, NEW c \in Calls, FollowFollows(call[c]),
           NEW step \in {"insert watch", "insert clear", "insert notify"}, Watching!Goto(c, step)
    PROVE  \E q \in Watching!FollowCalls : q.at = step /\ q.pair = call[c].pair /\ FollowBecame(c, q)
<1> DEFINE p == [call[c] EXCEPT !.at = step]
<1>1. call[c] \in Watching!FollowCalls
  BY FollowTypeParts, FollowKinds DEF FollowIInv
<1>2. p \in Watching!FollowCalls /\ p.at = step /\ p.pair = call[c].pair
  BY <1>1 DEF Watching!FollowCalls
<1>3. call' = [call EXCEPT ![c] = p]
  BY FollowTypeParts DEF Watching!Goto, FollowIInv
<1> HIDE DEF p
<1>4. FollowBecame(c, p)
  BY <1>2, <1>3, FollowFollowCallsAre, FollowBecomes DEF FollowIInv
<1> QED
  BY <1>2, <1>4

LEMMA FollowFollowUnderway == ASSUME FollowIInv, NEW c \in Calls, FollowFollows(call[c]) PROVE call[c] \in Watching!FollowCalls
  BY FollowTypeParts, FollowKinds DEF FollowIInv

LEMMA FollowCheckIgnoredYouInv ==
    ASSUME FollowIInv, NEW c \in Calls, NEW p \in Watching!Pairs, Watching!CheckIgnoredYou(c, p)
    PROVE  FollowIInv'
<1> DEFINE r == [at |-> "check ignored", pair |-> p]
<1>1. /\ call[c] = Watching!Idle /\ call' = [call EXCEPT ![c] = r] /\ mixed' = Watching!Mixing(p)
      /\ UNCHANGED <<watchuser, ignoreuser, follows, streams, user_streams, streaming_later, severed, overtaken_blocks>>
  BY DEF Watching!CheckIgnoredYou, Watching!Start, Watching!tables
<1>2. r \in Watching!FollowCalls /\ r.at = "check ignored" /\ r.pair = p
  BY DEF Watching!FollowCalls
<1> HIDE DEF r
<1>3. PICK q \in Watching!FollowCalls : q = r /\ q.at = "check ignored" /\ q.pair = p
  BY <1>2
<1>4. q \in FollowRecord /\ FollowFollows(q) /\ ~FollowBlocks(q) /\ ~FollowStreams(q) /\ FollowSubjects(q) = {p}
  BY <1>3, FollowFollowCallsAre
<1>5. FollowBecame(c, q)
  BY <1>1, <1>3, <1>4, FollowBecomes DEF FollowIInv
<1>6. mixed \subseteq mixed' /\ mixed' \subseteq Watching!Pairs \cup Watchers
  BY <1>1, FollowTypeParts DEF FollowIInv, FollowTables, Watching!Mixing
<1>7. Watching!TypeOK'
  BY <1>1, <1>5, <1>6, FollowTypeParts DEF FollowIInv, FollowTables, FollowBecame
<1>8. FollowOneSubject'
  BY <1>1, <1>4, <1>5, FollowSubjectBegin
<1>9. FollowStaging' /\ FollowQuiets'
  BY <1>1, <1>4, <1>5, <1>6, FollowIdleIs, FollowStreamsKeep
<1>10. FollowCatches(q)' /\ FollowTells(q)'
  BY <1>3, <1>4 DEF FollowCatches, FollowBlocks, FollowTells
<1>11. FollowCatching' /\ FollowTelling'
  BY <1>1, <1>4, <1>5, <1>6, <1>10, FollowCatchingMove, FollowTellingMove
<1>12. Watching!BlockEndsFollowing'
  BY <1>1 DEF FollowIInv, Watching!BlockEndsFollowing
<1>13. Watching!FollowersTold'
  <2>1. call[c].at # "remove clear"
    BY <1>1, FollowIdleIs
  <2> QED
    BY <1>1, <1>4, <1>5, <1>6, <2>1, FollowToldMove
<1> QED
  BY <1>7, <1>8, <1>9, <1>11, <1>12, <1>13 DEF FollowIInv

LEMMA FollowCheckYouIgnoredInv ==
    ASSUME FollowIInv, NEW c \in Calls, Watching!CheckYouIgnored(c)
    PROVE  FollowIInv'
<1>1. /\ Watching!At(c, "check ignored") /\ (Watching!Goto(c, "insert watch") \/ Watching!End(c))
      /\ UNCHANGED <<watchuser, ignoreuser, follows, streams, user_streams, streaming_later, severed, overtaken_blocks, mixed>>
  BY DEF Watching!CheckYouIgnored, Watching!Check, Watching!tables, Watching!history
<1>2. FollowFollows(call[c])
  BY <1>1 DEF Watching!At, FollowFollows
<1>3. PICK q \in FollowRecord : /\ FollowBecame(c, q) /\ FollowSubjects(q) \subseteq FollowSubjects(call[c]) /\ ~FollowBlocks(q) /\ ~FollowStreams(q)
                                /\ q.at \in {"idle", "insert watch"}
  <2>1. CASE Watching!End(c)
    BY <2>1, FollowEnds, FollowIdleIs DEF FollowIInv
  <2>2. CASE Watching!Goto(c, "insert watch")
    <3>1. PICK q \in Watching!FollowCalls : q.at = "insert watch" /\ q.pair = call[c].pair /\ FollowBecame(c, q)
      BY <1>2, <2>2, FollowFollowGoes
    <3> QED
      BY <1>2, <3>1, FollowFollowUnderway, FollowFollowCallsAre
  <2> QED
    BY <1>1, <2>1, <2>2
<1>4. Watching!TypeOK'
  BY <1>1, <1>3, FollowTypeParts DEF FollowIInv, FollowTables, FollowBecame
<1>5. FollowOneSubject'
  BY <1>1, <1>3, FollowSubjectMove
<1>6. FollowStaging' /\ FollowQuiets'
  BY <1>1, <1>2, <1>3, FollowFollowUnderway, FollowFollowCallsAre, FollowStreamsKeep
<1>7. FollowCatches(q)' /\ FollowTells(q)'
  BY <1>3 DEF FollowCatches, FollowBlocks, FollowTells
<1>8. FollowCatching' /\ FollowTelling'
  BY <1>1, <1>3, <1>7, FollowCatchingMove, FollowTellingMove
<1>9. Watching!BlockEndsFollowing'
  BY <1>1 DEF FollowIInv, Watching!BlockEndsFollowing
<1>10. Watching!FollowersTold'
  BY <1>1, <1>3, FollowToldMove DEF Watching!At
<1> QED
  BY <1>4, <1>5, <1>6, <1>8, <1>9, <1>10 DEF FollowIInv

\* The row comes; a block that has read already does not find it.
LEMMA FollowInsertWatchInv ==
    ASSUME FollowIInv, NEW c \in Calls, NEW settings \in {"", "t"}, Watching!InsertWatch(c, settings)
    PROVE  FollowIInv'
<1>1. /\ Watching!At(c, "insert watch") /\ Watching!Goto(c, "insert clear")
      /\ UNCHANGED <<ignoreuser, follows, streams, user_streams, streaming_later, severed, mixed>>
      /\ watchuser' = [watchuser EXCEPT ![call[c].pair] = IF @ = "none" THEN settings ELSE @]
      /\ overtaken_blocks' = IF \/ call[c].pair \in ignoreuser
                                \/ \E b \in Calls : /\ Watching!At(b, "block commit")
                                                    /\ call[c].pair[1] = call[b].user
                                                    /\ call[c].pair[2] \in call[b].blocks
                        THEN overtaken_blocks \cup {call[c].pair} ELSE overtaken_blocks
  BY DEF Watching!InsertWatch
<1>2. FollowFollows(call[c])
  BY <1>1 DEF Watching!At, FollowFollows
<1>3. PICK q \in Watching!FollowCalls : q.at = "insert clear" /\ q.pair = call[c].pair /\ FollowBecame(c, q)
  BY <1>1, <1>2, FollowFollowGoes
<1>4. q \in FollowRecord /\ ~FollowBlocks(q) /\ ~FollowStreams(q) /\ q.pair \in Watching!Pairs /\ FollowSubjects(q) = FollowSubjects(call[c])
  BY <1>2, <1>3, FollowFollowUnderway, FollowFollowCallsAre
<1>5. /\ watchuser' \in [Watching!Pairs -> {"none", "", "t"}] /\ watchuser'[q.pair] # "none"
      /\ \A p \in Watching!Pairs \ {q.pair} : watchuser'[p] = watchuser[p]
      /\ \A p \in Watching!Pairs : watchuser[p] # "none" => watchuser'[p] # "none"
  BY <1>1, <1>3, <1>4, FollowTypeParts DEF FollowIInv, FollowTables
<1>6. overtaken_blocks \subseteq overtaken_blocks' /\ overtaken_blocks' \subseteq Watching!Pairs
  BY <1>1, <1>3, <1>4, FollowTypeParts DEF FollowIInv, FollowTables
<1>7. Watching!TypeOK'
  BY <1>1, <1>3, <1>4, <1>5, <1>6, FollowTypeParts DEF FollowIInv, FollowTables, FollowBecame
<1>8. FollowOneSubject'
  BY <1>1, <1>3, <1>4, FollowSubjectMove
<1>9. FollowStaging' /\ FollowQuiets'
  BY <1>1, <1>2, <1>3, <1>4, FollowFollowUnderway, FollowFollowCallsAre, FollowStreamsKeep
<1>10. FollowTells(q)'
  BY <1>3, <1>5 DEF FollowTells
<1>11. FollowTelling'
  BY <1>1, <1>3, <1>4, <1>5, <1>10, FollowTellingMove
<1>12. FollowCatching'
  <2> SUFFICES ASSUME NEW d \in Calls PROVE FollowCatches(call[d])'
    BY DEF FollowCatching, FollowCatches, FollowBlocks
  <2>1. CASE d = c \/ ~FollowBlocks(call[d])
    BY <1>3, <1>4, <2>1 DEF FollowBecame, FollowElsewhere, FollowCatches, FollowBlocks
  <2>2. CASE d # c /\ FollowBlocks(call[d])
    <3>1. call'[d] = call[d] /\ call[d] \in FollowRecord /\ FollowCatches(call[d])
      BY <1>3, <2>2, FollowTypeParts DEF FollowIInv, FollowBecame, FollowElsewhere, FollowCatching
    <3>2. ASSUME NEW v \in call[d].blocks
          PROVE  watchuser[<<call[d].user, v>>] # "none" \/ watchuser'[<<call[d].user, v>>] = "none"
                 \/ <<call[d].user, v>> \in overtaken_blocks'
      <4>1. <<call[d].user, v>> \in Watching!Pairs
        BY <2>2, <3>1 DEF FollowCatches
      <4>2. CASE <<call[d].user, v>> = q.pair
        <5>1. Watching!At(d, "block commit")
          BY <2>2 DEF Watching!At, FollowBlocks
        <5>2. q.pair[1] = call[d].user /\ q.pair[2] = v
          <6>1. \A x, y : <<x, y>>[1] = x /\ <<x, y>>[2] = y
            OBVIOUS
          <6>2. <<call[d].user, v>>[1] = call[d].user /\ <<call[d].user, v>>[2] = v
            BY <6>1, Zenon
          <6> QED
            BY <4>2, <6>2, Zenon
        <5>3. call[c].pair \in overtaken_blocks'
          BY <1>1, <1>3, <3>2, <5>1, <5>2
        <5> QED
          BY <1>3, <4>2, <5>3
      <4>3. CASE <<call[d].user, v>> # q.pair
        BY <1>5, <4>1, <4>3
      <4> QED
        BY <4>2, <4>3
    <3>3. PICK r \in FollowRecord : r = call[d]
      BY <3>1
    <3>4. FollowCatches(r)'
      BY <1>6, <3>1, <3>2, <3>3, FollowCatchesStays DEF FollowCatches
    <3> QED
      BY <3>1, <3>3, <3>4 DEF FollowCatches, FollowBlocks
  <2> QED
    BY <2>1, <2>2
<1>13. Watching!BlockEndsFollowing'
  <2> SUFFICES ASSUME NEW p \in ignoreuser \ overtaken_blocks' PROVE watchuser'[p] = "none"
    BY <1>1 DEF Watching!BlockEndsFollowing
  <2>1. p # q.pair
    BY <1>1, <1>3
  <2>2. p \in Watching!Pairs /\ watchuser[p] = "none"
    BY <1>6, FollowTypeParts DEF FollowIInv, FollowTables, Watching!BlockEndsFollowing
  <2> QED
    BY <1>5, <2>1, <2>2
<1>14. Watching!FollowersTold'
  <2> SUFFICES ASSUME NEW p \in Watching!Pairs \ (severed' \cup mixed')
               PROVE  \/ FollowFew(follows'[p]) /\ watchuser'[p] # "none"
                      \/ /\ follows'[p] = follows[p] /\ watchuser'[p] = watchuser[p]
                         /\ ~(call[c].at = "remove clear" /\ call[c].pair = p)
    BY <1>1, <1>3, <1>4, FollowToldMove
  <2>1. FollowFew(follows'[p]) /\ follows'[p] = follows[p]
    BY <1>1 DEF FollowIInv, Watching!FollowersTold, FollowFew
  <2>2. CASE p = q.pair
    BY <1>5, <2>1, <2>2, Zenon
  <2>3. CASE p # q.pair
    <3>1. call[c].at # "remove clear" /\ watchuser'[p] = watchuser[p]
      BY <1>1, <1>5, <2>3 DEF Watching!At
    <3> QED
      BY <2>1, <3>1
  <2> QED
    BY <2>2, <2>3
<1> QED
  BY <1>7, <1>8, <1>9, <1>11, <1>12, <1>13, <1>14 DEF FollowIInv

\* The notification goes, by the call that inserts it anew or by one that removes the row.
LEMMA FollowClearNoticeInv ==
    ASSUME FollowIInv, NEW c \in Calls, Watching!ClearNotice(c)
    PROVE  FollowIInv'
<1>1. /\ \/ Watching!At(c, "insert clear") /\ Watching!Goto(c, "insert notify")
         \/ Watching!At(c, "remove clear") /\ Watching!End(c)
      /\ follows' = [follows EXCEPT ![call[c].pair] = 0]
      /\ UNCHANGED <<watchuser, ignoreuser, streams, user_streams, streaming_later, severed, overtaken_blocks, mixed>>
  BY DEF Watching!ClearNotice, Watching!history, Watching!At
<1>2. FollowFollows(call[c])
  BY <1>1 DEF Watching!At, FollowFollows
<1>3. call[c].pair \in Watching!Pairs /\ ~FollowStreams(call[c]) /\ FollowSubjects(call[c]) = {call[c].pair}
  BY <1>2, FollowFollowUnderway, FollowFollowCallsAre
<1>4. PICK q \in FollowRecord :
          /\ FollowBecame(c, q) /\ FollowSubjects(q) \subseteq FollowSubjects(call[c]) /\ ~FollowBlocks(q) /\ ~FollowStreams(q)
          /\ q.at \in {"idle", "insert notify"}
          /\ q.at = "insert notify" => call[c].at = "insert clear" /\ q.pair = call[c].pair
  <2>1. CASE Watching!At(c, "remove clear") /\ Watching!End(c)
    BY <2>1, FollowEnds, FollowIdleIs DEF FollowIInv
  <2>2. CASE Watching!At(c, "insert clear") /\ Watching!Goto(c, "insert notify")
    <3>1. PICK q \in Watching!FollowCalls : q.at = "insert notify" /\ q.pair = call[c].pair /\ FollowBecame(c, q)
      BY <1>2, <2>2, FollowFollowGoes
    <3> QED
      BY <1>3, <2>2, <3>1, FollowFollowCallsAre DEF Watching!At
  <2> QED
    BY <1>1, <2>1, <2>2
<1>5. /\ follows' \in [Watching!Pairs -> Nat] /\ follows'[call[c].pair] = 0
      /\ \A p \in Watching!Pairs \ {call[c].pair} : follows'[p] = follows[p]
  BY <1>1, <1>3, FollowTypeParts DEF FollowIInv, FollowTables
<1>6. Watching!TypeOK'
  BY <1>1, <1>4, <1>5, FollowTypeParts DEF FollowIInv, FollowTables, FollowBecame
<1>7. FollowOneSubject'
  BY <1>1, <1>4, FollowSubjectMove
<1>8. FollowStaging' /\ FollowQuiets'
  BY <1>1, <1>3, <1>4, FollowStreamsKeep
<1>9. FollowCatches(q)'
  BY <1>4 DEF FollowCatches, FollowBlocks
<1>10. FollowTells(q)'
  <2>1. FollowTells(call[c])
    BY DEF FollowIInv, FollowTelling
  <2> QED
    BY <1>1, <1>4, <1>5, <2>1 DEF FollowTells
<1>11. FollowCatching' /\ FollowTelling'
  BY <1>1, <1>4, <1>5, <1>9, <1>10, FollowCatchingMove, FollowTellingMove
<1>12. Watching!BlockEndsFollowing'
  BY <1>1 DEF FollowIInv, Watching!BlockEndsFollowing
<1>13. Watching!FollowersTold'
  <2>1. \A p \in Watching!Pairs : follows'[p] = 0 \/ (follows'[p] = follows[p] /\ call[c].pair # p)
    BY <1>5
  <2> QED
    BY <1>1, <1>4, <2>1, FollowToldMove
<1> QED
  BY <1>6, <1>7, <1>8, <1>11, <1>12, <1>13 DEF FollowIInv

LEMMA FollowInsertNoticeInv ==
    ASSUME FollowIInv, NEW c \in Calls, Watching!InsertNotice(c)
    PROVE  FollowIInv'
<1>1. /\ Watching!At(c, "insert notify") /\ Watching!End(c)
      /\ follows' = [follows EXCEPT ![call[c].pair] = @ + 1]
      /\ UNCHANGED <<watchuser, ignoreuser, streams, user_streams, streaming_later, severed, overtaken_blocks, mixed>>
  BY DEF Watching!InsertNotice, Watching!history
<1>2. FollowFollows(call[c])
  BY <1>1 DEF Watching!At, FollowFollows
<1>3. call[c].pair \in Watching!Pairs /\ ~FollowStreams(call[c]) /\ FollowSubjects(call[c]) = {call[c].pair}
  BY <1>2, FollowFollowUnderway, FollowFollowCallsAre
<1>4. PICK q \in FollowRecord : FollowBecame(c, q) /\ q = Watching!Idle
  BY <1>1, FollowEnds, FollowIdleIs DEF FollowIInv
<1>5. /\ follows' \in [Watching!Pairs -> Nat] /\ follows[call[c].pair] \in Nat /\ follows'[call[c].pair] = follows[call[c].pair] + 1
      /\ \A p \in Watching!Pairs \ {call[c].pair} : follows'[p] = follows[p]
  <2>1. PICK r \in Watching!Pairs : r = call[c].pair
    BY <1>3
  <2>2. follows \in [Watching!Pairs -> Nat] /\ follows' = [follows EXCEPT ![r] = @ + 1]
    BY <1>1, <2>1, FollowTypeParts DEF FollowIInv, FollowTables
  <2>3. /\ follows' \in [Watching!Pairs -> Nat] /\ follows[r] \in Nat /\ follows'[r] = follows[r] + 1
        /\ \A p \in Watching!Pairs \ {r} : follows'[p] = follows[p]
    BY <2>2
  <2> QED
    BY <2>1, <2>3
<1>6. Watching!TypeOK'
  BY <1>1, <1>4, <1>5, FollowTypeParts DEF FollowIInv, FollowTables, FollowBecame
<1>7. FollowOneSubject'
  BY <1>1, <1>4, FollowIdleIs, FollowSubjectMove
<1>8. FollowStaging' /\ FollowQuiets'
  BY <1>1, <1>3, <1>4, FollowIdleIs, FollowStreamsKeep
<1>9. FollowCatches(q)' /\ FollowTells(q)'
  BY <1>4, FollowIdleIs DEF FollowCatches, FollowBlocks, FollowTells
<1>10. \A p \in Watching!Pairs \ mixed : follows[p] = 0 => follows'[p] = 0 \/ FollowSole(c, p)
  BY <1>3, <1>5, FollowSoleIs
<1>11. FollowCatching' /\ FollowTelling'
  BY <1>1, <1>4, <1>9, <1>10, FollowCatchingMove, FollowTellingMove
<1>12. Watching!BlockEndsFollowing'
  BY <1>1 DEF FollowIInv, Watching!BlockEndsFollowing
<1>13. Watching!FollowersTold'
  <2>1. call[c].pair \notin severed \cup mixed => watchuser[call[c].pair] # "none" /\ follows[call[c].pair] = 0
    BY <1>1 DEF FollowIInv, FollowTelling, FollowTells, Watching!At
  <2>2. call[c].pair \notin severed \cup mixed => watchuser[call[c].pair] # "none" /\ FollowFew(follows'[call[c].pair])
    BY <1>5, <2>1 DEF FollowFew
  <2> QED
    BY <1>1, <1>4, <1>5, <2>2, FollowToldMove
<1> QED
  BY <1>6, <1>7, <1>8, <1>11, <1>12, <1>13 DEF FollowIInv

\* No request moves: rows stay rows, and notifications only go.
LEMMA FollowCallsStay ==
    ASSUME FollowIInv, UNCHANGED <<call, user_streams, streaming_later, severed, overtaken_blocks, mixed>>, Watching!TypeOK',
           ignoreuser' \subseteq ignoreuser,
           \A p \in Watching!Pairs : watchuser'[p] = "none" <=> watchuser[p] = "none",
           \A p \in Watching!Pairs : follows'[p] <= follows[p],
           \A u : FollowKept(u)
    PROVE  FollowIInv'
<1>1. FollowOneSubject'
  BY FollowSubjectIs DEF FollowIInv, FollowOneSubject, Watching!Subject, FollowSubjects
<1>2. ASSUME NEW d \in Calls PROVE FollowCatches(call[d])' /\ FollowTells(call[d])' /\ FollowStage(call[d])'
  <2>1. PICK r \in FollowRecord : r = call[d] /\ call'[d] = r
    BY FollowTypeParts DEF FollowIInv
  <2>2. FollowCatches(r) /\ FollowTells(r) /\ FollowStage(r)
    BY <2>1 DEF FollowIInv, FollowCatching, FollowTelling, FollowStaging
  <2>3. FollowBlocks(r) => \A v \in r.blocks : <<r.user, v>> \in Watching!Pairs
    BY <2>2 DEF FollowCatches
  <2>4. FollowFollows(r) => r.pair \in Watching!Pairs
    BY <2>1, FollowKinds, FollowFollowCallsAre
  <2>5. FollowCatches(r)'
    BY <2>2, <2>3, FollowCatchesStays
  <2>6. \A p \in Watching!Pairs : follows[p] = 0 => follows'[p] = 0
    <3>1. follows \in [Watching!Pairs -> Nat] /\ follows' \in [Watching!Pairs -> Nat]
      BY FollowTypeParts DEF FollowIInv, FollowTables
    <3>2. ASSUME NEW p \in Watching!Pairs, follows[p] = 0 PROVE follows'[p] = 0
      <4>1. follows'[p] \in Nat /\ follows'[p] <= 0
        BY <3>1, <3>2
      <4> QED
        BY <4>1
    <3> QED
      BY <3>2
  <2>7. FollowTells(r)'
    BY <2>2, <2>4, <2>6, FollowTellsStays
  <2>8. FollowStage(r)'
    BY <2>2, FollowStageStays
  <2> QED
    BY <2>1, <2>5, <2>7, <2>8 DEF FollowCatches, FollowBlocks, FollowTells, FollowStage, FollowStreams, FollowOf
<1>3. FollowCatching' /\ FollowTelling' /\ FollowStaging'
  BY <1>2 DEF FollowCatching, FollowTelling, FollowStaging, FollowCatches, FollowBlocks, FollowTells, FollowStage, FollowStreams, FollowOf
<1>4. FollowQuiets'
  <2> SUFFICES ASSUME NEW u \in Watchers \ mixed', \A d \in Calls : ~FollowEdits(call'[d], u), ~FollowQuiet(u)' PROVE FALSE
    BY DEF FollowQuiets, FollowQuiet, FollowEdits, FollowStreams, FollowOf
  <2> QED
    BY FollowQuietStays DEF FollowIInv, FollowQuiets
<1>5. Watching!BlockEndsFollowing'
  BY FollowTypeParts DEF FollowIInv, Watching!BlockEndsFollowing, FollowTables
<1>6. Watching!FollowersTold'
  <2> SUFFICES ASSUME NEW p \in Watching!Pairs \ (severed \cup mixed)
               PROVE  /\ follows'[p] <= 1
                      /\ follows'[p] = 1 => watchuser'[p] # "none" \/ \E d \in Calls : call[d].at = "remove clear" /\ call[d].pair = p
    BY DEF Watching!FollowersTold, Watching!At
  <2>1. /\ follows[p] <= 1
        /\ follows[p] = 1 => watchuser[p] # "none" \/ \E d \in Calls : call[d].at = "remove clear" /\ call[d].pair = p
    BY DEF FollowIInv, Watching!FollowersTold, Watching!At
  <2>2. follows[p] \in Nat /\ follows'[p] \in Nat
    BY FollowTypeParts DEF FollowIInv, FollowTables
  <2>3. follows'[p] <= 1 /\ (follows'[p] = 1 => follows[p] = 1)
    <3>1. follows'[p] <= follows[p] /\ follows[p] <= 1
      BY <2>1
    <3> QED
      BY <2>2, <3>1
  <2> QED
    BY <2>1, <2>3
<1> QED
  BY <1>1, <1>3, <1>4, <1>5, <1>6 DEF FollowIInv

LEMMA FollowNumbersStay == FollowIInv /\ UNCHANGED follows => \A o \in Watching!Pairs : follows'[o] <= follows[o]
<1>1. follows \in [Watching!Pairs -> Nat] => \A o \in Watching!Pairs : follows[o] <= follows[o]
  OBVIOUS
<1> QED
  BY <1>1, FollowTypeParts DEF FollowIInv, FollowTables

LEMMA FollowUpdateInv ==
    ASSUME FollowIInv, NEW p \in Watching!Pairs, NEW settings \in {"", "t"}, Watching!Update(p, settings)
    PROVE  FollowIInv'
<1>1. /\ watchuser[p] # "none" /\ watchuser' = [watchuser EXCEPT ![p] = settings]
      /\ UNCHANGED <<ignoreuser, follows, streams, user_streams, streaming_later, call, severed, overtaken_blocks, mixed>>
  BY DEF Watching!Update, Watching!history
<1>2. Watching!TypeOK'
  BY <1>1, FollowTypeParts DEF FollowIInv, FollowTables
<1>3. \A u : FollowKept(u)
  BY <1>1 DEF FollowKept
<1>4. \A o \in Watching!Pairs : watchuser'[o] = "none" <=> watchuser[o] = "none"
  BY <1>1, FollowTypeParts DEF FollowIInv, FollowTables
<1>5. \A o \in Watching!Pairs : follows'[o] <= follows[o]
  BY <1>1, FollowNumbersStay
<1> QED
  BY <1>1, <1>2, <1>3, <1>4, <1>5, FollowCallsStay

LEMMA FollowUnignoreInv ==
    ASSUME FollowIInv, NEW p \in Watching!Pairs, Watching!Unignore(p)
    PROVE  FollowIInv'
<1>1. /\ ignoreuser' \subseteq ignoreuser
      /\ UNCHANGED <<watchuser, follows, streams, user_streams, streaming_later, call, severed, overtaken_blocks, mixed>>
  BY DEF Watching!Unignore, Watching!history
<1>2. Watching!TypeOK'
  BY <1>1, FollowTypeParts DEF FollowIInv, FollowTables
<1>3. \A u : FollowKept(u)
  BY <1>1 DEF FollowKept
<1>4. \A o \in Watching!Pairs : follows'[o] <= follows[o]
  BY <1>1, FollowNumbersStay
<1> QED
  BY <1>1, <1>2, <1>3, <1>4, FollowCallsStay

LEMMA FollowRemoveNoticeInv ==
    ASSUME FollowIInv, NEW p \in Watching!Pairs, Watching!RemoveNotice(p)
    PROVE  FollowIInv'
<1>1. UNCHANGED <<watchuser, ignoreuser, user_streams, streaming_later, call, severed, overtaken_blocks, mixed>>
  BY DEF Watching!RemoveNotice, Watching!history
<1>2. follows \in [Watching!Pairs -> Nat] /\ streams \in [Watching!Pairs \X Watching!Types -> Nat]
  BY FollowTypeParts DEF FollowIInv, FollowTables
<1>3. CASE follows[p] > 0 /\ follows' = [follows EXCEPT ![p] = @ - 1] /\ UNCHANGED streams
  <2>1. follows' \in [Watching!Pairs -> Nat] /\ \A o \in Watching!Pairs : follows'[o] <= follows[o]
    BY <1>2, <1>3
  <2>2. Watching!TypeOK'
    BY <1>1, <1>3, <2>1, FollowTypeParts DEF FollowIInv, FollowTables
  <2>3. \A u : FollowKept(u)
    BY <1>1, <1>3 DEF FollowKept
  <2> QED
    BY <1>1, <2>1, <2>2, <2>3, FollowCallsStay
<1>4. ASSUME NEW type \in Watching!Types, streams[<<p, type>>] > 0, streams' = [streams EXCEPT ![<<p, type>>] = @ - 1], UNCHANGED follows
      PROVE  FollowIInv'
  <2>1. PICK m \in Watching!Pairs \X Watching!Types : m = <<p, type>>
    OBVIOUS
  <2>2. streams[m] > 0 /\ streams' = [streams EXCEPT ![m] = @ - 1]
    BY <1>4, <2>1
  <2>3. /\ streams' \in [Watching!Pairs \X Watching!Types -> Nat]
        /\ \A n \in Watching!Pairs \X Watching!Types : /\ streams[n] = 0 => streams'[n] = 0
                                                       /\ streams[n] = 1 => streams'[n] \in {0, 1}
    BY <1>2, <2>2
  <2>4. Watching!TypeOK'
    BY <1>1, <1>4, <2>3, FollowTypeParts DEF FollowIInv, FollowTables
  <2>5. \A u : FollowKept(u)
    BY <1>1, <2>3 DEF FollowKept, FollowOf
  <2>6. \A o \in Watching!Pairs : follows'[o] <= follows[o]
    BY <1>2, <1>4
  <2> QED
    BY <1>1, <2>4, <2>5, <2>6, FollowCallsStay
<1> QED
  BY <1>3, <1>4 DEF Watching!RemoveNotice

\* The row goes, and the call that removes it will clear the notification away.
LEMMA FollowRemoveInv ==
    ASSUME FollowIInv, NEW c \in Calls, NEW p \in Watching!Pairs, Watching!Remove(c, p)
    PROVE  FollowIInv'
<1> DEFINE r == [at |-> "remove clear", pair |-> p]
<1>1. /\ call[c] = Watching!Idle /\ call' = [call EXCEPT ![c] = r] /\ mixed' = Watching!Mixing(p)
      /\ watchuser' = [watchuser EXCEPT ![p] = "none"]
      /\ UNCHANGED <<ignoreuser, follows, streams, user_streams, streaming_later, severed, overtaken_blocks>>
  BY DEF Watching!Remove, Watching!Start
<1>2. r \in Watching!FollowCalls /\ r.at = "remove clear" /\ r.pair = p
  BY DEF Watching!FollowCalls
<1> HIDE DEF r
<1>3. PICK q \in Watching!FollowCalls : q = r /\ q.at = "remove clear" /\ q.pair = p
  BY <1>2
<1>4. q \in FollowRecord /\ FollowFollows(q) /\ ~FollowBlocks(q) /\ ~FollowStreams(q) /\ FollowSubjects(q) = {p}
  BY <1>3, FollowFollowCallsAre
<1>5. FollowBecame(c, q)
  BY <1>1, <1>3, <1>4, FollowBecomes DEF FollowIInv
<1>6. mixed \subseteq mixed' /\ mixed' \subseteq Watching!Pairs \cup Watchers
  BY <1>1, FollowTypeParts DEF FollowIInv, FollowTables, Watching!Mixing
<1>7. /\ watchuser' \in [Watching!Pairs -> {"none", "", "t"}] /\ watchuser'[p] = "none"
      /\ \A o \in Watching!Pairs \ {p} : watchuser'[o] = watchuser[o]
  BY <1>1, FollowTypeParts DEF FollowIInv, FollowTables
<1>8. Watching!TypeOK'
  BY <1>1, <1>5, <1>6, <1>7, FollowTypeParts DEF FollowIInv, FollowTables, FollowBecame
<1>9. FollowOneSubject'
  BY <1>1, <1>4, <1>5, FollowSubjectBegin
<1>10. FollowStaging' /\ FollowQuiets'
  BY <1>1, <1>4, <1>5, <1>6, FollowIdleIs, FollowStreamsKeep
<1>11. FollowCatches(q)' /\ FollowTells(q)'
  BY <1>3, <1>4 DEF FollowCatches, FollowBlocks, FollowTells
<1>12. \A o \in Watching!Pairs : watchuser[o] # "none" \/ watchuser'[o] = "none"
  BY <1>7
<1>13. \A o \in Watching!Pairs \ mixed' : watchuser[o] # "none" => watchuser'[o] # "none" \/ FollowSole(c, o)
  BY <1>1, <1>7, FollowSoleBegins
<1>14. FollowCatching' /\ FollowTelling'
  BY <1>1, <1>4, <1>5, <1>6, <1>11, <1>12, <1>13, FollowCatchingMove, FollowTellingMove
<1>15. Watching!BlockEndsFollowing'
  BY <1>1, <1>7, FollowTypeParts DEF FollowIInv, Watching!BlockEndsFollowing, FollowTables
<1>16. Watching!FollowersTold'
  <2>1. \A o \in Watching!Pairs \ (severed' \cup mixed') : FollowFew(follows'[o])
    BY <1>1, <1>6 DEF FollowIInv, Watching!FollowersTold, FollowFew
  <2>2. call[c].at # "remove clear"
    BY <1>1, FollowIdleIs
  <2>3. \A o \in Watching!Pairs \ (severed' \cup mixed') :
            \/ FollowFew(follows'[o]) /\ q.at = "remove clear" /\ q.pair = o
            \/ /\ follows'[o] = follows[o] /\ watchuser'[o] = watchuser[o]
               /\ ~(call[c].at = "remove clear" /\ call[c].pair = o)
    BY <1>1, <1>3, <1>7, <2>1, <2>2
  <2> QED
    BY <1>1, <1>4, <1>5, <1>6, <2>3, FollowToldMove
<1> QED
  BY <1>8, <1>9, <1>10, <1>14, <1>15, <1>16 DEF FollowIInv
-----------------------------------------------------------------------------
LEMMA FollowPairIs == \A x, y : <<x, y>>[1] = x /\ <<x, y>>[2] = y
  OBVIOUS

\* A block reads every watch that its user has of those blocked.
LEMMA FollowIgnoreInv ==
    ASSUME FollowIInv, NEW c \in Calls, NEW u \in Watchers, NEW others \in SUBSET Watchers, Watching!Ignore(c, u, others)
    PROVE  FollowIInv'
<1> DEFINE r == [at |-> "block commit", user |-> u, blocks |-> others, deletes |-> Watching!WatchRows(u, others)]
<1>1. /\ call[c] = Watching!Idle /\ call' = [call EXCEPT ![c] = r] /\ u \notin others
      /\ UNCHANGED <<watchuser, ignoreuser, follows, streams, user_streams, streaming_later, severed, overtaken_blocks, mixed>>
  BY DEF Watching!Ignore, Watching!Start, Watching!tables, Watching!history
<1>2. Watching!WatchRows(u, others) \subseteq Watching!Pairs
  BY DEF Watching!WatchRows
<1>3. r \in Watching!BlockCalls /\ r.user = u /\ r.blocks = others /\ r.deletes = Watching!WatchRows(u, others)
  BY <1>2 DEF Watching!BlockCalls
<1> HIDE DEF r
<1>4. PICK q \in Watching!BlockCalls : q = r /\ q.user = u /\ q.blocks = others /\ q.deletes = Watching!WatchRows(u, others)
  BY <1>3
<1>5. q \in FollowRecord /\ ~FollowFollows(q) /\ FollowBlocks(q) /\ ~FollowStreams(q) /\ FollowSubjects(q) = {}
  BY <1>4, FollowBlockCallsAre
<1>6. FollowBecame(c, q)
  BY <1>1, <1>4, <1>5, FollowBecomes DEF FollowIInv
<1>7. Watching!TypeOK'
  BY <1>1, <1>6, FollowTypeParts DEF FollowIInv, FollowTables, FollowBecame
<1>8. FollowOneSubject'
  BY <1>1, <1>5, <1>6, FollowSubjectMove
<1>9. FollowStaging' /\ FollowQuiets'
  BY <1>1, <1>5, <1>6, FollowIdleIs, FollowStreamsKeep
<1>10. FollowCatches(q)'
  <2> SUFFICES ASSUME NEW v \in others
               PROVE  <<u, v>> \in Watching!Pairs /\ (watchuser[<<u, v>>] = "none" \/ <<u, v>> \in Watching!WatchRows(u, others))
    BY <1>1, <1>4 DEF FollowCatches
  <2>1. u # v /\ v \in Watchers
    BY <1>1
  <2>2. <<u, v>> \in Watchers \X Watchers
    BY <2>1
  <2>3. <<u, v>>[1] = u /\ <<u, v>>[2] = v
    BY FollowPairIs, Zenon
  <2>4. <<u, v>> \in Watching!Pairs
    BY <2>1, <2>2, <2>3, Zenon DEF Watching!Pairs
  <2> QED
    BY <2>3, <2>4, Zenon DEF Watching!WatchRows
<1>11. FollowTells(q)'
  BY <1>5 DEF FollowTells, FollowFollows
<1>12. FollowCatching' /\ FollowTelling'
  BY <1>1, <1>5, <1>6, <1>10, <1>11, FollowCatchingMove, FollowTellingMove
<1>13. Watching!BlockEndsFollowing'
  BY <1>1 DEF FollowIInv, Watching!BlockEndsFollowing
<1>14. Watching!FollowersTold'
  <2>1. call[c].at # "remove clear"
    BY <1>1, FollowIdleIs
  <2> QED
    BY <1>1, <1>5, <1>6, <2>1, FollowToldMove
<1> QED
  BY <1>7, <1>8, <1>9, <1>12, <1>13, <1>14 DEF FollowIInv

LEMMA FollowIgnoreCommitInv ==
    ASSUME FollowIInv, NEW c \in Calls, Watching!IgnoreCommit(c)
    PROVE  FollowIInv'
<1>1. /\ Watching!At(c, "block commit") /\ Watching!End(c)
      /\ ignoreuser' = ignoreuser \cup {<<call[c].user, v>> : v \in call[c].blocks}
      /\ watchuser' = [p \in Watching!Pairs |-> IF p \in call[c].deletes THEN "none" ELSE watchuser[p]]
      /\ severed' = severed \cup call[c].deletes
      /\ UNCHANGED <<follows, streams, user_streams, streaming_later, overtaken_blocks, mixed>>
  BY DEF Watching!IgnoreCommit
<1>2. FollowBlocks(call[c]) /\ call[c] \in FollowRecord
  BY <1>1, FollowTypeParts DEF Watching!At, FollowBlocks, FollowIInv
<1>3. call[c].deletes \subseteq Watching!Pairs /\ ~FollowStreams(call[c]) /\ FollowSubjects(call[c]) = {}
  BY <1>2, FollowKinds, FollowBlockCallsAre
<1>4. PICK q \in FollowRecord : FollowBecame(c, q) /\ q = Watching!Idle
  BY <1>1, FollowEnds, FollowIdleIs DEF FollowIInv
<1>5. \A v \in call[c].blocks :
          /\ <<call[c].user, v>> \in Watching!Pairs
          /\ watchuser[<<call[c].user, v>>] = "none" \/ <<call[c].user, v>> \in call[c].deletes \cup overtaken_blocks
  BY <1>2 DEF FollowIInv, FollowCatching, FollowCatches
<1>6. /\ watchuser' \in [Watching!Pairs -> {"none", "", "t"}]
      /\ \A p \in Watching!Pairs : IF p \in call[c].deletes THEN watchuser'[p] = "none" ELSE watchuser'[p] = watchuser[p]
  BY <1>1, FollowTypeParts DEF FollowIInv, FollowTables
<1>7. ignoreuser' \subseteq Watching!Pairs /\ severed' \subseteq Watching!Pairs /\ severed \subseteq severed'
  BY <1>1, <1>3, <1>5, FollowTypeParts DEF FollowIInv, FollowTables
<1>8. Watching!TypeOK'
  BY <1>1, <1>4, <1>6, <1>7, FollowTypeParts DEF FollowIInv, FollowTables, FollowBecame
<1>9. FollowOneSubject'
  BY <1>1, <1>4, FollowIdleIs, FollowSubjectMove
<1>10. FollowStaging' /\ FollowQuiets'
  BY <1>1, <1>3, <1>4, FollowIdleIs, FollowStreamsKeep
<1>11. FollowCatches(q)' /\ FollowTells(q)'
  BY <1>4, FollowIdleIs DEF FollowCatches, FollowBlocks, FollowTells
<1>12. \A p \in Watching!Pairs : watchuser[p] # "none" \/ watchuser'[p] = "none" \/ p \in overtaken_blocks'
  BY <1>6
<1>13. \A p \in Watching!Pairs \ (severed' \cup mixed') : watchuser'[p] = watchuser[p]
  BY <1>1, <1>6
<1>14. FollowCatching' /\ FollowTelling'
  BY <1>1, <1>4, <1>7, <1>11, <1>12, <1>13, FollowCatchingMove, FollowTellingMove
<1>15. Watching!BlockEndsFollowing'
  <2> SUFFICES ASSUME NEW p \in ignoreuser' \ overtaken_blocks PROVE watchuser'[p] = "none"
    BY <1>1 DEF Watching!BlockEndsFollowing
  <2>1. CASE p \in ignoreuser
    BY <1>6, <1>7, <2>1 DEF FollowIInv, Watching!BlockEndsFollowing
  <2>2. CASE p \notin ignoreuser
    <3>1. PICK v \in call[c].blocks : p = <<call[c].user, v>>
      BY <1>1, <2>2
    <3>2. watchuser[p] = "none" \/ p \in call[c].deletes
      BY <1>5, <3>1
    <3> QED
      BY <1>6, <1>7, <3>2
  <2> QED
    BY <2>1, <2>2
<1>16. Watching!FollowersTold'
  <2>1. call[c].at # "remove clear"
    BY <1>1 DEF Watching!At
  <2> QED
    BY <1>1, <1>4, <1>7, <1>13, <2>1, FollowToldMove
<1> QED
  BY <1>8, <1>9, <1>10, <1>14, <1>15, <1>16 DEF FollowIInv
-----------------------------------------------------------------------------
\* A request of a streamer goes on.
LEMMA FollowStreamGoes ==
    ASSUME FollowIInv, NEW c \in Calls, FollowStreams(call[c]),
           NEW step \in {"stream clear", "stream notify", "stream profile"}, Watching!Goto(c, step)
    PROVE  \E q \in Watching!StreamCalls : q.at = step /\ q.user = call[c].user /\ q.set = call[c].set /\ FollowBecame(c, q)
<1> DEFINE p == [call[c] EXCEPT !.at = step]
<1>1. call[c] \in Watching!StreamCalls
  BY FollowTypeParts, FollowKinds DEF FollowIInv
<1>2. p \in Watching!StreamCalls /\ p.at = step /\ p.user = call[c].user /\ p.set = call[c].set
  BY <1>1 DEF Watching!StreamCalls
<1>3. call' = [call EXCEPT ![c] = p]
  BY FollowTypeParts DEF Watching!Goto, FollowIInv
<1> HIDE DEF p
<1>4. FollowBecame(c, p)
  BY <1>2, <1>3, FollowStreamCallsAre, FollowBecomes DEF FollowIInv
<1> QED
  BY <1>2, <1>4

LEMMA FollowStreamUnderway ==
    ASSUME FollowIInv, NEW c \in Calls, FollowStreams(call[c])
    PROVE  /\ call[c] \in Watching!StreamCalls /\ call[c].user \in Watchers /\ call[c].set \in {"", "start", "later", "still"}
           /\ ~FollowFollows(call[c]) /\ FollowSubjects(call[c]) = {call[c].user} /\ FollowStage(call[c])
           /\ \A u : FollowEdits(call[c], u) => u = call[c].user
<1>1. call[c] \in Watching!StreamCalls
  BY FollowTypeParts, FollowKinds DEF FollowIInv
<1> QED
  BY <1>1, FollowStreamCallsAre DEF FollowIInv, FollowStaging, FollowEdits

LEMMA FollowEditStreamingInv ==
    ASSUME FollowIInv, NEW c \in Calls, NEW u \in Watchers, NEW set \in {"", "start", "later", "still"}, Watching!EditStreaming(c, u, set)
    PROVE  FollowIInv'
<1> DEFINE r == [at |-> FollowEditStep(set), user |-> u, set |-> set]
<1>1. /\ call[c] = Watching!Idle /\ call' = [call EXCEPT ![c] = r]
      /\ user_streams' = IF set = "still" THEN user_streams ELSE user_streams \ {u}
      /\ mixed' = Watching!Mixing(u) \cup IF set = "still" /\ u \notin user_streams THEN {u} ELSE {}
      /\ UNCHANGED <<watchuser, ignoreuser, follows, streams, streaming_later, severed, overtaken_blocks>>
  BY DEF Watching!EditStreaming, Watching!Start, FollowEditStep
<1>2. r \in Watching!StreamCalls /\ r.at = FollowEditStep(set) /\ r.user = u /\ r.set = set
  BY DEF Watching!StreamCalls, FollowEditStep
<1> HIDE DEF r
<1>3. PICK q \in Watching!StreamCalls : q = r /\ q.at = FollowEditStep(set) /\ q.user = u /\ q.set = set
  BY <1>2
<1>4. q \in FollowRecord /\ ~FollowFollows(q) /\ ~FollowBlocks(q) /\ FollowStreams(q) /\ FollowSubjects(q) = {u} /\ FollowEdits(q, u)
  BY <1>3, FollowStreamCallsAre DEF FollowEdits
<1>5. FollowBecame(c, q)
  BY <1>1, <1>3, <1>4, FollowBecomes DEF FollowIInv
<1>6. mixed \subseteq mixed' /\ Watching!Mixing(u) \subseteq mixed' /\ mixed' \subseteq Watching!Pairs \cup Watchers /\ user_streams' \subseteq Watchers
  BY <1>1, FollowTypeParts DEF FollowIInv, FollowTables, Watching!Mixing
<1>7. Watching!TypeOK'
  BY <1>1, <1>5, <1>6, FollowTypeParts DEF FollowIInv, FollowTables, FollowBecame
<1>8. FollowOneSubject'
  BY <1>1, <1>4, <1>5, <1>6, FollowSubjectBegin
<1>9. \A v : v # u => FollowKept(v)
  BY <1>1 DEF FollowKept
<1>10. u \notin mixed' => FollowSole(c, u) /\ FollowQuiet(u) /\ (set = "still" => u \in user_streams)
  <2> SUFFICES ASSUME u \notin mixed' PROVE FollowSole(c, u) /\ FollowQuiet(u) /\ (set = "still" => u \in user_streams)
    OBVIOUS
  <2>1. FollowSole(c, u)
    BY <1>6, FollowSoleBegins
  <2>2. \A d \in Calls : ~FollowEdits(call[d], u)
    <3> SUFFICES ASSUME NEW d \in Calls, FollowEdits(call[d], u) PROVE FALSE
      OBVIOUS
    <3>1. FollowStreams(call[d]) /\ u \in FollowSubjects(call[d])
      BY FollowStreamUnderway DEF FollowEdits
    <3>2. d # c
      BY <1>1, <3>1, FollowIdleIs
    <3> QED
      BY <2>1, <3>1, <3>2 DEF FollowSole
  <2>3. FollowQuiet(u)
    BY <1>6, <2>2 DEF FollowIInv, FollowQuiets
  <2> QED
    BY <1>1, <2>1, <2>3
<1>11. FollowStage(q)'
  <2> SUFFICES ASSUME u \notin mixed' PROVE FollowStage(q)'
    BY <1>3 DEF FollowStage
  <2>1. FollowQuiet(u) /\ (set = "still" => u \in user_streams)
    BY <1>10
  <2>2. CASE set = "start"
    <3>1. q.at = "stream insert" /\ u \notin user_streams'
      BY <1>1, <1>3, <2>2 DEF FollowEditStep
    <3> QED
      BY <1>3, <2>2, <3>1 DEF FollowStage
  <2>3. CASE set = "still"
    <3>1. q.at = "stream profile" /\ u \in user_streams /\ u \in user_streams'
      BY <1>1, <1>3, <2>1, <2>3 DEF FollowEditStep
    <3>2. \A p \in FollowOf(u) : /\ streams'[<<p, "now">>] = 0 \/ streams'[<<p, "now">>] = 1
                                 /\ streams'[<<p, "later">>] = 0
      BY <1>1, <2>1, <3>1 DEF FollowQuiet
    <3> QED
      BY <1>3, <2>3, <3>1, <3>2 DEF FollowStage, FollowOf
  <2>4. CASE set \in {"", "later"}
    <3>1. q.at = "stream clear" /\ u \notin user_streams'
      BY <1>1, <1>3, <2>4 DEF FollowEditStep
    <3> QED
      BY <1>3, <2>4, <3>1 DEF FollowStage
  <2> QED
    BY <2>2, <2>3, <2>4
<1>12. FollowStaging'
  BY <1>4, <1>5, <1>6, <1>9, <1>10, <1>11, FollowStagingMove
<1>13. FollowQuiets'
  <2>1. ~FollowStreams(call[c])
    BY <1>1, FollowIdleIs
  <2>2. \A v : ~FollowEdits(call[c], v)
    BY <2>1 DEF FollowEdits
  <2> QED
    BY <1>1, <1>4, <1>5, <1>6, <1>9, <2>2, FollowQuietsMove
<1>14. FollowCatching' /\ FollowTelling' /\ Watching!BlockEndsFollowing' /\ Watching!FollowersTold'
  BY <1>1, <1>4, <1>5, <1>6, FollowIdleIs, FollowFollowersKeep
<1> QED
  BY <1>7, <1>8, <1>12, <1>13, <1>14 DEF FollowIInv

\* What a step of an edit has to show: of the streamer's rows, and of what it goes on with.
LEMMA FollowStreamStep ==
    ASSUME FollowIInv, UNCHANGED <<watchuser, ignoreuser, follows, severed, overtaken_blocks, mixed>>, FollowTables',
           NEW c \in Calls, FollowStreams(call[c]), NEW w, w = call[c].user,
           NEW q \in FollowRecord, FollowBecame(c, q), q.at # "idle" => FollowStreams(q) /\ q.user = call[c].user,
           q.at = "idle" => q = Watching!Idle,
           \A v : v # call[c].user => FollowKept(v) /\ (v \in streaming_later => v \in streaming_later'),
           w \notin mixed => FollowStage(q)' /\ (q = Watching!Idle => FollowQuiet(w)')
    PROVE  FollowIInv'
<1>1. /\ call[c].user \in Watchers /\ ~FollowFollows(call[c]) /\ FollowSubjects(call[c]) = {call[c].user}
      /\ \A u : FollowEdits(call[c], u) => u = call[c].user
  BY FollowStreamUnderway
<1>2. ~FollowFollows(q) /\ ~FollowBlocks(q) /\ FollowSubjects(q) \subseteq FollowSubjects(call[c]) /\ (q # Watching!Idle => FollowEdits(q, call[c].user))
  <2>1. CASE q.at = "idle"
    BY <2>1, FollowIdleIs
  <2>2. CASE q.at # "idle"
    BY <1>1, <2>2, FollowKinds, FollowStreamCallsAre, FollowIdleIs DEF FollowEdits
  <2> QED
    BY <2>1, <2>2
<1>3. Watching!TypeOK'
  BY FollowTypeParts DEF FollowBecame
<1>4. FollowOneSubject'
  BY <1>2, FollowSubjectMove
<1>5. FollowStage(q)'
  <2>1. CASE q = Watching!Idle
    BY <2>1, FollowIdleIs DEF FollowStage, FollowStreams
  <2>2. CASE q # Watching!Idle
    BY <1>2, <2>2 DEF FollowStage, FollowEdits
  <2> QED
    BY <2>1, <2>2
<1>6. \A u \in Watchers \ mixed' : FollowKept(u) \/ FollowSole(c, u)
  BY <1>1, FollowSoleIs
<1>7. FollowStaging'
  BY <1>5, <1>6, FollowStagingMove
<1>8. \A u \in Watchers \ mixed' : FollowEdits(q, u) \/ FollowQuiet(u)' \/
               (~FollowEdits(call[c], u) /\ FollowKept(u) /\ (u \in streaming_later => u \in streaming_later'))
  <2> SUFFICES ASSUME NEW u \in Watchers \ mixed'
               PROVE  FollowEdits(q, u) \/ FollowQuiet(u)' \/
                        (~FollowEdits(call[c], u) /\ FollowKept(u) /\ (u \in streaming_later => u \in streaming_later'))
    BY DEF FollowQuiet, FollowOf
  <2>1. CASE u # call[c].user
    BY <1>1, <2>1
  <2>2. CASE u = call[c].user /\ q # Watching!Idle
    BY <1>2, <2>2
  <2>3. CASE u = call[c].user /\ q = Watching!Idle
    <3>1. FollowQuiet(w)' /\ u = w
      BY <2>3
    <3> QED
      BY <3>1 DEF FollowQuiet, FollowOf
  <2> QED
    BY <2>1, <2>2, <2>3
<1>9. FollowQuiets'
  BY <1>8, FollowQuietsMove
<1>10. FollowCatching' /\ FollowTelling' /\ Watching!BlockEndsFollowing' /\ Watching!FollowersTold'
  BY <1>1, <1>2, FollowFollowersKeep
<1> QED
  BY <1>3, <1>4, <1>7, <1>9, <1>10 DEF FollowIInv

LEMMA FollowStreamInsertInv ==
    ASSUME FollowIInv, NEW c \in Calls, Watching!StreamInsert(c)
    PROVE  FollowIInv'
<1>1. /\ Watching!At(c, "stream insert") /\ user_streams' = user_streams \cup {call[c].user}
      /\ IF call[c].user \in user_streams THEN Watching!End(c) ELSE Watching!Goto(c, "stream clear")
      /\ UNCHANGED <<watchuser, ignoreuser, follows, streams, streaming_later, severed, overtaken_blocks, mixed>>
  BY DEF Watching!StreamInsert, Watching!history
<1>2. FollowStreams(call[c])
  BY <1>1 DEF Watching!At, FollowStreams
<1>3. PICK w \in Watchers : w = call[c].user
  BY <1>2, FollowStreamUnderway
<1>4. FollowTables'
  BY <1>1, <1>3, FollowTypeParts DEF FollowIInv, FollowTables
<1>5. \A v : v # call[c].user => FollowKept(v) /\ (v \in streaming_later => v \in streaming_later')
  BY <1>1 DEF FollowKept
<1>6. w \notin mixed => w \notin user_streams /\ call[c].set = "start"
  BY <1>1, <1>2, <1>3, FollowStreamUnderway DEF FollowStage, Watching!At
<1>7. CASE w \in user_streams
  <2>1. PICK q \in FollowRecord : FollowBecame(c, q) /\ q = Watching!Idle
    BY <1>1, <1>3, <1>7, FollowEnds, FollowIdleIs DEF FollowIInv
  <2> QED
    BY <1>1, <1>2, <1>3, <1>4, <1>5, <1>6, <1>7, <2>1, FollowIdleIs, FollowStreamStep
<1>8. CASE w \notin user_streams
  <2>1. PICK q \in Watching!StreamCalls : q.at = "stream clear" /\ q.user = w /\ q.set = call[c].set /\ FollowBecame(c, q)
    BY <1>1, <1>2, <1>3, <1>8, FollowStreamGoes
  <2>2. q \in FollowRecord /\ FollowStreams(q) /\ q.at # "idle" /\ q # Watching!Idle
    BY <2>1, FollowStreamCallsAre, FollowIdleIs
  <2>3. w \notin mixed => FollowStage(q)'
    BY <1>1, <1>3, <1>6, <2>1 DEF FollowStage
  <2> QED
    BY <1>1, <1>2, <1>3, <1>4, <1>5, <2>1, <2>2, <2>3, FollowStreamStep
<1> QED
  BY <1>7, <1>8

LEMMA FollowStreamClearInv ==
    ASSUME FollowIInv, NEW c \in Calls, Watching!StreamClear(c)
    PROVE  FollowIInv'
<1>1. /\ Watching!At(c, "stream clear")
      /\ streams' = [n \in Watching!Pairs \X Watching!Types |-> IF n[1][1] = call[c].user THEN 0 ELSE streams[n]]
      /\ Watching!Goto(c, IF call[c].set = "" THEN "stream profile" ELSE "stream notify")
      /\ UNCHANGED <<watchuser, ignoreuser, follows, user_streams, streaming_later, severed, overtaken_blocks, mixed>>
  BY DEF Watching!StreamClear, Watching!history
<1>2. FollowStreams(call[c])
  BY <1>1 DEF Watching!At, FollowStreams
<1>3. PICK w \in Watchers : w = call[c].user
  BY <1>2, FollowStreamUnderway
<1>4. streams \in [Watching!Pairs \X Watching!Types -> Nat]
  BY FollowTypeParts DEF FollowIInv, FollowTables
<1>5. streams' \in [Watching!Pairs \X Watching!Types -> Nat]
  BY <1>1, <1>4
<1>6. ASSUME NEW p \in Watching!Pairs, NEW t \in Watching!Types
      PROVE  streams'[<<p, t>>] = IF p[1] = w THEN 0 ELSE streams[<<p, t>>]
  <2>1. <<p, t>>[1] = p /\ <<p, t>> \in Watching!Pairs \X Watching!Types
    BY FollowPairIs
  <2>2. streams'[<<p, t>>] = IF <<p, t>>[1][1] = w THEN 0 ELSE streams[<<p, t>>]
    BY <1>1, <1>3, <2>1
  <2> QED
    BY <2>1, <2>2
<1>7. FollowTables'
  BY <1>1, <1>5, FollowTypeParts DEF FollowIInv, FollowTables
<1>8. \A v : v # call[c].user => FollowKept(v) /\ (v \in streaming_later => v \in streaming_later')
  BY <1>1, <1>3, <1>6 DEF FollowKept, FollowOf
<1>9. \A p \in FollowOf(w) : streams'[<<p, "now">>] = 0 /\ streams'[<<p, "later">>] = 0
  BY <1>6 DEF FollowOf, Watching!Types
<1>10. PICK q \in Watching!StreamCalls : /\ q.at = (IF call[c].set = "" THEN "stream profile" ELSE "stream notify")
                                         /\ q.user = w /\ q.set = call[c].set /\ FollowBecame(c, q)
  <2>1. PICK step \in {"stream clear", "stream notify", "stream profile"} :
            step = (IF call[c].set = "" THEN "stream profile" ELSE "stream notify")
    OBVIOUS
  <2>2. Watching!Goto(c, step)
    BY <1>1, <2>1
  <2> QED
    BY <1>2, <1>3, <2>1, <2>2, FollowStreamGoes
<1>11. q \in FollowRecord /\ FollowStreams(q) /\ q.at # "idle" /\ q # Watching!Idle
  BY <1>10, FollowStreamCallsAre, FollowIdleIs
<1>12. w \notin mixed => FollowStage(q)'
  <2> SUFFICES ASSUME w \notin mixed PROVE FollowStage(q)'
    OBVIOUS
  <2>1. /\ w \in user_streams' <=> q.set \in {"start", "still"}
        /\ q.set # "still" /\ q.set \in {"", "start", "later", "still"}
    BY <1>1, <1>2, <1>3, <1>10, FollowStreamUnderway DEF FollowStage, Watching!At
  <2> QED
    BY <1>9, <1>10, <2>1 DEF FollowStage, FollowOf
<1> QED
  BY <1>1, <1>2, <1>3, <1>7, <1>8, <1>10, <1>11, <1>12, FollowStreamStep

LEMMA FollowStreamNotifyInv ==
    ASSUME FollowIInv, NEW c \in Calls, Watching!StreamNotify(c)
    PROVE  FollowIInv'
<1> DEFINE type == IF call[c].set = "start" THEN "now" ELSE "later"
           Told(u) == {<<<<u, v>>, type>> : v \in {x \in Watchers \ {u} : watchuser[<<x, u>>] = "t"}}
<1>1. /\ Watching!At(c, "stream notify") /\ Watching!Goto(c, "stream profile")
      /\ streams' = [n \in Watching!Pairs \X Watching!Types |-> IF n \in Told(call[c].user) THEN streams[n] + 1 ELSE streams[n]]
      /\ UNCHANGED <<watchuser, ignoreuser, follows, user_streams, streaming_later, severed, overtaken_blocks, mixed>>
  BY DEF Watching!StreamNotify, Watching!history
<1>2. FollowStreams(call[c])
  BY <1>1 DEF Watching!At, FollowStreams
<1>3. PICK w \in Watchers : w = call[c].user
  BY <1>2, FollowStreamUnderway
<1>4. streams \in [Watching!Pairs \X Watching!Types -> Nat]
  BY FollowTypeParts DEF FollowIInv, FollowTables
<1>5. PICK gets : /\ streams' = [n \in Watching!Pairs \X Watching!Types |-> IF n \in gets THEN streams[n] + 1 ELSE streams[n]]
                  /\ gets = Told(w)
  BY <1>1, <1>3
<1>6. streams' \in [Watching!Pairs \X Watching!Types -> Nat]
  <2> HIDE DEF Told
  <2> QED
    BY <1>4, <1>5
<1>7. ASSUME NEW p \in Watching!Pairs, NEW t \in Watching!Types
      PROVE  /\ streams'[<<p, t>>] = streams[<<p, t>>] \/ streams'[<<p, t>>] = streams[<<p, t>>] + 1
             /\ p[1] # w \/ t # type => streams'[<<p, t>>] = streams[<<p, t>>]
  <2>1. <<p, t>> \in Watching!Pairs \X Watching!Types
    OBVIOUS
  <2>2. streams'[<<p, t>>] = IF <<p, t>> \in gets THEN streams[<<p, t>>] + 1 ELSE streams[<<p, t>>]
    BY <1>5, <2>1
  <2>3. <<p, t>> \in gets => p[1] = w /\ t = type
    <3> SUFFICES ASSUME <<p, t>> \in gets PROVE p[1] = w /\ t = type
      OBVIOUS
    <3>1. PICK v \in Watchers : <<p, t>> = <<<<w, v>>, type>>
      BY <1>5
    <3>2. p = <<w, v>> /\ t = type
      BY <3>1
    <3>3. p[1] = w
      BY <3>2, FollowPairIs, Zenon
    <3> QED
      BY <3>2, <3>3
  <2> QED
    BY <2>2, <2>3
<1>8. FollowTables'
  BY <1>1, <1>6, FollowTypeParts DEF FollowIInv, FollowTables
<1>9. \A v : v # call[c].user => FollowKept(v) /\ (v \in streaming_later => v \in streaming_later')
  BY <1>1, <1>3, <1>7 DEF FollowKept, FollowOf
<1>10. PICK q \in Watching!StreamCalls : q.at = "stream profile" /\ q.user = w /\ q.set = call[c].set /\ FollowBecame(c, q)
  BY <1>1, <1>2, <1>3, FollowStreamGoes
<1>11. q \in FollowRecord /\ FollowStreams(q) /\ q.at # "idle" /\ q # Watching!Idle
  BY <1>10, FollowStreamCallsAre, FollowIdleIs
<1>12. w \notin mixed => FollowStage(q)'
  <2> SUFFICES ASSUME w \notin mixed PROVE FollowStage(q)'
    OBVIOUS
  <2>1. /\ w \in user_streams' <=> q.set \in {"start", "still"}
        /\ q.set \in {"start", "later"}
        /\ \A p \in FollowOf(w) : streams[<<p, "now">>] = 0 /\ streams[<<p, "later">>] = 0
    BY <1>1, <1>2, <1>3, <1>10, FollowStreamUnderway DEF FollowStage, Watching!At
  <2>2. ASSUME NEW p \in FollowOf(w)
        PROVE  /\ streams'[<<p, "now">>] = 0 \/ (streams'[<<p, "now">>] = 1 /\ q.set = "start")
               /\ streams'[<<p, "later">>] = 0 \/ (streams'[<<p, "later">>] = 1 /\ q.set = "later")
    <3>1. p \in Watching!Pairs /\ "now" \in Watching!Types /\ "later" \in Watching!Types /\ "now" # "later"
      BY DEF FollowOf, Watching!Types
    <3>2. streams[<<p, "now">>] = 0 /\ streams[<<p, "later">>] = 0
      BY <2>1
    <3>3. q.set = "start" => type = "now"
      BY <1>10
    <3>4. q.set # "start" => type = "later"
      BY <1>10
    <3> HIDE DEF type
    <3> QED
      BY <1>7, <2>1, <3>1, <3>2, <3>3, <3>4
  <2>3. /\ q.at # "stream insert" /\ q.at # "stream clear" /\ q.at # "stream notify"
        /\ q.set = "start" => q.set \in {"start", "still"}
    BY <1>10
  <2> QED
    BY <1>10, <2>1, <2>2, <2>3 DEF FollowStage, FollowOf
<1> HIDE DEF type, Told
<1> QED
  BY <1>1, <1>2, <1>3, <1>8, <1>9, <1>10, <1>11, <1>12, FollowStreamStep

LEMMA FollowStreamProfileInv ==
    ASSUME FollowIInv, NEW c \in Calls, Watching!StreamProfile(c)
    PROVE  FollowIInv'
<1>1. /\ Watching!At(c, "stream profile") /\ Watching!End(c)
      /\ streaming_later' = IF call[c].set = "later"
                              THEN streaming_later \cup {call[c].user} ELSE streaming_later \ {call[c].user}
      /\ UNCHANGED <<watchuser, ignoreuser, follows, streams, user_streams, severed, overtaken_blocks, mixed>>
  BY DEF Watching!StreamProfile, Watching!history
<1>2. FollowStreams(call[c])
  BY <1>1 DEF Watching!At, FollowStreams
<1>3. PICK w \in Watchers : w = call[c].user
  BY <1>2, FollowStreamUnderway
<1>4. FollowTables'
  BY <1>1, <1>3, FollowTypeParts DEF FollowIInv, FollowTables
<1>5. \A v : v # call[c].user => FollowKept(v) /\ (v \in streaming_later => v \in streaming_later')
  BY <1>1 DEF FollowKept
<1>6. PICK q \in FollowRecord : FollowBecame(c, q) /\ q = Watching!Idle
  BY <1>1, FollowEnds, FollowIdleIs DEF FollowIInv
<1>7. w \notin mixed => FollowQuiet(w)'
  <2> SUFFICES ASSUME w \notin mixed PROVE FollowQuiet(w)'
    OBVIOUS
  <2>1. /\ w \in user_streams <=> call[c].set \in {"start", "still"}
        /\ \A p \in FollowOf(w) :
              /\ streams[<<p, "now">>] = 0 \/ (streams[<<p, "now">>] = 1 /\ call[c].set \in {"start", "still"})
              /\ streams[<<p, "later">>] = 0 \/ (streams[<<p, "later">>] = 1 /\ call[c].set = "later")
    BY <1>1, <1>2, <1>3, FollowStreamUnderway DEF FollowStage, Watching!At
  <2>2. call[c].set = "later" => w \in streaming_later'
    BY <1>1, <1>3
  <2> QED
    BY <1>1, <2>1, <2>2 DEF FollowQuiet, FollowOf
<1>8. w \notin mixed => FollowStage(q)'
  BY <1>6, FollowIdleIs DEF FollowStage
<1> QED
  BY <1>1, <1>2, <1>3, <1>4, <1>5, <1>6, <1>7, <1>8, FollowIdleIs, FollowStreamStep
-----------------------------------------------------------------------------
LEMMA FollowStillInv == ASSUME FollowIInv, UNCHANGED Watching!vars PROVE FollowIInv'
<1>1. UNCHANGED <<watchuser, ignoreuser, follows, streams, user_streams, streaming_later, call, severed, overtaken_blocks, mixed>>
  BY DEF Watching!vars, Watching!tables, Watching!history
<1>2. Watching!TypeOK'
  BY <1>1, FollowTypeParts DEF FollowIInv, FollowTables
<1>3. \A u : FollowKept(u)
  BY <1>1 DEF FollowKept
<1>4. \A o \in Watching!Pairs : follows'[o] <= follows[o]
  BY <1>1, FollowNumbersStay
<1> QED
  BY <1>1, <1>2, <1>3, <1>4, FollowCallsStay

LEMMA FollowFollowStepInv ==
    ASSUME FollowIInv, NEW c \in Calls,
           \/ \E p \in Watching!Pairs : Watching!CheckIgnoredYou(c, p) \/ Watching!Remove(c, p)
           \/ Watching!CheckYouIgnored(c)
           \/ \E settings \in {"", "t"} : Watching!InsertWatch(c, settings)
           \/ Watching!ClearNotice(c) \/ Watching!InsertNotice(c)
    PROVE  FollowIInv'
  BY FollowCheckIgnoredYouInv, FollowRemoveInv, FollowCheckYouIgnoredInv, FollowInsertWatchInv, FollowClearNoticeInv, FollowInsertNoticeInv

LEMMA FollowBlockStepInv ==
    ASSUME FollowIInv, NEW c \in Calls,
           (\E u \in Watchers, others \in SUBSET Watchers : Watching!Ignore(c, u, others)) \/ Watching!IgnoreCommit(c)
    PROVE  FollowIInv'
  BY FollowIgnoreInv, FollowIgnoreCommitInv

LEMMA FollowStreamStepInv ==
    ASSUME FollowIInv, NEW c \in Calls,
           \/ \E u \in Watchers, set \in {"", "start", "later", "still"} : Watching!EditStreaming(c, u, set)
           \/ Watching!StreamInsert(c) \/ Watching!StreamClear(c) \/ Watching!StreamNotify(c) \/ Watching!StreamProfile(c)
    PROVE  FollowIInv'
  BY FollowEditStreamingInv, FollowStreamInsertInv, FollowStreamClearInv, FollowStreamNotifyInv, FollowStreamProfileInv

LEMMA FollowPairStepInv ==
    ASSUME FollowIInv, NEW p \in Watching!Pairs, (\E settings \in {"", "t"} : Watching!Update(p, settings)) \/ Watching!Unignore(p) \/ Watching!RemoveNotice(p)
    PROVE  FollowIInv'
  BY FollowUpdateInv, FollowUnignoreInv, FollowRemoveNoticeInv

LEMMA FollowNextInv == FollowIInv /\ (Watching!Next \/ UNCHANGED Watching!vars) => FollowIInv'
<1> SUFFICES ASSUME FollowIInv, (Watching!Next \/ UNCHANGED Watching!vars) PROVE FollowIInv'
  OBVIOUS
<1>1. CASE UNCHANGED Watching!vars
  BY <1>1, FollowStillInv
<1>2. CASE Watching!Next
  <2>1. \/ \E p \in Watching!Pairs : (\E settings \in {"", "t"} : Watching!Update(p, settings)) \/ Watching!Unignore(p) \/ Watching!RemoveNotice(p)
        \/ \E c \in Calls :
            \/ \/ \E p \in Watching!Pairs : Watching!CheckIgnoredYou(c, p) \/ Watching!Remove(c, p)
               \/ Watching!CheckYouIgnored(c)
               \/ \E settings \in {"", "t"} : Watching!InsertWatch(c, settings)
               \/ Watching!ClearNotice(c) \/ Watching!InsertNotice(c)
            \/ (\E u \in Watchers, others \in SUBSET Watchers : Watching!Ignore(c, u, others)) \/ Watching!IgnoreCommit(c)
            \/ \/ \E u \in Watchers, set \in {"", "start", "later", "still"} : Watching!EditStreaming(c, u, set)
               \/ Watching!StreamInsert(c) \/ Watching!StreamClear(c) \/ Watching!StreamNotify(c) \/ Watching!StreamProfile(c)
    BY <1>2 DEF Watching!Next
  <2> QED
    BY <2>1, FollowPairStepInv, FollowFollowStepInv, FollowBlockStepInv, FollowStreamStepInv
<1> QED
  BY <1>1, <1>2

LEMMA FollowPromises == FollowIInv => Watching!BlockEndsFollowing /\ Watching!FollowersTold /\ Watching!StreamsTold
<1> SUFFICES ASSUME FollowIInv PROVE Watching!StreamsTold
  BY DEF FollowIInv
<1> SUFFICES ASSUME NEW p \in Watching!Pairs, p[1] \notin mixed, \A c \in Calls : p[1] \notin Watching!Subject(c)
             PROVE  /\ streams[<<p, "now">>] + streams[<<p, "later">>] <= 1
                    /\ streams[<<p, "now">>] = 1 => p[1] \in user_streams
                    /\ streams[<<p, "later">>] = 1 => p[1] \in streaming_later
  BY DEF Watching!StreamsTold
<1>1. p[1] \in Watchers
  BY DEF Watching!Pairs
<1>2. \A c \in Calls : ~FollowEdits(call[c], p[1])
  BY FollowSubjectIs, FollowStreamUnderway DEF FollowEdits
<1>3. FollowQuiet(p[1]) /\ p \in FollowOf(p[1])
  BY <1>1, <1>2 DEF FollowIInv, FollowQuiets, FollowOf
<1>4. /\ streams[<<p, "now">>] = 0 \/ (streams[<<p, "now">>] = 1 /\ p[1] \in user_streams)
      /\ streams[<<p, "later">>] = 0 \/ (streams[<<p, "later">>] = 1 /\ p[1] \in streaming_later /\ p[1] \notin user_streams)
  BY <1>3 DEF FollowQuiet
<1> QED
  BY <1>4
-----------------------------------------------------------------------------
\* While followers and streams are the part that moves, they have their invariant; and so it has in every state.
FollowHold == part = "following" => FollowIInv

LEMMA FollowAreHeld == AccountsSpec => []FollowHold
<1>1. AccountsInit => FollowHold
  BY FollowInitInv DEF AccountsInit, FollowHold
<1>2. FollowHold /\ [AccountsNext]_all_accounts_vars => FollowHold'
  <2> SUFFICES ASSUME FollowHold, [AccountsNext]_all_accounts_vars, part' = "following" PROVE FollowIInv'
    BY DEF FollowHold
  <2>1. part = "following" /\ FollowIInv
    BY PartStays DEF FollowHold
  <2>2. Watching!Next \/ UNCHANGED <<following_vars, call>>
    BY <2>1 DEF AccountsNext, all_accounts_vars
  <2>3. UNCHANGED <<following_vars, call>> => UNCHANGED Watching!vars
    BY DEF following_vars, Watching!vars, Watching!tables, Watching!history
  <2> QED
    BY <2>1, <2>2, <2>3, FollowNextInv
<1> QED
  BY <1>1, <1>2, PTL DEF AccountsSpec

\* insert, update and remove of a watch (weasyl/followuser.py), the block
\* (ignoreuser.py) and edit_streaming_settings (profile.py) with their
\* notifications: nobody follows someone they have blocked, unless an insert
\* overtook the block; whoever is told of a follower has one and is told once; and
\* notifications of a stream say what the profile says once its edits are through.
THEOREM FollowersStayTold == AccountsSpec => []FollowersAreTold
<1>1. FollowHold => FollowersAreTold
  BY FollowPromises DEF FollowHold, FollowersAreTold
<1> QED
  BY <1>1, FollowAreHeld, PTL
-----------------------------------------------------------------------------
LEMMA PostTypeParts ==
    /\ Posting!TypeOK <=> PostTables /\ PostCaches /\ call \in [Calls -> PostRecord]
    /\ Posting!TypeOK' <=> PostTables' /\ PostCaches' /\ call' \in [Calls -> PostRecord]
<1>1. {Posting!Idle} \cup Posting!CallRecords = PostRecord
  BY DEF Posting!CallRecords, PostRecord, PostPostCall, PostNotifyCall, PostEditCall, PostFindCall, PostInvalidateCall, PostFillCall
<1> QED
  BY <1>1 DEF Posting!TypeOK, PostTables, PostCaches

LEMMA PostIdleIs == Posting!Idle \in PostRecord /\ Posting!Idle.at = "idle"
  BY DEF Posting!Idle, PostRecord

LEMMA PostPostCallIs ==
    ASSUME NEW q \in PostPostCall
    PROVE  q \in PostRecord /\ q.at \in {"remove clear", "edit check"} /\ q.post \in PostIds /\ "post" \in DOMAIN q
  BY DEF PostPostCall, PostRecord

LEMMA PostNotifyCallIs ==
    ASSUME NEW q \in PostNotifyCall
    PROVE  q \in PostRecord /\ q.at = "notify" /\ q.post \in PostIds /\ q.friends_only \in BOOLEAN /\ "post" \in DOMAIN q
  BY DEF PostNotifyCall, PostRecord

LEMMA PostEditCallIs ==
    ASSUME NEW q \in PostEditCall
    PROVE  /\ q \in PostRecord /\ q.at \in {"edit clear", "edit update"} /\ q.post \in PostIds
           /\ q.rating \in Ratings /\ q.friends_only \in BOOLEAN
  BY DEF PostEditCall, PostRecord

LEMMA PostFindCallIs ==
    ASSUME NEW q \in PostFindCall
    PROVE  q \in PostRecord /\ q.at = "find owners" /\ q.post \in PostIds /\ q.users \subseteq Posting!Users
  BY DEF PostFindCall, PostRecord

LEMMA PostInvalidateCallIs ==
    ASSUME NEW q \in PostInvalidateCall
    PROVE  /\ q \in PostRecord /\ q.at = "invalidate" /\ q.post \in PostIds /\ q.users \subseteq Posting!Users
           /\ q.then \in {"done", "find owners"}
  BY DEF PostInvalidateCall, PostRecord

LEMMA PostFillCallIs ==
    ASSUME NEW q \in PostFillCall
    PROVE  q \in PostRecord /\ q.at = "fill" /\ q.user \in Posting!Users /\ q.value \subseteq Posting!Counted /\ q.late \in BOOLEAN
  BY DEF PostFillCall, PostRecord

LEMMA PostKinds ==
    ASSUME NEW q \in PostRecord
    PROVE  /\ q.at \in {"remove clear", "edit check"} => q \in PostPostCall
           /\ q.at = "notify" => q \in PostNotifyCall
           /\ q.at \in {"edit clear", "edit update"} => q \in PostEditCall
           /\ q.at = "find owners" => q \in PostFindCall
           /\ q.at = "invalidate" => q \in PostInvalidateCall
           /\ q.at = "fill" => q \in PostFillCall
<1>1. \/ q = Posting!Idle \/ q \in PostPostCall \/ q \in PostNotifyCall \/ q \in PostEditCall \/ q \in PostFindCall \/ q \in PostInvalidateCall
      \/ q \in PostFillCall
  BY DEF PostRecord
<1>2. CASE q = Posting!Idle
  BY <1>2, PostIdleIs
<1>3. CASE q \in PostPostCall \/ q \in PostNotifyCall \/ q \in PostEditCall
  BY <1>3, PostPostCallIs, PostNotifyCallIs, PostEditCallIs
<1>4. CASE q \in PostFindCall \/ q \in PostInvalidateCall \/ q \in PostFillCall
  BY <1>4, PostFindCallIs, PostInvalidateCallIs, PostFillCallIs
<1> QED
  BY <1>1, <1>2, <1>3, <1>4

\* The calls that begin.
LEMMA PostMakesPost ==
    ASSUME NEW p \in PostIds, NEW a \in {"remove clear", "edit check"}
    PROVE  \E r \in PostPostCall : r = [at |-> a, post |-> p] /\ r.at = a /\ r.post = p
<1> DEFINE r == [at |-> a, post |-> p]
<1>1. r \in PostPostCall /\ r.at = a /\ r.post = p
  BY DEF PostPostCall
<1>2. r = [at |-> a, post |-> p]
  OBVIOUS
<1> HIDE DEF r
<1> QED
  BY <1>1, <1>2

LEMMA PostMakesNotify ==
    ASSUME NEW p \in PostIds, NEW f \in BOOLEAN
    PROVE  \E r \in PostNotifyCall : r = [at |-> "notify", post |-> p, friends_only |-> f] /\ r.post = p /\ r.friends_only = f
<1> DEFINE r == [at |-> "notify", post |-> p, friends_only |-> f]
<1>1. r \in PostNotifyCall /\ r.post = p /\ r.friends_only = f
  BY DEF PostNotifyCall
<1>2. r = [at |-> "notify", post |-> p, friends_only |-> f]
  OBVIOUS
<1> HIDE DEF r
<1> QED
  BY <1>1, <1>2
-----------------------------------------------------------------------------
LEMMA PostCountIs ==
    /\ Posting!Count(Owner) = {PostEntry(kind[p], p) : p \in {k \in PostIds : Posting!Visible(k)}}
    /\ Collector # Owner /\ collection \subseteq PostIds =>
           Posting!Count(Collector) = {PostEntry("collection", p) : p \in {k \in collection : Posting!Visible(k)}}
  BY DEF Posting!Count, PostEntry

LEMMA PostEntryIs ==
    ASSUME NEW t, NEW p
    PROVE  PostEntry(t, p).post = p
  BY DEF PostEntry

LEMMA PostCountOf ==
    ASSUME NEW p \in PostIds, collection \subseteq PostIds
    PROVE  /\ PostOf(Posting!Count(Owner), p) = IF Posting!Visible(p) THEN {PostEntry(kind[p], p)} ELSE {}
           /\ Collector # Owner =>
                  PostOf(Posting!Count(Collector), p) = IF p \in collection /\ Posting!Visible(p) THEN {PostEntry("collection", p)} ELSE {}
<1>1. PostOf(Posting!Count(Owner), p) = IF Posting!Visible(p) THEN {PostEntry(kind[p], p)} ELSE {}
  BY PostCountIs, PostEntryIs DEF PostOf
<1>2. Collector # Owner => PostOf(Posting!Count(Collector), p) = IF p \in collection /\ Posting!Visible(p) THEN {PostEntry("collection", p)} ELSE {}
  BY PostCountIs, PostEntryIs DEF PostOf
<1> QED
  BY <1>1, <1>2

LEMMA PostCountOfNext ==
    ASSUME NEW p \in PostIds, collection' \subseteq PostIds
    PROVE  /\ PostOf(Posting!Count(Owner), p)' = IF Posting!Visible(p)' THEN {PostEntry(kind[p], p)'} ELSE {}
           /\ Collector # Owner =>
                  PostOf(Posting!Count(Collector), p)' = IF p \in collection' /\ Posting!Visible(p)' THEN {PostEntry("collection", p)'} ELSE {}
<1>1. /\ Posting!Count(Owner)' = {PostEntry(kind[k], k)' : k \in {k \in PostIds : Posting!Visible(k)'}}
      /\ Collector # Owner => Posting!Count(Collector)' = {PostEntry("collection", k)' : k \in {k \in collection' : Posting!Visible(k)'}}
  BY DEF Posting!Count, PostEntry
<1>2. \A t, k : PostEntry(t, k)'.post = k
  BY DEF PostEntry
<1>3. PostOf(Posting!Count(Owner), p)' = IF Posting!Visible(p)' THEN {PostEntry(kind[p], p)'} ELSE {}
  BY <1>1, <1>2 DEF PostOf
<1>4. Collector # Owner =>
          PostOf(Posting!Count(Collector), p)' = IF p \in collection' /\ Posting!Visible(p)' THEN {PostEntry("collection", p)'} ELSE {}
  BY <1>1, <1>2 DEF PostOf
<1> QED
  BY <1>3, <1>4

LEMMA PostEntryStays ==
    ASSUME NEW p \in PostIds, NEW u \in Posting!Users, collection \subseteq PostIds, collection' \subseteq PostIds, UNCHANGED kind,
           post'[p] = post[p], u = Owner \/ (p \in collection' <=> p \in collection)
    PROVE  PostOf(Posting!Count(u), p)' = PostOf(Posting!Count(u), p)
<1>1. Posting!Visible(p)' = Posting!Visible(p) /\ \A t : PostEntry(t, p)' = PostEntry(t, p)
  BY DEF Posting!Visible, PostEntry
<1>2. /\ PostOf(Posting!Count(Owner), p)' = IF Posting!Visible(p)' THEN {PostEntry(kind[p], p)'} ELSE {}
      /\ Collector # Owner =>
             PostOf(Posting!Count(Collector), p)' = IF p \in collection' /\ Posting!Visible(p)' THEN {PostEntry("collection", p)'} ELSE {}
  BY PostCountOfNext
<1>3. kind'[p] = kind[p]
  OBVIOUS
<1> QED
  BY <1>1, <1>2, <1>3, PostCountOf DEF Posting!Users

\* A post that is not in the collection.
LEMMA PostEntryNone ==
    ASSUME NEW p \in PostIds, collection \subseteq PostIds, collection' \subseteq PostIds, p \notin collection, p \notin collection',
           Collector # Owner
    PROVE  PostOf(Posting!Count(Collector), p)' = PostOf(Posting!Count(Collector), p)
<1>1. PostOf(Posting!Count(Collector), p)' = {}
  BY PostCountOfNext
<1>2. PostOf(Posting!Count(Collector), p) = {}
  BY PostCountOf
<1> QED
  BY <1>1, <1>2
-----------------------------------------------------------------------------
LEMMA PostSetGoing ==
    ASSUME call \in [Calls -> PostRecord], NEW c \in Calls, NEW r \in PostRecord, call' = [call EXCEPT ![c] = r]
    PROVE  PostGoing({c}, r) /\ \A d \in Calls \ {c} : call'[d] = call[d]
  BY DEF PostGoing, PostSame

LEMMA PostKnownStays ==
    ASSUME NEW q \in PostRecord, PostKnown(q), untold \subseteq untold', UNCHANGED befriended,
           \A p \in PostIds : post[p] # None => post'[p] # None,
           \A p \in PostIds : q.at = "notify" /\ q.post = p /\ p \notin untold' =>
               Posting!Visible(p)' /\ post'[p].friends_only = post[p].friends_only,
           \A p \in PostIds : PostRestricting(q) /\ q.post = p /\ p \in follower' => p \in follower \/ p \in untold'
    PROVE  PostKnown(q)'
<1>1. q.at \in {"notify", "edit check", "edit clear", "edit update"} => q.post \in PostIds
  BY PostKinds, PostPostCallIs, PostNotifyCallIs, PostEditCallIs
<1>2. q.at \in {"notify", "edit check", "edit clear", "edit update"} => post'[q.post] # None
  BY <1>1 DEF PostKnown
<1>3. q.at = "notify" /\ q.post \notin untold' => Posting!Visible(q.post)' /\ post'[q.post].friends_only = q.friends_only
  BY <1>1 DEF PostKnown
<1>4. PostRestricting(q) /\ q.post \notin untold' => q.post \notin follower'
  BY <1>1 DEF PostKnown, PostRestricting
<1> QED
  BY <1>2, <1>3, <1>4 DEF PostKnown, Posting!Visible, PostRestricting

\* What calls know stays, if the posts that calls are to notify of do, and those
\* that are being restricted get no notification.
LEMMA PostCallsKnow ==
    ASSUME PostIInv, NEW C, NEW r, PostGoing(C, r), PostKnown(r)', untold \subseteq untold', UNCHANGED befriended,
           \A p \in PostIds : post[p] # None => post'[p] # None,
           \A d \in Calls \ C : \A p \in PostIds : call[d].at = "notify" /\ call[d].post = p /\ p \notin untold' =>
               Posting!Visible(p)' /\ post'[p].friends_only = post[p].friends_only,
           \A d \in Calls \ C : \A p \in PostIds : PostRestricting(call[d]) /\ call[d].post = p /\ p \in follower' =>
               p \in follower \/ p \in untold',
           C # {} /\ PostRestricting(r) => \A d \in Calls \ C : call[d].at = "notify" /\ call[d].post = r.post => r.post \in untold',
           C # {} /\ r.at = "notify" => \A d \in Calls \ C : PostRestricting(call[d]) /\ call[d].post = r.post => r.post \in untold'
    PROVE  PostAllKnown' /\ PostQuiet'
<1>1. PostAllKnown'
  <2> SUFFICES ASSUME NEW d \in Calls PROVE PostKnown(call[d])'
    BY DEF PostAllKnown
  <2>1. PICK q \in PostRecord : q = call'[d]
    BY DEF PostGoing
  <2>2. PostKnown(q)'
    <3>1. CASE d \in C
      BY <2>1, <3>1 DEF PostGoing
    <3>2. CASE d \notin C /\ call'[d] = call[d]
      <4>1. PostKnown(q) /\ q = call[d]
        BY <2>1, <3>2 DEF PostIInv, PostAllKnown
      <4> QED
        BY <3>2, <4>1, PostKnownStays
    <3>3. CASE q.at = "fill"
      BY <3>3 DEF PostKnown, PostRestricting
    <3> QED
      BY <2>1, <3>1, <3>2, <3>3 DEF PostGoing, PostSame
  <2> QED
    BY <2>1, <2>2 DEF PostKnown, Posting!Visible, PostRestricting
<1>2. PostQuiet'
  <2> SUFFICES ASSUME NEW d \in Calls, NEW e \in Calls, NEW q, q = call'[d], NEW x, x = call'[e],
                      PostRestricting(q), x.at = "notify", x.post = q.post
               PROVE  q.post \in untold'
    BY DEF PostQuiet, PostRestricting
  <2>1. d \notin C => q = call[d]
    BY DEF PostGoing, PostSame, PostRestricting
  <2>2. e \notin C => x = call[e]
    BY DEF PostGoing, PostSame
  <2>3. CASE d \notin C /\ e \notin C
    BY <2>1, <2>2, <2>3 DEF PostIInv, PostQuiet
  <2>4. CASE d \in C /\ e \notin C
    BY <2>1, <2>2, <2>4 DEF PostGoing
  <2>5. CASE d \notin C /\ e \in C
    BY <2>1, <2>2, <2>5 DEF PostGoing
  <2>6. CASE d \in C /\ e \in C
    BY <2>6 DEF PostGoing, PostRestricting
  <2> QED
    BY <2>3, <2>4, <2>5, <2>6
<1> QED
  BY <1>1, <1>2

\* A post stays open to the follower, or is still being removed.
LEMMA PostWelcomeStays ==
    ASSUME PostIInv, NEW C, NEW r, PostGoing(C, r), untold \subseteq untold', UNCHANGED befriended,
           \A p \in follower' \ untold' : \/ PostOpen(p)'
                                          \/ p \in follower /\ (PostOpen(p) => PostOpen(p)')
                                             /\ \A d \in C : ~(call[d].at = "remove clear" /\ call[d].post = p)
                                          \/ C # {} /\ r.at = "remove clear" /\ r.post = p
    PROVE  PostWelcomed'
<1> SUFFICES ASSUME NEW p \in follower' \ untold', ~PostOpen(p)' PROVE PostRemoving(p)'
  BY DEF PostWelcomed
<1>1. CASE p \in follower /\ (PostOpen(p) => PostOpen(p)') /\ \A d \in C : ~(call[d].at = "remove clear" /\ call[d].post = p)
  <2>1. PostRemoving(p)
    BY <1>1 DEF PostIInv, PostWelcomed
  <2>2. PICK d \in Calls : call[d].at = "remove clear" /\ call[d].post = p
    BY <2>1 DEF PostRemoving
  <2>3. call'[d] = call[d]
    BY <1>1, <2>2 DEF PostGoing, PostSame
  <2> QED
    BY <2>2, <2>3 DEF PostRemoving
<1>2. CASE C # {} /\ r.at = "remove clear" /\ r.post = p
  BY <1>2 DEF PostGoing, PostRemoving
<1> QED
  BY <1>1, <1>2

LEMMA PostRightStays ==
    ASSUME NEW C, NEW r, PostGoing(C, r), NEW u, \A p \in PostIds : PostSettled(C, r, u, p), NEW S, PostRight(u, S)
    PROVE  PostRight(u, S)'
<1> SUFFICES ASSUME NEW p \in PostIds PROVE PostDue(u, p)' \/ PostOf(S, p) = PostOf(Posting!Count(u), p)'
  BY DEF PostRight, PostOf
<1>1. CASE C # {} /\ PostDues(r, u, p)'
  <2>1. PICK d \in C : d \in Calls /\ call'[d] = r
    BY <1>1 DEF PostGoing
  <2> QED
    BY <1>1, <2>1 DEF PostDue, PostDues
<1>2. CASE /\ u = Collector /\ p \in collection => p \in collection'
           /\ \A d \in C : ~PostDues(call[d], u, p)
           /\ PostOf(Posting!Count(u), p)' = PostOf(Posting!Count(u), p)
  <2>1. PostDue(u, p) => PostDue(u, p)'
    <3> SUFFICES ASSUME NEW d \in Calls, NEW q, q = call[d], PostDues(q, u, p) PROVE PostDue(u, p)'
      BY DEF PostDue
    <3>1. call'[d] = q
      BY <1>2 DEF PostGoing, PostSame, PostDues
    <3>2. PostDues(q, u, p)'
      BY <1>2 DEF PostDues
    <3> QED
      BY <3>1, <3>2 DEF PostDue, PostDues
  <2> QED
    BY <1>2, <2>1 DEF PostRight
<1> QED
  BY <1>1, <1>2 DEF PostSettled

LEMMA PostCountsStay ==
    ASSUME PostIInv, NEW C, NEW r, PostGoing(C, r), C # {} => r.at # "fill", \A u \in Posting!Users : PostKept(C, r, u) \/ PostDropped(u)
    PROVE  PostCurrent' /\ PostFilling'
<1>1. PostCurrent'
  <2> SUFFICES ASSUME NEW u \in Posting!Users, NEW S, S = cached_posts'[u], u \notin uncounted', S # None
               PROVE  PostRight(u, S)'
    BY DEF PostCurrent, PostRight, PostOf, PostDue, PostDues
  <2>1. PostKept(C, r, u)
    BY DEF PostDropped
  <2>2. PostRight(u, S)
    BY <2>1 DEF PostKept, PostIInv, PostCurrent
  <2> QED
    BY <2>1, <2>2, PostRightStays DEF PostKept
<1>2. PostFilling'
  <2> SUFFICES ASSUME NEW d \in Calls, NEW q, q = call'[d], q.at = "fill", ~q.late
               PROVE  PostRight(q.user, q.value)'
    BY DEF PostFilling, PostRight, PostOf
  <2>1. q = call[d]
    BY DEF PostGoing, PostSame
  <2>2. PICK u \in Posting!Users, S \in SUBSET Posting!Counted : u = q.user /\ S = q.value
    BY PostKinds, PostFillCallIs, <2>1, PostTypeParts DEF PostIInv
  <2>3. PostRight(u, S)
    BY <2>1, <2>2 DEF PostIInv, PostFilling
  <2>4. PostKept(C, r, u)
    BY <2>1, <2>2 DEF PostDropped
  <2>5. PostRight(u, S)'
    BY <2>3, <2>4, PostRightStays DEF PostKept
  <2> QED
    BY <2>2, <2>5 DEF PostRight, PostOf
<1> QED
  BY <1>1, <1>2
-----------------------------------------------------------------------------
\* Calls that check, notify or edit have a post; those that notify are told of.
LEMMA PostExisting ==
    ASSUME PostIInv, NEW d \in Calls, NEW p, call[d].post = p,
           call[d].at \in {"notify", "edit check", "edit clear", "edit update"}
    PROVE  post[p] # None
  BY DEF PostIInv, PostAllKnown, PostKnown

LEMMA PostToldHas ==
    ASSUME PostIInv, NEW d \in Calls, NEW p, call[d].at = "notify", call[d].post = p
    PROVE  p \in Posting!Told(p)
<1>1. "post" \in DOMAIN call[d]
  BY PostKinds, PostNotifyCallIs, PostTypeParts DEF PostIInv
<1> QED
  BY <1>1 DEF Posting!Told, Posting!About, Posting!At

LEMMA PostToldIs == \A p \in PostIds : Posting!Told(p) \subseteq {p} /\ Posting!Told(p) \subseteq PostIds
  BY DEF Posting!Told

\* The tables are as they were: the invalidations that are due are passed on.
LEMMA PostCountsGo ==
    ASSUME PostIInv, NEW c \in Calls, NEW r \in PostRecord, call' = [call EXCEPT ![c] = r], r.at # "fill",
           UNCHANGED <<Posting!rows, cached_posts, uncounted>>,
           \A u \in Posting!Users : \A p \in PostIds : PostDues(call[c], u, p) => PostDues(r, u, p)
    PROVE  PostCurrent' /\ PostFilling'
<1>1. PostGoing({c}, r)
  BY PostSetGoing, PostTypeParts DEF PostIInv
<1>2. ASSUME NEW u \in Posting!Users, NEW p \in PostIds
      PROVE  PostSettled({c}, r, u, p)
  <2>1. PostOf(Posting!Count(u), p)' = PostOf(Posting!Count(u), p) /\ (p \in collection => p \in collection')
    BY PostEntryStays DEF Posting!rows, PostIInv, Posting!TypeOK
  <2>2. PostDues(r, u, p) => PostDues(r, u, p)'
    BY DEF PostDues, Posting!rows
  <2> QED
    BY <2>1, <2>2 DEF PostSettled
<1>3. \A u \in Posting!Users : PostKept({c}, r, u)
  BY <1>2 DEF PostKept
<1> QED
  BY <1>1, <1>3, PostCountsStay

\* One post changes: invalidations are due, to whoever has it counted.
LEMMA PostPostChanges ==
    ASSUME PostIInv, NEW c \in Calls, NEW r \in PostRecord, call' = [call EXCEPT ![c] = r], r.at # "fill",
           UNCHANGED <<kind, collection, cached_posts, uncounted>>,
           NEW p \in PostIds, \A k \in PostIds \ {p} : post'[k] = post[k],
           \A u \in Posting!Users : \A k \in PostIds : ~PostDues(call[c], u, k),
           PostDues(r, Owner, p), p \in collection => PostDues(r, Collector, p)
    PROVE  PostCurrent' /\ PostFilling'
<1>1. PostGoing({c}, r)
  BY PostSetGoing, PostTypeParts DEF PostIInv
<1>2. ASSUME NEW u \in Posting!Users, NEW k \in PostIds
      PROVE  PostSettled({c}, r, u, k)
  <2>1. PostDues(r, u, k) => PostDues(r, u, k)'
    BY DEF PostDues
  <2>2. CASE k # p
    <3>1. PostOf(Posting!Count(u), k)' = PostOf(Posting!Count(u), k)
      BY <2>2, PostEntryStays DEF PostIInv, Posting!TypeOK
    <3> QED
      BY <2>2, <3>1 DEF PostSettled
  <2>3. CASE k = p /\ (u = Owner \/ p \in collection)
    BY <2>1, <2>3 DEF PostSettled, Posting!Users
  <2>4. CASE k = p /\ u # Owner /\ p \notin collection
    <3>1. u = Collector /\ Collector # Owner
      BY <2>4 DEF Posting!Users
    <3>2. PostOf(Posting!Count(u), k)' = PostOf(Posting!Count(u), k)
      BY <2>4, <3>1, PostEntryNone DEF PostIInv, Posting!TypeOK
    <3> QED
      BY <3>2 DEF PostSettled
  <2> QED
    BY <2>2, <2>3, <2>4
<1>3. \A u \in Posting!Users : PostKept({c}, r, u)
  BY <1>2 DEF PostKept
<1> QED
  BY <1>1, <1>3, PostCountsStay

\* The posts and the notifications are as they were.
LEMMA PostToldStays ==
    ASSUME PostIInv, NEW c \in Calls, NEW r \in PostRecord, PostGoing({c}, r), PostKnown(r), UNCHANGED <<post, befriended, follower, untold>>,
           r.at # "notify", ~PostRestricting(r), call[c].at # "remove clear"
    PROVE  PostAllKnown' /\ PostQuiet' /\ PostWelcomed'
<1>1. PostKnown(r)'
  BY DEF PostKnown, Posting!Visible, PostRestricting
<1>2. ASSUME NEW d \in Calls \ {c}, NEW p \in PostIds, call[d].at = "notify", call[d].post = p, p \notin untold'
      PROVE  Posting!Visible(p)' /\ post'[p].friends_only = post[p].friends_only
  BY <1>2 DEF PostIInv, PostAllKnown, PostKnown, Posting!Visible
<1>3. PostAllKnown' /\ PostQuiet'
  BY <1>1, <1>2, PostCallsKnow
<1>4. \A p : PostOpen(p)' = PostOpen(p)
  BY DEF PostOpen, Posting!Visible
<1>5. PostWelcomed'
  BY <1>4, PostWelcomeStays
<1> QED
  BY <1>3, <1>5
-----------------------------------------------------------------------------
LEMMA PostCreateInv ==
    ASSUME Posting!ConstantsOK, PostIInv, NEW c \in Calls, NEW p \in PostIds, NEW g \in Ratings, NEW f \in BOOLEAN, Posting!Create(c, p, g, f)
    PROVE  PostIInv'
<1>1. PICK r \in PostNotifyCall : r = [at |-> "notify", post |-> p, friends_only |-> f] /\ r.post = p /\ r.friends_only = f
  BY PostMakesNotify
<1> DEFINE row == [rating |-> g, friends_only |-> f, hidden |-> FALSE]
<1>2. /\ post[p] = None /\ post' = [post EXCEPT ![p] = row] /\ call[c] = Posting!Idle /\ call' = [call EXCEPT ![c] = r]
      /\ UNCHANGED <<kind, befriended, collection, follower, cached_posts, uncounted, untold>>
  BY <1>1 DEF Posting!Create, Posting!Start
<1>3. row \in Posting!Rows /\ row # None /\ row.friends_only = f /\ ~row.hidden
  <2>1. row \in Posting!Rows /\ row.friends_only = f /\ ~row.hidden
    BY DEF Posting!Rows
  <2> HIDE DEF row
  <2> QED
    BY <2>1 DEF Posting!ConstantsOK
<1> HIDE DEF row
<1>4. r \in PostRecord /\ r.at = "notify"
  BY PostNotifyCallIs
<1>5. PostGoing({c}, r) /\ call[c].at = "idle"
  BY <1>2, <1>4, PostSetGoing, PostTypeParts, PostIdleIs DEF PostIInv
<1>6. post'[p] = row /\ \A k \in PostIds \ {p} : post'[k] = post[k]
  BY <1>2 DEF PostIInv, Posting!TypeOK
<1>7. Posting!TypeOK'
  BY <1>2, <1>3, <1>5, PostTypeParts DEF PostIInv, PostTables, PostCaches, PostGoing
<1>8. PostCollected' /\ p \notin collection
  BY <1>2, <1>6 DEF PostIInv, PostCollected, Posting!TypeOK
<1>9. PostKnown(r)'
  BY <1>1, <1>3, <1>4, <1>6 DEF PostKnown, Posting!Visible, PostRestricting
<1>10. PostAllKnown' /\ PostQuiet'
  <2>1. \A k \in PostIds : post[k] # None => post'[k] # None
    BY <1>2, <1>6
  <2>2. ASSUME NEW d \in Calls \ {c}, NEW k \in PostIds, call[d].at = "notify", call[d].post = k, k \notin untold'
        PROVE  Posting!Visible(k)' /\ post'[k].friends_only = post[k].friends_only
    <3>1. post[k] # None /\ Posting!Visible(k)
      BY <1>2, <2>2 DEF PostIInv, PostAllKnown, PostKnown
    <3> QED
      BY <1>2, <1>6, <3>1 DEF Posting!Visible
  <2>3. \A d \in Calls \ {c} : PostRestricting(call[d]) => call[d].post # p
    BY <1>2, PostExisting DEF PostRestricting
  <2>4. ~PostRestricting(r)
    BY <1>4 DEF PostRestricting
  <2>5. untold \subseteq untold' /\ UNCHANGED befriended /\ follower' = follower
    BY <1>2
  <2> QED
    BY <1>1, <1>4, <1>5, <1>9, <2>1, <2>2, <2>3, <2>4, <2>5, PostCallsKnow
<1>11. PostWelcomed'
  <2>1. \A k \in PostIds : PostOpen(k) => PostOpen(k)'
    BY <1>2, <1>6 DEF PostOpen, Posting!Visible
  <2> QED
    BY <1>2, <1>5, <2>1, PostWelcomeStays DEF PostIInv, Posting!TypeOK
<1>12. PostCurrent' /\ PostFilling'
  <2>1. PostDues(r, Owner, p) /\ \A u, k : ~PostDues(call[c], u, k)
    BY <1>1, <1>4, <1>5 DEF PostDues
  <2> QED
    BY <1>2, <1>4, <1>6, <1>8, <2>1, PostPostChanges
<1> QED
  BY <1>7, <1>8, <1>10, <1>11, <1>12 DEF PostIInv

LEMMA PostCreateNotifyInv ==
    ASSUME Posting!ConstantsOK, PostIInv, NEW c \in Calls, Posting!CreateNotify(c)
    PROVE  PostIInv'
<1>1. PICK q \in PostNotifyCall : q = call[c] /\ PostKnown(q)
  BY PostKinds, PostTypeParts DEF PostIInv, PostAllKnown, Posting!CreateNotify, Posting!At
<1>2. PICK p \in PostIds, f \in BOOLEAN : p = q.post /\ f = q.friends_only
  BY PostNotifyCallIs
<1>3. Owner \in Posting!Users /\ q.at = "notify"
  BY PostNotifyCallIs DEF Posting!Users
<1> DEFINE r == [at |-> "invalidate", users |-> {Owner}, then |-> "done", post |-> p]
<1>4. r \in PostInvalidateCall /\ r.post = p /\ r.users = {Owner} /\ r.then = "done"
  BY <1>3 DEF PostInvalidateCall
<1>5. /\ follower' = (IF f => befriended THEN follower \cup {p} ELSE follower) /\ call' = [call EXCEPT ![c] = r]
      /\ UNCHANGED <<Posting!rows, cached_posts, uncounted, untold>> /\ UNCHANGED <<kind, befriended, post, collection>>
  BY <1>1, <1>2 DEF Posting!CreateNotify, Posting!InvalidateNext, Posting!rows
<1> HIDE DEF r
<1>6. r \in PostRecord /\ r.at = "invalidate"
  BY <1>4, PostInvalidateCallIs
<1>7. PostGoing({c}, r)
  BY <1>5, <1>6, PostSetGoing, PostTypeParts DEF PostIInv
<1>8. Posting!TypeOK' /\ PostCollected'
  BY <1>5, <1>7, PostTypeParts DEF PostIInv, PostTables, PostCaches, PostGoing, PostCollected
<1>9. PostAllKnown' /\ PostQuiet'
  <2>1. PostKnown(r)'
    BY <1>6 DEF PostKnown, PostRestricting
  <2>2. ASSUME NEW d \in Calls \ {c}, NEW k \in PostIds, call[d].at = "notify", call[d].post = k, k \notin untold'
        PROVE  Posting!Visible(k)' /\ post'[k].friends_only = post[k].friends_only
    BY <1>5, <2>2 DEF PostIInv, PostAllKnown, PostKnown, Posting!Visible
  <2>3. ASSUME NEW d \in Calls \ {c}, NEW k \in PostIds, PostRestricting(call[d]), call[d].post = k, k \in follower'
        PROVE  k \in follower \/ k \in untold'
    <3>1. CASE k = p
      BY <1>1, <1>2, <1>3, <1>5, <2>3, <3>1 DEF PostIInv, PostQuiet
    <3>2. CASE k # p
      BY <1>5, <2>3, <3>2
    <3> QED
      BY <3>1, <3>2
  <2> QED
    BY <1>5, <1>6, <1>7, <2>1, <2>2, <2>3, PostCallsKnow DEF PostRestricting
<1>10. PostWelcomed'
  <2>1. \A k : PostOpen(k)' = PostOpen(k)
    BY <1>5 DEF PostOpen, Posting!Visible
  <2>2. p \in follower' \ untold' => p \in follower \/ PostOpen(p)
    BY <1>1, <1>2, <1>3, <1>5 DEF PostKnown, PostOpen
  <2>3. call[c].at # "remove clear"
    BY <1>1, <1>3
  <2> QED
    BY <1>5, <1>7, <2>1, <2>2, <2>3, PostWelcomeStays
<1>11. PostCurrent' /\ PostFilling'
  <2>1. \A u \in Posting!Users : \A k \in PostIds : PostDues(call[c], u, k) => PostDues(r, u, k)
    BY <1>1, <1>2, <1>3, <1>4, <1>6 DEF PostDues
  <2> QED
    BY <1>5, <1>6, <2>1, PostCountsGo
<1> QED
  BY <1>8, <1>9, <1>10, <1>11 DEF PostIInv
-----------------------------------------------------------------------------
\* A row is written anew.
LEMMA PostRewritten ==
    ASSUME Posting!ConstantsOK, NEW w \in Posting!Rows, NEW e,
           \/ \E h \in BOOLEAN : e = [w EXCEPT !.hidden = h]
           \/ \E g \in Ratings : e = [w EXCEPT !.rating = g]
           \/ \E g \in Ratings, f \in BOOLEAN : e = [w EXCEPT !.rating = g, !.friends_only = f]
    PROVE  e \in Posting!Rows /\ e # None
<1>1. e \in Posting!Rows
  BY DEF Posting!Rows
<1> QED
  BY <1>1 DEF Posting!ConstantsOK

LEMMA PostAnewIs ==
    ASSUME PostIInv, NEW p \in PostIds, NEW e, PostAnew(p, e), UNCHANGED <<kind, befriended, collection>>
    PROVE  /\ PostTables' /\ PostCollected' /\ post'[p] = e /\ e # None
           /\ \A k \in PostIds \ {p} : post'[k] = post[k] /\ PostOpen(k)' = PostOpen(k)
           /\ \A k \in PostIds : post[k] # None => post'[k] # None
<1>1. post'[p] = e /\ e # None /\ \A k \in PostIds \ {p} : post'[k] = post[k]
  BY DEF PostAnew, PostIInv, Posting!TypeOK
<1>2. \A k \in PostIds \ {p} : PostOpen(k)' = PostOpen(k)
  BY <1>1 DEF PostOpen, Posting!Visible
<1>3. \A k \in PostIds : post[k] # None => post'[k] # None
  BY <1>1
<1>4. PostTables'
  BY DEF PostAnew, PostIInv, Posting!TypeOK, PostTables
<1>5. PostCollected'
  BY <1>3 DEF PostIInv, PostCollected, Posting!TypeOK
<1> QED
  BY <1>1, <1>2, <1>3, <1>4, <1>5

\* Whoever notifies of another post, or of this one beside its change.
LEMMA PostChangeKnown ==
    ASSUME PostIInv, NEW c \in Calls, NEW r \in PostRecord, call' = [call EXCEPT ![c] = r], NEW p \in PostIds, NEW e, PostAnew(p, e),
           UNCHANGED <<kind, befriended, collection, follower>>, untold \subseteq untold',
           Posting!Told(p) \subseteq untold', r.at # "notify", ~PostRestricting(r), PostKnown(r)
    PROVE  PostAllKnown' /\ PostQuiet'
<1>1. PostGoing({c}, r)
  BY PostSetGoing, PostTypeParts DEF PostIInv
<1>2. PostKnown(r)'
  <2>1. \A k \in PostIds : post[k] # None => post'[k] # None
    BY PostAnewIs
  <2> QED
    BY <2>1, PostKnownStays
<1>3. ASSUME NEW d \in Calls \ {c}, NEW k \in PostIds, call[d].at = "notify", call[d].post = k, k \notin untold'
      PROVE  Posting!Visible(k)' /\ post'[k].friends_only = post[k].friends_only
  <2>1. k # p
    BY <1>3, PostToldHas
  <2>2. Posting!Visible(k)
    <3>1. PostKnown(call[d]) /\ k \notin untold
      BY <1>3 DEF PostIInv, PostAllKnown
    <3> QED
      BY <1>3, <3>1 DEF PostKnown
  <2>3. post'[k] = post[k]
    BY <2>1, PostAnewIs
  <2> QED
    BY <2>2, <2>3 DEF Posting!Visible
<1>4. \A k \in PostIds : post[k] # None => post'[k] # None
  BY PostAnewIs
<1>5. follower' = follower /\ UNCHANGED befriended
  OBVIOUS
<1> QED
  BY <1>1, <1>2, <1>3, <1>4, <1>5, PostCallsKnow

LEMMA PostRemoveInv ==
    ASSUME Posting!ConstantsOK, PostIInv, NEW c \in Calls, NEW p \in PostIds, Posting!Remove(c, p)
    PROVE  PostIInv'
<1>1. PICK r \in PostPostCall : r = [at |-> "remove clear", post |-> p] /\ r.at = "remove clear" /\ r.post = p
  BY PostMakesPost
<1>2. /\ Posting!Visible(p) /\ post' = [post EXCEPT ![p].hidden = TRUE] /\ untold' = untold \cup Posting!Told(p)
      /\ call[c] = Posting!Idle /\ call' = [call EXCEPT ![c] = r]
      /\ UNCHANGED <<kind, befriended, collection, follower, cached_posts, uncounted>>
  BY <1>1 DEF Posting!Remove, Posting!Start
<1>3. PICK e : PostAnew(p, e)
  <2>1. PICK w \in Posting!Rows : w = post[p]
    BY <1>2 DEF PostIInv, Posting!TypeOK, Posting!Visible
  <2> DEFINE e == [w EXCEPT !.hidden = TRUE]
  <2>2. post' = [post EXCEPT ![p] = e] /\ \E h \in BOOLEAN : e = [w EXCEPT !.hidden = h]
    BY <1>2, <2>1
  <2> HIDE DEF e
  <2> QED
    BY <2>2, PostRewritten DEF PostAnew
<1>4. r \in PostRecord /\ PostGoing({c}, r) /\ call[c].at = "idle"
  BY <1>2, PostPostCallIs, PostSetGoing, PostTypeParts, PostIdleIs DEF PostIInv
<1>5. Posting!TypeOK' /\ PostCollected'
  <2>1. PostTables' /\ PostCollected'
    BY <1>2, <1>3, PostAnewIs
  <2>2. PostCaches'
    BY <1>2, PostToldIs DEF PostIInv, Posting!TypeOK, PostCaches
  <2> QED
    BY <1>4, <2>1, <2>2, PostTypeParts DEF PostGoing
<1>6. PostAllKnown' /\ PostQuiet'
  <2>1. r.at # "notify" /\ ~PostRestricting(r) /\ PostKnown(r)
    BY <1>1 DEF PostKnown, PostRestricting
  <2> QED
    BY <1>2, <1>3, <1>4, <2>1, PostChangeKnown
<1>7. PostWelcomed'
  <2>1. \A k \in PostIds \ {p} : PostOpen(k) => PostOpen(k)'
    BY <1>2, <1>3, PostAnewIs
  <2>2. follower \subseteq PostIds /\ call[c].at # "remove clear"
    BY <1>4 DEF PostIInv, Posting!TypeOK
  <2>3. \A k \in follower' \ untold' :
            (k \in follower /\ (PostOpen(k) => PostOpen(k)')) \/ (r.at = "remove clear" /\ r.post = k)
    BY <1>1, <1>2, <2>1, <2>2
  <2>4. untold \subseteq untold' /\ UNCHANGED befriended
    BY <1>2
  <2> QED
    BY <1>4, <2>2, <2>3, <2>4, PostWelcomeStays
<1>8. PostCurrent' /\ PostFilling'
  <2>1. /\ PostDues(r, Owner, p) /\ \A u, k : ~PostDues(call[c], u, k)
        /\ p \in collection => PostDues(r, Collector, p)
    BY <1>1, <1>4 DEF PostDues
  <2>2. \A k \in PostIds \ {p} : post'[k] = post[k]
    BY <1>2, <1>3, PostAnewIs
  <2> QED
    BY <1>1, <1>2, <1>4, <2>1, <2>2, PostPostChanges
<1> QED
  BY <1>5, <1>6, <1>7, <1>8 DEF PostIInv

LEMMA PostRemoveClearInv ==
    ASSUME Posting!ConstantsOK, PostIInv, NEW c \in Calls, Posting!RemoveClear(c)
    PROVE  PostIInv'
<1>1. PICK q \in PostPostCall : q = call[c] /\ q.at = "remove clear"
  BY PostKinds, PostTypeParts DEF PostIInv, Posting!RemoveClear, Posting!At
<1>2. PICK p \in PostIds : p = q.post
  BY PostPostCallIs
<1>3. PICK t \in {"done", "find owners"} : t = Posting!CollectorsToo(p) /\ (kind[p] = "submission" => t = "find owners")
  BY DEF Posting!CollectorsToo
<1> DEFINE r == [at |-> "invalidate", users |-> {Owner}, then |-> t, post |-> p]
<1>4. r \in PostInvalidateCall /\ r.post = p /\ r.users = {Owner} /\ r.then = t
  BY DEF PostInvalidateCall, Posting!Users
<1>5. follower' = follower \ {p} /\ call' = [call EXCEPT ![c] = r] /\ UNCHANGED <<Posting!rows, cached_posts, uncounted, untold>>
  BY <1>1, <1>2, <1>3 DEF Posting!RemoveClear, Posting!InvalidateNext
<1> HIDE DEF r
<1>6. r \in PostRecord /\ r.at = "invalidate"
  BY <1>4, PostInvalidateCallIs
<1>7. PostGoing({c}, r) /\ UNCHANGED <<kind, befriended, post, collection>>
  BY <1>5, <1>6, PostSetGoing, PostTypeParts DEF PostIInv, Posting!rows
<1>8. Posting!TypeOK' /\ PostCollected'
  BY <1>5, <1>7, PostTypeParts DEF PostIInv, PostTables, PostCaches, PostGoing, PostCollected
<1>9. PostAllKnown' /\ PostQuiet'
  <2>1. PostKnown(r)' /\ ~PostRestricting(r)
    BY <1>6 DEF PostKnown, PostRestricting
  <2>2. ASSUME NEW d \in Calls \ {c}, NEW k \in PostIds, call[d].at = "notify", call[d].post = k, k \notin untold'
        PROVE  Posting!Visible(k)' /\ post'[k].friends_only = post[k].friends_only
    BY <1>5, <1>7, <2>2 DEF PostIInv, PostAllKnown, PostKnown, Posting!Visible
  <2> QED
    BY <1>5, <1>6, <1>7, <2>1, <2>2, PostCallsKnow
<1>10. PostWelcomed'
  <2>1. \A k : PostOpen(k)' = PostOpen(k)
    BY <1>7 DEF PostOpen, Posting!Visible
  <2>2. \A k \in follower' : k \in follower /\ ~(call[c].at = "remove clear" /\ call[c].post = k)
    BY <1>1, <1>2, <1>5
  <2> QED
    BY <1>5, <1>7, <2>1, <2>2, PostWelcomeStays
<1>11. PostCurrent' /\ PostFilling'
  <2>1. p \in collection => t = "find owners"
    BY <1>3 DEF PostIInv, PostCollected
  <2>2. ASSUME NEW u \in Posting!Users, NEW k \in PostIds, PostDues(call[c], u, k)
        PROVE  PostDues(r, u, k)
    BY <1>1, <1>2, <1>4, <1>6, <2>1, <2>2 DEF PostDues
  <2> QED
    BY <1>5, <1>6, <2>2, PostCountsGo
<1> QED
  BY <1>8, <1>9, <1>10, <1>11 DEF PostIInv

LEMMA PostEditCheckInv ==
    ASSUME Posting!ConstantsOK, PostIInv, NEW c \in Calls, NEW p \in PostIds, Posting!EditCheck(c, p)
    PROVE  PostIInv'
<1>1. PICK r \in PostPostCall : r = [at |-> "edit check", post |-> p] /\ r.at = "edit check" /\ r.post = p
  BY PostMakesPost
<1>2. /\ Posting!Visible(p) /\ call[c] = Posting!Idle /\ call' = [call EXCEPT ![c] = r]
      /\ UNCHANGED <<Posting!rows, follower, cached_posts, uncounted, untold>> /\ UNCHANGED <<kind, befriended, post, collection>>
  BY <1>1 DEF Posting!EditCheck, Posting!Start, Posting!rows
<1>3. r \in PostRecord /\ PostGoing({c}, r) /\ call[c].at = "idle"
  BY <1>2, PostPostCallIs, PostSetGoing, PostTypeParts, PostIdleIs DEF PostIInv
<1>4. Posting!TypeOK' /\ PostCollected'
  BY <1>2, <1>3, PostTypeParts DEF PostIInv, PostTables, PostCaches, PostGoing, PostCollected
<1>5. PostKnown(r) /\ r.at # "notify" /\ ~PostRestricting(r)
  BY <1>1, <1>2 DEF PostKnown, PostRestricting, Posting!Visible
<1>6. PostAllKnown' /\ PostQuiet' /\ PostWelcomed'
  <2>1. UNCHANGED <<post, befriended, follower, untold>> /\ call[c].at # "remove clear"
    BY <1>2, <1>3
  <2> QED
    BY <1>3, <1>5, <2>1, PostToldStays
<1>7. PostCurrent' /\ PostFilling'
  <2>1. \A u, k : ~PostDues(call[c], u, k)
    BY <1>3 DEF PostDues
  <2> QED
    BY <1>1, <1>2, <1>3, <2>1, PostCountsGo
<1> QED
  BY <1>4, <1>6, <1>7 DEF PostIInv

LEMMA PostEditChooseInv ==
    ASSUME Posting!ConstantsOK, PostIInv, NEW c \in Calls, NEW g \in Ratings, NEW f \in BOOLEAN, Posting!EditChoose(c, g, f)
    PROVE  PostIInv'
<1>1. PICK q \in PostPostCall : q = call[c] /\ q.at = "edit check"
  BY PostKinds, PostTypeParts DEF PostIInv, Posting!EditChoose, Posting!At
<1>2. PICK p \in PostIds, a \in {"edit clear", "edit update"} : p = q.post /\ a = IF f THEN "edit clear" ELSE "edit update"
  BY PostPostCallIs
<1> DEFINE r == [at |-> a, post |-> p, rating |-> g, friends_only |-> f]
<1>3. r \in PostEditCall /\ r.at = a /\ r.post = p /\ r.friends_only = f
  BY DEF PostEditCall
<1>4. /\ call' = [call EXCEPT ![c] = r]
      /\ UNCHANGED <<Posting!rows, follower, cached_posts, uncounted, untold>> /\ UNCHANGED <<kind, befriended, post, collection>>
  BY <1>1, <1>2, <1>3 DEF Posting!EditChoose, Posting!rows
<1> HIDE DEF r
<1>5. r \in PostRecord /\ PostGoing({c}, r)
  BY <1>3, <1>4, PostEditCallIs, PostSetGoing, PostTypeParts DEF PostIInv
<1>6. Posting!TypeOK' /\ PostCollected'
  BY <1>4, <1>5, PostTypeParts DEF PostIInv, PostTables, PostCaches, PostGoing, PostCollected
<1>7. PostKnown(r) /\ r.at # "notify" /\ ~PostRestricting(r)
  <2>1. post[p] # None
    BY <1>1, <1>2, PostExisting
  <2> QED
    BY <1>2, <1>3, <2>1 DEF PostKnown, PostRestricting
<1>8. PostAllKnown' /\ PostQuiet' /\ PostWelcomed'
  <2>1. UNCHANGED <<post, befriended, follower, untold>> /\ call[c].at # "remove clear"
    BY <1>1, <1>4
  <2> QED
    BY <1>5, <1>7, <2>1, PostToldStays
<1>9. PostCurrent' /\ PostFilling'
  <2>1. \A u, k : ~PostDues(call[c], u, k)
    BY <1>1 DEF PostDues
  <2>2. r.at # "fill"
    BY <1>2, <1>3
  <2> QED
    BY <1>4, <1>5, <2>1, <2>2, PostCountsGo
<1> QED
  BY <1>6, <1>8, <1>9 DEF PostIInv

LEMMA PostEditClearInv ==
    ASSUME Posting!ConstantsOK, PostIInv, NEW c \in Calls, Posting!EditClear(c)
    PROVE  PostIInv'
<1>1. PICK q \in PostEditCall : q = call[c] /\ q.at = "edit clear"
  BY PostKinds, PostTypeParts DEF PostIInv, Posting!EditClear, Posting!At
<1>2. PICK p \in PostIds : p = q.post
  BY PostEditCallIs
<1>3. PICK r \in PostEditCall : r = [q EXCEPT !.at = "edit update"] /\ r.at = "edit update" /\ r.post = p
  <2> DEFINE r == [q EXCEPT !.at = "edit update"]
  <2>1. r \in PostEditCall /\ r.at = "edit update" /\ r.post = p
    BY <1>2 DEF PostEditCall
  <2>2. r = [q EXCEPT !.at = "edit update"]
    OBVIOUS
  <2> HIDE DEF r
  <2> QED
    BY <2>1, <2>2
<1>4. /\ follower' = (IF kind[p] = "submission" /\ befriended THEN follower ELSE follower \ {p})
      /\ untold' = untold \cup Posting!Told(p) /\ call' = [call EXCEPT ![c] = r]
      /\ UNCHANGED <<Posting!rows, cached_posts, uncounted>> /\ UNCHANGED <<kind, befriended, post, collection>>
  BY <1>1, <1>2, <1>3 DEF Posting!EditClear, Posting!Goto, Posting!rows
<1>5. r \in PostRecord /\ PostGoing({c}, r)
  BY <1>4, PostEditCallIs, PostSetGoing, PostTypeParts DEF PostIInv
<1>6. Posting!TypeOK' /\ PostCollected'
  <2>1. PostCaches'
    BY <1>4, PostToldIs DEF PostIInv, Posting!TypeOK, PostCaches
  <2> QED
    BY <1>4, <1>5, <2>1, PostTypeParts DEF PostIInv, PostTables, PostGoing, PostCollected
<1>7. PostAllKnown' /\ PostQuiet'
  <2>1. PostKnown(r)'
    <3>1. post[p] # None
      BY <1>1, <1>2, PostExisting
    <3>2. PostRestricting(r) => p \notin follower'
      BY <1>4 DEF PostRestricting
    <3> QED
      BY <1>3, <1>4, <3>1, <3>2 DEF PostKnown, PostRestricting
  <2>2. ASSUME NEW d \in Calls \ {c}, NEW k \in PostIds, call[d].at = "notify", call[d].post = k, k \notin untold'
        PROVE  Posting!Visible(k)' /\ post'[k].friends_only = post[k].friends_only
    BY <1>4, <2>2 DEF PostIInv, PostAllKnown, PostKnown, Posting!Visible
  <2>3. \A d \in Calls : call[d].at = "notify" /\ call[d].post = p => p \in untold'
    BY <1>4, PostToldHas
  <2>4. follower' \subseteq follower
    BY <1>4
  <2> QED
    BY <1>3, <1>4, <1>5, <2>1, <2>2, <2>3, <2>4, PostCallsKnow
<1>8. PostWelcomed'
  <2>1. \A k : PostOpen(k)' = PostOpen(k)
    BY <1>4 DEF PostOpen, Posting!Visible
  <2>2. follower' \subseteq follower /\ call[c].at # "remove clear"
    BY <1>1, <1>4
  <2> QED
    BY <1>4, <1>5, <2>1, <2>2, PostWelcomeStays
<1>9. PostCurrent' /\ PostFilling'
  <2>1. \A u, k : ~PostDues(call[c], u, k)
    BY <1>1 DEF PostDues
  <2> QED
    BY <1>3, <1>4, <1>5, <2>1, PostCountsGo
<1> QED
  BY <1>6, <1>7, <1>8, <1>9 DEF PostIInv

LEMMA PostEditUpdateInv ==
    ASSUME Posting!ConstantsOK, PostIInv, NEW c \in Calls, Posting!EditUpdate(c)
    PROVE  PostIInv'
<1>1. PICK q \in PostEditCall : q = call[c] /\ q.at = "edit update" /\ PostKnown(q)
  BY PostKinds, PostTypeParts DEF PostIInv, PostAllKnown, Posting!EditUpdate, Posting!At
<1>2. PICK p \in PostIds, g \in Ratings, f \in BOOLEAN : p = q.post /\ g = q.rating /\ f = q.friends_only
  BY PostEditCallIs
<1>3. PICK t \in {"done", "find owners"} : t = Posting!CollectorsToo(p) /\ (kind[p] = "submission" => t = "find owners")
  BY DEF Posting!CollectorsToo
<1> DEFINE r == [at |-> "invalidate", users |-> {Owner}, then |-> t, post |-> p]
<1>4. r \in PostInvalidateCall /\ r.post = p /\ r.users = {Owner} /\ r.then = t
  BY DEF PostInvalidateCall, Posting!Users
<1>5. /\ post' = [post EXCEPT ![p].rating = g, ![p].friends_only = f] /\ untold' = untold \cup Posting!Told(p)
      /\ call' = [call EXCEPT ![c] = r] /\ UNCHANGED <<kind, befriended, collection, follower, cached_posts, uncounted>>
  BY <1>1, <1>2, <1>3 DEF Posting!EditUpdate, Posting!InvalidateNext
<1> HIDE DEF r
<1>6. r \in PostRecord /\ r.at = "invalidate"
  BY <1>4, PostInvalidateCallIs
<1>7. PostGoing({c}, r)
  BY <1>5, <1>6, PostSetGoing, PostTypeParts DEF PostIInv
<1>8. PICK e : PostAnew(p, e) /\ e.hidden = post[p].hidden /\ e.friends_only = f /\ post[p] # None
  <2>1. post[p] # None
    BY <1>1, <1>2, PostExisting
  <2>2. PICK w \in Posting!Rows : w = post[p]
    BY <2>1 DEF PostIInv, Posting!TypeOK
  <2> DEFINE e == [w EXCEPT !.rating = g, !.friends_only = f]
  <2>3. post' = [post EXCEPT ![p] = e] /\ e.hidden = w.hidden /\ e.friends_only = f
    BY <1>5, <2>2 DEF PostIInv, Posting!TypeOK, Posting!Rows
  <2>4. \E x \in Ratings, y \in BOOLEAN : e = [w EXCEPT !.rating = x, !.friends_only = y]
    OBVIOUS
  <2> HIDE DEF e
  <2>5. e \in Posting!Rows /\ e # None
    BY <2>4, PostRewritten
  <2> QED
    BY <2>1, <2>2, <2>3, <2>5 DEF PostAnew
<1>9. Posting!TypeOK' /\ PostCollected'
  <2>1. PostTables' /\ PostCollected'
    BY <1>5, <1>8, PostAnewIs
  <2>2. PostCaches'
    BY <1>5, PostToldIs DEF PostIInv, Posting!TypeOK, PostCaches
  <2> QED
    BY <1>7, <2>1, <2>2, PostTypeParts DEF PostGoing
<1>10. PostAllKnown' /\ PostQuiet'
  <2>1. r.at # "notify" /\ ~PostRestricting(r) /\ PostKnown(r)
    BY <1>6 DEF PostKnown, PostRestricting
  <2> QED
    BY <1>5, <1>6, <1>8, <2>1, PostChangeKnown
\* Of a post that is restricted there is no notification.
<1>11. PostWelcomed'
  <2>1. \A k \in PostIds \ {p} : PostOpen(k) => PostOpen(k)'
    BY <1>5, <1>8, PostAnewIs
  <2>2. p \in follower' \ untold' /\ PostOpen(p) => PostOpen(p)'
    <3>1. post'[p] = e /\ e # None
      BY <1>5, <1>8, PostAnewIs
    <3>2. p \in follower' \ untold' => ~f \/ befriended
      BY <1>1, <1>2, <1>5 DEF PostKnown, PostRestricting
    <3> QED
      BY <1>5, <1>8, <3>1, <3>2 DEF PostOpen, Posting!Visible
  <2>3. follower \subseteq PostIds /\ call[c].at # "remove clear"
    BY <1>1 DEF PostIInv, Posting!TypeOK
  <2>4. \A k \in follower' \ untold' : k \in follower /\ (PostOpen(k) => PostOpen(k)')
    BY <1>5, <2>1, <2>2, <2>3
  <2>5. untold \subseteq untold' /\ UNCHANGED befriended
    BY <1>5
  <2> QED
    BY <1>7, <2>3, <2>4, <2>5, PostWelcomeStays
<1>12. PostCurrent' /\ PostFilling'
  <2>1. p \in collection => t = "find owners"
    BY <1>3 DEF PostIInv, PostCollected
  <2>2. /\ PostDues(r, Owner, p) /\ \A u, k : ~PostDues(call[c], u, k)
        /\ p \in collection => PostDues(r, Collector, p)
    BY <1>1, <1>4, <1>6, <2>1 DEF PostDues
  <2>3. \A k \in PostIds \ {p} : post'[k] = post[k]
    BY <1>5, <1>8, PostAnewIs
  <2> QED
    BY <1>5, <1>6, <2>2, <2>3, PostPostChanges
<1> QED
  BY <1>9, <1>10, <1>11, <1>12 DEF PostIInv

LEMMA PostFindOwnersInv ==
    ASSUME Posting!ConstantsOK, PostIInv, NEW c \in Calls, Posting!FindOwners(c)
    PROVE  PostIInv'
<1>1. PICK q \in PostFindCall : q = call[c] /\ q.at = "find owners"
  BY PostKinds, PostTypeParts DEF PostIInv, Posting!FindOwners, Posting!At
<1>2. PICK p \in PostIds : p = q.post
  BY PostFindCallIs
<1>3. PICK U \in SUBSET Posting!Users : /\ U = q.users \cup (IF p \in collection THEN {Collector} ELSE {})
                                        /\ q.users \subseteq U /\ (p \in collection => Collector \in U)
  BY PostFindCallIs DEF Posting!Users
<1> DEFINE r == [at |-> "invalidate", users |-> U, then |-> "done", post |-> p]
<1>4. r \in PostInvalidateCall /\ r.post = p /\ r.users = U
  BY DEF PostInvalidateCall
<1>5. /\ call' = [call EXCEPT ![c] = r]
      /\ UNCHANGED <<Posting!rows, follower, cached_posts, uncounted, untold>> /\ UNCHANGED <<kind, befriended, post, collection>>
  BY <1>1, <1>2, <1>3 DEF Posting!FindOwners, Posting!InvalidateNext, Posting!rows
<1> HIDE DEF r
<1>6. r \in PostRecord /\ r.at = "invalidate"
  BY <1>4, PostInvalidateCallIs
<1>7. PostGoing({c}, r)
  BY <1>5, <1>6, PostSetGoing, PostTypeParts DEF PostIInv
<1>8. Posting!TypeOK' /\ PostCollected'
  BY <1>5, <1>7, PostTypeParts DEF PostIInv, PostTables, PostCaches, PostGoing, PostCollected
<1>9. PostAllKnown' /\ PostQuiet' /\ PostWelcomed'
  <2>1. PostKnown(r) /\ r.at # "notify" /\ ~PostRestricting(r)
    BY <1>6 DEF PostKnown, PostRestricting
  <2>2. UNCHANGED <<post, befriended, follower, untold>> /\ call[c].at # "remove clear"
    BY <1>1, <1>5
  <2> QED
    BY <1>6, <1>7, <2>1, <2>2, PostToldStays
<1>10. PostCurrent' /\ PostFilling'
  <2>1. ASSUME NEW u \in Posting!Users, NEW k \in PostIds, PostDues(call[c], u, k)
        PROVE  PostDues(r, u, k)
    BY <1>1, <1>2, <1>3, <1>4, <1>6, <2>1 DEF PostDues
  <2> QED
    BY <1>5, <1>6, <2>1, PostCountsGo
<1> QED
  BY <1>8, <1>9, <1>10 DEF PostIInv

LEMMA PostBulkHideInv ==
    ASSUME Posting!ConstantsOK, PostIInv, NEW c \in Calls, NEW p \in PostIds, NEW h \in BOOLEAN, Posting!BulkHide(c, p, h)
    PROVE  PostIInv'
<1>1. /\ post[p] # None /\ post' = [post EXCEPT ![p].hidden = h] /\ untold' = untold \cup {p} /\ call[c] = Posting!Idle
      /\ UNCHANGED <<kind, befriended, collection, follower, cached_posts, uncounted>>
  BY DEF Posting!BulkHide, Posting!Start
<1>2. PICK r \in PostRecord : /\ call' = [call EXCEPT ![c] = r] /\ r.at \in {"find owners", "invalidate"}
                              /\ PostDues(r, Owner, p) /\ (p \in collection => PostDues(r, Collector, p))
  <2>1. CASE kind[p] = "submission"
    <3> DEFINE r == [at |-> "find owners", post |-> p, users |-> {Owner}]
    <3>1. r \in PostFindCall /\ r.post = p /\ r.users = {Owner}
      BY DEF PostFindCall, Posting!Users
    <3>2. call' = [call EXCEPT ![c] = r]
      BY <2>1 DEF Posting!BulkHide, Posting!Start
    <3> HIDE DEF r
    <3>3. r \in PostRecord /\ r.at = "find owners"
      BY <3>1, PostFindCallIs
    <3> QED
      BY <3>1, <3>2, <3>3 DEF PostDues
  <2>2. CASE kind[p] # "submission"
    <3> DEFINE r == [at |-> "invalidate", users |-> {Owner}, then |-> "done", post |-> p]
    <3>1. r \in PostInvalidateCall /\ r.post = p /\ r.users = {Owner}
      BY DEF PostInvalidateCall, Posting!Users
    <3>2. call' = [call EXCEPT ![c] = r]
      BY <2>2 DEF Posting!BulkHide, Posting!Start, Posting!InvalidateNext
    <3> HIDE DEF r
    <3>3. r \in PostRecord /\ r.at = "invalidate"
      BY <3>1, PostInvalidateCallIs
    <3>4. p \notin collection
      BY <2>2 DEF PostIInv, PostCollected
    <3> QED
      BY <3>1, <3>2, <3>3, <3>4 DEF PostDues
  <2> QED
    BY <2>1, <2>2
<1>3. PostGoing({c}, r) /\ call[c].at = "idle"
  BY <1>1, <1>2, PostSetGoing, PostTypeParts, PostIdleIs DEF PostIInv
<1>4. PICK e : PostAnew(p, e)
  <2>1. PICK w \in Posting!Rows : w = post[p]
    BY <1>1 DEF PostIInv, Posting!TypeOK
  <2> DEFINE e == [w EXCEPT !.hidden = h]
  <2>2. post' = [post EXCEPT ![p] = e] /\ \E x \in BOOLEAN : e = [w EXCEPT !.hidden = x]
    BY <1>1, <2>1
  <2> HIDE DEF e
  <2> QED
    BY <2>2, PostRewritten DEF PostAnew
<1>5. Posting!TypeOK' /\ PostCollected'
  <2>1. PostTables' /\ PostCollected'
    BY <1>1, <1>4, PostAnewIs
  <2>2. PostCaches'
    BY <1>1 DEF PostIInv, Posting!TypeOK, PostCaches
  <2> QED
    BY <1>3, <2>1, <2>2, PostTypeParts DEF PostGoing
<1>6. PostAllKnown' /\ PostQuiet'
  <2>1. r.at # "notify" /\ ~PostRestricting(r) /\ PostKnown(r)
    BY <1>2 DEF PostKnown, PostRestricting
  <2>2. Posting!Told(p) \subseteq untold' /\ untold \subseteq untold'
    BY <1>1, PostToldIs
  <2> QED
    BY <1>1, <1>2, <1>4, <2>1, <2>2, PostChangeKnown
<1>7. PostWelcomed'
  <2>1. \A k \in PostIds \ {p} : PostOpen(k) => PostOpen(k)'
    BY <1>1, <1>4, PostAnewIs
  <2>2. follower \subseteq PostIds /\ call[c].at # "remove clear"
    BY <1>3 DEF PostIInv, Posting!TypeOK
  <2>3. \A k \in follower' \ untold' : k \in follower /\ (PostOpen(k) => PostOpen(k)')
    BY <1>1, <2>1, <2>2
  <2>4. untold \subseteq untold' /\ UNCHANGED befriended
    BY <1>1
  <2> QED
    BY <1>3, <2>2, <2>3, <2>4, PostWelcomeStays
<1>8. PostCurrent' /\ PostFilling'
  <2>1. \A u, k : ~PostDues(call[c], u, k)
    BY <1>3 DEF PostDues
  <2>2. \A k \in PostIds \ {p} : post'[k] = post[k]
    BY <1>1, <1>4, PostAnewIs
  <2>3. r.at # "fill"
    BY <1>2
  <2> QED
    BY <1>1, <1>2, <2>1, <2>2, <2>3, PostPostChanges
<1> QED
  BY <1>5, <1>6, <1>7, <1>8 DEF PostIInv
-----------------------------------------------------------------------------
\* What is said of the fills that an invalidation, or a change without one,
\* overtakes.
LEMMA PostOvertaken ==
    ASSUME NEW q \in PostFillCall
    PROVE  \E e \in PostRecord : e = [q EXCEPT !.late = TRUE] /\ e.at = "fill" /\ e.late
<1> DEFINE e == [q EXCEPT !.late = TRUE]
<1>1. e \in PostFillCall /\ e.at = "fill" /\ e.late
  BY DEF PostFillCall
<1>2. e = [q EXCEPT !.late = TRUE]
  OBVIOUS
<1> HIDE DEF e
<1> QED
  BY <1>1, <1>2, PostFillCallIs

LEMMA PostMissIs ==
    ASSUME NEW U, NEW M \in [Calls -> PostRecord], Posting!Miss(U, M)
    PROVE  /\ uncounted' = uncounted \cup U /\ call' \in [Calls -> PostRecord]
           /\ \A d \in Calls : IF M[d].at = "fill" /\ M[d].user \in U THEN call'[d].at = "fill" /\ call'[d].late
                               ELSE call'[d] = M[d]
<1>1. ASSUME NEW d \in Calls
      PROVE  /\ call'[d] \in PostRecord
             /\ IF M[d].at = "fill" /\ M[d].user \in U THEN call'[d].at = "fill" /\ call'[d].late
                ELSE call'[d] = M[d]
  <2>1. CASE M[d].at = "fill" /\ M[d].user \in U
    <3>1. PICK e \in PostRecord : e = [M[d] EXCEPT !.late = TRUE] /\ e.at = "fill" /\ e.late
      BY <2>1, PostKinds, PostOvertaken
    <3>2. call'[d] = e
      BY <2>1, <3>1 DEF Posting!Miss
    <3> QED
      BY <2>1, <3>1, <3>2
  <2>2. CASE ~(M[d].at = "fill" /\ M[d].user \in U)
    BY <2>2 DEF Posting!Miss
  <2> QED
    BY <2>1, <2>2
<1>2. call' = [d \in Calls |-> call'[d]]
  BY DEF Posting!Miss
<1>3. uncounted' = uncounted \cup U
  BY DEF Posting!Miss
<1> QED
  BY <1>1, <1>2, <1>3

\* The tables are as they were, and no invalidation of c was due.
LEMMA PostCallSettled ==
    ASSUME PostIInv, NEW c, NEW r, NEW u \in Posting!Users, NEW p \in PostIds, UNCHANGED <<kind, post, collection>>, ~PostDues(call[c], u, p)
    PROVE  PostSettled({c}, r, u, p)
<1>1. PostOf(Posting!Count(u), p)' = PostOf(Posting!Count(u), p) /\ (p \in collection => p \in collection')
  BY PostEntryStays DEF PostIInv, Posting!TypeOK
<1> QED
  BY <1>1 DEF PostSettled

\* Counts are of posts.
LEMMA PostCountCounted ==
    ASSUME PostIInv, NEW u \in Posting!Users
    PROVE  Posting!Count(u) \subseteq Posting!Counted /\ \A e \in Posting!Count(u) : e.post \in PostIds
<1>1. ASSUME NEW t \in Posting!PostKinds \cup {"collection"}, NEW p \in PostIds, Posting!Visible(p)
      PROVE  PostEntry(t, p) \in Posting!Counted
  <2>1. PICK w \in Posting!Rows : w = post[p]
    BY <1>1 DEF PostIInv, Posting!TypeOK, Posting!Visible
  <2> QED
    BY <2>1 DEF PostEntry, Posting!Counted, Posting!Rows
<1>2. collection \subseteq PostIds /\ \A p \in PostIds : kind[p] \in Posting!PostKinds
  BY DEF PostIInv, Posting!TypeOK
<1>3. Posting!Count(u) \subseteq Posting!Counted
  <2>1. CASE u = Owner
    BY <1>1, <1>2, <2>1, PostCountIs
  <2>2. CASE u # Owner
    <3>1. u = Collector /\ Collector # Owner
      BY <2>2 DEF Posting!Users
    <3> QED
      BY <1>1, <1>2, <3>1, PostCountIs
  <2> QED
    BY <2>1, <2>2
<1>4. \A e \in Posting!Counted : e.post \in PostIds
  BY DEF Posting!Counted
<1> QED
  BY <1>3, <1>4
-----------------------------------------------------------------------------
\* A bulk change of ratings excuses who has the post counted.
LEMMA PostBulkRateInv ==
    ASSUME Posting!ConstantsOK, PostIInv, NEW p \in PostIds, NEW g \in Ratings, Posting!BulkRate(p, g)
    PROVE  PostIInv'
<1> DEFINE U == {Owner} \cup (IF p \in collection THEN {Collector} ELSE {})
<1>1. U \in SUBSET Posting!Users /\ Owner \in U /\ (p \in collection => Collector \in U)
  BY DEF Posting!Users
<1>2. /\ post[p] # None /\ post' = [post EXCEPT ![p].rating = g] /\ Posting!Miss(U, call)
      /\ UNCHANGED <<kind, befriended, collection, follower, cached_posts, untold>>
  BY DEF Posting!BulkRate
<1> HIDE DEF U
<1>3. call \in [Calls -> PostRecord]
  BY PostTypeParts DEF PostIInv
<1>4. /\ uncounted' = uncounted \cup U /\ call' \in [Calls -> PostRecord]
      /\ \A d \in Calls : IF call[d].at = "fill" /\ call[d].user \in U THEN call'[d].at = "fill" /\ call'[d].late
                          ELSE call'[d] = call[d]
  BY <1>2, <1>3, PostMissIs
<1>5. PostGoing({}, Posting!Idle)
  BY <1>4, PostIdleIs DEF PostGoing, PostSame
<1>6. PICK e : PostAnew(p, e) /\ e.hidden = post[p].hidden /\ e.friends_only = post[p].friends_only
  <2>1. PICK w \in Posting!Rows : w = post[p]
    BY <1>2 DEF PostIInv, Posting!TypeOK
  <2> DEFINE e == [w EXCEPT !.rating = g]
  <2>2. post' = [post EXCEPT ![p] = e] /\ e.hidden = w.hidden /\ e.friends_only = w.friends_only
    BY <1>2, <2>1 DEF PostIInv, Posting!TypeOK, Posting!Rows
  <2>3. \E x \in Ratings : e = [w EXCEPT !.rating = x]
    OBVIOUS
  <2> HIDE DEF e
  <2>4. e \in Posting!Rows /\ e # None
    BY <2>3, PostRewritten
  <2> QED
    BY <2>1, <2>2, <2>4 DEF PostAnew
<1>7. /\ PostTables' /\ PostCollected' /\ post'[p] = e /\ e # None
      /\ \A k \in PostIds \ {p} : post'[k] = post[k]
      /\ \A k \in PostIds : post[k] # None => post'[k] # None
  BY <1>2, <1>6, PostAnewIs
<1>8. Posting!TypeOK'
  <2>1. PostCaches'
    BY <1>1, <1>2, <1>4 DEF PostIInv, Posting!TypeOK, PostCaches
  <2> QED
    BY <1>4, <1>7, <2>1, PostTypeParts
<1>9. \A k \in PostIds : Posting!Visible(k)' = Posting!Visible(k) /\ (post[k] # None => post'[k].friends_only = post[k].friends_only)
  BY <1>2, <1>6, <1>7 DEF Posting!Visible
<1>10. PostAllKnown' /\ PostQuiet'
  <2>1. PostKnown(Posting!Idle)'
    BY PostIdleIs DEF PostKnown, PostRestricting
  <2>2. ASSUME NEW d \in Calls \ {}, NEW k \in PostIds, call[d].at = "notify", call[d].post = k, k \notin untold'
        PROVE  Posting!Visible(k)' /\ post'[k].friends_only = post[k].friends_only
    <3>1. Posting!Visible(k) /\ post[k] # None
      BY <1>2, <2>2 DEF PostIInv, PostAllKnown, PostKnown
    <3> QED
      BY <1>9, <3>1
  <2>3. follower' = follower /\ untold' = untold /\ UNCHANGED befriended
    BY <1>2
  <2> QED
    BY <1>5, <1>7, <2>1, <2>2, <2>3, PostCallsKnow
<1>11. PostWelcomed'
  <2>1. \A k \in PostIds : PostOpen(k) => PostOpen(k)'
    BY <1>2, <1>9 DEF PostOpen, Posting!Visible
  <2>2. \A k \in follower' \ untold' : k \in follower /\ (PostOpen(k) => PostOpen(k)')
    BY <1>2, <2>1 DEF PostIInv, Posting!TypeOK
  <2>3. untold' = untold /\ UNCHANGED befriended
    BY <1>2
  <2> QED
    BY <1>5, <2>2, <2>3, PostWelcomeStays
<1>12. PostCurrent' /\ PostFilling'
  <2>1. ASSUME NEW u \in Posting!Users, u \in U
        PROVE  PostDropped(u)
    BY <1>4, <2>1 DEF PostDropped
  <2>2. ASSUME NEW u \in Posting!Users, u \notin U
        PROVE  PostKept({}, Posting!Idle, u)
    <3>1. u = Collector /\ Collector # Owner /\ p \notin collection
      BY <1>1, <2>2 DEF Posting!Users
    <3>2. ASSUME NEW k \in PostIds
          PROVE  PostSettled({}, Posting!Idle, u, k)
      <4>1. PostOf(Posting!Count(u), k)' = PostOf(Posting!Count(u), k)
        <5>1. CASE k = p
          BY <1>2, <3>1, <5>1, PostEntryNone DEF PostIInv, Posting!TypeOK
        <5>2. CASE k # p
          BY <1>2, <1>7, <5>2, PostEntryStays DEF PostIInv, Posting!TypeOK
        <5> QED
          BY <5>1, <5>2
      <4> QED
        BY <1>2, <4>1 DEF PostSettled
    <3> QED
      BY <1>2, <1>4, <3>2 DEF PostKept
  <2> QED
    BY <1>5, <2>1, <2>2, PostCountsStay
<1> QED
  BY <1>7, <1>8, <1>10, <1>11, <1>12 DEF PostIInv

\* Whoever accepts has their count invalidated; the collector is excused if the
\* owner does.
LEMMA PostCollectInv ==
    ASSUME Posting!ConstantsOK, PostIInv, NEW c \in Calls, NEW p \in PostIds, NEW by \in Posting!Users, Posting!Collect(c, p, by)
    PROVE  PostIInv'
<1> DEFINE r == [at |-> "invalidate", users |-> {by}, then |-> "done", post |-> p]
<1>1. r \in PostInvalidateCall /\ r.post = p /\ r.users = {by}
  BY DEF PostInvalidateCall
<1>2. r = Posting!InvalidateNext({by}, "done", p)
  BY DEF Posting!InvalidateNext
<1> HIDE DEF r
<1>3. r \in PostRecord /\ r.at = "invalidate"
  BY <1>1, PostInvalidateCallIs
<1> DEFINE M == [call EXCEPT ![c] = r]
<1>4. M \in [Calls -> PostRecord] /\ M[c] = r /\ \A d \in Calls \ {c} : M[d] = call[d]
  BY <1>3, PostTypeParts DEF PostIInv
<1>5. PICK U \in SUBSET Posting!Users : U = {Collector} \ {by}
  BY DEF Posting!Users
<1>6. /\ call[c] = Posting!Idle /\ kind[p] = "submission" /\ post[p] # None /\ collection' = collection \cup {p} /\ Posting!Miss(U, M)
      /\ UNCHANGED <<kind, befriended, post, follower, cached_posts, untold>>
  BY <1>2, <1>5 DEF Posting!Collect
<1> HIDE DEF M
<1>7. /\ uncounted' = uncounted \cup U /\ call' \in [Calls -> PostRecord]
      /\ \A d \in Calls : IF M[d].at = "fill" /\ M[d].user \in U THEN call'[d].at = "fill" /\ call'[d].late
                          ELSE call'[d] = M[d]
  BY <1>4, <1>6, PostMissIs
<1>8. PostGoing({c}, r) /\ call[c].at = "idle"
  <2>1. call'[c] = r
    BY <1>3, <1>4, <1>7
  <2>2. \A d \in Calls \ {c} : PostSame(d)
    BY <1>4, <1>7 DEF PostSame
  <2> QED
    BY <1>3, <1>6, <1>7, <2>1, <2>2, PostIdleIs DEF PostGoing
<1>9. Posting!TypeOK' /\ PostCollected'
  BY <1>6, <1>7, PostTypeParts DEF PostIInv, PostTables, PostCaches, PostCollected
<1>10. PostAllKnown' /\ PostQuiet' /\ PostWelcomed'
  <2>1. PostKnown(r) /\ r.at # "notify" /\ ~PostRestricting(r)
    BY <1>3 DEF PostKnown, PostRestricting
  <2>2. UNCHANGED <<post, befriended, follower, untold>> /\ call[c].at # "remove clear"
    BY <1>6, <1>8
  <2> QED
    BY <1>3, <1>8, <2>1, <2>2, PostToldStays
<1>11. PostCurrent' /\ PostFilling'
  <2>1. ASSUME NEW u \in Posting!Users, u \in U
        PROVE  PostDropped(u)
    <3>1. u \in uncounted'
      BY <1>7, <2>1
    <3>2. ASSUME NEW d \in Calls, call[d].at = "fill", call[d].user = u
          PROVE  call'[d].late
      <4>1. M[d] = call[d]
        BY <1>4, <1>8, <3>2
      <4> QED
        BY <1>7, <2>1, <3>2, <4>1
    <3> QED
      BY <3>1, <3>2 DEF PostDropped
  <2>2. ASSUME NEW u \in Posting!Users, u \notin U
        PROVE  PostKept({c}, r, u)
    <3>1. u = by \/ u = Owner
      BY <1>5, <2>2 DEF Posting!Users
    <3>2. ASSUME NEW k \in PostIds
          PROVE  PostSettled({c}, r, u, k)
      <4>1. CASE k = p /\ u = by
        BY <1>1, <1>3, <4>1 DEF PostSettled, PostDues
      <4>2. CASE k # p \/ u = Owner
        <5>1. PostOf(Posting!Count(u), k)' = PostOf(Posting!Count(u), k)
          BY <1>6, <4>2, PostEntryStays DEF PostIInv, Posting!TypeOK
        <5>2. \A d \in {c} : ~PostDues(call[d], u, k)
          BY <1>8 DEF PostDues
        <5> QED
          BY <1>6, <5>1, <5>2 DEF PostSettled
      <4> QED
        BY <3>1, <4>1, <4>2
    <3> QED
      BY <1>6, <1>7, <3>2 DEF PostKept
  <2>3. {c} # {} => r.at # "fill"
    BY <1>3
  <2> QED
    BY <1>8, <2>1, <2>2, <2>3, PostCountsStay
<1> QED
  BY <1>9, <1>10, <1>11 DEF PostIInv

LEMMA PostUncollectInv ==
    ASSUME Posting!ConstantsOK, PostIInv, NEW c \in Calls, NEW p \in PostIds, Posting!Uncollect(c, p)
    PROVE  PostIInv'
<1> DEFINE r == [at |-> "invalidate", users |-> {Collector}, then |-> "done", post |-> p]
<1>1. r \in PostInvalidateCall /\ r.post = p /\ r.users = {Collector}
  BY DEF PostInvalidateCall, Posting!Users
<1>2. /\ collection' = collection \ {p} /\ call[c] = Posting!Idle /\ call' = [call EXCEPT ![c] = r]
      /\ UNCHANGED <<kind, befriended, post, follower, cached_posts, uncounted, untold>>
  BY DEF Posting!Uncollect, Posting!Start, Posting!InvalidateNext
<1> HIDE DEF r
<1>3. r \in PostRecord /\ r.at = "invalidate"
  BY <1>1, PostInvalidateCallIs
<1>4. PostGoing({c}, r) /\ call[c].at = "idle"
  BY <1>2, <1>3, PostSetGoing, PostTypeParts, PostIdleIs DEF PostIInv
<1>5. Posting!TypeOK' /\ PostCollected'
  BY <1>2, <1>4, PostTypeParts DEF PostIInv, PostTables, PostCaches, PostCollected, PostGoing
<1>6. PostAllKnown' /\ PostQuiet' /\ PostWelcomed'
  <2>1. PostKnown(r) /\ r.at # "notify" /\ ~PostRestricting(r)
    BY <1>3 DEF PostKnown, PostRestricting
  <2>2. UNCHANGED <<post, befriended, follower, untold>> /\ call[c].at # "remove clear"
    BY <1>2, <1>4
  <2> QED
    BY <1>3, <1>4, <2>1, <2>2, PostToldStays
<1>7. PostCurrent' /\ PostFilling'
  <2>1. ASSUME NEW u \in Posting!Users, NEW k \in PostIds
        PROVE  PostSettled({c}, r, u, k)
    <3>1. CASE k = p /\ u = Collector
      BY <1>1, <1>3, <3>1 DEF PostSettled, PostDues
    <3>2. CASE k # p \/ u # Collector
      <4>1. PostOf(Posting!Count(u), k)' = PostOf(Posting!Count(u), k)
        BY <1>2, <3>2, PostEntryStays DEF PostIInv, Posting!TypeOK, Posting!Users
      <4>2. \A d \in {c} : ~PostDues(call[d], u, k)
        BY <1>4 DEF PostDues
      <4> QED
        BY <1>2, <3>2, <4>1, <4>2 DEF PostSettled
    <3> QED
      BY <3>1, <3>2
  <2>2. \A u \in Posting!Users : PostKept({c}, r, u)
    BY <1>2, <2>1 DEF PostKept
  <2>3. {c} # {} => r.at # "fill"
    BY <1>3
  <2> QED
    BY <1>4, <2>2, <2>3, PostCountsStay
<1> QED
  BY <1>5, <1>6, <1>7 DEF PostIInv

LEMMA PostReadInv ==
    ASSUME Posting!ConstantsOK, PostIInv, NEW c \in Calls, NEW u \in Posting!Users, Posting!Read(c, u)
    PROVE  PostIInv'
<1>1. PICK S \in SUBSET Posting!Counted : S = Posting!Count(u)
  BY PostCountCounted
<1> DEFINE r == [at |-> "fill", user |-> u, value |-> S, late |-> FALSE]
<1>2. r \in PostFillCall /\ r.user = u /\ r.value = S
  BY DEF PostFillCall
<1>3. /\ call[c] = Posting!Idle /\ call' = [call EXCEPT ![c] = r] /\ UNCHANGED <<kind, befriended, post, collection>>
      /\ UNCHANGED <<follower, cached_posts, uncounted, untold>>
  BY <1>1 DEF Posting!Read, Posting!Start, Posting!rows
<1> HIDE DEF r
<1>4. r \in PostRecord /\ r.at = "fill"
  BY <1>2, PostFillCallIs
<1>5. PostGoing({c}, r) /\ call[c].at = "idle" /\ call'[c] = r /\ \A d \in Calls \ {c} : call'[d] = call[d]
  BY <1>3, <1>4, PostSetGoing, PostTypeParts, PostIdleIs DEF PostIInv, PostGoing
<1>6. Posting!TypeOK' /\ PostCollected'
  BY <1>3, <1>5, PostTypeParts DEF PostIInv, PostTables, PostCaches, PostCollected, PostGoing
<1>7. PostAllKnown' /\ PostQuiet' /\ PostWelcomed'
  <2>1. PostKnown(r) /\ r.at # "notify" /\ ~PostRestricting(r)
    BY <1>4 DEF PostKnown, PostRestricting
  <2>2. UNCHANGED <<post, befriended, follower, untold>> /\ call[c].at # "remove clear"
    BY <1>3, <1>5
  <2> QED
    BY <1>4, <1>5, <2>1, <2>2, PostToldStays
<1>8. ASSUME NEW v \in Posting!Users
      PROVE  \A p \in PostIds : PostSettled({c}, r, v, p)
  <2>1. \A p \in PostIds : ~PostDues(call[c], v, p)
    BY <1>5 DEF PostDues
  <2> QED
    BY <1>3, <2>1, PostCallSettled
<1>9. PostCurrent'
  <2> SUFFICES ASSUME NEW v \in Posting!Users, NEW T, T = cached_posts'[v], v \notin uncounted', T # None
               PROVE  PostRight(v, T)'
    BY DEF PostCurrent, PostRight, PostOf, PostDue, PostDues
  <2>1. PostRight(v, T)
    BY <1>3 DEF PostIInv, PostCurrent
  <2> QED
    BY <1>5, <1>8, <2>1, PostRightStays
<1>10. PostFilling'
  <2> SUFFICES ASSUME NEW d \in Calls, NEW q, q = call'[d], q.at = "fill", ~q.late
               PROVE  PostRight(q.user, q.value)'
    BY DEF PostFilling, PostRight, PostOf
  <2>1. PICK v \in Posting!Users, T \in SUBSET Posting!Counted : v = q.user /\ T = q.value /\ PostRight(v, T)
    <3>1. CASE d = c
      <4>1. PostRight(u, S)
        BY <1>1 DEF PostRight
      <4> QED
        BY <1>2, <1>5, <3>1, <4>1
    <3>2. CASE d # c
      <4>1. q = call[d]
        BY <1>5, <3>2
      <4>2. q.user \in Posting!Users /\ q.value \in SUBSET Posting!Counted
        BY <4>1, PostKinds, PostFillCallIs, PostTypeParts DEF PostIInv
      <4>3. PostRight(q.user, q.value)
        BY <4>1 DEF PostIInv, PostFilling
      <4> QED
        BY <4>2, <4>3
    <3> QED
      BY <3>1, <3>2
  <2>2. PostRight(v, T)'
    BY <1>5, <1>8, <2>1, PostRightStays
  <2> QED
    BY <2>1, <2>2 DEF PostRight, PostOf
<1> QED
  BY <1>6, <1>7, <1>9, <1>10 DEF PostIInv

LEMMA PostFillInv ==
    ASSUME Posting!ConstantsOK, PostIInv, NEW c \in Calls, Posting!Fill(c)
    PROVE  PostIInv'
<1>1. PICK q \in PostFillCall : q = call[c] /\ q.at = "fill"
  BY PostKinds, PostTypeParts DEF PostIInv, Posting!Fill, Posting!At
<1>2. PICK v \in Posting!Users, S \in SUBSET Posting!Counted : v = q.user /\ S = q.value /\ (~q.late => PostRight(v, S))
  <2>1. q.user \in Posting!Users /\ q.value \in SUBSET Posting!Counted
    BY PostFillCallIs
  <2>2. ~q.late => PostRight(q.user, q.value)
    BY <1>1 DEF PostIInv, PostFilling
  <2> QED
    BY <2>1, <2>2
<1>3. /\ cached_posts' = [cached_posts EXCEPT ![v] = S] /\ call' = [call EXCEPT ![c] = Posting!Idle]
      /\ uncounted' = (IF q.late THEN uncounted \cup {v} ELSE uncounted \ {v})
      /\ UNCHANGED <<kind, befriended, post, collection>> /\ UNCHANGED <<follower, untold>>
  BY <1>1, <1>2 DEF Posting!Fill, Posting!End, Posting!rows
<1>4. PostGoing({c}, Posting!Idle) /\ call'[c] = Posting!Idle /\ \A d \in Calls \ {c} : call'[d] = call[d]
  BY <1>3, PostSetGoing, PostTypeParts, PostIdleIs DEF PostIInv, PostGoing
<1>5. Posting!TypeOK' /\ PostCollected'
  BY <1>3, <1>4, PostTypeParts DEF PostIInv, PostTables, PostCaches, PostCollected, PostGoing
<1>6. PostAllKnown' /\ PostQuiet' /\ PostWelcomed'
  <2>1. PostKnown(Posting!Idle) /\ Posting!Idle.at # "notify" /\ ~PostRestricting(Posting!Idle) /\ Posting!Idle \in PostRecord
    BY PostIdleIs DEF PostKnown, PostRestricting
  <2>2. UNCHANGED <<post, befriended, follower, untold>> /\ call[c].at # "remove clear"
    BY <1>1, <1>3
  <2> QED
    BY <1>4, <2>1, <2>2, PostToldStays
<1>7. ASSUME NEW u \in Posting!Users
      PROVE  \A p \in PostIds : PostSettled({c}, Posting!Idle, u, p)
  <2>1. \A p \in PostIds : ~PostDues(call[c], u, p)
    BY <1>1 DEF PostDues
  <2> QED
    BY <1>3, <2>1, PostCallSettled
<1>8. PostCurrent'
  <2> SUFFICES ASSUME NEW u \in Posting!Users, NEW T, T = cached_posts'[u], u \notin uncounted', T # None
               PROVE  PostRight(u, T)'
    BY DEF PostCurrent, PostRight, PostOf, PostDue, PostDues
  <2>1. PostRight(u, T)
    <3>1. CASE u = v
      <4>1. T = S /\ ~q.late
        BY <1>3, <3>1 DEF PostIInv, Posting!TypeOK
      <4> QED
        BY <1>2, <3>1, <4>1
    <3>2. CASE u # v
      <4>1. T = cached_posts[u] /\ u \notin uncounted
        BY <1>3, <3>2 DEF PostIInv, Posting!TypeOK
      <4> QED
        BY <4>1 DEF PostIInv, PostCurrent
    <3> QED
      BY <3>1, <3>2
  <2> QED
    BY <1>4, <1>7, <2>1, PostRightStays
<1>9. PostFilling'
  <2> SUFFICES ASSUME NEW d \in Calls, NEW x, x = call'[d], x.at = "fill", ~x.late
               PROVE  PostRight(x.user, x.value)'
    BY DEF PostFilling, PostRight, PostOf
  <2>1. x = call[d]
    BY <1>4, PostIdleIs
  <2>2. PICK u \in Posting!Users, T \in SUBSET Posting!Counted : u = x.user /\ T = x.value
    BY <2>1, PostKinds, PostFillCallIs, PostTypeParts DEF PostIInv
  <2>3. PostRight(u, T)
    BY <2>1, <2>2 DEF PostIInv, PostFilling
  <2>4. PostRight(u, T)'
    BY <1>4, <1>7, <2>3, PostRightStays
  <2> QED
    BY <2>2, <2>4 DEF PostRight, PostOf
<1> QED
  BY <1>5, <1>6, <1>8, <1>9 DEF PostIInv

LEMMA PostInvalidateInv ==
    ASSUME Posting!ConstantsOK, PostIInv, NEW c \in Calls, Posting!Invalidate(c)
    PROVE  PostIInv'
<1>1. PICK q \in PostInvalidateCall : q = call[c] /\ q.at = "invalidate"
  BY PostKinds, PostTypeParts DEF PostIInv, Posting!Invalidate, Posting!At
<1>2. PICK U \in SUBSET Posting!Users, p \in PostIds : U = q.users /\ p = q.post
  BY PostInvalidateCallIs
<1>3. PICK r \in PostRecord : /\ r = IF q.then = "done" THEN Posting!Idle ELSE [at |-> "find owners", post |-> p, users |-> {}]
                              /\ r.at \in {"idle", "find owners"}
                              /\ q.then = "find owners" => r.at = "find owners" /\ r.post = p
  <2>1. CASE q.then = "done"
    BY <2>1, PostIdleIs
  <2>2. CASE q.then # "done"
    <3> DEFINE r == [at |-> "find owners", post |-> p, users |-> {}]
    <3>1. r \in PostFindCall /\ r.at = "find owners" /\ r.post = p
      BY DEF PostFindCall
    <3>2. r = [at |-> "find owners", post |-> p, users |-> {}]
      OBVIOUS
    <3> HIDE DEF r
    <3> QED
      BY <2>2, <3>1, <3>2, PostFindCallIs
  <2> QED
    BY <2>1, <2>2
<1>4. /\ cached_posts' = [u \in Posting!Users |-> IF u \in U THEN None ELSE cached_posts[u]] /\ uncounted' = uncounted \ U
      /\ call' = [d \in Calls |-> IF d = c THEN r
                                  ELSE IF Posting!At(d, "fill") /\ call[d].user \in U THEN [call[d] EXCEPT !.late = TRUE]
                                  ELSE call[d]]
      /\ UNCHANGED <<kind, befriended, post, collection>> /\ UNCHANGED <<follower, untold>>
  BY <1>1, <1>2, <1>3 DEF Posting!Invalidate, Posting!rows
<1>5. ASSUME NEW d \in Calls
      PROVE  /\ call'[d] \in PostRecord
             /\ IF d = c THEN call'[d] = r
                ELSE IF call[d].at = "fill" /\ call[d].user \in U THEN call'[d].at = "fill" /\ call'[d].late
                ELSE call'[d] = call[d]
  <2>1. call[d] \in PostRecord
    BY PostTypeParts DEF PostIInv
  <2>2. CASE d = c
    BY <1>4, <2>2
  <2>3. CASE d # c /\ call[d].at = "fill" /\ call[d].user \in U
    <3>1. PICK e \in PostRecord : e = [call[d] EXCEPT !.late = TRUE] /\ e.at = "fill" /\ e.late
      BY <2>1, <2>3, PostKinds, PostOvertaken
    <3>2. call'[d] = e
      BY <1>4, <2>3, <3>1 DEF Posting!At
    <3> QED
      BY <2>3, <3>1, <3>2
  <2>4. CASE d # c /\ ~(call[d].at = "fill" /\ call[d].user \in U)
    BY <1>4, <2>1, <2>4 DEF Posting!At
  <2> QED
    BY <2>2, <2>3, <2>4
<1>6. call' \in [Calls -> PostRecord]
  BY <1>4, <1>5
<1>7. PostGoing({c}, r)
  BY <1>5, <1>6 DEF PostGoing, PostSame
<1>8. Posting!TypeOK' /\ PostCollected'
  BY <1>4, <1>6, PostTypeParts DEF PostIInv, PostTables, PostCaches, PostCollected
<1>9. PostAllKnown' /\ PostQuiet' /\ PostWelcomed'
  <2>1. PostKnown(r) /\ r.at # "notify" /\ ~PostRestricting(r)
    BY <1>3 DEF PostKnown, PostRestricting
  <2>2. UNCHANGED <<post, befriended, follower, untold>> /\ call[c].at # "remove clear"
    BY <1>1, <1>4
  <2> QED
    BY <1>7, <2>1, <2>2, PostToldStays
\* Whoever it does not invalidate has the same count, but a collector that is
\* still to be found.
<1>10. PostCurrent' /\ PostFilling'
  <2>1. ASSUME NEW u \in Posting!Users, u \in U
        PROVE  PostDropped(u)
    <3>1. cached_posts'[u] = None
      BY <1>4, <2>1
    <3>2. \A d \in Calls : call[d].at = "fill" /\ call[d].user = u => call'[d].late
      BY <1>1, <1>5, <2>1
    <3> QED
      BY <3>1, <3>2 DEF PostDropped
  <2>2. ASSUME NEW u \in Posting!Users, u \notin U
        PROVE  PostKept({c}, r, u)
    <3>1. ASSUME NEW k \in PostIds
          PROVE  PostSettled({c}, r, u, k)
      <4>1. CASE PostDues(q, u, k)
        <5>1. u = Collector /\ k \in collection /\ q.then = "find owners" /\ k = p
          BY <1>1, <1>2, <2>2, <4>1 DEF PostDues
        <5>2. PostDues(r, u, k)'
          BY <1>3, <1>4, <5>1 DEF PostDues
        <5> QED
          BY <5>2 DEF PostSettled
      <4>2. CASE ~PostDues(q, u, k)
        BY <1>1, <1>4, <4>2, PostCallSettled
      <4> QED
        BY <4>1, <4>2
    <3>2. cached_posts'[u] = cached_posts[u] /\ (u \in uncounted => u \in uncounted')
      BY <1>4, <2>2
    <3> QED
      BY <3>1, <3>2 DEF PostKept
  <2>3. {c} # {} => r.at # "fill"
    BY <1>3
  <2> QED
    BY <1>7, <2>1, <2>2, <2>3, PostCountsStay
<1> QED
  BY <1>8, <1>9, <1>10 DEF PostIInv
-----------------------------------------------------------------------------
LEMMA PostInitInv == Posting!Init => PostIInv
<1> SUFFICES ASSUME Posting!Init PROVE PostIInv
  OBVIOUS
<1>1. /\ post = [p \in PostIds |-> None] /\ collection = {} /\ follower = {} /\ cached_posts = [u \in Posting!Users |-> None]
      /\ uncounted = {} /\ untold = {} /\ kind \in [PostIds -> Posting!PostKinds] /\ befriended \in BOOLEAN
  BY DEF Posting!Init
<1>2. call = [c \in Calls |-> Posting!Idle]
  BY DEF Posting!Init, Posting!AllIdle
<1>3. Posting!TypeOK
  BY <1>1, <1>2 DEF Posting!TypeOK
<1>4. PostAllKnown /\ PostQuiet /\ PostFilling
  BY <1>2, PostIdleIs DEF PostAllKnown, PostKnown, PostQuiet, PostRestricting, PostFilling
<1>5. PostCollected /\ PostWelcomed /\ PostCurrent
  BY <1>1 DEF PostCollected, PostWelcomed, PostCurrent
<1> QED
  BY <1>3, <1>4, <1>5 DEF PostIInv

LEMMA PostNextInv ==
    ASSUME Posting!ConstantsOK, PostIInv, (Posting!Next \/ UNCHANGED Posting!vars)
    PROVE  PostIInv'
<1>1. CASE UNCHANGED Posting!vars
  <2>1. /\ UNCHANGED <<kind, befriended, post, collection>> /\ UNCHANGED <<follower, cached_posts, uncounted, untold>>
        /\ UNCHANGED call
    BY <1>1 DEF Posting!vars, Posting!rows
  <2>2. Posting!TypeOK' /\ PostCollected'
    BY <2>1, PostTypeParts DEF PostIInv, PostTables, PostCaches, PostCollected
  <2>3. PostGoing({}, Posting!Idle)
    BY <2>1, PostIdleIs, PostTypeParts DEF PostIInv, PostGoing, PostSame
  <2>4. PostAllKnown' /\ PostQuiet'
    BY <2>1 DEF PostIInv, PostAllKnown, PostKnown, PostQuiet, PostRestricting, Posting!Visible
  <2>5. PostWelcomed'
    BY <2>1 DEF PostIInv, PostWelcomed, PostOpen, Posting!Visible, PostRemoving
  <2>6. PostCurrent' /\ PostFilling'
    <3>1. ASSUME NEW u \in Posting!Users
          PROVE  PostKept({}, Posting!Idle, u)
      <4>1. \A p \in PostIds : PostOf(Posting!Count(u), p)' = PostOf(Posting!Count(u), p)
        BY <2>1, PostEntryStays DEF PostIInv, Posting!TypeOK
      <4>2. \A p \in PostIds : PostSettled({}, Posting!Idle, u, p)
        BY <2>1, <4>1 DEF PostSettled
      <4> QED
        BY <2>1, <4>2 DEF PostKept
    <3> QED
      BY <2>3, <3>1, PostCountsStay
  <2> QED
    BY <2>2, <2>4, <2>5, <2>6 DEF PostIInv
<1>2. CASE \E p \in PostIds, g \in Ratings : Posting!BulkRate(p, g)
  BY <1>2, PostBulkRateInv, Zenon
<1>3. CASE Posting!Next /\ ~\E p \in PostIds, g \in Ratings : Posting!BulkRate(p, g)
  <2>1. PICK c \in Calls :
            \/ \E p \in PostIds, g \in Ratings, f \in BOOLEAN : Posting!Create(c, p, g, f)
            \/ \E p \in PostIds : Posting!Remove(c, p) \/ Posting!EditCheck(c, p) \/ Posting!Uncollect(c, p)
            \/ Posting!CreateNotify(c) \/ Posting!RemoveClear(c) \/ Posting!EditClear(c) \/ Posting!EditUpdate(c) \/ Posting!FindOwners(c) \/ Posting!Fill(c)
            \/ Posting!Invalidate(c)
            \/ \E g \in Ratings, f \in BOOLEAN : Posting!EditChoose(c, g, f)
            \/ \E p \in PostIds, h \in BOOLEAN : Posting!BulkHide(c, p, h)
            \/ \E p \in PostIds, by \in Posting!Users : Posting!Collect(c, p, by)
            \/ \E u \in Posting!Users : Posting!Read(c, u)
    BY <1>3, Zenon DEF Posting!Next
  <2>2. CASE \E p \in PostIds, g \in Ratings, f \in BOOLEAN : Posting!Create(c, p, g, f)
    BY <2>2, PostCreateInv, Zenon
  <2>3. CASE \E p \in PostIds : Posting!Remove(c, p) \/ Posting!EditCheck(c, p) \/ Posting!Uncollect(c, p)
    BY <2>3, PostRemoveInv, PostEditCheckInv, PostUncollectInv, Zenon
  <2>4. CASE Posting!CreateNotify(c) \/ Posting!RemoveClear(c) \/ Posting!EditClear(c) \/ Posting!EditUpdate(c)
    BY <2>4, PostCreateNotifyInv, PostRemoveClearInv, PostEditClearInv, PostEditUpdateInv, Zenon
  <2>5. CASE Posting!FindOwners(c) \/ Posting!Fill(c) \/ Posting!Invalidate(c)
    BY <2>5, PostFindOwnersInv, PostFillInv, PostInvalidateInv, Zenon
  <2>6. CASE \E g \in Ratings, f \in BOOLEAN : Posting!EditChoose(c, g, f)
    BY <2>6, PostEditChooseInv, Zenon
  <2>7. CASE \E p \in PostIds, h \in BOOLEAN : Posting!BulkHide(c, p, h)
    BY <2>7, PostBulkHideInv, Zenon
  <2>8. CASE \E p \in PostIds, by \in Posting!Users : Posting!Collect(c, p, by)
    BY <2>8, PostCollectInv, Zenon
  <2>9. CASE \E u \in Posting!Users : Posting!Read(c, u)
    BY <2>9, PostReadInv, Zenon
  <2> QED
    BY <2>1, <2>2, <2>3, <2>4, <2>5, <2>6, <2>7, <2>8, <2>9, Zenon
<1> QED
  BY <1>1, <1>2, <1>3

LEMMA PostPromises ==
    ASSUME Posting!ConstantsOK, PostIInv
    PROVE  Posting!CountsAreCurrent /\ Posting!ToldOfWhatIsShown
<1>1. Posting!CountsAreCurrent
  <2> SUFFICES ASSUME NEW u \in Posting!Users \ uncounted, NEW S, S = cached_posts[u], S # None, ~Posting!Pending(u)
               PROVE  S = Posting!Count(u)
    BY DEF Posting!CountsAreCurrent
  <2>1. \A p \in PostIds : ~PostDue(u, p)
    BY DEF PostDue, PostDues, Posting!Pending, Posting!At
  <2>2. \A p \in PostIds : PostOf(S, p) = PostOf(Posting!Count(u), p)
    BY <2>1 DEF PostIInv, PostCurrent, PostRight
  <2>3. \A e \in S : e.post \in PostIds
    BY DEF PostIInv, Posting!TypeOK, Posting!Counted
  <2>4. \A e \in Posting!Count(u) : e.post \in PostIds
    BY PostCountCounted
  <2>5. \A e : e \in S => e \in Posting!Count(u)
    BY <2>2, <2>3 DEF PostOf
  <2>6. \A e : e \in Posting!Count(u) => e \in S
    BY <2>2, <2>4 DEF PostOf
  <2>7. \A e : e \in S <=> e \in Posting!Count(u)
    BY <2>5, <2>6
  <2>8. S \in SUBSET Posting!Counted
    BY DEF PostIInv, Posting!TypeOK
  <2> QED
    BY <2>7, <2>8
<1>2. Posting!ToldOfWhatIsShown
  <2> SUFFICES ASSUME NEW p \in follower \ untold, ~PostOpen(p)
               PROVE  \E c \in Posting!About(p) : Posting!At(c, "remove clear")
    BY DEF Posting!ToldOfWhatIsShown, PostOpen
  <2>1. PICK c \in Calls : call[c].at = "remove clear" /\ call[c].post = p
    BY DEF PostIInv, PostWelcomed, PostRemoving
  <2>2. "post" \in DOMAIN call[c]
    BY <2>1, PostKinds, PostPostCallIs, PostTypeParts DEF PostIInv
  <2> QED
    BY <2>1, <2>2 DEF Posting!About, Posting!At
<1> QED
  BY <1>1, <1>2
-----------------------------------------------------------------------------
\* While the part moves it has its invariant; and so it has in every state.
PostHold == part = "posts" => PostIInv

LEMMA PostAreHeld == AccountsSpec => []PostHold
<1>1. AccountsInit => PostHold
  BY PostInitInv, AccountsAssumption DEF AccountsInit, PostHold
<1>2. PostHold /\ [AccountsNext]_all_accounts_vars => PostHold'
  <2> SUFFICES ASSUME PostHold, [AccountsNext]_all_accounts_vars, part' = "posts" PROVE PostIInv'
    BY DEF PostHold
  <2>1. part = "posts" /\ PostIInv
    BY PartStays DEF PostHold
  <2>2. Posting!Next \/ UNCHANGED <<posts_vars, call>>
    BY <2>1 DEF AccountsNext, all_accounts_vars
  <2>3. UNCHANGED <<posts_vars, call>> => UNCHANGED Posting!vars
    BY DEF posts_vars, Posting!vars, Posting!rows
  <2> QED
    BY <2>1, <2>2, <2>3, PostNextInv, AccountsAssumption
<1> QED
  BY <1>1, <1>2, PTL DEF AccountsSpec

\* create, remove and edit of submission.py, journal.py and character.py, the
\* bulk edits of moderation.py, and collections as they change a count: a cached
\* count (define.cached_posts_count) is what the tables say once no call is to
\* invalidate it, but for one that missed a change, and the follower is told of
\* posts they can see, but for those that calls overlapped on.
THEOREM CountsStayCurrent == AccountsSpec => []PostsAreCounted
<1>1. PostHold => PostsAreCounted
  BY PostPromises, AccountsAssumption DEF PostHold, PostsAreCounted
<1> QED
  BY <1>1, PostAreHeld, PTL
-----------------------------------------------------------------------------
LEMMA ReadNumbers ==
    /\ IsFiniteSet(RowIds) /\ RowIds \subseteq Nat /\ Keys \subseteq Nat
    /\ \A n \in Limits : n \in Nat /\ n >= 1
    /\ None \notin RowIds /\ None \notin Keys
  BY AccountsAssumption DEF Paginating!ConstantsOK, Paginating!IsFiniteSet, IsFiniteSet

LEMMA ReadCounting == \A S : Paginating!Cardinality(S) = Cardinality(S)
  BY DEF Paginating!Cardinality, Cardinality

LEMMA ReadOneToOne == \A s : Paginating!IsInjective(s) <=> \A a, b \in DOMAIN s : s[a] = s[b] => a = b
  BY DEF Paginating!IsInjective

LEMMA ReadListedIs ==
  ASSUME ReadTables
  PROVE  /\ Paginating!Listed \subseteq RowIds /\ IsFiniteSet(Paginating!Listed)
         /\ \A i \in Paginating!Listed : key[i] \in Keys /\ key[i] \in Nat /\ key[i] # None /\ i \in Nat
<1>1. Paginating!Listed \subseteq RowIds
  BY DEF ReadTables, Paginating!Listed
<1>2. IsFiniteSet(Paginating!Listed)
  BY <1>1, ReadNumbers, FS_Subset
<1> QED
  BY <1>1, <1>2, ReadNumbers DEF ReadTables, Paginating!Listed

LEMMA ReadBeyondIs ==
  ASSUME ReadTables, NEW k \in Nat
  PROVE  /\ k # None =>
              /\ \A i : i \in Paginating!Beyond("back", k) <=> i \in Paginating!Listed /\ key[i] > k
              /\ \A i : i \in Paginating!Beyond("next", k) <=> i \in Paginating!Listed /\ key[i] < k
  BY DEF Paginating!Beyond

LEMMA ReadClosestIs ==
  ASSUME NEW way, NEW S, IsFiniteSet(S), NEW n \in Nat, NEW r \in Paginating!Closest(way, S, n)
  PROVE  ReadFetched(way, S, n, r)
<1> DEFINE c == Cardinality(S)
           m == IF c < n THEN c ELSE n
<1>1. c \in Nat /\ m \in Nat /\ m <= n
  BY FS_CardinalityType
<1>2. /\ r \in [1 .. m -> S] /\ Paginating!IsInjective(r)
      /\ \A a \in 1 .. m : \A b \in a + 1 .. m : Paginating!Before(way, r[a], r[b])
      /\ \A a \in 1 .. m : \A i \in S \ {r[b] : b \in 1 .. m} : Paginating!Before(way, r[a], i)
  <2> HIDE DEF m
  <2>1. r \in {s \in [1 .. m -> S] :
            /\ Paginating!IsInjective(s)
            /\ \A a \in 1 .. m : /\ \A b \in a + 1 .. m : Paginating!Before(way, s[a], s[b])
                                 /\ \A i \in S \ {s[b] : b \in 1 .. m} : Paginating!Before(way, s[a], i)}
    BY ReadCounting DEF Paginating!Closest, m
  <2> QED
    BY <2>1
<1> HIDE DEF m, c
<1>3. r \in Seq(S) /\ Len(r) = m /\ DOMAIN r = 1 .. m
  BY <1>1, <1>2
<1>4. ReadDiffer(r)
  BY <1>2, <1>3, ReadOneToOne DEF ReadDiffer
<1>5. \A a, b \in 1 .. Len(r) : a < b => Paginating!Before(way, r[a], r[b])
  <2> SUFFICES ASSUME NEW a \in 1 .. m, NEW b \in 1 .. m, a < b PROVE Paginating!Before(way, r[a], r[b])
    BY <1>3
  <2>1. b \in a + 1 .. m
    BY <1>1
  <2> QED
    BY <2>1, <1>2
<1>6. \A i \in S \ ReadOn(r) : \A a \in 1 .. Len(r) : Paginating!Before(way, r[a], i)
  BY <1>2, <1>3 DEF ReadOn
<1>7. ASSUME m # n PROVE S \subseteq ReadOn(r)
  <2>1. m = c
    BY <1>1, <1>7 DEF m
  <2>2. r \in Injection(1 .. m, S)
    <3>1. \A a, b \in 1 .. m : r[a] = r[b] => a = b
      BY <1>3, <1>4 DEF ReadDiffer
    <3> QED
      BY <1>2, <3>1 DEF Injection, IsInjective
  <2>3. Cardinality(1 .. m) = m
    BY <1>1, FS_Interval
  <2>4. r \in Surjection(1 .. m, S)
    BY <2>1, <2>2, <2>3, FS_Injection DEF c
  <2>5. \A i \in S : \E a \in 1 .. m : r[a] = i
    BY <2>4 DEF Surjection
  <2> QED
    BY <2>5, <1>3 DEF ReadOn
<1> QED
  BY <1>1, <1>3, <1>4, <1>5, <1>6, <1>7 DEF ReadFetched
-----------------------------------------------------------------------------
LEMMA ReadEmpty == \A S : \A s \in Seq(S) : s = <<>> <=> Len(s) = 0
  OBVIOUS

LEMMA ReadMirror == \A n \in Nat : \A a \in 1 .. n : \E c \in 1 .. n : c = n + 1 - a /\ n + 1 - c = a
<1> SUFFICES ASSUME NEW n \in Nat, NEW a \in 1 .. n
             PROVE  n + 1 - a \in 1 .. n /\ n + 1 - (n + 1 - a) = a
  OBVIOUS
<1> QED
  OBVIOUS

LEMMA ReadOnIs == \A S : \A s \in Seq(S) : /\ ReadOn(s) \subseteq S
                                           /\ \A i : i \in ReadOn(s) <=> \E a \in 1 .. Len(s) : s[a] = i
  BY DEF ReadOn

LEMMA ReadCutIs ==
  ASSUME NEW S, NEW s \in Seq(S), NEW m \in Nat, NEW n \in Nat, 1 <= m, m <= n, n <= Len(s)
  PROVE  /\ SubSeq(s, m, n) \in Seq(S) /\ Len(SubSeq(s, m, n)) = n - m + 1
         /\ \A a \in 1 .. n - m + 1 : SubSeq(s, m, n)[a] = s[m + a - 1]
<1>1. \A i \in m .. n : s[i] \in S
  OBVIOUS
<1>2. m \in Int /\ n \in Int
  OBVIOUS
<1>3. /\ SubSeq(s, m, n) \in Seq(S)
      /\ Len(SubSeq(s, m, n)) = IF m <= n THEN n - m + 1 ELSE 0
      /\ \A a \in 1 .. n - m + 1 : SubSeq(s, m, n)[a] = s[m + a - 1]
  BY <1>1, <1>2
<1> QED
  BY <1>3

LEMMA ReadReversedIs ==
  ASSUME NEW S, NEW s \in Seq(S)
  PROVE  /\ Paginating!Reversed(s) \in Seq(S) /\ Len(Paginating!Reversed(s)) = Len(s)
         /\ \A a \in 1 .. Len(s) : Paginating!Reversed(s)[a] = s[Len(s) + 1 - a]
  BY DEF Paginating!Reversed

\* Going on, the rows that come before others are as far or further up the list.
LEMMA ReadBeforeNext ==
  ASSUME ReadTables, NEW way, way # "back", NEW i \in Paginating!Listed, NEW j \in Paginating!Listed, Paginating!Before(way, i, j)
  PROVE  key[i] >= key[j]
<1>1. CASE list \in Paginating!ByTime
  <2>1. j < i
    BY <1>1, ReadListedIs DEF Paginating!Before
  <2> QED
    BY <1>1, <2>1, ReadListedIs DEF ReadTables, Paginating!Placed
<1>2. CASE list \notin Paginating!ByTime
  BY <1>2 DEF Paginating!Before
<1> QED
  BY <1>1, <1>2

LEMMA ReadBeforeBack ==
  ASSUME ReadTables, list \notin Paginating!ByTime, NEW i, NEW j, Paginating!Before("back", i, j)
  PROVE  key[i] <= key[j]
  BY DEF Paginating!Before

LEMMA ReadCutNext ==
  ASSUME ReadTables, NEW way, way # "back", NEW S \in SUBSET Paginating!Listed, NEW n \in Nat \ {0},
         NEW r, ReadFetched(way, S, n, r), NEW items, ReadKept(S, r, items)
  PROVE  ReadOrdered(way, S, items)
<1>0. /\ items \in Seq(S) /\ Len(items) <= limit /\ Len(items) <= Len(r) /\ n >= 1
      /\ Len(items) = Len(r) \/ Len(items) >= 1
      /\ \A a \in 1 .. Len(items) : items[a] = r[a]
  BY DEF ReadKept, ReadTaken
<1>1. r \in Seq(S) /\ Len(r) \in Nat /\ Len(items) \in Nat /\ ReadDiffer(r)
  BY <1>0 DEF ReadFetched
<1>2. ReadDiffer(items)
  BY <1>0, <1>1 DEF ReadDiffer
<1>3. ReadFalls(items)
  <2> SUFFICES ASSUME NEW a \in 1 .. Len(items), NEW b \in 1 .. Len(items), a < b
               PROVE  key[items[a]] >= key[items[b]]
    BY DEF ReadFalls
  <2>1. a \in 1 .. Len(r) /\ b \in 1 .. Len(r) /\ items[a] \in Paginating!Listed /\ items[b] \in Paginating!Listed
    BY <1>0, <1>1
  <2>2. Paginating!Before(way, items[a], items[b])
    BY <1>0, <2>1 DEF ReadFetched
  <2> QED
    BY <2>1, <2>2, ReadBeforeNext
<1>4. ASSUME NEW i \in S \ ReadOn(items) PROVE items # <<>> /\ key[i] <= key[ReadEnd(items)]
  <2>1. CASE i \in ReadOn(r)
    <3>1. PICK b \in 1 .. Len(r) : r[b] = i
      BY <1>0, <1>1, <2>1, ReadOnIs
    <3>2. b \notin 1 .. Len(items)
      BY <1>0, <1>1, <1>4, <3>1, ReadOnIs
    <3>3. Len(items) >= 1 /\ Len(items) < b /\ Len(items) \in 1 .. Len(r) /\ Len(items) \in 1 .. Len(items)
      BY <1>0, <1>1, <3>2
    <3>4. Paginating!Before(way, ReadEnd(items), i) /\ ReadEnd(items) \in Paginating!Listed
      BY <1>0, <1>1, <3>1, <3>3 DEF ReadFetched, ReadEnd
    <3> QED
      BY <1>0, <1>1, <3>3, <3>4, ReadBeforeNext, ReadEmpty, ReadListedIs
  <2>2. CASE i \notin ReadOn(r)
    <3>1. Len(r) = n /\ \A a \in 1 .. Len(r) : Paginating!Before(way, r[a], i)
      BY <2>2, <1>4 DEF ReadFetched
    <3>2. Len(items) >= 1 /\ Len(items) \in 1 .. Len(r) /\ Len(items) \in 1 .. Len(items)
      BY <1>0, <1>1, <3>1
    <3>3. Paginating!Before(way, ReadEnd(items), i) /\ ReadEnd(items) \in Paginating!Listed
      BY <1>0, <1>1, <3>1, <3>2 DEF ReadEnd
    <3> QED
      BY <1>0, <1>1, <3>2, <3>3, ReadBeforeNext, ReadEmpty, ReadListedIs
  <2> QED
    BY <2>1, <2>2
<1> QED
  BY <1>0, <1>2, <1>3, <1>4 DEF ReadOrdered

LEMMA ReadCutBack ==
  ASSUME ReadTables, list \notin Paginating!ByTime, NEW S \in SUBSET Paginating!Listed, NEW n \in Nat \ {0},
         NEW r, ReadFetched("back", S, n, r), NEW items, ReadTurned(S, r, items)
  PROVE  ReadOrdered("back", S, items)
<1>0. /\ items \in Seq(S) /\ Len(items) <= limit /\ Len(items) <= Len(r) /\ n >= 1
      /\ Len(items) = Len(r) \/ Len(items) >= 1
      /\ \A a \in 1 .. Len(items) : items[a] = r[Len(items) + 1 - a]
  BY DEF ReadTurned, ReadTaken
<1>01. items \in Seq(S) /\ Len(items) \in Nat
  BY <1>0
<1>1. r \in Seq(S) /\ Len(r) \in Nat /\ Len(items) \in Nat /\ ReadDiffer(r)
  BY <1>0 DEF ReadFetched
<1>2. \A a \in 1 .. Len(items) : Len(items) + 1 - a \in 1 .. Len(items) /\ Len(items) + 1 - a \in 1 .. Len(r)
  BY <1>0, <1>1
<1>3. ReadDiffer(items)
  <2> SUFFICES ASSUME NEW a \in 1 .. Len(items), NEW b \in 1 .. Len(items), items[a] = items[b]
               PROVE  a = b
    BY DEF ReadDiffer
  <2>1. PICK c \in 1 .. Len(r) : c = Len(items) + 1 - a
    BY <1>2
  <2>2. PICK d \in 1 .. Len(r) : d = Len(items) + 1 - b
    BY <1>2
  <2>3. c = d
    <3>1. r[c] = r[d]
      <4>1. items[a] = r[c] /\ items[b] = r[d]
        BY <1>0, <2>1, <2>2
      <4> QED
        BY <4>1
    <3> QED
      BY <1>0, <1>1, <3>1 DEF ReadDiffer
  <2> QED
    BY <1>0, <1>1, <2>1, <2>2, <2>3
<1>4. ReadFalls(items)
  <2> SUFFICES ASSUME NEW a \in 1 .. Len(items), NEW b \in 1 .. Len(items), a < b
               PROVE  key[items[a]] >= key[items[b]]
    BY DEF ReadFalls
  <2>1. items[a] \in Paginating!Listed /\ items[b] \in Paginating!Listed
    BY <1>01
  <2>2. PICK c \in 1 .. Len(r) : c = Len(items) + 1 - a
    BY <1>2
  <2>3. PICK d \in 1 .. Len(r) : d = Len(items) + 1 - b
    BY <1>2
  <2>4. d < c /\ items[a] = r[c] /\ items[b] = r[d]
    BY <1>0, <1>1, <2>2, <2>3
  <2>5. Paginating!Before("back", items[b], items[a])
    BY <2>4 DEF ReadFetched
  <2>6. key[items[b]] <= key[items[a]]
    BY <2>5, ReadBeforeBack
  <2> QED
    BY <2>1, <2>6, ReadListedIs
<1>5. ASSUME NEW i \in S \ ReadOn(items) PROVE items # <<>> /\ key[i] >= key[items[1]]
  <2>1. CASE i \in ReadOn(r)
    <3>1. PICK b \in 1 .. Len(r) : r[b] = i
      BY <1>0, <1>1, <2>1, ReadOnIs
    <3>2. ASSUME b <= Len(items) PROVE FALSE
      <4>0. b \in 1 .. Len(items)
        BY <1>01, <1>1, <3>2
      <4>1. PICK c \in 1 .. Len(items) : c = Len(items) + 1 - b /\ Len(items) + 1 - c = b
        BY <1>01, <4>0, ReadMirror
      <4>2. items[c] = i
        BY <1>0, <3>1, <4>1
      <4> QED
        BY <1>5, <1>01, <4>2, ReadOnIs
    <3>3. Len(items) >= 1 /\ Len(items) < b /\ Len(items) \in 1 .. Len(r) /\ 1 \in 1 .. Len(items)
          /\ Len(items) + 1 - 1 = Len(items)
      BY <1>0, <1>1, <3>2
    <3>4. Paginating!Before("back", items[1], i) /\ items[1] \in Paginating!Listed
      BY <1>0, <1>1, <3>1, <3>3 DEF ReadFetched
    <3> QED
      BY <1>0, <1>1, <3>3, <3>4, ReadBeforeBack, ReadEmpty, ReadListedIs
  <2>2. CASE i \notin ReadOn(r)
    <3>1. Len(r) = n /\ \A a \in 1 .. Len(r) : Paginating!Before("back", r[a], i)
      BY <2>2, <1>5 DEF ReadFetched
    <3>2. Len(items) >= 1 /\ Len(items) \in 1 .. Len(r) /\ 1 \in 1 .. Len(items)
          /\ Len(items) + 1 - 1 = Len(items)
      BY <1>0, <1>1, <3>1
    <3>3. items[1] = r[Len(items)] /\ items[1] \in Paginating!Listed
      BY <1>0, <3>2
    <3>4. Paginating!Before("back", items[1], i)
      BY <3>1, <3>2, <3>3
    <3> QED
      BY <1>0, <1>1, <3>2, <3>3, <3>4, ReadBeforeBack, ReadEmpty, ReadListedIs
  <2> QED
    BY <2>1, <2>2
<1> QED
  BY <1>0, <1>3, <1>4, <1>5 DEF ReadOrdered
-----------------------------------------------------------------------------
LEMMA ReadShownIs ==
  ASSUME ReadTables, NEW way \in ReadWays, NEW S \in SUBSET Paginating!Listed, NEW items \in Seq(S), NEW back, NEW next
  PROVE  ReadDrawn(way, items, back, next, Paginating!Shown(way, items, back, next))
<1> DEFINE sheet == Paginating!Shown(way, items, back, next)
<1>1. ASSUME items # <<>>
      PROVE  /\ items[1] \in Paginating!Listed /\ ReadEnd(items) \in Paginating!Listed
             /\ Paginating!Link(items[1]) \in RowIds \cup Keys /\ Paginating!Link(ReadEnd(items)) \in RowIds \cup Keys
  <2>1. Len(items) >= 1 /\ Len(items) \in Nat
    BY <1>1, ReadEmpty
  <2>2. items[1] \in Paginating!Listed /\ ReadEnd(items) \in Paginating!Listed
    BY <2>1 DEF ReadEnd
  <2> QED
    BY <2>2, ReadListedIs DEF Paginating!Link
<1>2. /\ sheet.items = items /\ sheet.way = way
      /\ sheet.at = IF list \in Paginating!Counted /\ items # <<>> THEN "count back" ELSE "read"
      /\ sheet.back = IF back /\ items # <<>> THEN Paginating!Link(items[1]) ELSE None
      /\ sheet.next = IF next /\ items # <<>> THEN Paginating!Link(ReadEnd(items)) ELSE None
  BY DEF Paginating!Shown, ReadEnd
<1>3. items \in Seq(RowIds)
  BY ReadListedIs
<1>4. sheet.back \in RowIds \cup Keys \cup {None} /\ sheet.next \in RowIds \cup Keys \cup {None}
  BY <1>1, <1>2
<1>5. sheet.at \in {"count back", "count next", "read"} /\ sheet.way \in {"blank", "first", "back", "next"}
  BY <1>2 DEF ReadWays
<1>6. sheet = [at |-> sheet.at, way |-> sheet.way, items |-> sheet.items, back |-> sheet.back, next |-> sheet.next]
  BY DEF Paginating!Shown
<1>7. sheet \in Paginating!Leaves
  <2> HIDE DEF sheet
  <2>1. sheet.items \in Seq(RowIds)
    BY <1>2, <1>3
  <2> QED
    BY <2>1, <1>4, <1>5, <1>6 DEF Paginating!Leaves
<1>8. items # <<>> => Paginating!Link(items[1]) # None /\ Paginating!Link(ReadEnd(items)) # None
  BY <1>1, ReadNumbers
<1> QED
  BY <1>2, <1>7, <1>8 DEF ReadDrawn

LEMMA ReadPaginateIs ==
  ASSUME ReadTables, list = "ids", NEW way \in ReadWays, NEW S \in SUBSET Paginating!Listed, NEW r, ReadFetched(way, S, limit + 1, r)
  PROVE  ReadFits(way, S, Paginating!Paginate(way, r))
<1> DEFINE more == Len(r) = limit + 1
           items == IF more THEN SubSeq(r, 1, limit) ELSE r
           turned == IF way = "back" THEN Paginating!Reversed(items) ELSE items
           sheet == Paginating!Paginate(way, r)
<1>1. limit \in Nat /\ limit >= 1 /\ limit + 1 \in Nat
  BY ReadNumbers DEF ReadTables
<1>2. r \in Seq(S) /\ Len(r) \in Nat /\ Len(r) <= limit + 1
  BY DEF ReadFetched
<1>3. /\ items \in Seq(S) /\ Len(items) <= limit /\ Len(items) <= Len(r)
      /\ Len(items) = Len(r) \/ Len(items) >= 1
      /\ \A a \in 1 .. Len(items) : items[a] = r[a]
      /\ more => Len(items) = limit
      /\ ~more => items = r
  <2>1. CASE more
    <3>1. /\ Len(items) = limit - 1 + 1 /\ items \in Seq(S)
          /\ \A a \in 1 .. limit - 1 + 1 : items[a] = r[1 + a - 1]
      <4>1. items = SubSeq(r, 1, limit)
        BY <2>1
      <4> QED
        BY <1>1, <1>2, <2>1, <4>1, ReadCutIs
    <3> HIDE DEF items
    <3>2. limit - 1 + 1 = limit /\ \A a \in 1 .. limit : 1 + a - 1 = a
      BY <1>1
    <3> QED
      BY <1>1, <1>2, <2>1, <3>1, <3>2
  <2>2. CASE ~more
    BY <1>1, <1>2, <2>2
  <2> QED
    BY <2>1, <2>2
<1> HIDE DEF items
<1>4. /\ turned \in Seq(S) /\ Len(turned) = Len(items)
      /\ way = "back" => \A a \in 1 .. Len(items) : turned[a] = r[Len(items) + 1 - a]
      /\ way # "back" => turned = items
  <2>1. way # "back" => turned = items
    OBVIOUS
  <2>2. CASE way = "back"
    <3>1. turned = Paginating!Reversed(items)
      BY <2>2
    <3>2. Paginating!Reversed(items) \in Seq(S) /\ Len(Paginating!Reversed(items)) = Len(items)
          /\ \A a \in 1 .. Len(items) : Paginating!Reversed(items)[a] = items[Len(items) + 1 - a]
      BY <1>3, ReadReversedIs
    <3>3. \A a \in 1 .. Len(items) : items[Len(items) + 1 - a] = r[Len(items) + 1 - a]
      <4> SUFFICES ASSUME NEW a \in 1 .. Len(items) PROVE items[Len(items) + 1 - a] = r[Len(items) + 1 - a]
        OBVIOUS
      <4>1. Len(items) + 1 - a \in 1 .. Len(items)
        BY <1>3
      <4> QED
        BY <4>1, <1>3
    <3> QED
      BY <3>1, <3>2, <3>3, <2>2
  <2> QED
    BY <1>3, <2>1, <2>2
<1>5. sheet = Paginating!Shown(way, turned, way # "first" /\ (more \/ way # "back"), more \/ way = "back")
  BY DEF Paginating!Paginate, items
<1>6. list \notin Paginating!ByTime /\ list \notin Paginating!Counted
  BY DEF Paginating!ByTime, Paginating!Counted
<1> HIDE DEF turned
<1>7. ReadOrdered(way, S, turned)
  <2>1. limit + 1 \in Nat \ {0}
    BY <1>1
  <2>2. CASE way = "back"
    <3>1. ReadTurned(S, r, turned)
      BY <2>2, <1>3, <1>4 DEF ReadTurned, ReadTaken
    <3> QED
      BY <2>1, <2>2, <3>1, <1>6, ReadCutBack
  <2>3. CASE way # "back"
    <3>1. ReadKept(S, r, turned)
      BY <2>3, <1>3, <1>4 DEF ReadKept, ReadTaken
    <3> QED
      BY <2>1, <2>3, <3>1, ReadCutNext
  <2> QED
    BY <2>2, <2>3
<1>8. ~more => ReadOn(turned) = S
  <2> SUFFICES ASSUME ~more PROVE S \subseteq ReadOn(turned)
    BY <1>4, ReadOnIs
  <2> SUFFICES ASSUME NEW i \in S PROVE i \in ReadOn(turned)
    OBVIOUS
  <2>1. i \in ReadOn(r)
    BY <1>1, <1>2 DEF ReadFetched
  <2>2. PICK b \in 1 .. Len(r) : r[b] = i
    BY <1>2, <2>1, ReadOnIs
  <2>3. items = r
    BY <1>3
  <2>4. CASE way = "back"
    <3>1. Len(items) + 1 - b \in 1 .. Len(items) /\ Len(items) + 1 - (Len(items) + 1 - b) = b
      BY <1>2, <2>3
    <3>2. turned[Len(items) + 1 - b] = i
      BY <2>2, <2>4, <3>1, <1>4
    <3> QED
      BY <3>1, <3>2, <1>4, ReadOnIs
  <2>5. CASE way # "back"
    BY <2>1, <2>3, <2>5, <1>4
  <2> QED
    BY <2>4, <2>5
<1>9. ASSUME more PROVE \E i \in S : i \notin ReadOn(turned)
  <2>1. limit + 1 \in 1 .. Len(r) /\ r[limit + 1] \in S
    BY <1>1, <1>2, <1>9
  <2>2. ASSUME r[limit + 1] \in ReadOn(turned) PROVE FALSE
    <3>1. PICK a \in 1 .. Len(turned) : turned[a] = r[limit + 1]
      BY <1>4, <2>2, ReadOnIs
    <3>2. PICK b \in 1 .. Len(items) : turned[a] = r[b]
      <4>1. CASE way = "back"
        <5>1. Len(items) + 1 - a \in 1 .. Len(items)
          BY <1>3, <1>4
        <5> QED
          BY <4>1, <5>1, <1>4
      <4>2. CASE way # "back"
        BY <4>2, <1>3, <1>4
      <4> QED
        BY <4>1, <4>2
    <3>3. b \in 1 .. Len(r) /\ b # limit + 1
      BY <1>1, <1>2, <1>3, <1>9
    <3> QED
      BY <2>1, <3>1, <3>2, <3>3 DEF ReadFetched, ReadDiffer
  <2> QED
    BY <2>1, <2>2
<1>10. ReadLeads(way, S, sheet) /\ sheet.items = turned /\ sheet \in Paginating!Leaves
  <2> DEFINE back == way # "first" /\ (more \/ way # "back")
             next == more \/ way = "back"
  <2> HIDE DEF sheet, more, back, next
  <2>1. /\ sheet \in Paginating!Leaves
        /\ sheet.items = turned /\ sheet.way = way
        /\ sheet.at = IF list \in Paginating!Counted /\ turned # <<>> THEN "count back" ELSE "read"
        /\ sheet.back = IF back /\ turned # <<>> THEN Paginating!Link(turned[1]) ELSE None
        /\ sheet.next = IF next /\ turned # <<>> THEN Paginating!Link(ReadEnd(turned)) ELSE None
        /\ turned # <<>> => Paginating!Link(turned[1]) # None /\ Paginating!Link(ReadEnd(turned)) # None
    <3>1. sheet = Paginating!Shown(way, turned, back, next)
      BY <1>5 DEF back, next
    <3>2. turned \in Seq(S)
      BY <1>4
    <3>3. ReadDrawn(way, turned, back, next, sheet)
      BY <3>1, <3>2, ReadShownIs
    <3> QED
      BY <3>3 DEF ReadDrawn
  <2> USE DEF back, next
  <2>2. way # "back" /\ S \ ReadOn(turned) # {} => sheet.next # None
    BY <1>7, <1>8, <2>1 DEF ReadOrdered
  <2>3. way # "back" /\ sheet.next # None => S \ ReadOn(turned) # {}
    BY <1>9, <2>1
  <2>4. way # "next" /\ sheet.back # None => \E i \in S \ ReadOn(turned) : key[i] >= key[turned[1]]
    <3> SUFFICES ASSUME way # "next", sheet.back # None PROVE \E i \in S \ ReadOn(turned) : key[i] >= key[turned[1]]
      OBVIOUS
    <3>1. way = "back" /\ more
      BY <2>1 DEF ReadWays
    <3> QED
      BY <3>1, <1>6, <1>7, <1>9 DEF ReadOrdered
  <2> QED
    BY <2>1, <2>2, <2>3, <2>4, <1>6 DEF ReadLeads
<1>11. Len(turned) = limit \/ ReadOn(turned) = S
  BY <1>3, <1>4, <1>8
<1> QED
  BY <1>7, <1>10, <1>11 DEF ReadFits

LEMMA ReadSelectIs ==
  ASSUME ReadTables, list \notin {"ids", "api"}, NEW way \in ReadWays, NEW S \in SUBSET Paginating!Listed,
         NEW r, ReadFetched(way, S, limit, r)
  PROVE  ReadFits(way, S, Paginating!Select(way, r))
<1> DEFINE turns == way = "back" /\ list # "times"
           items == IF turns THEN Paginating!Reversed(r) ELSE r
           sheet == Paginating!Select(way, r)
<1>1. limit \in Nat /\ limit >= 1 /\ limit \in Nat \ {0}
  BY ReadNumbers DEF ReadTables
<1>2. r \in Seq(S) /\ Len(r) \in Nat /\ Len(r) <= limit
  BY <1>1 DEF ReadFetched
<1>3. turns => ReadTurned(S, r, items)
  <2> SUFFICES ASSUME turns PROVE ReadTurned(S, r, items)
    OBVIOUS
  <2>1. items = Paginating!Reversed(r)
    OBVIOUS
  <2>2. Paginating!Reversed(r) \in Seq(S) /\ Len(Paginating!Reversed(r)) = Len(r)
        /\ \A a \in 1 .. Len(r) : Paginating!Reversed(r)[a] = r[Len(r) + 1 - a]
    BY <1>2, ReadReversedIs
  <2> QED
    BY <1>2, <2>1, <2>2 DEF ReadTurned, ReadTaken
<1>4. ~turns => ReadKept(S, r, items)
  BY <1>2 DEF ReadKept, ReadTaken
<1>5. sheet = Paginating!Shown(way, items, list \notin Paginating!Counted, list \notin Paginating!Counted)
  BY DEF Paginating!Select
<1>6. items \in Seq(S) /\ Len(items) = Len(r)
  BY <1>2, ReadReversedIs
<1>61. Len(items) = Len(r) /\ Len(items) \in Nat
  BY <1>2, <1>6
<1>7. list \in Paginating!ByTime <=> list = "times"
  BY DEF Paginating!ByTime
<1>8. ReadOn(items) = ReadOn(r)
  <2>1. CASE turns
    <3>1. ReadOn(items) \subseteq ReadOn(r)
      <4> SUFFICES ASSUME NEW a \in 1 .. Len(items) PROVE items[a] \in ReadOn(r)
        BY DEF ReadOn
      <4>1. PICK c \in 1 .. Len(r) : c = Len(items) + 1 - a
        BY <1>61, ReadMirror
      <4>2. items[a] = r[c]
        BY <2>1, <1>3, <4>1 DEF ReadTurned
      <4> QED
        BY <4>2 DEF ReadOn
    <3>2. ReadOn(r) \subseteq ReadOn(items)
      <4> SUFFICES ASSUME NEW c \in 1 .. Len(r) PROVE r[c] \in ReadOn(items)
        BY DEF ReadOn
      <4>1. PICK a \in 1 .. Len(items) : a = Len(items) + 1 - c /\ Len(items) + 1 - a = c
        BY <1>61, ReadMirror
      <4>2. items[a] = r[c]
        BY <2>1, <1>3, <4>1 DEF ReadTurned
      <4> QED
        BY <4>2 DEF ReadOn
    <3> QED
      BY <3>1, <3>2
  <2>2. CASE ~turns
    BY <2>2
  <2> QED
    BY <2>1, <2>2
<1> HIDE DEF items
<1>9. list \notin Paginating!ByTime => Len(items) = limit \/ ReadOn(items) = S
  <2>1. \A i \in S : i \notin ReadOn(r) => Len(r) = limit
    BY DEF ReadFetched
  <2>2. ReadOn(r) \subseteq S
    BY <1>2, ReadOnIs
  <2> QED
    BY <2>1, <2>2, <1>6, <1>8
<1>10. ReadOrdered(way, S, items)
  <2>1. CASE turns
    BY <2>1, <1>1, <1>3, <1>7, ReadCutBack
  <2>2. CASE ~turns /\ way # "back"
    BY <2>2, <1>1, <1>4, ReadCutNext
  <2>3. CASE ~turns /\ way = "back"
    <3>1. items = r /\ list \in Paginating!ByTime
      BY <2>3, <1>7 DEF items
    <3>2. ReadDiffer(r)
      BY DEF ReadFetched
    <3>3. \A i \in S \ ReadOn(r) : Len(r) = limit
      BY DEF ReadFetched
    <3>4. \A i \in S \ ReadOn(items) : items # <<>>
      BY <1>1, <1>2, <3>1, <3>3, ReadEmpty
    <3> QED
      BY <1>2, <2>3, <3>1, <3>2, <3>4 DEF ReadOrdered
  <2> QED
    BY <2>1, <2>2, <2>3
<1>11. ReadLeads(way, S, sheet) /\ sheet.items = items /\ sheet \in Paginating!Leaves
  <2> HIDE DEF sheet
  <2>1. /\ sheet \in Paginating!Leaves
        /\ sheet.items = items /\ sheet.way = way
        /\ sheet.at = IF list \in Paginating!Counted /\ items # <<>> THEN "count back" ELSE "read"
        /\ sheet.back = IF list \notin Paginating!Counted /\ items # <<>> THEN Paginating!Link(items[1]) ELSE None
        /\ sheet.next = IF list \notin Paginating!Counted /\ items # <<>> THEN Paginating!Link(ReadEnd(items)) ELSE None
        /\ items # <<>> => Paginating!Link(items[1]) # None /\ Paginating!Link(ReadEnd(items)) # None
    <3>1. ReadDrawn(way, items, list \notin Paginating!Counted, list \notin Paginating!Counted, sheet)
      BY <1>5, <1>6, ReadShownIs
    <3> QED
      BY <3>1 DEF ReadDrawn
  <2>2. list \notin Paginating!Counted /\ way # "back" /\ S \ ReadOn(items) # {} => sheet.next # None
    BY <1>10, <2>1 DEF ReadOrdered
  <2> QED
    BY <2>1, <2>2 DEF ReadLeads
<1> QED
  BY <1>9, <1>10, <1>11 DEF ReadFits

LEMMA ReadPaginateApiIs ==
  ASSUME ReadTables, list = "api", NEW way \in ReadWays, NEW S \in SUBSET Paginating!Listed, NEW r, ReadFetched(way, S, limit + 1, r)
  PROVE  ReadFits(way, S, Paginating!PaginateApi(way, r))
<1> DEFINE more == Len(r) > limit
           items == IF ~more THEN r
                    ELSE IF way = "back" THEN SubSeq(r, 2, limit + 1) ELSE SubSeq(r, 1, limit)
           sheet == Paginating!PaginateApi(way, r)
<1>1. limit \in Nat /\ limit >= 1 /\ limit + 1 \in Nat \ {0}
  BY ReadNumbers DEF ReadTables
<1>2. /\ r \in Seq(S) /\ Len(r) \in Nat /\ Len(r) <= limit + 1 /\ ReadDiffer(r)
      /\ more => Len(r) = limit + 1
  BY <1>1 DEF ReadFetched
<1>3. sheet = Paginating!Shown(way, items, way # "first" /\ (more \/ way # "back"), more \/ way = "back")
  BY DEF Paginating!PaginateApi
<1>4. ~more => items = r
  OBVIOUS
<1>5. ASSUME more, way # "back"
      PROVE  items \in Seq(S) /\ Len(items) = limit /\ \A a \in 1 .. limit : items[a] = r[a]
  <2>1. /\ Len(items) = limit - 1 + 1 /\ items \in Seq(S)
        /\ \A a \in 1 .. limit - 1 + 1 : items[a] = r[1 + a - 1]
    <3>1. items = SubSeq(r, 1, limit)
      BY <1>5
    <3> HIDE DEF items
    <3> QED
      BY <1>1, <1>2, <1>5, <3>1, ReadCutIs
  <2> HIDE DEF items
  <2>2. limit - 1 + 1 = limit /\ \A a \in 1 .. limit : 1 + a - 1 = a
    BY <1>1
  <2> QED
    BY <2>1, <2>2
<1>6. ASSUME more, way = "back"
      PROVE  items \in Seq(S) /\ Len(items) = limit /\ \A a \in 1 .. limit : items[a] = r[a + 1]
  <2> DEFINE n == limit + 1
  <2>1. items \in Seq(S) /\ Len(items) = n - 2 + 1 /\ \A a \in 1 .. n - 2 + 1 : items[a] = r[2 + a - 1]
    <3>1. items = SubSeq(r, 2, n)
      BY <1>6
    <3>2. limit + 1 \in Nat /\ 2 <= limit + 1 /\ limit + 1 <= Len(r)
      BY <1>1, <1>2, <1>6
    <3> HIDE DEF items
    <3>3. r \in Seq(S) /\ 2 \in Nat /\ 1 <= 2
      BY <1>2
    <3>4. n \in Nat /\ 2 <= n /\ n <= Len(r)
      BY <3>2
    <3> HIDE DEF n
    <3>5. /\ SubSeq(r, 2, n) \in Seq(S) /\ Len(SubSeq(r, 2, n)) = n - 2 + 1
          /\ \A a \in 1 .. n - 2 + 1 : SubSeq(r, 2, n)[a] = r[2 + a - 1]
      BY <3>3, <3>4, ReadCutIs
    <3> QED
      BY <3>1, <3>5
  <2> HIDE DEF items
  <2>2. n - 2 + 1 = limit /\ \A a \in 1 .. limit : 2 + a - 1 = a + 1
    BY <1>1
  <2> HIDE DEF n
  <2> QED
    BY <2>1, <2>2
<1> HIDE DEF items
<1>7. list \in Paginating!ByTime /\ list \notin Paginating!Counted
  BY DEF Paginating!ByTime, Paginating!Counted
<1>8. way # "back" => ReadKept(S, r, items)
  <2>1. CASE more
    BY <2>1, <1>1, <1>2, <1>5 DEF ReadKept, ReadTaken
  <2>2. CASE ~more
    BY <2>2, <1>1, <1>2, <1>4 DEF ReadKept, ReadTaken
  <2> QED
    BY <2>1, <2>2
<1>9. items \in Seq(S) /\ Len(items) <= limit /\ Len(items) \in Nat
  <2>1. CASE ~more
    BY <2>1, <1>1, <1>2, <1>4
  <2>2. CASE more
    <3>1. items \in Seq(S) /\ Len(items) = limit
      BY <2>2, <1>5, <1>6
    <3> QED
      BY <3>1, <1>1
  <2> QED
    BY <2>1, <2>2
<1>10. ~more => ReadOn(items) = S
  <2> SUFFICES ASSUME ~more PROVE ReadOn(r) = S
    BY <1>4
  <2>1. ReadOn(r) \subseteq S
    BY <1>2, ReadOnIs
  <2>2. \A i \in S \ ReadOn(r) : Len(r) = limit + 1
    BY DEF ReadFetched
  <2>3. Len(r) # limit + 1
    BY <1>1
  <2> QED
    BY <2>1, <2>2, <2>3
<1>11. ReadOrdered(way, S, items)
  <2>1. CASE way # "back"
    BY <2>1, <1>1, <1>8, ReadCutNext
  <2>2. CASE way = "back"
    <3>1. ReadDiffer(items)
      <4>1. CASE ~more
        BY <4>1, <1>2, <1>4
      <4>2. CASE more
        <5> SUFFICES ASSUME NEW a \in 1 .. Len(items), NEW b \in 1 .. Len(items), items[a] = items[b]
                     PROVE  a = b
          BY DEF ReadDiffer
        <5>1. a + 1 \in 1 .. Len(r) /\ b + 1 \in 1 .. Len(r) /\ r[a + 1] = r[b + 1]
          BY <4>2, <2>2, <1>1, <1>2, <1>6
        <5>2. a + 1 = b + 1
          BY <5>1, <1>2 DEF ReadDiffer
        <5> QED
          BY <5>2, <1>9
      <4> QED
        BY <4>1, <4>2
    <3>2. \A i \in S \ ReadOn(items) : items # <<>>
      BY <2>2, <1>1, <1>6, <1>9, <1>10, ReadEmpty
    <3> QED
      BY <2>2, <3>1, <3>2, <1>7, <1>9 DEF ReadOrdered
  <2> QED
    BY <2>1, <2>2
<1>12. ASSUME more, way # "back" PROVE S \ ReadOn(items) # {}
  <2>1. limit + 1 \in 1 .. Len(r) /\ r[limit + 1] \in S
    BY <1>1, <1>2, <1>12
  <2>2. ASSUME r[limit + 1] \in ReadOn(items) PROVE FALSE
    <3>1. PICK a \in 1 .. Len(items) : items[a] = r[limit + 1]
      BY <1>9, <2>2, ReadOnIs
    <3>2. a \in 1 .. Len(r) /\ a # limit + 1 /\ r[a] = r[limit + 1]
      BY <1>1, <1>2, <1>5, <1>12, <3>1
    <3> QED
      BY <2>1, <3>2, <1>2 DEF ReadDiffer
  <2> QED
    BY <2>1, <2>2
<1>13. ASSUME more, way = "back" PROVE \E i \in S \ ReadOn(items) : key[i] >= key[items[1]]
  <2>1. 1 \in 1 .. Len(r) /\ 2 \in 1 .. Len(r) /\ r[1] \in S /\ r[2] \in S
    BY <1>1, <1>2, <1>13
  <2>2. items[1] = r[2]
    <3>1. 1 \in 1 .. limit /\ 1 + 1 = 2
      BY <1>1
    <3> QED
      BY <3>1, <1>6, <1>13
  <2>3. r[2] < r[1]
    <3>1. Paginating!Before(way, r[1], r[2])
      BY <2>1 DEF ReadFetched
    <3>2. r[1] \in Nat /\ r[2] \in Nat
      BY <2>1, ReadListedIs
    <3> QED
      BY <1>7, <3>1, <3>2 DEF Paginating!Before
  <2>4. key[r[1]] >= key[r[2]]
    BY <2>1, <2>3, <1>7, ReadListedIs DEF ReadTables, Paginating!Placed
  <2>5. ASSUME r[1] \in ReadOn(items) PROVE FALSE
    <3>1. PICK a \in 1 .. Len(items) : items[a] = r[1]
      BY <1>9, <2>5, ReadOnIs
    <3>2. a + 1 \in 1 .. Len(r) /\ a + 1 # 1 /\ r[a + 1] = r[1]
      BY <1>1, <1>2, <1>6, <1>13, <3>1
    <3> QED
      BY <2>1, <3>2, <1>2 DEF ReadDiffer
  <2> QED
    BY <2>1, <2>2, <2>4, <2>5
<1>14. ReadLeads(way, S, sheet) /\ sheet.items = items /\ sheet \in Paginating!Leaves
  <2> DEFINE back == way # "first" /\ (more \/ way # "back")
             next == more \/ way = "back"
  <2> HIDE DEF sheet, more, back, next
  <2>1. /\ sheet \in Paginating!Leaves
        /\ sheet.items = items /\ sheet.way = way
        /\ sheet.at = IF list \in Paginating!Counted /\ items # <<>> THEN "count back" ELSE "read"
        /\ sheet.back = IF back /\ items # <<>> THEN Paginating!Link(items[1]) ELSE None
        /\ sheet.next = IF next /\ items # <<>> THEN Paginating!Link(ReadEnd(items)) ELSE None
        /\ items # <<>> => Paginating!Link(items[1]) # None /\ Paginating!Link(ReadEnd(items)) # None
    <3>1. sheet = Paginating!Shown(way, items, back, next)
      BY <1>3 DEF back, next
    <3>2. items \in Seq(S)
      BY <1>9
    <3>3. ReadDrawn(way, items, back, next, sheet)
      BY <3>1, <3>2, ReadShownIs
    <3> QED
      BY <3>3 DEF ReadDrawn
  <2> USE DEF back, next
  <2>2. way # "back" /\ S \ ReadOn(items) # {} => sheet.next # None
    BY <1>11, <1>10, <2>1 DEF ReadOrdered
  <2>3. way # "back" /\ sheet.next # None => S \ ReadOn(items) # {}
    BY <1>12, <2>1
  <2>4. way # "next" /\ sheet.back # None => \E i \in S \ ReadOn(items) : key[i] >= key[items[1]]
    BY <1>13, <2>1 DEF ReadWays
  <2> QED
    BY <2>1, <2>2, <2>3, <2>4, <1>7 DEF ReadLeads
<1> QED
  BY <1>7, <1>11, <1>14 DEF ReadFits

\* What any page has.
LEMMA ReadPagesFit ==
  ASSUME ReadTables, NEW way \in ReadWays, NEW S \in SUBSET Paginating!Listed, NEW sheet \in Paginating!Pages(way, S)
  PROVE  ReadFits(way, S, sheet)
<1>1. IsFiniteSet(S)
  BY ReadListedIs, FS_Subset
<1>2. limit \in Nat /\ limit + 1 \in Nat
  BY ReadNumbers DEF ReadTables
<1>3. CASE list = "ids"
  <2>1. PICK r \in Paginating!Closest(way, S, limit + 1) : sheet = Paginating!Paginate(way, r)
    BY <1>3 DEF Paginating!Pages
  <2>2. ReadFetched(way, S, limit + 1, r)
    BY <1>1, <1>2, ReadClosestIs
  <2> QED
    BY <1>3, <2>1, <2>2, ReadPaginateIs
<1>4. CASE list = "api"
  <2>1. PICK r \in Paginating!Closest(way, S, limit + 1) : sheet = Paginating!PaginateApi(way, r)
    BY <1>4 DEF Paginating!Pages
  <2>2. ReadFetched(way, S, limit + 1, r)
    BY <1>1, <1>2, ReadClosestIs
  <2> QED
    BY <1>4, <2>1, <2>2, ReadPaginateApiIs
<1>5. CASE list \notin {"ids", "api"}
  <2>1. PICK r \in Paginating!Closest(way, S, limit) : sheet = Paginating!Select(way, r)
    BY <1>5 DEF Paginating!Pages
  <2>2. ReadFetched(way, S, limit, r)
    BY <1>1, <1>2, ReadClosestIs
  <2> QED
    BY <1>5, <2>1, <2>2, ReadSelectIs
<1> QED
  BY <1>3, <1>4, <1>5
-----------------------------------------------------------------------------
\* Numbers of rows.
LEMMA ReadCountOn ==
  ASSUME NEW S, NEW s \in Seq(S), ReadDiffer(s)
  PROVE  IsFiniteSet(ReadOn(s)) /\ Cardinality(ReadOn(s)) = Len(s)
<1> DEFINE n == Len(s)
<1>1. n \in Nat /\ s \in [1 .. n -> ReadOn(s)]
  BY DEF ReadOn
<1>2. s \in Injection(1 .. n, ReadOn(s))
  <2>1. \A a, b \in 1 .. n : s[a] = s[b] => a = b
    BY DEF ReadDiffer
  <2> HIDE DEF n
  <2> QED
    BY <1>1, <2>1 DEF Injection, IsInjective
<1>3. s \in Surjection(1 .. n, ReadOn(s))
  <2>1. \A i \in ReadOn(s) : \E a \in 1 .. n : s[a] = i
    BY DEF ReadOn
  <2> HIDE DEF n
  <2> QED
    BY <1>1, <2>1 DEF Surjection
<1> HIDE DEF n
<1>4. IsFiniteSet(1 .. n) /\ Cardinality(1 .. n) = n
  BY <1>1, FS_Interval
<1>5. IsFiniteSet(ReadOn(s)) /\ Cardinality(ReadOn(s)) = Cardinality(1 .. n)
  BY <1>2, <1>3, <1>4, FS_Surjection
<1> QED
  BY <1>4, <1>5 DEF n

\* There is one set of the nearest.
LEMMA ReadNearestIsOne ==
  ASSUME ReadTables, Paginating!Distinct, NEW B \in SUBSET Paginating!Listed, NEW E, NEW R, ReadNearest(E, B), ReadNearest(R, B)
  PROVE  E = R
<1>1. E \subseteq B /\ R \subseteq B /\ IsFiniteSet(E) /\ IsFiniteSet(R)
  BY ReadListedIs, FS_Subset DEF ReadNearest
<1>2. Cardinality(E) = Cardinality(R)
  BY DEF ReadNearest
<1>3. E \subseteq R \/ R \subseteq E
  <2> SUFFICES ASSUME NEW i \in E, i \notin R, NEW j \in R, j \notin E PROVE FALSE
    OBVIOUS
  <2>1. i \in Paginating!Listed /\ j \in Paginating!Listed /\ i \in B /\ j \in B
    BY <1>1
  <2>2. key[i] <= key[j] /\ key[j] <= key[i]
    BY <2>1 DEF ReadNearest
  <2> QED
    BY <2>1, <2>2, ReadListedIs DEF Paginating!Distinct
<1> QED
  BY <1>1, <1>2, <1>3, FS_Subset

\* A page back has the nearest rows.
LEMMA ReadPageBackIsNearest ==
  ASSUME ReadTables, list \notin Paginating!ByTime, NEW S \in SUBSET Paginating!Listed, NEW sheet, ReadFits("back", S, sheet)
  PROVE  ReadNearest(Paginating!OnPage(sheet), S)
<1> DEFINE items == sheet.items
<1>1. items \in Seq(S) /\ Len(items) <= limit /\ Len(items) \in Nat /\ ReadDiffer(items) /\ ReadFalls(items)
  BY DEF ReadFits, ReadOrdered
<1>2. Paginating!OnPage(sheet) = ReadOn(items)
  BY <1>1 DEF Paginating!OnPage, ReadOn
<1>3. limit \in Nat /\ IsFiniteSet(S) /\ Cardinality(S) \in Nat
  BY ReadNumbers, ReadListedIs, FS_Subset, FS_CardinalityType DEF ReadTables
<1>4. Len(items) = limit \/ ReadOn(items) = S
  BY DEF ReadFits
<1>5. ASSUME NEW i \in ReadOn(items), NEW j \in S \ ReadOn(items) PROVE key[i] <= key[j]
  <2>1. items # <<>> /\ key[j] >= key[items[1]]
    BY DEF ReadFits, ReadOrdered
  <2>2. PICK a \in 1 .. Len(items) : items[a] = i
    BY <1>1, ReadOnIs
  <2>3. 1 \in 1 .. Len(items) /\ items[1] \in Paginating!Listed /\ i \in Paginating!Listed /\ j \in Paginating!Listed
    BY <1>1, <2>1, <2>2, ReadEmpty
  <2>4. a = 1 \/ key[items[1]] >= key[items[a]]
    BY <1>1, <2>3 DEF ReadFalls
  <2> QED
    BY <2>1, <2>2, <2>3, <2>4, ReadListedIs
<1>6. Cardinality(ReadOn(items)) = Len(items) /\ ReadOn(items) \subseteq S
  BY <1>1, ReadCountOn, ReadOnIs
<1>7. Cardinality(ReadOn(items)) <= Cardinality(S)
  BY <1>3, <1>6, FS_Subset
<1> HIDE DEF items
<1>8. Cardinality(ReadOn(items)) = IF Cardinality(S) < limit THEN Cardinality(S) ELSE limit
  BY <1>1, <1>3, <1>4, <1>6, <1>7
<1> QED
  BY <1>2, <1>5, <1>6, <1>8 DEF ReadNearest

\* A page is of rows next to one another, whatever the row it starts from.
LEMMA ReadPageNextWhole ==
  ASSUME ReadTables, list \notin Paginating!ByTime, NEW S \in SUBSET Paginating!Listed, NEW way, way # "back",
         NEW sheet, ReadFits(way, S, sheet), sheet.items # <<>>,
         \A i \in Paginating!Listed \ S : \A j \in S : key[i] >= key[j]
  PROVE  ReadWhole(sheet.items)
<1> DEFINE items == sheet.items
<1>1. items \in Seq(S) /\ Len(items) \in Nat /\ ReadDiffer(items) /\ ReadFalls(items)
  BY DEF ReadFits, ReadOrdered
<1>2. Len(items) >= 1 /\ 1 \in 1 .. Len(items) /\ Len(items) \in 1 .. Len(items)
  BY <1>1, ReadEmpty
<1>3. items[1] \in S /\ ReadEnd(items) \in S /\ ReadOn(items) \subseteq S
  BY <1>1, <1>2, ReadOnIs DEF ReadEnd
<1>4. ASSUME NEW i \in Paginating!Listed \ ReadOn(items) PROVE key[i] >= key[items[1]] \/ key[i] <= key[ReadEnd(items)]
  BY <1>3 DEF ReadFits, ReadOrdered
<1>5. ASSUME ReadOn(items) = S, NEW i \in Paginating!Listed PROVE key[i] >= key[ReadEnd(items)]
  <2>1. CASE i \in ReadOn(items)
    <3>1. PICK a \in 1 .. Len(items) : items[a] = i
      BY <1>1, <2>1, ReadOnIs
    <3>2. a = Len(items) \/ key[i] >= key[ReadEnd(items)]
      BY <1>1, <1>2, <3>1 DEF ReadFalls, ReadEnd
    <3> QED
      BY <3>1, <3>2, ReadListedIs DEF ReadEnd
  <2>2. CASE i \notin ReadOn(items)
    BY <1>3, <1>5, <2>2
  <2> QED
    BY <2>1, <2>2
<1>6. Len(items) = limit \/ ReadOn(items) = S
  BY DEF ReadFits
<1> QED
  BY <1>1, <1>3, <1>4, <1>5, <1>6 DEF ReadWhole

LEMMA ReadPageBackWhole ==
  ASSUME ReadTables, list \notin Paginating!ByTime, NEW S \in SUBSET Paginating!Listed,
         NEW sheet, ReadFits("back", S, sheet), sheet.items # <<>>,
         \A i \in Paginating!Listed \ S : \A j \in S : key[i] <= key[j]
  PROVE  ReadWhole(sheet.items)
<1> DEFINE items == sheet.items
<1>1. items \in Seq(S) /\ Len(items) \in Nat /\ ReadDiffer(items) /\ ReadFalls(items)
  BY DEF ReadFits, ReadOrdered
<1>2. Len(items) >= 1 /\ 1 \in 1 .. Len(items) /\ Len(items) \in 1 .. Len(items)
  BY <1>1, ReadEmpty
<1>3. items[1] \in S /\ ReadEnd(items) \in S /\ ReadOn(items) \subseteq S
  BY <1>1, <1>2, ReadOnIs DEF ReadEnd
<1>4. ASSUME NEW i \in Paginating!Listed \ ReadOn(items) PROVE key[i] >= key[items[1]] \/ key[i] <= key[ReadEnd(items)]
  BY <1>3 DEF ReadFits, ReadOrdered
<1>5. ASSUME ReadOn(items) = S, NEW i \in Paginating!Listed PROVE key[i] <= key[items[1]]
  <2>1. CASE i \in ReadOn(items)
    <3>1. PICK a \in 1 .. Len(items) : items[a] = i
      BY <1>1, <2>1, ReadOnIs
    <3>2. a = 1 \/ key[items[1]] >= key[i]
      BY <1>1, <1>2, <3>1 DEF ReadFalls
    <3>3. items[1] \in Paginating!Listed
      BY <1>3
    <3> QED
      BY <3>1, <3>2, <3>3, ReadListedIs
  <2>2. CASE i \notin ReadOn(items)
    BY <1>3, <1>5, <2>2
  <2> QED
    BY <2>1, <2>2
<1>6. Len(items) = limit \/ ReadOn(items) = S
  BY DEF ReadFits
<1> QED
  BY <1>1, <1>3, <1>4, <1>5, <1>6 DEF ReadWhole

\* Following Next from a whole page, the page one leaves has the rows nearest to
\* the first of the new one.
LEMMA ReadNextLeavesNearest ==
  ASSUME ReadTables, Paginating!Distinct, list \notin Paginating!ByTime, NEW items, NEW sheet, items \in Seq(RowIds), Len(items) <= limit,
         items # <<>>, ReadWhole(items),
         ReadFits("next", Paginating!Beyond("next", key[ReadEnd(items)]), sheet), sheet.items # <<>>
  PROVE  ReadNearest(ReadOn(items), Paginating!Beyond("back", key[sheet.items[1]]))
<1> DEFINE k == key[ReadEnd(items)]
           S == Paginating!Beyond("next", k)
           f == sheet.items[1]
           B == Paginating!Beyond("back", key[f])
<1>1. Len(items) \in Nat /\ Len(items) >= 1 /\ 1 \in 1 .. Len(items) /\ Len(items) \in 1 .. Len(items)
  BY ReadEmpty
<1>2. ReadOn(items) \subseteq Paginating!Listed /\ items[1] \in ReadOn(items) /\ ReadEnd(items) \in ReadOn(items)
  BY <1>1, ReadOnIs DEF ReadWhole, ReadEnd
<1>3. k \in Nat /\ k # None /\ \A i : i \in S <=> i \in Paginating!Listed /\ key[i] < k
  BY <1>2, ReadListedIs, ReadBeyondIs
<1> HIDE DEF S
<1>4. f \in S /\ \A i \in S : key[i] <= key[f]
  <2>1. sheet.items \in Seq(S) /\ ReadFalls(sheet.items) /\ Len(sheet.items) \in Nat
    BY DEF ReadFits, ReadOrdered, S, k
  <2>2. Len(sheet.items) >= 1 /\ 1 \in 1 .. Len(sheet.items) /\ Len(sheet.items) \in 1 .. Len(sheet.items)
    BY <2>1, ReadEmpty
  <2>3. f \in S /\ ReadEnd(sheet.items) \in S
    BY <2>1, <2>2 DEF ReadEnd
  <2>4. ASSUME NEW a \in 1 .. Len(sheet.items) PROVE key[sheet.items[a]] <= key[f]
    <3>1. sheet.items[a] \in Paginating!Listed /\ f \in Paginating!Listed
      BY <2>1, <2>3, <1>3
    <3>2. a = 1 \/ key[f] >= key[sheet.items[a]]
      BY <2>1, <2>2 DEF ReadFalls
    <3> QED
      BY <3>1, <3>2, ReadListedIs
  <2>5. ASSUME NEW i \in S PROVE key[i] <= key[f]
    <3>1. CASE i \in ReadOn(sheet.items)
      BY <2>1, <2>4, <3>1, ReadOnIs
    <3>2. CASE i \notin ReadOn(sheet.items)
      <4>1. key[i] <= key[ReadEnd(sheet.items)]
        BY <3>2, <2>5 DEF ReadFits, ReadOrdered, S, k
      <4>2. key[ReadEnd(sheet.items)] <= key[f]
        BY <2>2, <2>4 DEF ReadEnd
      <4>3. i \in Paginating!Listed /\ f \in Paginating!Listed /\ ReadEnd(sheet.items) \in Paginating!Listed
        BY <2>3, <2>5, <1>3
      <4> QED
        BY <4>1, <4>2, <4>3, ReadListedIs
    <3> QED
      BY <3>1, <3>2
  <2> QED
    BY <2>3, <2>5
<1>5. f \in Paginating!Listed /\ key[f] \in Nat /\ key[f] # None /\ key[f] < k /\ \A i : i \in B <=> i \in Paginating!Listed /\ key[i] > key[f]
  BY <1>3, <1>4, ReadListedIs, ReadBeyondIs
<1> HIDE DEF B, f
<1>6. ASSUME NEW a \in 1 .. Len(items) PROVE /\ items[a] \in Paginating!Listed /\ key[items[a]] \in Nat
                                             /\ key[items[1]] >= key[items[a]] /\ key[items[a]] >= k
  <2>1. items[a] \in Paginating!Listed /\ key[items[a]] \in Nat
    BY <1>2, ReadListedIs, ReadOnIs
  <2>2. a = 1 \/ key[items[1]] >= key[items[a]]
    BY <1>1 DEF ReadWhole, ReadFalls
  <2>3. a = Len(items) \/ key[items[a]] >= k
    BY <1>1 DEF ReadWhole, ReadFalls, ReadEnd
  <2> QED
    BY <2>1, <2>2, <2>3 DEF ReadEnd
<1>7. ReadOn(items) \subseteq B
  <2> SUFFICES ASSUME NEW a \in 1 .. Len(items) PROVE items[a] \in B
    BY DEF ReadOn
  <2> QED
    BY <1>3, <1>5, <1>6
<1>8. ASSUME NEW j \in B, j \notin ReadOn(items) PROVE key[j] >= key[items[1]] /\ j \in Paginating!Listed /\ key[j] \in Nat
  <2>1. j \in Paginating!Listed /\ key[j] \in Nat /\ key[j] > key[f]
    BY <1>5, <1>8, ReadListedIs
  <2>2. key[j] >= key[items[1]] \/ key[j] <= k
    BY <1>8, <2>1 DEF ReadWhole
  <2>3. ASSUME key[j] <= k PROVE FALSE
    <3>1. key[j] # k
      BY <1>2, <1>8, <2>1 DEF Paginating!Distinct
    <3>2. j \in S
      BY <1>3, <2>1, <2>3, <3>1
    <3> QED
      BY <1>4, <1>5, <2>1, <3>2
  <2> QED
    BY <2>1, <2>2, <2>3
<1>9. ASSUME NEW i \in ReadOn(items), NEW j \in B \ ReadOn(items) PROVE key[i] <= key[j]
  <2>1. PICK a \in 1 .. Len(items) : items[a] = i
    BY <1>9, ReadOnIs
  <2>2. 1 \in 1 .. Len(items)
    BY <1>1
  <2> QED
    BY <2>1, <2>2, <1>6, <1>8, <1>9
<1>10. B \subseteq Paginating!Listed /\ IsFiniteSet(B) /\ Cardinality(B) \in Nat /\ limit \in Nat
  BY <1>5, ReadListedIs, FS_Subset, FS_CardinalityType, ReadNumbers DEF ReadTables
<1>11. Cardinality(ReadOn(items)) = Len(items) /\ Cardinality(ReadOn(items)) <= Cardinality(B)
  BY <1>7, <1>10, ReadCountOn, FS_Subset DEF ReadWhole
<1>12. Len(items) = limit \/ ReadOn(items) = B
  <2>1. CASE \A i \in Paginating!Listed : key[i] <= key[items[1]]
    <3> SUFFICES ASSUME NEW j \in B, j \notin ReadOn(items) PROVE FALSE
      BY <1>7
    <3>1. key[j] = key[items[1]]
      BY <1>1, <1>6, <1>8, <2>1
    <3> QED
      BY <3>1, <1>2, <1>8 DEF Paginating!Distinct
  <2>2. CASE \A i \in Paginating!Listed : key[i] >= k
    BY <2>2, <1>3, <1>5
  <2> QED
    BY <2>1, <2>2 DEF ReadWhole
<1>13. Cardinality(ReadOn(items)) = IF Cardinality(B) < limit THEN Cardinality(B) ELSE limit
  BY <1>1, <1>10, <1>11, <1>12
<1> QED
  BY <1>7, <1>9, <1>13 DEF ReadNearest, B, f
-----------------------------------------------------------------------------
LEMMA ReadTablesHold == Paginating!TypeOK /\ Paginating!Placed(key) => ReadTables
  BY DEF Paginating!TypeOK, ReadTables

LEMMA ReadPlaceOfEnd ==
  ASSUME ReadTables, NEW i \in Paginating!Listed
  PROVE  Paginating!Place(Paginating!Link(i)) = key[i] /\ Paginating!Link(i) \in RowIds \cup Keys /\ Paginating!Link(i) # None
<1>1. i \in RowIds /\ key[i] \in Keys /\ i # None /\ key[i] # None
  BY ReadListedIs, ReadNumbers
<1> QED
  BY <1>1 DEF Paginating!Place, Paginating!Link

LEMMA ReadPageParts ==
  ASSUME ReadTables, NEW way, NEW S \in SUBSET Paginating!Listed, NEW sheet, ReadFits(way, S, sheet)
  PROVE  /\ sheet \in Paginating!Leaves /\ Len(sheet.items) <= limit
         /\ sheet.items \in Seq(S) /\ Len(sheet.items) \in Nat
         /\ Paginating!OnPage(sheet) = ReadOn(sheet.items) /\ ReadOn(sheet.items) \subseteq S /\ ReadOn(sheet.items) \subseteq RowIds
         /\ sheet.items # <<>> => /\ sheet.items[1] \in ReadOn(sheet.items) /\ sheet.items[1] \in Paginating!Listed
                                 /\ ReadEnd(sheet.items) \in ReadOn(sheet.items) /\ ReadEnd(sheet.items) \in Paginating!Listed
<1>1. sheet \in Paginating!Leaves /\ Len(sheet.items) <= limit /\ sheet.items \in Seq(S) /\ Len(sheet.items) \in Nat
  BY DEF ReadFits, ReadOrdered
<1>2. Paginating!OnPage(sheet) = ReadOn(sheet.items) /\ ReadOn(sheet.items) \subseteq S
  BY <1>1, ReadOnIs DEF Paginating!OnPage, ReadOn
<1>3. ASSUME sheet.items # <<>>
      PROVE  sheet.items[1] \in ReadOn(sheet.items) /\ ReadEnd(sheet.items) \in ReadOn(sheet.items)
  <2>1. Len(sheet.items) >= 1
    BY <1>1, <1>3, ReadEmpty
  <2>2. 1 \in 1 .. Len(sheet.items) /\ Len(sheet.items) \in 1 .. Len(sheet.items)
    BY <1>1, <2>1
  <2> QED
    BY <2>2 DEF ReadOn, ReadEnd
<1> QED
  BY <1>1, <1>2, <1>3, ReadListedIs

LEMMA ReadNewPageHolds ==
  ASSUME ReadTables, ReadListStays, NEW way, NEW S \in SUBSET Paginating!Listed, ReadFits(way, S, leaf')
  PROVE  ReadLinksHold'
<1>1. ReadLeads(way, S, leaf')
  BY DEF ReadFits
<1>2. leaf'.at # "read" => list \in Paginating!Counted /\ leaf'.items # <<>> /\ leaf'.next = None
  BY <1>1 DEF ReadLeads
<1>3. leaf'.next # None => leaf'.items # <<>> /\ leaf'.next = Paginating!Link(ReadEnd(leaf'.items))
  BY <1>1 DEF ReadLeads
<1>4. leaf'.back # None => leaf'.items # <<>> /\ leaf'.back = Paginating!Link(leaf'.items[1])
  BY <1>1 DEF ReadLeads
<1> QED
  BY <1>2, <1>3, <1>4 DEF ReadLinksHold, ReadListStays, Paginating!Link, ReadEnd

LEMMA ReadNewPageAhead ==
  ASSUME ReadTables, ReadListStays, NEW way, way # "back", NEW S \in SUBSET Paginating!Listed, ReadFits(way, S, leaf'),
         NEW i \in S \ ReadOn(leaf'.items)
  PROVE  i \in Paginating!Listed' /\ ReadAhead(i)'
<1>1. i \in Paginating!Listed'
  BY DEF ReadListStays, Paginating!Listed
<1>2. leaf'.items # <<>> /\ key[i] <= key[ReadEnd(leaf'.items)]
  BY DEF ReadFits, ReadOrdered
<1>3. ReadEnd(leaf'.items) \in Paginating!Listed
  BY <1>2, ReadPageParts
<1>4. key[ReadEnd(leaf'.items)] # None /\ Paginating!Place(Paginating!Link(ReadEnd(leaf'.items))) = key[ReadEnd(leaf'.items)]
  BY <1>3, ReadPlaceOfEnd, ReadListedIs
<1>5. CASE list \in Paginating!Counted
  <2>1. leaf'.at # "read"
    BY <1>2, <1>5 DEF ReadFits, ReadLeads
  <2> QED
    BY <1>1, <1>2, <1>4, <2>1 DEF ReadAhead, ReadListStays, ReadEnd
<1>6. CASE list \notin Paginating!Counted
  <2>1. leaf'.next # None
    BY <1>6 DEF ReadFits, ReadLeads
  <2>2. leaf'.next = Paginating!Link(ReadEnd(leaf'.items))
    BY <2>1 DEF ReadFits, ReadLeads
  <2>3. Paginating!Place(leaf'.next) # None /\ key[i] <= Paginating!Place(leaf'.next)
    BY <1>2, <1>4, <2>2
  <2> QED
    BY <1>1, <2>1, <2>3 DEF ReadAhead, ReadListStays, Paginating!Place
<1> QED
  BY <1>5, <1>6

LEMMA ReadNewPageLeads ==
  ASSUME ReadTables, ReadListStays, NEW way, NEW S \in SUBSET Paginating!Listed, ReadFits(way, S, leaf')
  PROVE  ReadLinksLead'
<1> DEFINE items == leaf'.items
<1>1. ReadLeads(way, S, leaf')
  BY DEF ReadFits
<1>2. leaf'.at # "count next"
  BY <1>1 DEF ReadLeads
<1>3. CASE list \in Paginating!Counted
  <2>1. leaf'.next = None /\ leaf'.back = None
    BY <1>1, <1>3 DEF ReadLeads
  <2> QED
    BY <1>2, <2>1 DEF ReadLinksLead, Paginating!LinksLeadOn
<1>4. CASE list \in {"ids", "api"} /\ Paginating!Distinct
  <2>1. ASSUME leaf'.next # None, way # "back" PROVE Paginating!Beyond("next", Paginating!Place(leaf'.next)) # {}
    <3>1. PICK i \in S : i \notin ReadOn(items)
      BY <1>1, <1>4, <2>1 DEF ReadLeads
    <3>2. items # <<>> /\ key[i] <= key[ReadEnd(items)]
      BY <2>1, <3>1 DEF ReadFits, ReadOrdered
    <3>3. ReadEnd(items) \in Paginating!Listed /\ ReadEnd(items) \in ReadOn(items) /\ i \in Paginating!Listed
      BY <3>2, ReadPageParts
    <3>4. leaf'.next = Paginating!Link(ReadEnd(items))
      BY <1>1, <2>1 DEF ReadLeads
    <3>5. Paginating!Place(leaf'.next) = key[ReadEnd(items)]
      BY <3>3, <3>4, ReadPlaceOfEnd
    <3>6. key[i] < key[ReadEnd(items)]
      BY <3>1, <3>2, <3>3, <1>4, ReadListedIs DEF Paginating!Distinct
    <3>7. i \in Paginating!Beyond("next", key[ReadEnd(items)])
      BY <3>3, <3>6, ReadListedIs, ReadBeyondIs
    <3> QED
      BY <3>5, <3>7
  <2>2. ASSUME leaf'.back # None, way # "next" PROVE Paginating!Beyond("back", Paginating!Place(leaf'.back)) # {}
    <3>1. PICK i \in S : i \notin ReadOn(items) /\ key[i] >= key[items[1]]
      BY <1>1, <1>4, <2>2 DEF ReadLeads
    <3>2. items # <<>> /\ leaf'.back = Paginating!Link(items[1])
      BY <1>1, <2>2 DEF ReadLeads
    <3>3. items[1] \in Paginating!Listed /\ items[1] \in ReadOn(items) /\ i \in Paginating!Listed
      BY <3>2, ReadPageParts
    <3>5. Paginating!Place(leaf'.back) = key[items[1]]
      BY <3>2, <3>3, ReadPlaceOfEnd
    <3>6. key[i] > key[items[1]]
      BY <3>1, <3>3, <1>4, ReadListedIs DEF Paginating!Distinct
    <3>7. i \in Paginating!Beyond("back", key[items[1]])
      BY <3>3, <3>6, ReadListedIs, ReadBeyondIs
    <3> QED
      BY <3>5, <3>7
  <2>3. leaf'.way = way /\ list \notin Paginating!Counted
    BY <1>1, <1>4 DEF ReadLeads, Paginating!Counted
  <2> QED
    BY <1>2, <2>1, <2>2, <2>3 DEF ReadLinksLead, Paginating!LinksLeadOn, ReadListStays, Paginating!Beyond, Paginating!Listed, Paginating!Place
<1>5. CASE list \notin Paginating!Counted /\ ~(list \in {"ids", "api"} /\ Paginating!Distinct)
  BY <1>2, <1>5 DEF ReadLinksLead, Paginating!LinksLeadOn, ReadListStays, Paginating!Distinct, Paginating!Listed
<1> QED
  BY <1>3, <1>4, <1>5

\* Where the links lead.
LEMMA ReadNextIs ==
  ASSUME ReadIInv, leaf.next # None
  PROVE  /\ leaf.items # <<>> /\ Paginating!Place(leaf.next) \in Nat \cup {None}
         /\ list \notin Paginating!ByTime => Paginating!Place(leaf.next) = key[ReadEnd(leaf.items)]
<1>1. ReadTables /\ leaf \in Paginating!Leaves /\ leaf.items # <<>>
      /\ (list \notin Paginating!ByTime => leaf.next = Paginating!Link(ReadEnd(leaf.items)))
  BY ReadTablesHold DEF ReadIInv, ReadLinksHold, Paginating!TypeOK
<1>2. leaf.items \in Seq(RowIds) /\ leaf.next \in RowIds \cup Keys
  BY <1>1 DEF Paginating!Leaves
<1>3. ReadEnd(leaf.items) \in RowIds
  <2>1. Len(leaf.items) \in 1 .. Len(leaf.items)
    BY <1>1, <1>2, ReadEmpty
  <2> QED
    BY <1>2, <2>1 DEF ReadEnd
<1>4. CASE list \in Paginating!ByTime
  <2>1. list \notin Paginating!LookedUp
    BY <1>4 DEF Paginating!ByTime, Paginating!LookedUp
  <2> QED
    BY <1>1, <1>2, <1>4, <2>1, ReadNumbers DEF Paginating!Place
<1>5. CASE list \notin Paginating!ByTime
  <2>1. Paginating!Place(Paginating!Link(ReadEnd(leaf.items))) = key[ReadEnd(leaf.items)]
    BY DEF Paginating!Place, Paginating!Link
  <2> QED
    BY <1>1, <1>3, <1>5, <2>1, ReadNumbers DEF ReadTables
<1> QED
  BY <1>4, <1>5

LEMMA ReadBackIs ==
  ASSUME ReadIInv, leaf.back # None, list \notin Paginating!ByTime
  PROVE  /\ leaf.items # <<>> /\ Paginating!Place(leaf.back) \in Nat \cup {None}
         /\ Paginating!Place(leaf.back) = key[leaf.items[1]]
<1>1. ReadTables /\ leaf \in Paginating!Leaves /\ leaf.items # <<>> /\ leaf.back = Paginating!Link(leaf.items[1])
  BY ReadTablesHold DEF ReadIInv, ReadLinksHold, Paginating!TypeOK
<1>2. leaf.items \in Seq(RowIds)
  BY <1>1 DEF Paginating!Leaves
<1>3. leaf.items[1] \in RowIds
  <2>1. 1 \in 1 .. Len(leaf.items)
    BY <1>1, <1>2, ReadEmpty
  <2> QED
    BY <1>2, <2>1
<1>4. Paginating!Place(Paginating!Link(leaf.items[1])) = key[leaf.items[1]]
  BY DEF Paginating!Place, Paginating!Link
<1> QED
  BY <1>1, <1>3, <1>4, ReadNumbers DEF ReadTables
-----------------------------------------------------------------------------
LEMMA ReadFirstInv == ASSUME ReadIInv, Paginating!First PROVE ReadIInv'
<1>1. ReadTables /\ ReadListStays /\ ReadFits("first", Paginating!Listed, leaf')
  BY ReadTablesHold, ReadPagesFit DEF ReadIInv, Paginating!First, ReadListStays, ReadWays
<1>2. /\ leaf' \in Paginating!Leaves /\ Len(leaf'.items) <= limit
      /\ Paginating!OnPage(leaf') = ReadOn(leaf'.items) /\ ReadOn(leaf'.items) \subseteq RowIds
  BY <1>1, ReadPageParts
<1>3. Paginating!TypeOK'
  <2>1. Paginating!Listed \subseteq RowIds
    BY <1>1, ReadListedIs
  <2> QED
    BY <1>2, <2>1 DEF ReadIInv, Paginating!TypeOK, Paginating!First
<1>4. Paginating!Placed(key)'
  BY DEF ReadIInv, Paginating!First, Paginating!Placed
<1>5. ReadLinksHold' /\ ReadLinksLead'
  BY <1>1, ReadNewPageHolds, ReadNewPageLeads
<1>6. ReadWalkGoesOn'
  <2> SUFFICES ASSUME NEW i \in Paginating!Listed \ ReadOn(leaf'.items) PROVE i \in Paginating!Listed' /\ ReadAhead(i)'
    BY <1>2 DEF ReadWalkGoesOn, Paginating!First
  <2> QED
    BY <1>1, ReadNewPageAhead
<1>7. ReadPageIsWhole'
  <2> SUFFICES ASSUME list \notin Paginating!ByTime, leaf'.items # <<>> PROVE ReadWhole(leaf.items)'
    BY <1>1 DEF ReadPageIsWhole, ReadListStays
  <2>1. ReadWhole(leaf'.items)
    BY <1>1, ReadPageNextWhole
  <2> QED
    BY <1>1, <2>1 DEF ReadListStays, ReadWhole, Paginating!Listed, ReadOn, ReadDiffer, ReadFalls, ReadEnd
<1>8. ReadBackLeads'
  BY DEF ReadBackLeads, Paginating!First
<1> QED
  BY <1>3, <1>4, <1>5, <1>6, <1>7, <1>8 DEF ReadIInv

LEMMA ReadFollowNextInv == ASSUME ReadIInv, Paginating!FollowNext PROVE ReadIInv'
<1> DEFINE k == Paginating!Place(leaf.next)
           S == Paginating!Beyond("next", k)
<1>1. ReadTables /\ ReadListStays /\ S \in SUBSET Paginating!Listed
  BY ReadTablesHold DEF ReadIInv, Paginating!FollowNext, ReadListStays, Paginating!Beyond
<1>2. ReadFits("next", S, leaf')
  BY <1>1, ReadPagesFit DEF Paginating!FollowNext, ReadWays
<1>3. /\ leaf' \in Paginating!Leaves /\ Len(leaf'.items) <= limit
      /\ Paginating!OnPage(leaf') = ReadOn(leaf'.items) /\ ReadOn(leaf'.items) \subseteq RowIds
  BY <1>1, <1>2, ReadPageParts
<1>4. leaf.items \in Seq(RowIds) /\ Len(leaf.items) <= limit /\ Paginating!OnPage(leaf) = ReadOn(leaf.items) /\ ReadOn(leaf.items) \subseteq RowIds
  <2>1. leaf.items \in Seq(RowIds) /\ Len(leaf.items) <= limit
    BY DEF ReadIInv, Paginating!TypeOK, Paginating!Leaves
  <2> QED
    BY <2>1, ReadOnIs DEF Paginating!OnPage, ReadOn
<1>5. /\ leaf.items # <<>> /\ k \in Nat \cup {None}
      /\ list \notin Paginating!ByTime => k = key[ReadEnd(leaf.items)]
  BY ReadNextIs DEF Paginating!FollowNext
<1>6. k # None => \A i : i \in S <=> i \in Paginating!Listed /\ key[i] < k
  BY <1>1, <1>5, ReadBeyondIs
<1>7. k = None => S = {}
  BY DEF Paginating!Beyond
<1> HIDE DEF k, S
<1>8. Paginating!TypeOK'
  <2>1. Paginating!Tied(Paginating!Place(leaf.next)) \subseteq RowIds
    BY <1>1, ReadListedIs DEF Paginating!Tied
  <2>2. Paginating!OnPage(leaf') \subseteq RowIds /\ Paginating!OnPage(leaf) \in SUBSET RowIds
    BY <1>3, <1>4
  <2> QED
    BY <1>3, <2>1, <2>2 DEF ReadIInv, Paginating!TypeOK, Paginating!FollowNext
<1>9. Paginating!Placed(key)'
  BY DEF ReadIInv, Paginating!FollowNext, Paginating!Placed
<1>10. ReadLinksHold' /\ ReadLinksLead'
  BY <1>1, <1>2, ReadNewPageHolds, ReadNewPageLeads
<1>11. ReadWalkGoesOn'
  <2> SUFFICES ASSUME ~lost, NEW i \in stayed \ (seen' \cup tied') PROVE i \in Paginating!Listed' /\ ReadAhead(i)'
    BY DEF ReadWalkGoesOn, Paginating!FollowNext
  <2>1. i \in Paginating!Listed /\ ReadAhead(i) /\ i \notin Paginating!Tied(k) /\ i \notin ReadOn(leaf'.items)
    BY <1>3 DEF ReadIInv, ReadWalkGoesOn, Paginating!FollowNext, k
  <2>2. k # None /\ key[i] <= k
    BY <2>1 DEF ReadAhead, Paginating!FollowNext, k
  <2>3. key[i] # k
    BY <2>1 DEF Paginating!Tied
  <2>4. key[i] \in Nat
    BY <1>1, <2>1, ReadListedIs
  <2>5. i \in S
    BY <1>5, <1>6, <2>1, <2>2, <2>3, <2>4
  <2> QED
    BY <1>1, <1>2, <2>1, <2>5, ReadNewPageAhead
<1>12. ReadPageIsWhole'
  <2> SUFFICES ASSUME list \notin Paginating!ByTime, leaf'.items # <<>> PROVE ReadWhole(leaf.items)'
    BY <1>1 DEF ReadPageIsWhole, ReadListStays
  <2>1. \A i \in Paginating!Listed \ S : \A j \in S : key[i] >= key[j]
    <3> SUFFICES ASSUME NEW i \in Paginating!Listed, i \notin S, NEW j \in S PROVE key[i] >= key[j]
      OBVIOUS
    <3>1. key[i] \in Nat /\ key[j] \in Nat /\ key[j] < k /\ ~(key[i] < k) /\ k \in Nat
      BY <1>1, <1>5, <1>6, <1>7, ReadListedIs
    <3> QED
      BY <3>1
  <2>2. ReadWhole(leaf'.items)
    BY <1>1, <1>2, <2>1, ReadPageNextWhole
  <2> QED
    BY <1>1, <2>2 DEF ReadListStays, ReadWhole, Paginating!Listed, ReadOn, ReadDiffer, ReadFalls, ReadEnd
<1>13. ReadBackLeads'
  <2> SUFFICES ASSUME expected' # None, list \notin Paginating!ByTime
               PROVE  /\ same' /\ Paginating!Distinct'
                      /\ leaf'.way = "next" /\ leaf'.items # <<>> =>
                             ReadNearest(expected, Paginating!Beyond("back", key[leaf.items[1]]))'
                      /\ leaf'.way = "back" => Paginating!OnPage(leaf') = expected'
    BY <1>1 DEF ReadBackLeads, ReadListStays, Paginating!OnPage
  <2>1. same /\ Paginating!Distinct /\ expected' = Paginating!OnPage(leaf) /\ same'
    BY DEF Paginating!FollowNext
  <2>2. Paginating!Distinct'
    BY <1>1, <2>1 DEF ReadListStays, Paginating!Distinct, Paginating!Listed
  <2>3. leaf'.way = "next"
    BY <1>2 DEF ReadFits, ReadLeads
  <2>4. ASSUME leaf'.items # <<>> PROVE ReadNearest(ReadOn(leaf.items), Paginating!Beyond("back", key[leaf'.items[1]]))
    <3>1. ReadWhole(leaf.items)
      BY <1>5, <2>1 DEF ReadIInv, ReadPageIsWhole
    <3>2. ReadFits("next", Paginating!Beyond("next", key[ReadEnd(leaf.items)]), leaf')
      BY <1>2, <1>5 DEF S
    <3> QED
      BY <1>1, <1>4, <1>5, <2>1, <2>4, <3>1, <3>2, ReadNextLeavesNearest
  <2>5. ASSUME leaf'.items # <<>> PROVE ReadNearest(expected, Paginating!Beyond("back", key[leaf.items[1]]))'
    BY <1>1, <1>4, <2>1, <2>4, <2>5 DEF ReadListStays, ReadNearest, Paginating!Beyond, Paginating!Listed
  <2> QED
    BY <2>1, <2>2, <2>3, <2>5
<1> QED
  BY <1>8, <1>9, <1>10, <1>11, <1>12, <1>13 DEF ReadIInv

LEMMA ReadFollowBackInv == ASSUME ReadIInv, Paginating!FollowBack PROVE ReadIInv'
<1> DEFINE k == Paginating!Place(leaf.back)
           S == Paginating!Beyond("back", k)
<1>1. ReadTables /\ ReadListStays /\ S \in SUBSET Paginating!Listed
  BY ReadTablesHold DEF ReadIInv, Paginating!FollowBack, ReadListStays, Paginating!Beyond
<1>2. ReadFits("back", S, leaf')
  BY <1>1, ReadPagesFit DEF Paginating!FollowBack, ReadWays
<1>3. /\ leaf' \in Paginating!Leaves /\ Len(leaf'.items) <= limit
      /\ Paginating!OnPage(leaf') = ReadOn(leaf'.items) /\ ReadOn(leaf'.items) \subseteq RowIds
  BY <1>1, <1>2, ReadPageParts
<1>5. list \notin Paginating!ByTime => leaf.items # <<>> /\ k \in Nat \cup {None} /\ k = key[leaf.items[1]]
  BY ReadBackIs DEF Paginating!FollowBack
<1>6. k # None /\ k \in Nat => \A i : i \in S <=> i \in Paginating!Listed /\ key[i] > k
  BY <1>1, ReadBeyondIs
<1>7. k = None => S = {}
  BY DEF Paginating!Beyond
<1> HIDE DEF k, S
<1>8. Paginating!TypeOK'
  BY <1>3 DEF ReadIInv, Paginating!TypeOK, Paginating!FollowBack
<1>9. Paginating!Placed(key)'
  BY DEF ReadIInv, Paginating!FollowBack, Paginating!Placed
<1>10. ReadLinksHold' /\ ReadLinksLead'
  BY <1>1, <1>2, ReadNewPageHolds, ReadNewPageLeads
<1>11. ReadWalkGoesOn'
  BY DEF ReadWalkGoesOn, Paginating!FollowBack
<1>12. ReadPageIsWhole'
  <2> SUFFICES ASSUME list \notin Paginating!ByTime, leaf'.items # <<>> PROVE ReadWhole(leaf.items)'
    BY <1>1 DEF ReadPageIsWhole, ReadListStays
  <2>1. \A i \in Paginating!Listed \ S : \A j \in S : key[i] <= key[j]
    <3> SUFFICES ASSUME NEW i \in Paginating!Listed, i \notin S, NEW j \in S PROVE key[i] <= key[j]
      OBVIOUS
    <3>1. key[i] \in Nat /\ key[j] \in Nat /\ key[j] > k /\ ~(key[i] > k) /\ k \in Nat
      BY <1>1, <1>5, <1>6, <1>7, ReadListedIs
    <3> QED
      BY <3>1
  <2>2. ReadWhole(leaf'.items)
    BY <1>1, <1>2, <2>1, ReadPageBackWhole
  <2> QED
    BY <1>1, <2>2 DEF ReadListStays, ReadWhole, Paginating!Listed, ReadOn, ReadDiffer, ReadFalls, ReadEnd
<1>13. ReadBackLeads'
  <2> SUFFICES ASSUME expected' # None, list \notin Paginating!ByTime
               PROVE  same' /\ Paginating!Distinct' /\ Paginating!OnPage(leaf') = expected' /\ leaf'.way = "back"
    BY <1>1 DEF ReadBackLeads, ReadListStays, Paginating!OnPage
  <2>1. leaf.way = "next" /\ expected' = expected /\ same'
    BY DEF Paginating!FollowBack
  <2>2. Paginating!Distinct /\ ReadNearest(expected, S)
    BY <1>5, <2>1 DEF ReadIInv, ReadBackLeads, S
  <2>3. ReadNearest(Paginating!OnPage(leaf'), S)
    BY <1>1, <1>2, ReadPageBackIsNearest
  <2>4. Paginating!OnPage(leaf') = expected
    BY <1>1, <2>2, <2>3, ReadNearestIsOne
  <2>5. Paginating!Distinct'
    BY <1>1, <2>2 DEF ReadListStays, Paginating!Distinct, Paginating!Listed
  <2>6. leaf'.way = "back"
    BY <1>2 DEF ReadFits, ReadLeads
  <2> QED
    BY <2>1, <2>4, <2>5, <2>6
<1> QED
  BY <1>8, <1>9, <1>10, <1>11, <1>12, <1>13 DEF ReadIInv
-----------------------------------------------------------------------------
\* The ends of a page in a list with counts.
LEMMA ReadEndsAre ==
  ASSUME ReadIInv, list \in Paginating!Counted, leaf.items # <<>>
  PROVE  /\ leaf.items[1] \in RowIds /\ ReadEnd(leaf.items) \in RowIds /\ list \notin Paginating!ByTime
         /\ \A i \in RowIds : /\ Paginating!Link(i) \in RowIds \cup Keys /\ Paginating!Link(i) # None
                              /\ Paginating!Place(Paginating!Link(i)) = key[i] /\ Paginating!Place(Paginating!Link(i)) \in Nat \cup {None}
<1>1. ReadTables /\ leaf.items \in Seq(RowIds)
  BY ReadTablesHold DEF ReadIInv, Paginating!TypeOK, Paginating!Leaves
<1>2. list \notin Paginating!ByTime /\ (list \in Paginating!ById \/ list \in Paginating!LookedUp)
  BY DEF Paginating!Counted, Paginating!ById, Paginating!ByTime, Paginating!LookedUp
<1>3. leaf.items[1] \in RowIds /\ ReadEnd(leaf.items) \in RowIds
  <2>1. Len(leaf.items) \in 1 .. Len(leaf.items) /\ 1 \in 1 .. Len(leaf.items)
    BY <1>1, ReadEmpty
  <2> QED
    BY <1>1, <2>1 DEF ReadEnd
<1>4. ASSUME NEW i \in RowIds
      PROVE  Paginating!Link(i) \in RowIds /\ Paginating!Place(Paginating!Link(i)) = key[i] /\ key[i] \in Nat \cup {None}
  <2>1. key[i] \in Nat \cup {None}
    BY <1>1, ReadNumbers DEF ReadTables
  <2>2. list \notin Paginating!LookedUp => key[i] = i
    BY <1>1, <1>2 DEF ReadTables, Paginating!Placed
  <2> QED
    BY <2>1, <2>2 DEF Paginating!Link, Paginating!Place
<1> QED
  BY <1>2, <1>3, <1>4, ReadNumbers

LEMMA ReadCountBackInv == ASSUME ReadIInv, Paginating!CountBack PROVE ReadIInv'
<1> DEFINE link == Paginating!Link(leaf.items[1])
           b == IF Paginating!Beyond("back", Paginating!Place(link)) # {} THEN link ELSE None
<1>1. /\ ReadTables /\ ReadListStays /\ leaf \in Paginating!Leaves /\ Len(leaf.items) <= limit
      /\ list \in Paginating!Counted /\ leaf.items # <<>> /\ leaf.next = None
  BY ReadTablesHold DEF ReadIInv, Paginating!CountBack, ReadListStays, ReadLinksHold, Paginating!TypeOK
<1>2. link \in RowIds \cup Keys /\ link # None /\ list \notin Paginating!ByTime
  BY <1>1, ReadEndsAre
<1>3. /\ leaf' = [leaf EXCEPT !.at = "count next", !.back = b]
      /\ UNCHANGED <<list, limit, key, listed, seen, stayed, tied, lost, same, expected>>
  BY DEF Paginating!CountBack
<1>4. b \in RowIds \cup Keys \cup {None}
  BY <1>2
<1>5. b # None => b = link /\ Paginating!Beyond("back", Paginating!Place(link)) # {}
  OBVIOUS
<1> HIDE DEF b
<1>6. /\ leaf' \in Paginating!Leaves
      /\ leaf'.at = "count next" /\ leaf'.back = b /\ leaf'.items = leaf.items
      /\ leaf'.next = None /\ leaf'.way = leaf.way
  BY <1>1, <1>3, <1>4 DEF Paginating!Leaves
<1>7. Paginating!TypeOK'
  BY <1>3, <1>6 DEF ReadIInv, Paginating!TypeOK
<1>8. Paginating!Placed(key)'
  BY <1>3 DEF ReadIInv, Paginating!Placed
<1>9. ReadLinksHold'
  BY <1>1, <1>3, <1>5, <1>6 DEF ReadLinksHold, Paginating!Link
<1>10. ReadWalkGoesOn'
  <2> SUFFICES ASSUME ~lost, NEW i \in stayed \ (seen \cup tied) PROVE i \in Paginating!Listed' /\ ReadAhead(i)'
    BY <1>3 DEF ReadWalkGoesOn
  <2>1. i \in Paginating!Listed /\ ReadAhead(i)
    BY DEF ReadIInv, ReadWalkGoesOn
  <2> QED
    BY <1>1, <1>3, <1>6, <2>1 DEF ReadAhead, Paginating!Listed, ReadEnd
<1>11. ReadLinksLead'
  <2>1. leaf'.back # None => Paginating!Beyond("back", Paginating!Place(leaf'.back)) # {}
    BY <1>5, <1>6
  <2> QED
    BY <1>3, <1>6, <2>1 DEF ReadLinksLead, Paginating!LinksLeadOn, Paginating!Beyond, Paginating!Listed, Paginating!Place
<1>12. ReadPageIsWhole'
  BY <1>3, <1>6 DEF ReadIInv, ReadPageIsWhole, ReadWhole, Paginating!Listed, ReadOn, ReadDiffer, ReadFalls, ReadEnd
<1>13. ReadBackLeads'
  BY <1>3, <1>6 DEF ReadIInv, ReadBackLeads, Paginating!Distinct, Paginating!Listed, ReadNearest, Paginating!Beyond, Paginating!OnPage
<1> QED
  BY <1>7, <1>8, <1>9, <1>10, <1>11, <1>12, <1>13 DEF ReadIInv

LEMMA ReadCountNextInv == ASSUME ReadIInv, Paginating!CountNext PROVE ReadIInv'
<1> DEFINE link == Paginating!Link(ReadEnd(leaf.items))
           n == IF Paginating!Beyond("next", Paginating!Place(link)) # {} THEN link ELSE None
<1>1. /\ ReadTables /\ ReadListStays /\ leaf \in Paginating!Leaves /\ Len(leaf.items) <= limit
      /\ list \in Paginating!Counted /\ leaf.items # <<>> /\ leaf.next = None /\ leaf.at = "count next"
  BY ReadTablesHold DEF ReadIInv, Paginating!CountNext, ReadListStays, ReadLinksHold, Paginating!TypeOK
<1>2. /\ link \in RowIds \cup Keys /\ link # None /\ list \notin Paginating!ByTime
      /\ Paginating!Place(link) = key[ReadEnd(leaf.items)] /\ Paginating!Place(link) \in Nat \cup {None}
  BY <1>1, ReadEndsAre
<1>3. /\ leaf' = [leaf EXCEPT !.at = "read", !.next = n]
      /\ tied' = tied \cup Paginating!Tied(Paginating!Place(link))
      /\ UNCHANGED <<list, limit, key, listed, seen, stayed, lost, same, expected>>
  BY DEF Paginating!CountNext, ReadEnd
<1>4. n \in RowIds \cup Keys \cup {None}
  BY <1>2
<1>5. /\ n # None => n = link /\ Paginating!Beyond("next", Paginating!Place(link)) # {}
      /\ n = None => Paginating!Beyond("next", Paginating!Place(link)) = {}
  BY <1>2
<1> HIDE DEF n
<1>6. /\ leaf' \in Paginating!Leaves
      /\ leaf'.at = "read" /\ leaf'.back = leaf.back /\ leaf'.items = leaf.items
      /\ leaf'.next = n /\ leaf'.way = leaf.way
  BY <1>1, <1>3, <1>4 DEF Paginating!Leaves
<1>7. Paginating!TypeOK'
  <2>1. Paginating!Tied(Paginating!Place(link)) \subseteq RowIds
    BY <1>1, ReadListedIs DEF Paginating!Tied
  <2> QED
    BY <1>3, <1>6, <2>1 DEF ReadIInv, Paginating!TypeOK
<1>8. Paginating!Placed(key)'
  BY <1>3 DEF ReadIInv, Paginating!Placed
<1>9. ReadLinksHold'
  BY <1>1, <1>3, <1>5, <1>6 DEF ReadIInv, ReadLinksHold, Paginating!Link, ReadEnd
<1>10. ReadWalkGoesOn'
  <2> SUFFICES ASSUME ~lost, NEW i \in stayed \ (seen \cup tied), i \notin Paginating!Tied(Paginating!Place(link))
               PROVE  i \in Paginating!Listed' /\ ReadAhead(i)'
    BY <1>3 DEF ReadWalkGoesOn
  <2>1. i \in Paginating!Listed /\ ReadAhead(i)
    BY DEF ReadIInv, ReadWalkGoesOn
  <2>2. Paginating!Place(link) # None /\ key[i] <= Paginating!Place(link) /\ key[i] # Paginating!Place(link) /\ key[i] \in Nat
    BY <1>1, <1>2, <2>1, ReadListedIs DEF ReadAhead, Paginating!Tied
  <2>3. key[i] < Paginating!Place(link) /\ Paginating!Place(link) \in Nat
    BY <1>2, <2>2
  <2>4. i \in Paginating!Beyond("next", Paginating!Place(link))
    BY <1>1, <2>1, <2>2, <2>3, ReadBeyondIs
  <2>5. n # None /\ n = link
    BY <1>5, <2>4
  <2> QED
    BY <1>3, <1>6, <2>1, <2>2, <2>5 DEF ReadAhead, Paginating!Listed, Paginating!Place
<1>11. ReadLinksLead'
  <2>1. same /\ leaf'.next # None => Paginating!Beyond("next", Paginating!Place(leaf'.next)) # {}
    BY <1>5, <1>6
  <2>2. same /\ leaf'.back # None => Paginating!Beyond("back", Paginating!Place(leaf'.back)) # {}
    BY <1>1, <1>6 DEF ReadIInv, ReadLinksLead
  <2> QED
    BY <1>3, <1>6, <2>1, <2>2 DEF ReadLinksLead, Paginating!LinksLeadOn, Paginating!Beyond, Paginating!Listed, Paginating!Place
<1>12. ReadPageIsWhole'
  BY <1>3, <1>6 DEF ReadIInv, ReadPageIsWhole, ReadWhole, Paginating!Listed, ReadOn, ReadDiffer, ReadFalls, ReadEnd
<1>13. ReadBackLeads'
  BY <1>3, <1>6 DEF ReadIInv, ReadBackLeads, Paginating!Distinct, Paginating!Listed, ReadNearest, Paginating!Beyond, Paginating!OnPage
<1> QED
  BY <1>7, <1>8, <1>9, <1>10, <1>11, <1>12, <1>13 DEF ReadIInv
-----------------------------------------------------------------------------
\* A change of the list.
LEMMA ReadShowInv == ASSUME ReadIInv, NEW i \in RowIds, Paginating!Show(i) PROVE ReadIInv'
<1>1. /\ stayed' = stayed \ {i} /\ ~same' /\ expected' = None
      /\ UNCHANGED <<list, limit, leaf, seen, tied, key, lost>>
      /\ listed' = IF i \in listed THEN listed \ {i} ELSE listed \cup {i}
  BY DEF Paginating!Show, Paginating!Changed
<1>2. Paginating!TypeOK'
  BY <1>1 DEF ReadIInv, Paginating!TypeOK, Paginating!Show, Paginating!Changed
<1>3. Paginating!Placed(key)'
  BY <1>1 DEF ReadIInv, Paginating!Placed
<1>4. ReadLinksHold'
  BY <1>1 DEF ReadIInv, ReadLinksHold, Paginating!Link, ReadEnd
<1>5. ReadWalkGoesOn'
  <2> SUFFICES ASSUME ~lost, NEW j \in stayed \ (seen \cup tied), j # i PROVE j \in Paginating!Listed' /\ ReadAhead(j)'
    BY <1>1 DEF ReadWalkGoesOn
  <2>1. j \in Paginating!Listed /\ ReadAhead(j)
    BY DEF ReadIInv, ReadWalkGoesOn
  <2>2. j \in Paginating!Listed'
    BY <1>1, <2>1 DEF Paginating!Listed
  <2>3. ReadAhead(j)'
    BY <1>1, <2>1 DEF ReadAhead, Paginating!Place, ReadEnd
  <2> QED
    BY <2>2, <2>3
<1>6. ReadLinksLead' /\ ReadPageIsWhole'
  BY <1>1 DEF ReadLinksLead, Paginating!LinksLeadOn, ReadPageIsWhole
<1>7. ReadBackLeads'
  BY <1>1 DEF ReadBackLeads
<1> QED
  BY <1>2, <1>3, <1>4, <1>5, <1>6, <1>7 DEF ReadIInv

LEMMA ReadMovedInv ==
  ASSUME ReadIInv, list \notin Paginating!ById, NEW i \in RowIds, NEW k \in Keys \cup {None}, Paginating!Moved(i, k), Paginating!Placed(key')
  PROVE  ReadIInv'
<1>1. /\ stayed' = stayed \ {i} /\ ~same' /\ expected' = None
      /\ key' = [key EXCEPT ![i] = k]
      /\ UNCHANGED <<list, limit, leaf, seen, tied, listed>>
      /\ lost' = (lost \/ (list \in Paginating!LookedUp /\ leaf.items # <<>> /\ ReadEnd(leaf.items) = i))
  BY DEF Paginating!Moved, Paginating!Changed, ReadEnd
<1>2. ReadTables /\ leaf \in Paginating!Leaves
  BY ReadTablesHold DEF ReadIInv, Paginating!TypeOK
<1>3. \A j \in RowIds : j # i => key'[j] = key[j]
  BY <1>1, <1>2 DEF ReadTables
<1>4. Paginating!TypeOK'
  <2>1. key' \in [RowIds -> Keys \cup {None}]
    BY <1>1, <1>2 DEF ReadTables
  <2>2. lost' \in BOOLEAN
    BY <1>1 DEF ReadIInv, Paginating!TypeOK
  <2>3. same' \in BOOLEAN
    BY DEF Paginating!Moved, Paginating!Changed
  <2> QED
    BY <1>1, <2>1, <2>2, <2>3 DEF ReadIInv, Paginating!TypeOK
<1>5. Paginating!Placed(key)'
  BY <1>1 DEF Paginating!Placed
<1>6. list \in Paginating!LookedUp \/ list \in Paginating!ByTime
  BY <1>2 DEF ReadTables, Paginating!Lists
<1>7. ReadLinksHold'
  <2>1. list \notin Paginating!ByTime => \A j : Paginating!Link(j)' = Paginating!Link(j)
    BY <1>1, <1>6 DEF Paginating!Link
  <2>2. /\ leaf.next # None => leaf.items # <<>> /\ (list \notin Paginating!ByTime => leaf.next = ReadEnd(leaf.items))
        /\ leaf.back # None => leaf.items # <<>> /\ (list \notin Paginating!ByTime => leaf.back = leaf.items[1])
    BY <1>6 DEF ReadIInv, ReadLinksHold, Paginating!Link
  <2> QED
    BY <1>1, <1>6, <2>2 DEF ReadIInv, ReadLinksHold, Paginating!Link, ReadEnd
<1>8. ReadWalkGoesOn'
  <2> SUFFICES ASSUME ~lost', NEW j \in stayed \ (seen \cup tied), j # i PROVE j \in Paginating!Listed' /\ ReadAhead(j)'
    BY <1>1 DEF ReadWalkGoesOn
  <2>1. j \in Paginating!Listed /\ ReadAhead(j) /\ ~lost
    BY <1>1 DEF ReadIInv, ReadWalkGoesOn
  <2>2. j \in RowIds /\ key'[j] = key[j]
    BY <1>2, <1>3, <2>1, ReadListedIs
  <2>3. j \in Paginating!Listed'
    BY <1>1, <2>1, <2>2 DEF Paginating!Listed
  <2>4. leaf.items # <<>> => ReadEnd(leaf.items) \in RowIds
    <3>1. leaf.items \in Seq(RowIds)
      BY <1>2 DEF Paginating!Leaves
    <3>2. leaf.items # <<>> => Len(leaf.items) \in 1 .. Len(leaf.items)
      BY <3>1, ReadEmpty
    <3> QED
      BY <3>1, <3>2 DEF ReadEnd
  <2>5. list \in Paginating!LookedUp /\ leaf.items # <<>> => key'[ReadEnd(leaf.items)] = key[ReadEnd(leaf.items)]
    BY <1>1, <1>3, <2>4
  <2>6. CASE leaf.next # None /\ Paginating!Place(leaf.next) # None /\ key[j] <= Paginating!Place(leaf.next)
    <3>1. leaf.items # <<>> /\ (list \notin Paginating!ByTime => leaf.next = Paginating!Link(ReadEnd(leaf.items)))
      BY <2>6 DEF ReadIInv, ReadLinksHold
    <3>2. CASE list \in Paginating!LookedUp
      <4>1. leaf.next = ReadEnd(leaf.items)
        BY <3>1, <3>2 DEF Paginating!Link, Paginating!LookedUp, Paginating!ByTime
      <4>2. Paginating!Place(leaf.next)' = Paginating!Place(leaf.next)
        BY <1>1, <2>5, <3>1, <3>2, <4>1 DEF Paginating!Place
      <4> QED
        BY <1>1, <2>2, <2>3, <2>6, <4>2 DEF ReadAhead
    <3>3. CASE list \notin Paginating!LookedUp
      <4>1. Paginating!Place(leaf.next)' = Paginating!Place(leaf.next)
        BY <1>1, <3>3 DEF Paginating!Place
      <4> QED
        BY <1>1, <2>2, <2>3, <2>6, <4>1 DEF ReadAhead
    <3> QED
      BY <3>2, <3>3
  <2>7. CASE leaf.at # "read" /\ key[ReadEnd(leaf.items)] # None /\ key[j] <= key[ReadEnd(leaf.items)]
    <3>1. leaf.items # <<>> /\ list \in Paginating!LookedUp
      BY <2>7, <1>6 DEF ReadIInv, ReadLinksHold, Paginating!Counted, Paginating!LookedUp, Paginating!ByTime
    <3> QED
      BY <1>1, <2>2, <2>3, <2>5, <2>7, <3>1 DEF ReadAhead, ReadEnd
  <2> QED
    BY <2>1, <2>6, <2>7 DEF ReadAhead
<1>9. ReadLinksLead' /\ ReadPageIsWhole'
  BY <1>1 DEF ReadLinksLead, Paginating!LinksLeadOn, ReadPageIsWhole
<1>10. ReadBackLeads'
  BY <1>1 DEF ReadBackLeads
<1> QED
  BY <1>4, <1>5, <1>7, <1>8, <1>9, <1>10 DEF ReadIInv

LEMMA ReadRemoveInv == ASSUME ReadIInv, NEW i \in RowIds, Paginating!Remove(i) PROVE ReadIInv'
<1>1. list \notin Paginating!ById /\ Paginating!Moved(i, None) /\ key' = [key EXCEPT ![i] = None]
  BY DEF Paginating!Remove, Paginating!Moved
<1>2. ReadTables
  BY ReadTablesHold DEF ReadIInv
<1>3. \A j \in RowIds : key'[j] = IF j = i THEN None ELSE key[j]
  BY <1>1, <1>2 DEF ReadTables
<1>4. Paginating!Placed(key')
  BY <1>1, <1>2, <1>3 DEF ReadTables, Paginating!Placed
<1> QED
  BY <1>1, <1>4, ReadMovedInv
-----------------------------------------------------------------------------
LEMMA ReadInitInv == Paginating!Init => ReadIInv
<1> SUFFICES ASSUME Paginating!Init PROVE ReadIInv
  OBVIOUS
<1>1. /\ Paginating!Blank.at = "read" /\ Paginating!Blank.way = "blank" /\ Paginating!Blank.items = <<>> /\ Paginating!Blank.back = None /\ Paginating!Blank.next = None
      /\ Paginating!Blank \in Paginating!Leaves
  <2>1. <<>> \in Seq(RowIds)
    OBVIOUS
  <2> QED
    BY <2>1 DEF Paginating!Blank, Paginating!Leaves
<1>2. Paginating!TypeOK
  <2>1. \A n \in Limits : Len(<<>>) <= n
    BY ReadNumbers
  <2> QED
    BY <1>1, <2>1 DEF Paginating!Init, Paginating!TypeOK
<1>3. ReadLinksHold /\ ReadWalkGoesOn /\ ReadLinksLead /\ ReadPageIsWhole /\ ReadBackLeads
  BY <1>1 DEF Paginating!Init, ReadLinksHold, ReadWalkGoesOn, ReadLinksLead, Paginating!LinksLeadOn, ReadPageIsWhole, ReadBackLeads
<1> QED
  BY <1>2, <1>3 DEF ReadIInv, Paginating!Init

LEMMA ReadNextInv == ReadIInv /\ (Paginating!Next \/ UNCHANGED Paginating!vars) => ReadIInv'
<1> SUFFICES ASSUME ReadIInv, (Paginating!Next \/ UNCHANGED Paginating!vars) PROVE ReadIInv'
  OBVIOUS
<1>1. CASE Paginating!First
  BY <1>1, ReadFirstInv
<1>2. CASE Paginating!FollowNext
  BY <1>2, ReadFollowNextInv
<1>3. CASE Paginating!FollowBack
  BY <1>3, ReadFollowBackInv
<1>4. CASE Paginating!CountBack
  BY <1>4, ReadCountBackInv
<1>5. CASE Paginating!CountNext
  BY <1>5, ReadCountNextInv
<1>6. ASSUME NEW i \in RowIds, Paginating!Show(i) PROVE ReadIInv'
  BY <1>6, ReadShowInv
<1>7. ASSUME NEW i \in RowIds, Paginating!Remove(i) PROVE ReadIInv'
  BY <1>7, ReadRemoveInv
<1>8. ASSUME NEW i \in RowIds, NEW k \in Keys, Paginating!Insert(i, k) PROVE ReadIInv'
  BY <1>8, ReadMovedInv DEF Paginating!Insert
<1>9. ASSUME NEW i \in RowIds, NEW k \in Keys, Paginating!Rename(i, k) PROVE ReadIInv'
  <2>1. list \notin Paginating!ById
    BY <1>9 DEF Paginating!Rename, Paginating!ById
  <2> QED
    BY <1>9, <2>1, ReadMovedInv DEF Paginating!Rename
<1>10. CASE UNCHANGED Paginating!vars
  <2>1. Paginating!TypeOK' /\ Paginating!Placed(key)'
    BY <1>10 DEF Paginating!vars, ReadIInv, Paginating!TypeOK, Paginating!Placed
  <2>2. ReadLinksHold' /\ ReadWalkGoesOn'
    BY <1>10 DEF Paginating!vars, ReadIInv, ReadLinksHold, ReadWalkGoesOn, ReadAhead, Paginating!Listed, Paginating!Link, Paginating!Place, ReadEnd
  <2>3. ReadLinksLead'
    BY <1>10 DEF Paginating!vars, ReadIInv, ReadLinksLead, Paginating!LinksLeadOn, Paginating!Beyond, Paginating!Listed, Paginating!Distinct, Paginating!Place
  <2>4. ReadPageIsWhole'
    BY <1>10 DEF Paginating!vars, ReadIInv, ReadPageIsWhole, ReadWhole, Paginating!Listed, ReadOn, ReadDiffer, ReadFalls, ReadEnd
  <2>5. ReadBackLeads'
    BY <1>10 DEF Paginating!vars, ReadIInv, ReadBackLeads, Paginating!Distinct, Paginating!Listed, ReadNearest, Paginating!Beyond, Paginating!OnPage
  <2> QED
    BY <2>1, <2>2, <2>3, <2>4, <2>5 DEF ReadIInv
<1> QED
  BY <1>1, <1>2, <1>3, <1>4, <1>5, <1>6, <1>7, <1>8, <1>9, <1>10 DEF Paginating!Next

\* What the invariant says of the promises.
LEMMA ReadPromises == ReadIInv => Paginating!WalkMissesNothing /\ Paginating!BackReturns /\ Paginating!LinksLeadOn
<1> SUFFICES ASSUME ReadIInv PROVE Paginating!WalkMissesNothing /\ Paginating!BackReturns /\ Paginating!LinksLeadOn
  OBVIOUS
<1>1. Paginating!WalkMissesNothing
  <2> SUFFICES ASSUME leaf.at = "read", leaf.next = None, ~lost, NEW i \in stayed \ (seen \cup tied)
               PROVE  FALSE
    BY DEF Paginating!WalkMissesNothing
  <2> QED
    BY DEF ReadIInv, ReadWalkGoesOn, ReadAhead
<1>2. Paginating!BackReturns
  BY DEF ReadIInv, ReadBackLeads, Paginating!BackReturns
<1>3. Paginating!LinksLeadOn
  BY DEF ReadIInv, ReadLinksLead
<1> QED
  BY <1>1, <1>2, <1>3
-----------------------------------------------------------------------------
\* While the part moves it has its invariant; and so it has in every state.
ReadHold == part = "paging" => ReadIInv

LEMMA ReadAreHeld == AccountsSpec => []ReadHold
<1>1. AccountsInit => ReadHold
  BY ReadInitInv DEF AccountsInit, ReadHold
<1>2. ReadHold /\ [AccountsNext]_all_accounts_vars => ReadHold'
  <2> SUFFICES ASSUME ReadHold, [AccountsNext]_all_accounts_vars, part' = "paging" PROVE ReadIInv'
    BY DEF ReadHold
  <2>1. part = "paging" /\ ReadIInv
    BY PartStays DEF ReadHold
  <2>2. Paginating!Next \/ UNCHANGED paging_vars
    BY <2>1 DEF AccountsNext, all_accounts_vars
  <2>3. UNCHANGED paging_vars => UNCHANGED Paginating!vars
    BY DEF paging_vars, Paginating!vars
  <2> QED
    BY <2>1, <2>2, <2>3, ReadNextInv
<1> QED
  BY <1>1, <1>2, PTL DEF AccountsSpec

\* paginate and PaginatedResult of pagination.py, the lists of the site and of
\* the API that use them or have their own links: going on with Next misses no row
\* that was there all the time, but for what the promise names, Back returns to
\* the page one came from, and links lead to rows, however many rows there are and
\* whatever part of them makes a page.
THEOREM PagesStayWhole == AccountsSpec => []PagesAreWhole
<1>1. ReadHold => PagesAreWhole
  BY ReadPromises DEF ReadHold, PagesAreWhole
<1> QED
  BY <1>1, ReadAreHeld, PTL
-----------------------------------------------------------------------------
LEMMA ListsInitInv == Viewing!Init => ListsIInv
<1> SUFFICES ASSUME Viewing!Init PROVE ListsIInv
  OBVIOUS
<1>1. viewed \in Viewing!Posts
  BY DEF Viewing!Init, Viewing!Posts
<1>2. Viewing!TypeOK
  BY <1>1 DEF Viewing!Init, Viewing!TypeOK
<1>3. ListsCachesFollow
  BY DEF Viewing!Init, ListsCachesFollow
<1> QED
  BY <1>2, <1>3 DEF ListsIInv
-----------------------------------------------------------------------------
LEMMA ListsFillFrontInv == ASSUME ListsIInv, Viewing!FillFront PROVE ListsIInv'
<1>1. viewed.rating \in Viewing!RatingCodes /\ viewed.tagged \in BOOLEAN
  BY DEF ListsIInv, Viewing!TypeOK, Viewing!Posts
<1>2. front' \subseteq [rating : Viewing!RatingCodes, tagged : BOOLEAN]
  BY <1>1 DEF Viewing!FillFront
<1>3. UNCHANGED <<viewed, viewer, friend, ignores, blocks, cached_ignoring, selected, pending>>
  BY DEF Viewing!FillFront
<1> QED
  BY <1>2, <1>3 DEF ListsIInv, Viewing!TypeOK, ListsCachesFollow

LEMMA ListsFillIgnoringInv == ASSUME ListsIInv, Viewing!FillIgnoring PROVE ListsIInv'
  BY DEF ListsIInv, Viewing!TypeOK, ListsCachesFollow, Viewing!FillIgnoring

LEMMA ListsFillSelectedInv == ASSUME ListsIInv, Viewing!FillSelected PROVE ListsIInv'
  BY DEF ListsIInv, Viewing!TypeOK, ListsCachesFollow, Viewing!FillSelected

LEMMA ListsExpireFrontInv == ASSUME ListsIInv, Viewing!ExpireFront PROVE ListsIInv'
  BY DEF ListsIInv, Viewing!TypeOK, ListsCachesFollow, Viewing!ExpireFront

LEMMA ListsInvalidateInv == ASSUME ListsIInv, NEW cache \in {"ignoring", "selected"}, Viewing!Invalidate(cache) PROVE ListsIInv'
<1>1. CASE cache = "ignoring"
  BY <1>1 DEF ListsIInv, Viewing!TypeOK, ListsCachesFollow, Viewing!Invalidate
<1>2. CASE cache = "selected"
  BY <1>2 DEF ListsIInv, Viewing!TypeOK, ListsCachesFollow, Viewing!Invalidate
<1> QED
  BY <1>1, <1>2

LEMMA ListsChangeInv == ASSUME ListsIInv, NEW row \in Viewing!Posts, Viewing!Change(row) PROVE ListsIInv'
  BY DEF ListsIInv, Viewing!TypeOK, ListsCachesFollow, Viewing!Change, Viewing!caches

LEMMA ListsPreferInv == ASSUME ListsIInv, NEW sfw \in BOOLEAN, NEW code \in Viewing!RatingCodes, Viewing!Prefer(sfw, code) PROVE ListsIInv'
<1>1. viewer' \in Viewing!Viewers /\ viewer'.is = viewer.is
  <2> DEFINE v == [viewer EXCEPT !.sfw = sfw, !.rating = code]
  <2>1. v \in Viewing!Viewers /\ v.is = viewer.is
    BY DEF ListsIInv, Viewing!TypeOK, Viewing!Viewers
  <2> QED
    BY <2>1 DEF Viewing!Prefer
<1>2. UNCHANGED <<viewed, friend, ignores, blocks, front, cached_ignoring, selected, pending>>
  BY DEF Viewing!Prefer, Viewing!caches
<1> QED
  BY <1>1, <1>2 DEF ListsIInv, Viewing!TypeOK, ListsCachesFollow

LEMMA ListsBefriendInv == ASSUME ListsIInv, NEW yes \in BOOLEAN, Viewing!Befriend(yes) PROVE ListsIInv'
  BY DEF ListsIInv, Viewing!TypeOK, ListsCachesFollow, Viewing!Befriend, Viewing!caches

LEMMA ListsIgnoreInv == ASSUME ListsIInv, NEW yes \in BOOLEAN, Viewing!Ignore(yes) PROVE ListsIInv'
<1>1. /\ viewer.is \in {"user", "mod"} /\ ignores' = yes /\ friend' = (friend /\ ~yes)
      /\ pending' = pending \cup {"ignoring"}
      /\ UNCHANGED <<viewed, viewer, blocks, front, cached_ignoring, selected>>
  BY DEF Viewing!Ignore, Viewing!caches
<1>2. friend' \in BOOLEAN /\ ignores' \in BOOLEAN
  BY <1>1 DEF ListsIInv, Viewing!TypeOK
<1> QED
  BY <1>1, <1>2 DEF ListsIInv, Viewing!TypeOK, ListsCachesFollow

LEMMA ListsBlockInv == ASSUME ListsIInv, NEW least \in Viewing!RatingCodes \cup {Viewing!Never}, Viewing!Block(least) PROVE ListsIInv'
  BY DEF ListsIInv, Viewing!TypeOK, ListsCachesFollow, Viewing!Block, Viewing!caches

LEMMA ListsNextInv == ListsIInv /\ (Viewing!Next \/ UNCHANGED Viewing!vars) => ListsIInv'
<1> SUFFICES ASSUME ListsIInv, (Viewing!Next \/ UNCHANGED Viewing!vars) PROVE ListsIInv'
  OBVIOUS
<1>1. CASE UNCHANGED Viewing!vars
  BY <1>1 DEF Viewing!vars, Viewing!caches, ListsIInv, Viewing!TypeOK, ListsCachesFollow
<1>2. CASE Viewing!Next
  BY <1>2, ListsFillFrontInv, ListsFillIgnoringInv, ListsFillSelectedInv, ListsExpireFrontInv, ListsInvalidateInv, ListsChangeInv, ListsPreferInv,
     ListsBefriendInv, ListsIgnoreInv, ListsBlockInv DEF Viewing!Next
<1> QED
  BY <1>1, <1>2
-----------------------------------------------------------------------------
\* The numbers in what lists and pages decide.
LEMMA ListsNumbers ==
    ASSUME Viewing!TypeOK
    PROVE  /\ blocks > viewed.rating <=> ~(blocks <= viewed.rating)
           /\ viewed.rating > Viewing!Rating <=> ~(viewed.rating <= Viewing!Rating)
           /\ blocks = Viewing!Never => ~(blocks <= viewed.rating)
           /\ viewer.is \in {"guest", "user", "owner", "mod"} /\ viewer.sfw \in BOOLEAN /\ viewer.collects \in BOOLEAN
           /\ viewed.kind \in {"submission", "journal", "character"} /\ viewed.hidden \in BOOLEAN
           /\ viewed.friends_only \in BOOLEAN /\ viewed.browse_excluded \in BOOLEAN /\ viewed.tagged \in BOOLEAN
<1>1. /\ viewer.is \in {"guest", "user", "owner", "mod"} /\ viewer.sfw \in BOOLEAN /\ viewer.collects \in BOOLEAN
      /\ viewer.rating \in {10, 30} /\ viewed.rating \in {10, 30} /\ blocks \in {10, 30, 99}
      /\ viewed.kind \in {"submission", "journal", "character"} /\ viewed.hidden \in BOOLEAN
      /\ viewed.friends_only \in BOOLEAN /\ viewed.browse_excluded \in BOOLEAN /\ viewed.tagged \in BOOLEAN
  BY DEF Viewing!TypeOK, Viewing!Posts, Viewing!Viewers, Viewing!RatingCodes, Viewing!General, Viewing!Adult, Viewing!Never
<1>2. Viewing!Rating \in {10, 30}
  BY <1>1 DEF Viewing!Rating, Viewing!General
<1> QED
  BY <1>1, <1>2 DEF Viewing!Never

LEMMA ListsPagesAre == ASSUME Viewing!TypeOK, NEW i \in BOOLEAN PROVE Viewing!Page(i) <=> ~viewed.hidden /\ Viewing!ForFriends /\ ~Viewing!Exceeds /\ (i => ~ignores /\ ~Viewing!TagBlocked)
<1>1. viewed.kind \in {"submission", "journal", "character"}
  BY ListsNumbers
<1> QED
  BY <1>1 DEF Viewing!Page, Viewing!SubmissionPage, Viewing!JournalPage, Viewing!CharacterPage

LEMMA ListsRatedIsOpen == Viewing!TypeOK /\ Viewing!OwnOrRated => ~Viewing!Exceeds
  BY ListsNumbers DEF Viewing!OwnOrRated, Viewing!Exceeds, Viewing!Own

LEMMA ListsSearchIsOpen ==
    ASSUME Viewing!TypeOK, NEW g \in BOOLEAN, Viewing!Search(g)
    PROVE  ~viewed.hidden /\ Viewing!ForFriends /\ ~Viewing!Exceeds /\ ~ignores /\ ~Viewing!TagBlocked
<1>1. ~viewed.hidden /\ Viewing!ForFriends /\ ~ignores
  BY DEF Viewing!Search, Viewing!ForFriends
<1>2. ~Viewing!Exceeds
  BY ListsNumbers DEF Viewing!Search, Viewing!Exceeds
<1>3. ~Viewing!TagBlocked
  BY ListsNumbers DEF Viewing!Search, Viewing!TagBlocked
<1> QED
  BY <1>1, <1>2, <1>3

LEMMA ListsListsAreOpen == Viewing!TypeOK => Viewing!ListedCanBeOpened
<1> SUFFICES ASSUME Viewing!TypeOK PROVE Viewing!ListedCanBeOpened
  OBVIOUS
<1>1. ASSUME Viewing!InSiteList PROVE Viewing!Page(TRUE)
  <2>1. CASE Viewing!Search(TRUE) \/ Viewing!Search(FALSE)
    <3>1. ~viewed.hidden /\ Viewing!ForFriends /\ ~Viewing!Exceeds /\ ~ignores /\ ~Viewing!TagBlocked
      BY <2>1, ListsSearchIsOpen
    <3> QED
      BY <3>1, ListsPagesAre
  <2>2. CASE ~(Viewing!Search(TRUE) \/ Viewing!Search(FALSE))
    <3>1. ~viewed.hidden /\ Viewing!ForFriends /\ Viewing!OwnOrRated /\ ~ignores /\ ~Viewing!TagBlocked
      BY <1>1, <2>2, ListsNumbers DEF Viewing!InSiteList, Viewing!SubmissionList, Viewing!Near, Viewing!FavoriteSubmissions, Viewing!JournalBrowse, Viewing!FavoriteJournals,
         Viewing!CharacterList, Viewing!FavoriteCharacters
    <3> QED
      BY <3>1, ListsPagesAre, ListsRatedIsOpen
  <2> QED
    BY <2>1, <2>2
<1>2. ASSUME Viewing!InUserList PROVE Viewing!Page(FALSE)
  <2>1. ~viewed.hidden /\ Viewing!ForFriends /\ Viewing!OwnOrRated
    BY <1>2, ListsNumbers DEF Viewing!InUserList, Viewing!SubmissionList, Viewing!FolderPreview, Viewing!JournalList, Viewing!JournalLatest, Viewing!CharacterList
  <2> QED
    BY <2>1, ListsPagesAre, ListsRatedIsOpen
<1>3. ASSUME NEW anyway \in BOOLEAN, Viewing!SubmissionApi(anyway) PROVE Viewing!SubmissionPage(~anyway) \/ (Viewing!Own /\ Viewing!Sfw)
  <2>1. ~Viewing!Exceeds \/ (Viewing!Own /\ Viewing!Sfw)
    BY <1>3, ListsNumbers DEF Viewing!SubmissionApi, Viewing!Exceeds, Viewing!Own, Viewing!Sfw
  <2> QED
    BY <1>3, <2>1 DEF Viewing!SubmissionApi, Viewing!SubmissionPage
<1>4. ASSUME Viewing!Collections PROVE Viewing!SubmissionPage(FALSE) \/ viewer.collects
  <2>1. ~Viewing!Exceeds \/ viewer.collects
    BY <1>4, ListsNumbers DEF Viewing!Collections, Viewing!Exceeds, Viewing!Own, Viewing!Sfw
  <2> QED
    BY <1>4, <2>1 DEF Viewing!Collections, Viewing!SubmissionPage
<1> QED
  BY <1>1, <1>2, <1>3, <1>4 DEF Viewing!ListedCanBeOpened

LEMMA ListsFrontIsOpen == ListsIInv => Viewing!FrontPageCanBeOpened
<1> SUFFICES ASSUME ListsIInv, Viewing!FrontPage, front = {[rating |-> viewed.rating, tagged |-> viewed.tagged]}, ~viewed.hidden, ~viewed.friends_only,
                    pending = {}
             PROVE  Viewing!Page(TRUE)
  BY DEF Viewing!FrontPageCanBeOpened
<1>1. Viewing!TypeOK /\ ListsCachesFollow
  BY DEF ListsIInv
<1>2. /\ viewed.rating <= Viewing!Rating
      /\ Viewing!Signed => /\ cached_ignoring = {FALSE}
                           /\ \E least \in selected : ~(viewed.tagged /\ least <= viewed.rating)
  <2>1. PICK entry \in front : /\ entry.rating <= Viewing!Rating
                               /\ Viewing!Signed => /\ cached_ignoring = {FALSE}
                                                    /\ \E least \in selected : ~(entry.tagged /\ least <= entry.rating)
    BY Zenon DEF Viewing!FrontPage
  <2>2. entry.rating = viewed.rating /\ entry.tagged = viewed.tagged
    <3>1. entry = [rating |-> viewed.rating, tagged |-> viewed.tagged]
      OBVIOUS
    <3> QED
      BY <3>1
  <2> QED
    BY <2>1, <2>2, Zenon
<1>3. ~Viewing!Exceeds /\ Viewing!ForFriends
  BY <1>1, <1>2, ListsNumbers DEF Viewing!Exceeds, Viewing!ForFriends
<1>4. ~ignores
  BY <1>1, <1>2 DEF ListsCachesFollow, Viewing!Signed
<1>5. ~Viewing!TagBlocked
  BY <1>1, <1>2 DEF ListsCachesFollow, Viewing!TagBlocked
<1> QED
  BY <1>1, <1>3, <1>4, <1>5, ListsPagesAre

LEMMA ListsPromises == ListsIInv => Viewing!ListedCanBeOpened /\ Viewing!FrontPageCanBeOpened
  BY ListsListsAreOpen, ListsFrontIsOpen DEF ListsIInv
-----------------------------------------------------------------------------
\* While the part moves it has its invariant; and so it has in every state.
ListsHold == part = "visibility" => ListsIInv

LEMMA ListsAreHeld == AccountsSpec => []ListsHold
<1>1. AccountsInit => ListsHold
  BY ListsInitInv DEF AccountsInit, ListsHold
<1>2. ListsHold /\ [AccountsNext]_all_accounts_vars => ListsHold'
  <2> SUFFICES ASSUME ListsHold, [AccountsNext]_all_accounts_vars, part' = "visibility" PROVE ListsIInv'
    BY DEF ListsHold
  <2>1. part = "visibility" /\ ListsIInv
    BY PartStays DEF ListsHold
  <2>2. Viewing!Next \/ UNCHANGED visibility_vars
    BY <2>1 DEF AccountsNext, all_accounts_vars
  <2>3. UNCHANGED visibility_vars => UNCHANGED Viewing!vars
    BY DEF visibility_vars, Viewing!vars, Viewing!caches
  <2> QED
    BY <2>1, <2>2, <2>3, ListsNextInv
<1> QED
  BY <1>1, <1>2, PTL DEF AccountsSpec

\* The select_ functions of submission.py, journal.py, character.py, favorite.py,
\* collection.py and search.py, and the front page of index.py with its caches:
\* what any of them shows a viewer, the page of the post shows them too, whatever
\* the post, the viewer's settings, and whom and what they ignore and block.
THEOREM ListsKeepToThePages == AccountsSpec => []ListedCanBeSeen
<1>1. ListsHold => ListedCanBeSeen
  BY ListsPromises DEF ListsHold, ListedCanBeSeen
<1> QED
  BY <1>1, ListsAreHeld, PTL
-----------------------------------------------------------------------------
\* The rows, caches and requests of login.py, resetpassword.py, profile.py, define.py,
\* followuser.py, blocktag.py, submission.py, journal.py, character.py and pagination.py
\* hold what their columns and their callers expect, whatever is interleaved.
THEOREM AccountsAreTyped == AccountsSpec => []AccountsTypeOK
<1>1. LoginsHold /\ ConfigHold /\ NamesHold /\ FollowHold /\ PostHold /\ ListsHold /\ ReadHold => AccountsTypeOK
  BY DEF AccountsTypeOK, LoginsHold, ConfigHold, NamesHold, FollowHold, PostHold, ListsHold, ReadHold,
         LoginsIInv, ConfigIInv, NamesIInv, FollowIInv, PostIInv, ListsIInv, ReadIInv
<1> QED
  BY <1>1, LoginsAreHeld, ConfigAreHeld, NamesAreHeld, FollowAreHeld, PostAreHeld, ListsAreHeld, ReadAreHeld, PTL
===============================================================================
