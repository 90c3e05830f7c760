------------------------------ MODULE Credentials ------------------------------
(***************************************************************************)
(* Passwords, email addresses and sessions: signing in and out, changing   *)
(* the password or the address (login.py, profile.edit_email_password),    *)
(* and resetting a forgotten password by a link sent to an address         *)
(* (resetpassword.py).                                                     *)
(*                                                                         *)
(* A statement commits by itself, except in resetpassword.reset, a READ    *)
(* COMMITTED transaction.  A request may be cut short after any of them.   *)
(* A password is the number of the change that set it.  Addresses are      *)
(* compared as they are written; ages of tokens are replaced by ending a   *)
(* token at any time.  The second factor is in TwoFactor, the creation of  *)
(* accounts in Usernames.                                                  *)
(***************************************************************************)
EXTENDS Naturals, FiniteSets

CONSTANTS
    Users, Emails,
    None,
    Tokens,         \* bound: tokens that are ever drawn
    Sessions,       \* bound: session ids that are ever drawn
    MaxPassword,    \* bound: changes of a password
    Requests        \* bound: requests in progress at a time

ConstantsOK == None \notin Users \cup Emails \cup Tokens \cup Sessions /\ MaxPassword \in Nat

VARIABLES
    email,          \* login.email
    authbcrypt,     \* the password of each user
    sessions,       \* the user of each session, or None
    emailverify,    \* the row of each user: a token and an address, or None
    forgotpassword, \* the address of each reset token, or None
    drawn,          \* tokens and session ids that have been drawn
    call,           \* the requests in progress
    newest,         \* history: the number of the last password of each user
    knows,          \* history: the last password each session has proved or set
    mailed,         \* history: the address each token was sent to
    spent,          \* history: how often each reset token changed a password
    excused         \* history: sessions that outlived a change cut short, or
                    \* were made by a sign-in that a change overtook

tables == <<email, authbcrypt, sessions, emailverify, forgotpassword>>
history == <<newest, knows, mailed, spent, excused>>
vars == <<tables, drawn, call, history>>

Passwords == 0 .. MaxPassword
Idle == [at |-> "idle"]
SessionOrNone == Sessions \cup {None}
CallRecords ==
    [at : {"create session"}, user : Users, password : Passwords, late : BOOLEAN]
    \cup [at : {"update", "revoke"}, user : Users, session : SessionOrNone]
    \cup [at : {"email check", "email verify"}, user : Users, address : Emails]
    \cup [at : {"email update"}, user : Users, address : Emails]
    \cup [at : {"reset"}, user : Users, token : Tokens]

TypeOK ==
    /\ email \in [Users -> Emails]
    /\ authbcrypt \in [Users -> Passwords] /\ newest \in [Users -> Passwords]
    /\ sessions \in [Sessions -> Users \cup {None}]
    /\ emailverify \in [Users -> {None} \cup [token : Tokens, address : Emails]]
    /\ forgotpassword \in [Tokens -> Emails \cup {None}]
    /\ drawn \subseteq Tokens \cup Sessions
    /\ call \in [Requests -> {Idle} \cup CallRecords]
    /\ knows \in [Sessions -> Passwords]
    /\ mailed \in [Tokens -> Emails \cup {None}]
    /\ spent \in [Tokens -> Nat]
    /\ excused \subseteq Sessions

Init ==
    /\ email \in [Users -> Emails] /\ \A u, v \in Users : email[u] = email[v] => u = v
    /\ authbcrypt = [u \in Users |-> 0] /\ newest = authbcrypt
    /\ sessions = [s \in Sessions |-> None] /\ knows = [s \in Sessions |-> 0]
    /\ emailverify = [u \in Users |-> None]
    /\ forgotpassword = [t \in Tokens |-> None] /\ mailed = forgotpassword
    /\ drawn = {} /\ excused = {}
    /\ spent = [t \in Tokens |-> 0]
    /\ call = [r \in Requests |-> Idle]

-----------------------------------------------------------------------------
At(r, step) == call[r].at = step
Start(r, record) == call[r] = Idle /\ call' = [call EXCEPT ![r] = record]
End(r) == call' = [call EXCEPT ![r] = Idle]
SessionsOf(u) == {s \in Sessions : sessions[s] = u}

\* authenticate_bcrypt has compared the password of the user.
SigninCheck(r, u) ==
    /\ Start(r, [at |-> "create session", user |-> u, password |-> authbcrypt[u], late |-> FALSE])
    /\ UNCHANGED <<tables, drawn, history>>

\* signin: create_session draws an id.
SigninCreate(r, s) ==
    /\ At(r, "create session")
    /\ s \notin drawn
    /\ drawn' = drawn \cup {s}
    /\ sessions' = [sessions EXCEPT ![s] = call[r].user]
    /\ knows' = [knows EXCEPT ![s] = call[r].password]
    /\ excused' = IF call[r].late THEN excused \cup {s} ELSE excused
    /\ End(r)
    /\ UNCHANGED <<email, authbcrypt, emailverify, forgotpassword, newest, mailed, spent>>

Signout(s) ==
    /\ sessions[s] # None
    /\ sessions' = [sessions EXCEPT ![s] = None]
    /\ UNCHANGED <<email, authbcrypt, emailverify, forgotpassword, drawn, call, history>>

-----------------------------------------------------------------------------
\* edit_email_password by a session that gives the current password: a new
\* address, a new password, or one request for each.
EditPassword(r, s) ==
    /\ sessions[s] # None
    /\ Start(r, [at |-> "update", user |-> sessions[s], session |-> s])
    /\ knows' = [knows EXCEPT ![s] = authbcrypt[sessions[s]]]
    /\ UNCHANGED <<tables, drawn, newest, mailed, spent, excused>>

NextPassword(u) ==
    /\ newest[u] < MaxPassword
    /\ newest' = [newest EXCEPT ![u] = @ + 1]
    /\ authbcrypt' = [authbcrypt EXCEPT ![u] = newest'[u]]

\* The new hash; sign-ins that have checked the old one are overtaken.
Overtaking(r, u, next) ==
    call' = [q \in Requests |->
        IF q = r THEN next
        ELSE IF At(q, "create session") /\ call[q].user = u THEN [call[q] EXCEPT !.late = TRUE]
        ELSE call[q]]

UpdatePassword(r) ==
    /\ At(r, "update")
    /\ LET u == call[r].user  s == call[r].session
       IN  /\ NextPassword(u)
           /\ knows' = [knows EXCEPT ![s] = newest'[u]]
           /\ Overtaking(r, u, [at |-> "revoke", user |-> u, session |-> s])
    /\ UNCHANGED <<email, sessions, emailverify, forgotpassword, drawn, mailed, spent, excused>>

\* invalidate_other_sessions.
RevokeSessions(r) ==
    /\ At(r, "revoke")
    /\ sessions' = [s \in Sessions |->
          IF sessions[s] = call[r].user /\ s # call[r].session THEN None ELSE sessions[s]]
    /\ End(r)
    /\ UNCHANGED <<email, authbcrypt, emailverify, forgotpassword, drawn, history>>

\* The request or the worker ends here.
CutShort(r) ==
    /\ call[r] # Idle
    /\ excused' = IF At(r, "revoke") THEN excused \cup SessionsOf(call[r].user) ELSE excused
    /\ End(r)
    /\ UNCHANGED <<tables, drawn, newest, knows, mailed, spent>>

-----------------------------------------------------------------------------
EditEmail(r, s, address) ==
    /\ sessions[s] # None
    /\ address # email[sessions[s]]
    /\ Start(r, [at |-> "email check", user |-> sessions[s], address |-> address])
    /\ knows' = [knows EXCEPT ![s] = authbcrypt[sessions[s]]]
    /\ UNCHANGED <<tables, drawn, newest, mailed, spent, excused>>

\* email_exists; an address in use gets a message of its own instead.
EmailExists(r) ==
    /\ At(r, "email check")
    /\ IF \E u \in Users : email[u] = call[r].address
         THEN End(r)
         ELSE call' = [call EXCEPT ![r].at = "email verify"]
    /\ UNCHANGED <<tables, drawn, history>>

\* The row replaces one of the same user, and fails on one of another user
\* with the same address.
EmailVerify(r, token) ==
    /\ At(r, "email verify")
    /\ token \notin drawn
    /\ LET u == call[r].user  address == call[r].address
       IN  IF \E v \in Users \ {u} : emailverify[v] # None /\ emailverify[v].address = address
             THEN UNCHANGED <<emailverify, drawn, mailed>>
             ELSE /\ emailverify' = [emailverify EXCEPT ![u] = [token |-> token, address |-> address]]
                  /\ drawn' = drawn \cup {token}
                  /\ mailed' = [mailed EXCEPT ![token] = address]
    /\ End(r)
    /\ UNCHANGED <<email, authbcrypt, sessions, forgotpassword, newest, knows, spent, excused>>

\* verify_email_change deletes the row with the user's token ...
VerifyEmailChange(r, u) ==
    /\ emailverify[u] # None
    /\ Start(r, [at |-> "email update", user |-> u, address |-> emailverify[u].address])
    /\ emailverify' = [emailverify EXCEPT ![u] = None]
    /\ UNCHANGED <<email, authbcrypt, sessions, forgotpassword, drawn, history>>

\* ... and then sets the address.  No constraint keeps addresses distinct.
UpdateEmail(r) ==
    /\ At(r, "email update")
    /\ email' = [email EXCEPT ![call[r].user] = call[r].address]
    /\ End(r)
    /\ UNCHANGED <<authbcrypt, sessions, emailverify, forgotpassword, drawn, history>>

\* A row of emailverify is older than two days.
ExpireEmailVerify(u) ==
    /\ emailverify[u] # None
    /\ emailverify' = [emailverify EXCEPT ![u] = None]
    /\ UNCHANGED <<email, authbcrypt, sessions, forgotpassword, drawn, call, history>>

-----------------------------------------------------------------------------
\* resetpassword.request, for any address.
RequestReset(token, address) ==
    /\ token \notin drawn
    /\ drawn' = drawn \cup {token}
    /\ forgotpassword' = [forgotpassword EXCEPT ![token] = address]
    /\ mailed' = [mailed EXCEPT ![token] = address]
    /\ UNCHANGED <<email, authbcrypt, sessions, emailverify, call, newest, knows, spent, excused>>

\* _find_reset_target: one of the users with the address.
ResetTargets(address) == {u \in Users : email[u] = address}
Held == {call[r].token : r \in {q \in Requests : At(q, "reset")}}

\* Fault: the token is read, and is not deleted until the transaction ends.
ResetFindUnlocked(r, token, u) ==
    /\ forgotpassword[token] # None
    /\ u \in ResetTargets(forgotpassword[token])
    /\ Start(r, [at |-> "reset", user |-> u, token |-> token])
    /\ UNCHANGED <<tables, drawn, history>>

\* reset's transaction deletes the token, waiting for another that is deleting
\* it, and finds the user whom the form has named (expect_userid).
ResetFind(r, token, u) ==
    /\ forgotpassword[token] # None
    /\ token \notin Held
    /\ u \in ResetTargets(forgotpassword[token])
    /\ Start(r, [at |-> "reset", user |-> u, token |-> token])
    /\ UNCHANGED <<tables, drawn, history>>

ResetCommit(r) ==
    /\ At(r, "reset")
    /\ LET u == call[r].user  token == call[r].token
       IN  /\ NextPassword(u)
           /\ forgotpassword' = [forgotpassword EXCEPT ![token] = None]
           /\ spent' = [spent EXCEPT ![token] = @ + 1]
           /\ Overtaking(r, u, [at |-> "revoke", user |-> u, session |-> None])
    /\ UNCHANGED <<email, sessions, emailverify, drawn, knows, mailed, excused>>

\* A row of forgotpassword is older than an hour.
ExpireReset(token) ==
    /\ forgotpassword[token] # None /\ token \notin Held
    /\ forgotpassword' = [forgotpassword EXCEPT ![token] = None]
    /\ UNCHANGED <<email, authbcrypt, sessions, emailverify, drawn, call, history>>

Next ==
    \/ \E s \in Sessions : Signout(s)
    \/ \E u \in Users : ExpireEmailVerify(u)
    \/ \E token \in Tokens : ExpireReset(token) \/ \E address \in Emails : RequestReset(token, address)
    \/ \E r \in Requests :
        \/ \E u \in Users : SigninCheck(r, u) \/ VerifyEmailChange(r, u)
        \/ \E s \in Sessions : SigninCreate(r, s) \/ EditPassword(r, s)
        \/ UpdatePassword(r) \/ RevokeSessions(r) \/ CutShort(r)
        \/ \E s \in Sessions, address \in Emails : EditEmail(r, s, address)
        \/ EmailExists(r) \/ UpdateEmail(r) \/ ResetCommit(r)
        \/ \E token \in Tokens : EmailVerify(r, token) \/ \E u \in Users : ResetFind(r, token, u)

Spec == Init /\ [][Next]_vars

-----------------------------------------------------------------------------
Changing(u) == \E r \in Requests : At(r, "revoke") /\ call[r].user = u

\* Whoever is signed in knows the password: once a password is changed or
\* reset, every session that only proved an older one is gone, except those of
\* sign-ins the change overtook and those left by a change cut short.
SessionsKnowPassword ==
    \A s \in Sessions \ excused :
        sessions[s] # None => knows[s] = authbcrypt[sessions[s]] \/ Changing(sessions[s])

\* A link resets a password at most once, even if it is used twice at a time.
LinksWorkOnce == \A token \in Tokens : spent[token] <= 1

\* What a link confirms is the address the link was sent to.
LinksConfirmTheirAddress ==
    \A u \in Users : emailverify[u] # None => mailed[emailverify[u].token] = emailverify[u].address
==============================================================================
