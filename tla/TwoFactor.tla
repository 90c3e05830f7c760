------------------------------ MODULE TwoFactor ------------------------------
(***************************************************************************)
(* Signing in to one account with two-factor authentication (2FA), and     *)
(* turning it on, off, and renewing its recovery codes:                    *)
(* weasyl/two_factor_auth.py, weasyl/controllers/two_factor_auth.py and    *)
(* the sign-in handlers of weasyl/controllers/user.py.                     *)
(*                                                                         *)
(* Every database statement of these handlers commits by itself, unless    *)
(* it is sent together with others as one transaction; so a handler is a   *)
(* sequence of steps, with those of other requests in between.  What the   *)
(* handlers keep from one request to the next is in the row of the session *)
(* the request comes with, which may be gone when it is written to.        *)
(***************************************************************************)
EXTENDS Naturals, FiniteSets

CONSTANTS
    Requests,       \* bound: requests in progress at a time
    Sessions,       \* session ids
    Batches,        \* bound: sets of recovery codes that are generated
    CodesPerBatch,  \* _TFA_RECOVERY_CODES
    MaxCrashes,     \* bound: requests that end in the middle
    NoSession, NoBatch, NoCode

ASSUME CodesAssumption == CodesPerBatch \in Nat \ {0}
ASSUME CrashesAssumption == MaxCrashes \in Nat
ASSUME NoneAssumption == NoSession \notin Sessions /\ NoBatch \notin Batches

\* A row of twofa_recovery_codes is the hash of one code of one batch; the same
\* code can be stored twice, and has then two rows, its copies.
Copies == 1 .. Cardinality(Requests)
Codes == Batches \X (1 .. CodesPerBatch) \X Copies
CopyOf(b, k) == {c \in Codes : c[1] = b /\ c[3] = k}
ASSUME NoCodeAssumption == NoCode \notin Codes

VARIABLES
    enabled,        \* login.twofa_secret IS NOT NULL
    codes,          \* the rows of twofa_recovery_codes
    sess,           \* the rows of sessions
    req,            \* the requests in progress
    drawn,          \* history: the batches generated so far
    uses,           \* history: how often each stored row was accepted
    raced,          \* history: rows two requests found at the same time
    crashes,        \* history: how many requests ended in the middle
    late,           \* history: sessions whose password check preceded the
                    \* activation they were added after, and those that were
                    \* there when an activation ended in the middle
    undermined      \* history: 2FA was turned off during an activation, or a
                    \* request that had used a code up ended in the middle

history == <<drawn, uses, raced, crashes, late, undermined>>
vars == <<enabled, codes, sess, req, history>>

NoRow == [state |-> "none", second |-> FALSE, secret |-> FALSE,
          batch |-> NoBatch, offered |-> FALSE]
Pending == [NoRow EXCEPT !.state = "pending"]
SignedIn(second) == [NoRow EXCEPT !.state = "signed in", !.second = second]

Idle == [op |-> "none", at |-> "idle", session |-> NoSession,
         batch |-> NoBatch, code |-> NoCode, seen |-> {}]
Started(op, at, s) == [Idle EXCEPT !.op = op, !.at = at, !.session = s]

\* The steps at which each handler can be found.
Handlers == {"none", "signin", "second", "disable", "enable", "renew", "replace"}
Places == {"idle", "no second factor", "second factor", "matched", "verified", "signed out", "signed in",
           "spent", "checked", "storing", "stored", "active", "alone"}
StepOf(op, at) ==
    \/ op = "none" /\ at = "idle"
    \/ op = "signin" /\ at \in {"no second factor", "second factor"}
    \/ op = "second" /\ at \in {"matched", "verified", "signed out", "signed in", "spent"}
    \/ op = "disable" /\ at \in {"checked", "matched", "verified"}
    \/ op = "enable" /\ at \in {"checked", "storing", "stored", "active", "alone"}
    \/ op = "renew" /\ at \in {"checked", "alone"}
    \/ op = "replace" /\ at \in {"checked", "verified", "storing", "stored"}

TypeOK ==
    /\ enabled \in BOOLEAN
    /\ codes \subseteq Codes
    /\ sess \in [Sessions -> [state : {"none", "pending", "signed in"}, second : BOOLEAN,
                              secret : BOOLEAN, batch : Batches \cup {NoBatch},
                              offered : BOOLEAN]]
    /\ \A s \in Sessions : sess[s].state # "signed in" =>
                              sess[s] \in {NoRow, Pending}
    /\ req \in [Requests -> [op : Handlers, at : Places, session : Sessions \cup {NoSession},
                             batch : Batches \cup {NoBatch}, code : Codes \cup {NoCode},
                             seen : SUBSET Codes]]
    /\ \A r \in Requests : StepOf(req[r].op, req[r].at)
    /\ drawn \subseteq Batches
    /\ uses \in [Codes -> Nat]
    /\ raced \subseteq Codes
    /\ crashes \in 0 .. MaxCrashes
    /\ late \subseteq Sessions
    /\ undermined \in BOOLEAN

Init ==
    /\ enabled = FALSE
    /\ codes = {}
    /\ sess = [s \in Sessions |-> NoRow]
    /\ req = [r \in Requests |-> Idle]
    /\ drawn = {}
    /\ uses = [c \in Codes |-> 0]
    /\ raced = {}
    /\ crashes = 0
    /\ late = {}
    /\ undermined = FALSE

\* Request r is at this step of this handler.
At(r, op, at) == req[r].op = op /\ req[r].at = at

Begin(r, record) == req[r] = Idle /\ req' = [req EXCEPT ![r] = record]
Goto(r, at) == req' = [req EXCEPT ![r].at = at]
End(r) == req' = [req EXCEPT ![r] = Idle]

\* The id of a new session is not that of any session there ever was.
Fresh(s) == sess[s] = NoRow /\ \A r \in Requests : req[r].session # s

-----------------------------------------------------------------------------
\* signin_post_ with the right password; authenticate_bcrypt reads the secret.
\* A request whose secret was not set when it was read is remembered as a late
\* one if an activation overtakes it (see Activate).
Signin(r) ==
    /\ Begin(r, Started("signin", IF enabled THEN "second factor"
                                  ELSE "no second factor", NoSession))
    /\ UNCHANGED <<enabled, codes, sess, history>>

\* login.signin: the account has no 2FA.
SigninWithout(r, s) ==
    /\ At(r, "signin", "no second factor")
    /\ Fresh(s)
    /\ sess' = [sess EXCEPT ![s] = SignedIn(FALSE)]
    /\ late' = IF enabled THEN late \cup {s} ELSE late \ {s}
    /\ End(r)
    /\ UNCHANGED <<enabled, codes, drawn, uses, raced, crashes, undermined>>

\* It has: a session that remembers the password was right, unless there is no
\* recovery code, which is an internal error.
SigninPending(r, s) ==
    /\ At(r, "signin", "second factor")
    /\ codes # {}
    /\ Fresh(s)
    /\ sess' = [sess EXCEPT ![s] = Pending]
    /\ late' = late \ {s}
    /\ End(r)
    /\ UNCHANGED <<enabled, codes, drawn, uses, raced, crashes, undermined>>

OutOfCodes(r) == At(r, "signin", "second factor") /\ codes = {}

SigninError(r) ==
    /\ OutOfCodes(r)
    /\ End(r)
    /\ UNCHANGED <<enabled, codes, sess, history>>

\* The five minutes, or the attempts, of a pending session are used up, or a
\* user signs out.
Signout(s) ==
    /\ sess[s] # NoRow
    /\ sess' = [sess EXCEPT ![s] = NoRow]
    /\ UNCHANGED <<enabled, codes, req, history>>

-----------------------------------------------------------------------------
\* two_factor_auth.verify: a TOTP code needs the secret to be there (without,
\* decrypting it is an internal error); a recovery code is looked for among the
\* rows, and the row that matches is remembered ...
Found(c) == c \in codes

\* Fault: the row is not deleted.
RemainingAll(c) == codes

\* ... and deleted by a later statement, which may find it gone already.
Remaining(c) == codes \ {c}

ConsumeCode(r) ==
    /\ req[r].at = "matched"
    /\ codes' = Remaining(req[r].code)
    /\ uses' = [uses EXCEPT ![req[r].code] = @ + 1]
    /\ raced' = IF \E q \in Requests \ {r} : req[q].code = req[r].code
                THEN raced \cup {req[r].code} ELSE raced
    /\ req' = [req EXCEPT ![r].at = "verified", ![r].code = NoCode]
    /\ UNCHANGED <<enabled, sess, drawn, crashes, late, undermined>>

\* signin_2fa_auth_post_: the response is verified first.
SecondFactor(r, s) ==
    /\ req[r] = Idle
    /\ sess[s].state = "pending"
    /\ \/ enabled /\ Begin(r, Started("second", "verified", s))
       \/ \E c \in Codes :
             /\ Found(c)
             /\ Begin(r, [Started("second", "matched", s) EXCEPT !.code = c])
    /\ UNCHANGED <<enabled, codes, sess, history>>

\* The pending session is deleted, if it is still there ...
SecondSignout(r) ==
    /\ At(r, "second", "verified")
    /\ sess' = [sess EXCEPT ![req[r].session] = NoRow]
    /\ Goto(r, "signed out")
    /\ UNCHANGED <<enabled, codes, history>>

\* ... and login.signin adds a session of the user's.
SecondSignin(r, s) ==
    /\ At(r, "second", "signed out")
    /\ Fresh(s)
    /\ sess' = [sess EXCEPT ![s] = SignedIn(TRUE)]
    /\ late' = late \ {s}
    /\ Goto(r, "signed in")
    /\ UNCHANGED <<enabled, codes, drawn, uses, raced, crashes, undermined>>

\* Fault: what is left after the sign-in is not counted.
SecondUncounted(r) ==
    /\ At(r, "second", "signed in")
    /\ End(r)
    /\ UNCHANGED <<enabled, codes, sess, history>>

\* get_number_of_recovery_codes: none left means 2FA is to be turned off.
SecondCount(r) ==
    /\ At(r, "second", "signed in")
    /\ IF codes = {} THEN Goto(r, "spent") ELSE End(r)
    /\ UNCHANGED <<enabled, codes, sess, history>>

\* force_deactivate, one transaction: at the end of tfa_disable_post_, or of a
\* sign-in with the last recovery code.
ForceDeactivate(r) ==
    /\ At(r, "second", "spent") \/ At(r, "disable", "verified")
    /\ enabled' = FALSE
    /\ codes' = {}
    /\ undermined' = (undermined \/ \E q \in Requests : At(q, "enable", "stored"))
    /\ End(r)
    /\ UNCHANGED <<sess, drawn, uses, raced, crashes, late>>

\* tfa_disable_post_: is_2fa_enabled (the decorator), verify, force_deactivate.
Disable(r, s) ==
    /\ sess[s].state = "signed in"
    /\ enabled
    /\ Begin(r, Started("disable", "checked", s))
    /\ UNCHANGED <<enabled, codes, sess, history>>

DisableVerify(r) ==
    /\ At(r, "disable", "checked")
    /\ \/ enabled /\ Goto(r, "verified")
       \/ \E c \in Codes : /\ Found(c)
                           /\ req' = [req EXCEPT ![r].at = "matched", ![r].code = c]
       \/ End(r)
    /\ UNCHANGED <<enabled, codes, sess, history>>

-----------------------------------------------------------------------------
\* A write to the row of the request's session fails if it is gone, and with it
\* the request.
SessionThere(r) == sess[req[r].session] # NoRow

\* tfa_init_post_ (with the password): a secret for the session to enable.
EnableInit(s) ==
    /\ sess[s].state = "signed in"
    /\ ~enabled
    /\ sess' = [sess EXCEPT ![s].secret = TRUE]
    /\ UNCHANGED <<enabled, codes, req, history>>

\* tfa_init_qrcode_post_ (with a TOTP code): recovery codes to save.
EnableQrcode(s, b) ==
    /\ sess[s].state = "signed in" /\ sess[s].secret
    /\ ~enabled
    /\ b \notin drawn
    /\ sess' = [sess EXCEPT ![s].batch = b, ![s].offered = FALSE]
    /\ drawn' = drawn \cup {b}
    /\ UNCHANGED <<enabled, codes, req, uses, raced, crashes, late, undermined>>

\* tfa_init_verify_post_: is_2fa_enabled, then what the session holds ...
Enable(r, s) ==
    /\ sess[s].state = "signed in" /\ sess[s].secret /\ sess[s].batch # NoBatch
    /\ ~enabled
    /\ Begin(r, [Started("enable", "checked", s) EXCEPT !.batch = sess[s].batch])
    /\ UNCHANGED <<enabled, codes, sess, history>>

\* store_recovery_codes, one transaction: the DELETE sees the rows there are ...
StoreDelete(r) ==
    /\ At(r, "enable", "checked") \/ At(r, "replace", "verified")
    /\ req' = [req EXCEPT ![r].at = "storing", ![r].seen = codes]
    /\ UNCHANGED <<enabled, codes, sess, history>>

\* ... and by the commit another request may have stored some that it has not.
Kept(r) == codes \ req[r].seen

StoreCommit(r) ==
    /\ req[r].at = "storing"
    /\ \E k \in Copies :
          LET new == CopyOf(req[r].batch, k)
          IN  /\ new \cap Kept(r) = {}
              /\ codes' = Kept(r) \cup new
              /\ uses' = [c \in Codes |-> IF c \in new THEN 0 ELSE uses[c]]
              /\ raced' = raced \ new
    /\ req' = [req EXCEPT ![r].at = "stored", ![r].seen = {}]
    /\ UNCHANGED <<enabled, sess, drawn, crashes, late, undermined>>

\* two_factor_auth.activate: one UPDATE, unless the TOTP code is wrong, in
\* which case the page is shown again and the codes stay stored.
Activate(r) ==
    /\ At(r, "enable", "stored")
    /\ \/ /\ enabled' = TRUE
          /\ Goto(r, "active")
       \/ /\ enabled' = enabled
          /\ End(r)
    /\ UNCHANGED <<codes, sess, history>>

\* Fault: the other sessions stay.
NobodyInvalidated(s) == sess

\* invalidate_other_sessions: pending sessions are nobody's and stay.
OthersInvalidated(s) ==
    [t \in Sessions |-> IF t # s /\ sess[t].state = "signed in" THEN NoRow ELSE sess[t]]

\* A sign-in that read before the activation that 2FA was off is not stopped.
EnableInvalidate(r) ==
    /\ At(r, "enable", "active")
    /\ sess' = OthersInvalidated(req[r].session)
    /\ Goto(r, "alone")
    /\ UNCHANGED <<enabled, codes, history>>

\* _cleanup_session: the last step of enabling and of replacing codes.
Cleanup(r) ==
    /\ At(r, "enable", "alone") \/ At(r, "replace", "stored")
    /\ sess' = IF SessionThere(r)
               THEN [sess EXCEPT ![req[r].session].secret = FALSE,
                                 ![req[r].session].batch = NoBatch,
                                 ![req[r].session].offered = FALSE]
               ELSE sess
    /\ End(r)
    /\ UNCHANGED <<enabled, codes, history>>

-----------------------------------------------------------------------------
\* tfa_generate_recovery_codes_verify_password_post_: is_2fa_enabled ...
Renew(r, s) ==
    /\ sess[s].state = "signed in"
    /\ enabled
    /\ Begin(r, Started("renew", "checked", s))
    /\ UNCHANGED <<enabled, codes, sess, history>>

\* ... the other sessions are deleted ...
RenewInvalidate(r) ==
    /\ At(r, "renew", "checked")
    /\ sess' = OthersInvalidated(req[r].session)
    /\ Goto(r, "alone")
    /\ UNCHANGED <<enabled, codes, history>>

\* Fault: the row is written whether it is still there or not.
RenewOfferAnyway(r) ==
    /\ At(r, "renew", "alone")
    /\ \E b \in Batches \ drawn :
          /\ sess' = [sess EXCEPT ![req[r].session].batch = b,
                                  ![req[r].session].offered = TRUE]
          /\ drawn' = drawn \cup {b}
    /\ End(r)
    /\ UNCHANGED <<enabled, codes, uses, raced, crashes, late, undermined>>

\* ... and new codes are kept in this one, or those it has if they are recent.
RenewOffer(r) ==
    /\ At(r, "renew", "alone")
    /\ IF SessionThere(r)
       THEN \E b \in (Batches \ drawn) \cup ({sess[req[r].session].batch} \ {NoBatch}) :
               /\ sess' = [sess EXCEPT ![req[r].session].batch = b,
                                       ![req[r].session].offered = TRUE]
               /\ drawn' = drawn \cup {b}
       ELSE UNCHANGED <<sess, drawn>>
    /\ End(r)
    /\ UNCHANGED <<enabled, codes, uses, raced, crashes, late, undermined>>

\* tfa_generate_recovery_codes_post_: is_2fa_enabled, what the session holds,
\* verify without consuming a code, store_recovery_codes, _cleanup_session.
Replace(r, s) ==
    /\ sess[s].state = "signed in" /\ sess[s].batch # NoBatch
    /\ enabled
    /\ Begin(r, [Started("replace", "checked", s) EXCEPT !.batch = sess[s].batch])
    /\ UNCHANGED <<enabled, codes, sess, history>>

ReplaceVerify(r) ==
    /\ At(r, "replace", "checked")
    /\ \/ /\ enabled \/ codes # {}
          /\ Goto(r, "verified")
       \/ End(r)
    /\ UNCHANGED <<enabled, codes, sess, history>>

\* A request ends in the middle: its worker is killed, or the database fails.
Crash(r) ==
    /\ crashes < MaxCrashes
    /\ req[r] # Idle
    /\ crashes' = crashes + 1
    /\ undermined' = (undermined \/ req[r].op \in {"second", "disable"})
    /\ late' = IF At(r, "enable", "active") THEN Sessions ELSE late
    /\ End(r)
    /\ UNCHANGED <<enabled, codes, sess, drawn, uses, raced>>

Next ==
    \/ \E r \in Requests :
          \/ Signin(r) \/ SigninError(r)
          \/ ConsumeCode(r) \/ SecondSignout(r) \/ SecondCount(r)
          \/ DisableVerify(r) \/ ForceDeactivate(r)
          \/ StoreDelete(r) \/ StoreCommit(r) \/ Activate(r)
          \/ EnableInvalidate(r) \/ Cleanup(r)
          \/ RenewInvalidate(r) \/ RenewOffer(r) \/ ReplaceVerify(r)
          \/ Crash(r)
          \/ \E s \in Sessions :
                \/ SigninWithout(r, s) \/ SigninPending(r, s)
                \/ SecondFactor(r, s) \/ SecondSignin(r, s)
                \/ Disable(r, s) \/ Enable(r, s) \/ Renew(r, s) \/ Replace(r, s)
    \/ \E s \in Sessions :
          \/ Signout(s) \/ EnableInit(s)
          \/ \E b \in Batches : EnableQrcode(s, b)

Spec == Init /\ [][Next]_vars

-----------------------------------------------------------------------------
Quiet == \A r \in Requests : req[r] = Idle

\* With 2FA on and no request under way there is a recovery code left: nobody
\* is locked out, as someone is whose password check finds none.  The
\* exceptions are an activation during which 2FA was turned off, and a request
\* that ended between using the last code up and turning 2FA off.
NotLockedOut ==
    Quiet /\ enabled /\ ~undermined => codes # {}

\* A stored code is accepted once, unless two requests looked for it before
\* either of them deleted it.
AcceptedOnce ==
    \A c \in Codes \ raced : uses[c] <= 1

\* Once 2FA has been activated and the other sessions are gone, whoever is
\* signed in has passed the second factor, or is the session that activated
\* it, or had the password checked before, or the activating request ended
\* before it could delete the others.
SecondFactorPassed ==
    enabled /\ (\A r \in Requests : ~At(r, "enable", "active")) =>
        Cardinality({s \in Sessions \ late :
                        sess[s].state = "signed in" /\ ~sess[s].second}) <= 1

\* Two sessions never have new recovery codes to offer at the same time, so it
\* is clear which will be saved.
OneOffer ==
    Cardinality({s \in Sessions : sess[s].offered}) <= 1

\* "These codes are one-time use, and upon successful use will not be able to
\* be reused" (weasyl/templates/control/2fa/init_verify.html:47).
OneTimeUse ==
    \A b \in Batches, i \in 1 .. CodesPerBatch :
        \A k, l \in Copies : k # l => uses[<<b, i, k>>] + uses[<<b, i, l>>] <= 1
=============================================================================
