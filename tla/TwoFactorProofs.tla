--------------------------- MODULE TwoFactorProofs ---------------------------
(***************************************************************************)
(* Proofs about TwoFactor, for any requests, sessions, batches and any     *)
(* number of recovery codes.                                               *)
(***************************************************************************)
EXTENDS TwoFactor, FiniteSetTheorems, TLAPS

-----------------------------------------------------------------------------
Request == [op : Handlers, at : Places,
            session : Sessions \cup {NoSession}, batch : Batches \cup {NoBatch},
            code : Codes \cup {NoCode}, seen : SUBSET Codes]

Row == [state : {"none", "pending", "signed in"}, second : BOOLEAN, secret : BOOLEAN,
        batch : Batches \cup {NoBatch}, offered : BOOLEAN]

\* A request that stores codes has drawn them, and one that is to use a code up
\* has found it.
Equipped ==
    \A r \in Requests :
        /\ req[r].op \in {"enable", "replace"} => req[r].batch \in Batches
        /\ req[r].at = "matched" => req[r].code \in Codes

\* The session of a request to the settings was signed in and is, while it is
\* there.
SettingsSignedIn ==
    \A r \in Requests :
        req[r].op \in {"disable", "enable", "renew", "replace"} =>
            req[r].session \in Sessions /\ sess[req[r].session].state # "pending"

\* Someone who has used the last code up is on the way to turning 2FA off.
TurningOff(r) ==
    \/ req[r].op = "second" /\ req[r].at \in {"verified", "signed out", "signed in", "spent"}
    \/ At(r, "disable", "verified")

CodesOrTurningOff ==
    ~undermined /\ codes = {} /\ (enabled \/ \E q \in Requests : At(q, "enable", "stored"))
        => \E r \in Requests : TurningOff(r)

\* What is stored, or looked for, has not been accepted yet.
UnusedWhileWanted ==
    \A c \in Codes \ raced :
        c \in codes \/ (\E r \in Requests : req[r].code = c) => uses[c] = 0

\* The session that is to be offered codes is the only one that can be.
Offering(r) == At(r, "renew", "alone") /\ sess[req[r].session] # NoRow

OffersAlone ==
    /\ \A s, t \in Sessions : sess[s].offered /\ sess[t].offered => s = t
    /\ \A r \in Requests : Offering(r) => \A t \in Sessions \ {req[r].session} : ~sess[t].offered
    /\ \A q, r \in Requests : Offering(q) /\ Offering(r) => req[q].session = req[r].session

\* SecondFactorPassed without counting.
Unpassed == {s \in Sessions \ late : sess[s].state = "signed in" /\ ~sess[s].second}

OneUnpassed ==
    enabled /\ (\A r \in Requests : ~At(r, "enable", "active")) => \A s, t \in Unpassed : s = t

IInv ==
    /\ TypeOK /\ Equipped /\ SettingsSignedIn
    /\ CodesOrTurningOff /\ AcceptedOnce /\ UnusedWhileWanted /\ OffersAlone /\ OneUnpassed

-----------------------------------------------------------------------------
\* What a step of request r can make of the requests in progress.
OthersStay(r) ==
    /\ req' \in [Requests -> Request]
    /\ \A d \in Requests : StepOf(req'[d].op, req'[d].at)
    /\ \A d \in Requests \ {r} : req'[d] = req[d]

Went(r, at) ==
    /\ OthersStay(r)
    /\ req'[r].at = at /\ req'[r].op = req[r].op /\ req'[r].session = req[r].session
    /\ req'[r].batch = req[r].batch /\ req'[r].code = req[r].code /\ req'[r].seen = req[r].seen

Ended(r) == OthersStay(r) /\ req'[r] = Idle

Began(r, op, at, s) ==
    /\ OthersStay(r)
    /\ req[r] = Idle
    /\ req'[r].op = op /\ req'[r].at = at /\ req'[r].session = s /\ req'[r].seen = {}

LEMMA PlacesAre == ASSUME NEW op, NEW at, StepOf(op, at) PROVE op \in Handlers /\ at \in Places
  BY DEF StepOf, Handlers, Places

LEMMA Types ==
    ASSUME TypeOK
    PROVE  /\ req \in [Requests -> Request]
           /\ \A r \in Requests : StepOf(req[r].op, req[r].at)
           /\ sess \in [Sessions -> Row]
  BY DEF TypeOK, Request, Row, Places

LEMMA Becomes ==
    ASSUME TypeOK, NEW r \in Requests, NEW q \in Request, StepOf(q.op, q.at), req' = [req EXCEPT ![r] = q]
    PROVE  OthersStay(r) /\ req'[r] = q
  BY Types DEF OthersStay

LEMMA IdleIs ==
    /\ Idle \in Request /\ StepOf(Idle.op, Idle.at)
    /\ Idle.op = "none" /\ Idle.at = "idle" /\ Idle.session = NoSession
    /\ Idle.batch = NoBatch /\ Idle.code = NoCode /\ Idle.seen = {}
  BY PlacesAre DEF Idle, Request, StepOf, Handlers

LEMMA GotoGoes ==
    ASSUME TypeOK, NEW r \in Requests, NEW at, StepOf(req[r].op, at), Goto(r, at)
    PROVE  Went(r, at)
<1> DEFINE q == [req[r] EXCEPT !.at = at]
<1>1. req[r] \in Request
  BY Types
<1>2. at \in Places
  BY <1>1, PlacesAre DEF Request
<1>3. /\ q \in Request /\ q.at = at /\ q.op = req[r].op /\ q.session = req[r].session
      /\ q.batch = req[r].batch /\ q.code = req[r].code /\ q.seen = req[r].seen
  BY <1>1, <1>2 DEF Request
<1>4. req' = [req EXCEPT ![r] = q]
  BY DEF Goto
<1> HIDE DEF q
<1> QED
  BY <1>3, <1>4, Becomes DEF Went

LEMMA EndEnds ==
    ASSUME TypeOK, NEW r \in Requests, End(r)
    PROVE  Ended(r)
  BY IdleIs, Becomes DEF End, Ended

LEMMA StartedIs ==
    ASSUME NEW op \in Handlers, NEW at, StepOf(op, at), NEW s \in Sessions \cup {NoSession}
    PROVE  /\ Started(op, at, s) \in Request
           /\ Started(op, at, s).op = op /\ Started(op, at, s).at = at /\ Started(op, at, s).session = s
           /\ Started(op, at, s).batch = NoBatch /\ Started(op, at, s).code = NoCode
           /\ Started(op, at, s).seen = {}
<1>1. at \in Places
  BY PlacesAre
<1> QED
  BY <1>1, IdleIs DEF Started, Request

LEMMA BeginBegins ==
    ASSUME TypeOK, NEW r \in Requests, NEW q \in Request, StepOf(q.op, q.at), q.seen = {}, Begin(r, q)
    PROVE  Began(r, q.op, q.at, q.session) /\ req'[r] = q
  BY Becomes DEF Begin, Began

\* A handler that starts, with nothing, with what its session holds, or with a code.
LEMMA StartBegins ==
    ASSUME TypeOK, NEW r \in Requests, NEW op \in Handlers, NEW at, StepOf(op, at),
           NEW s \in Sessions \cup {NoSession}
    PROVE  /\ Begin(r, Started(op, at, s)) =>
                  Began(r, op, at, s) /\ req'[r].batch = NoBatch /\ req'[r].code = NoCode
           /\ \A b \in Batches : Begin(r, [Started(op, at, s) EXCEPT !.batch = b]) =>
                  Began(r, op, at, s) /\ req'[r].batch = b /\ req'[r].code = NoCode
           /\ \A c \in Codes : Begin(r, [Started(op, at, s) EXCEPT !.code = c]) =>
                  Began(r, op, at, s) /\ req'[r].batch = NoBatch /\ req'[r].code = c
<1>1. ASSUME NEW b \in Batches, Begin(r, [Started(op, at, s) EXCEPT !.batch = b])
      PROVE  Began(r, op, at, s) /\ req'[r].batch = b /\ req'[r].code = NoCode
  <2> DEFINE q == [Started(op, at, s) EXCEPT !.batch = b]
  <2>1. /\ q \in Request /\ q.op = op /\ q.at = at /\ q.session = s /\ q.batch = b
        /\ q.code = NoCode /\ q.seen = {}
    BY StartedIs DEF Request
  <2>2. Begin(r, q)
    BY <1>1
  <2> HIDE DEF q
  <2> QED
    BY <2>1, <2>2, BeginBegins
<1>2. ASSUME NEW c \in Codes, Begin(r, [Started(op, at, s) EXCEPT !.code = c])
      PROVE  Began(r, op, at, s) /\ req'[r].batch = NoBatch /\ req'[r].code = c
  <2> DEFINE q == [Started(op, at, s) EXCEPT !.code = c]
  <2>1. /\ q \in Request /\ q.op = op /\ q.at = at /\ q.session = s /\ q.batch = NoBatch
        /\ q.code = c /\ q.seen = {}
    BY StartedIs DEF Request
  <2>2. Begin(r, q)
    BY <1>2
  <2> HIDE DEF q
  <2> QED
    BY <2>1, <2>2, BeginBegins
<1>3. ASSUME Begin(r, Started(op, at, s))
      PROVE  Began(r, op, at, s) /\ req'[r].batch = NoBatch /\ req'[r].code = NoCode
  <2> DEFINE q == Started(op, at, s)
  <2>1. /\ q \in Request /\ q.op = op /\ q.at = at /\ q.session = s /\ q.batch = NoBatch
        /\ q.code = NoCode /\ q.seen = {}
    BY StartedIs
  <2>2. Begin(r, q)
    BY <1>3
  <2> HIDE DEF q
  <2> QED
    BY <2>1, <2>2, BeginBegins
<1> QED
  BY <1>1, <1>2, <1>3

-----------------------------------------------------------------------------
\* What each handler's steps make of its request.
LEMMA SigninMoves ==
    ASSUME TypeOK, NEW r \in Requests
    PROVE  /\ Signin(r) => /\ \E at \in {"second factor", "no second factor"} : Began(r, "signin", at, NoSession)
                           /\ req'[r].batch = NoBatch /\ req'[r].code = NoCode
           /\ SigninError(r) => Ended(r)
           /\ \A s \in Sessions : SigninWithout(r, s) \/ SigninPending(r, s) => Ended(r)
<1>1. ASSUME Signin(r)
      PROVE  /\ \E at \in {"second factor", "no second factor"} : Began(r, "signin", at, NoSession)
             /\ req'[r].batch = NoBatch /\ req'[r].code = NoCode
  <2> DEFINE at == IF enabled THEN "second factor" ELSE "no second factor"
  <2>1. at \in {"second factor", "no second factor"} /\ StepOf("signin", at) /\ "signin" \in Handlers
    BY DEF StepOf, Handlers
  <2>2. Begin(r, Started("signin", at, NoSession))
    BY <1>1 DEF Signin
  <2> HIDE DEF at
  <2> QED
    BY <2>1, <2>2, StartBegins
<1> QED
  BY <1>1, EndEnds DEF SigninError, SigninWithout, SigninPending

LEMMA SecondMoves ==
    ASSUME TypeOK, Equipped, NEW r \in Requests
    PROVE  /\ \A s \in Sessions : SecondFactor(r, s) =>
                  /\ req'[r].batch = NoBatch
                  /\ \/ Began(r, "second", "verified", s) /\ req'[r].code = NoCode
                     \/ Began(r, "second", "matched", s) /\ req'[r].code \in codes
           /\ SecondSignout(r) => Went(r, "signed out")
           /\ \A s \in Sessions : SecondSignin(r, s) => Went(r, "signed in")
           /\ SecondCount(r) => IF codes = {} THEN Went(r, "spent") ELSE Ended(r)
           /\ ForceDeactivate(r) => Ended(r)
           /\ ConsumeCode(r) =>
                  /\ OthersStay(r)
                  /\ req'[r].at = "verified" /\ req'[r].op = req[r].op /\ req'[r].session = req[r].session
                  /\ req'[r].batch = req[r].batch /\ req'[r].code = NoCode /\ req'[r].seen = req[r].seen
                  /\ req[r].op \in {"second", "disable"} /\ req[r].code \in Codes
<1>1. ASSUME NEW s \in Sessions, SecondFactor(r, s)
      PROVE  /\ req'[r].batch = NoBatch
             /\ \/ Began(r, "second", "verified", s) /\ req'[r].code = NoCode
                \/ Began(r, "second", "matched", s) /\ req'[r].code \in codes
  <2> "second" \in Handlers /\ StepOf("second", "verified") /\ StepOf("second", "matched")
    BY DEF StepOf, Handlers
  <2>1. CASE Begin(r, Started("second", "verified", s))
    BY <2>1, StartBegins
  <2>2. ASSUME NEW c \in Codes, Found(c), Begin(r, [Started("second", "matched", s) EXCEPT !.code = c])
        PROVE  /\ req'[r].batch = NoBatch
               /\ Began(r, "second", "matched", s) /\ req'[r].code \in codes
    BY <2>2, StartBegins DEF Found
  <2> QED
    BY <1>1, <2>1, <2>2 DEF SecondFactor
<1>2. SecondSignout(r) => Went(r, "signed out")
  BY GotoGoes DEF SecondSignout, At, StepOf, Handlers
<1>3. \A s \in Sessions : SecondSignin(r, s) => Went(r, "signed in")
  BY GotoGoes DEF SecondSignin, At, StepOf, Handlers
<1>4. SecondCount(r) => IF codes = {} THEN Went(r, "spent") ELSE Ended(r)
  BY GotoGoes, EndEnds DEF SecondCount, At, StepOf, Handlers
<1>5. ForceDeactivate(r) => Ended(r)
  BY EndEnds DEF ForceDeactivate
<1>6. ASSUME ConsumeCode(r)
      PROVE  /\ OthersStay(r)
             /\ req'[r].at = "verified" /\ req'[r].op = req[r].op /\ req'[r].session = req[r].session
             /\ req'[r].batch = req[r].batch /\ req'[r].code = NoCode /\ req'[r].seen = req[r].seen
             /\ req[r].op \in {"second", "disable"} /\ req[r].code \in Codes
  <2> DEFINE q == [req[r] EXCEPT !.at = "verified", !.code = NoCode]
  <2>1. req[r] \in Request /\ req[r].at = "matched" /\ StepOf(req[r].op, req[r].at)
    BY <1>6, Types DEF ConsumeCode
  <2>2. req[r].op \in {"second", "disable"}
    <3>1. req[r].op \in Handlers
      BY <2>1 DEF Request
    <3> QED
      BY <2>1, <3>1 DEF StepOf, Handlers
  <2>3. StepOf(req[r].op, "verified") /\ "verified" \in Places
    BY <2>2, PlacesAre DEF StepOf, Handlers
  <2>4. /\ q \in Request /\ q.at = "verified" /\ q.op = req[r].op /\ q.session = req[r].session
        /\ q.batch = req[r].batch /\ q.code = NoCode /\ q.seen = req[r].seen
    BY <2>1, <2>3 DEF Request
  <2>5. req' = [req EXCEPT ![r] = q]
    BY <1>6 DEF ConsumeCode
  <2> HIDE DEF q
  <2>6. OthersStay(r) /\ req'[r] = q
    BY <2>3, <2>4, <2>5, Becomes
  <2> QED
    BY <2>1, <2>2, <2>4, <2>6 DEF Equipped
<1> QED
  BY <1>1, <1>2, <1>3, <1>4, <1>5, <1>6

LEMMA DisableMoves ==
    ASSUME TypeOK, NEW r \in Requests
    PROVE  /\ \A s \in Sessions : Disable(r, s) =>
                  Began(r, "disable", "checked", s) /\ req'[r].batch = NoBatch /\ req'[r].code = NoCode
           /\ DisableVerify(r) =>
                  \/ Went(r, "verified") \/ Ended(r)
                  \/ /\ OthersStay(r)
                     /\ req'[r].at = "matched" /\ req'[r].op = req[r].op /\ req'[r].session = req[r].session
                     /\ req'[r].batch = req[r].batch /\ req'[r].code \in codes /\ req'[r].seen = req[r].seen
<1>1. \A s \in Sessions : Disable(r, s) =>
          Began(r, "disable", "checked", s) /\ req'[r].batch = NoBatch /\ req'[r].code = NoCode
  <2> "disable" \in Handlers /\ StepOf("disable", "checked")
    BY DEF StepOf, Handlers
  <2> QED
    BY StartBegins DEF Disable
<1>2. ASSUME DisableVerify(r), NEW c \in Codes, Found(c),
             req' = [req EXCEPT ![r].at = "matched", ![r].code = c]
      PROVE  /\ OthersStay(r)
             /\ req'[r].at = "matched" /\ req'[r].op = req[r].op /\ req'[r].session = req[r].session
             /\ req'[r].batch = req[r].batch /\ req'[r].code \in codes /\ req'[r].seen = req[r].seen
  <2> DEFINE q == [req[r] EXCEPT !.at = "matched", !.code = c]
  <2>1. req[r] \in Request /\ req[r].op = "disable"
    BY <1>2, Types DEF DisableVerify, At
  <2>2. StepOf(req[r].op, "matched") /\ "matched" \in Places
    BY <2>1, PlacesAre DEF StepOf, Handlers
  <2>3. /\ q \in Request /\ q.at = "matched" /\ q.op = req[r].op /\ q.session = req[r].session
        /\ q.batch = req[r].batch /\ q.code = c /\ q.seen = req[r].seen
    BY <2>1, <2>2 DEF Request
  <2>4. req' = [req EXCEPT ![r] = q]
    BY <1>2
  <2> HIDE DEF q
  <2> QED
    BY <1>2, <2>2, <2>3, <2>4, Becomes DEF Found
<1>3. DisableVerify(r) /\ Goto(r, "verified") => Went(r, "verified")
  BY GotoGoes DEF DisableVerify, At, StepOf, Handlers
<1> QED
  BY <1>1, <1>2, <1>3, EndEnds DEF DisableVerify

LEMMA EnableMoves ==
    ASSUME TypeOK, NEW r \in Requests
    PROVE  /\ \A s \in Sessions : Enable(r, s) =>
                  Began(r, "enable", "checked", s) /\ req'[r].batch \in Batches /\ req'[r].code = NoCode
           /\ \A s \in Sessions : Replace(r, s) =>
                  Began(r, "replace", "checked", s) /\ req'[r].batch \in Batches /\ req'[r].code = NoCode
           /\ ReplaceVerify(r) => Went(r, "verified") \/ Ended(r)
           /\ StoreDelete(r) =>
                  /\ OthersStay(r)
                  /\ req'[r].at = "storing" /\ req'[r].op = req[r].op /\ req'[r].session = req[r].session
                  /\ req'[r].batch = req[r].batch /\ req'[r].code = req[r].code /\ req'[r].seen = codes
                  /\ req[r].op \in {"enable", "replace"}
           /\ StoreCommit(r) =>
                  /\ OthersStay(r)
                  /\ req'[r].at = "stored" /\ req'[r].op = req[r].op /\ req'[r].session = req[r].session
                  /\ req'[r].batch = req[r].batch /\ req'[r].code = req[r].code /\ req'[r].seen = {}
                  /\ req[r].op \in {"enable", "replace"}
           /\ Activate(r) => (enabled' = TRUE /\ Went(r, "active")) \/ (enabled' = enabled /\ Ended(r))
           /\ EnableInvalidate(r) => Went(r, "alone")
           /\ Cleanup(r) => Ended(r)
<1>1. ASSUME NEW s \in Sessions, NEW op \in {"enable", "replace"}, sess[s].batch # NoBatch,
             Begin(r, [Started(op, "checked", s) EXCEPT !.batch = sess[s].batch])
      PROVE  Began(r, op, "checked", s) /\ req'[r].batch \in Batches /\ req'[r].code = NoCode
  <2>1. sess[s].batch \in Batches
    BY <1>1, Types DEF Row
  <2>2. op \in Handlers /\ StepOf(op, "checked")
    BY DEF StepOf, Handlers
  <2> QED
    BY <2>1, <2>2, <1>1, StartBegins
<1>2. ReplaceVerify(r) => Went(r, "verified") \/ Ended(r)
  BY GotoGoes, EndEnds DEF ReplaceVerify, At, StepOf, Handlers
<1>3. ASSUME NEW at \in {"storing", "stored"}, req[r].op \in {"enable", "replace"},
             NEW seen \in SUBSET Codes, req' = [req EXCEPT ![r].at = at, ![r].seen = seen]
      PROVE  /\ OthersStay(r)
             /\ req'[r].at = at /\ req'[r].op = req[r].op /\ req'[r].session = req[r].session
             /\ req'[r].batch = req[r].batch /\ req'[r].code = req[r].code /\ req'[r].seen = seen
  <2> DEFINE q == [req[r] EXCEPT !.at = at, !.seen = seen]
  <2>1. req[r] \in Request
    BY Types
  <2>2. StepOf(req[r].op, at) /\ at \in Places
    BY <1>3, PlacesAre DEF StepOf, Handlers
  <2>3. /\ q \in Request /\ q.at = at /\ q.op = req[r].op /\ q.session = req[r].session
        /\ q.batch = req[r].batch /\ q.code = req[r].code /\ q.seen = seen
    BY <2>1, <2>2 DEF Request
  <2>4. req' = [req EXCEPT ![r] = q]
    BY <1>3
  <2> HIDE DEF q
  <2> QED
    BY <2>2, <2>3, <2>4, Becomes
<1>4. StoreDelete(r) => /\ req[r].op \in {"enable", "replace"} /\ codes \in SUBSET Codes
                        /\ req' = [req EXCEPT ![r].at = "storing", ![r].seen = codes]
  BY DEF StoreDelete, At, TypeOK
<1>5. StoreCommit(r) => /\ req[r].op \in {"enable", "replace"} /\ {} \in SUBSET Codes
                        /\ req' = [req EXCEPT ![r].at = "stored", ![r].seen = {}]
  BY Types DEF StoreCommit, Request, StepOf, Handlers
<1>6. Activate(r) => (enabled' = TRUE /\ Went(r, "active")) \/ (enabled' = enabled /\ Ended(r))
  BY GotoGoes, EndEnds DEF Activate, At, StepOf, Handlers
<1>7. EnableInvalidate(r) => Went(r, "alone")
  BY GotoGoes DEF EnableInvalidate, At, StepOf, Handlers
<1>8. Cleanup(r) => Ended(r)
  BY EndEnds DEF Cleanup
<1> QED
  BY <1>1, <1>2, <1>3, <1>4, <1>5, <1>6, <1>7, <1>8 DEF Enable, Replace

LEMMA RenewMoves ==
    ASSUME TypeOK, NEW r \in Requests
    PROVE  /\ \A s \in Sessions : Renew(r, s) =>
                  Began(r, "renew", "checked", s) /\ req'[r].batch = NoBatch /\ req'[r].code = NoCode
           /\ RenewInvalidate(r) => Went(r, "alone")
           /\ RenewOffer(r) => Ended(r)
           /\ Crash(r) => Ended(r)
<1>1. \A s \in Sessions : Renew(r, s) =>
          Began(r, "renew", "checked", s) /\ req'[r].batch = NoBatch /\ req'[r].code = NoCode
  <2> "renew" \in Handlers /\ StepOf("renew", "checked")
    BY DEF StepOf, Handlers
  <2> QED
    BY StartBegins DEF Renew
<1>2. RenewInvalidate(r) => Went(r, "alone")
  BY GotoGoes DEF RenewInvalidate, At, StepOf, Handlers
<1> QED
  BY <1>1, <1>2, EndEnds DEF RenewOffer, Crash

-----------------------------------------------------------------------------
\* The steps of a handler.
SigninStep(r) ==
    Signin(r) \/ SigninError(r) \/ \E s \in Sessions : SigninWithout(r, s) \/ SigninPending(r, s)
SecondStep(r) ==
    \/ ConsumeCode(r) \/ SecondSignout(r) \/ SecondCount(r) \/ ForceDeactivate(r)
    \/ \E s \in Sessions : SecondFactor(r, s) \/ SecondSignin(r, s)
DisableStep(r) == DisableVerify(r) \/ \E s \in Sessions : Disable(r, s)
EnableStep(r) ==
    \/ StoreDelete(r) \/ StoreCommit(r) \/ Activate(r) \/ EnableInvalidate(r) \/ Cleanup(r) \/ ReplaceVerify(r)
    \/ \E s \in Sessions : Enable(r, s) \/ Replace(r, s)
RenewStep(r) == RenewInvalidate(r) \/ RenewOffer(r) \/ Crash(r) \/ \E s \in Sessions : Renew(r, s)
SessionStep(s) == Signout(s) \/ EnableInit(s) \/ \E b \in Batches : EnableQrcode(s, b)

LEMMA Stepping ==
    [Next]_vars => \/ \E r \in Requests : SigninStep(r) \/ SecondStep(r) \/ DisableStep(r) \/ EnableStep(r) \/ RenewStep(r)
                   \/ \E s \in Sessions : SessionStep(s)
                   \/ vars' = vars
  BY DEF Next, SigninStep, SecondStep, DisableStep, EnableStep, RenewStep, SessionStep

-----------------------------------------------------------------------------
\* The steps of requests keep to what requests are.
LEMMA RequestsInv ==
    ASSUME TypeOK, Equipped, [Next]_vars
    PROVE  req' \in [Requests -> Request] /\ (\A r \in Requests : StepOf(req'[r].op, req'[r].at)) /\ Equipped'
<1> DEFINE Goal == req' \in [Requests -> Request] /\ (\A r \in Requests : StepOf(req'[r].op, req'[r].at)) /\ Equipped'
<1> USE IdleIs DEF Equipped, OthersStay
<1>1. ASSUME NEW r \in Requests, Ended(r)
      PROVE  Goal
  BY <1>1 DEF Ended
<1>2. ASSUME NEW r \in Requests, NEW at, at # "matched", Went(r, at)
      PROVE  Goal
  BY <1>2 DEF Went
<1>3. ASSUME NEW r \in Requests, NEW op, NEW at, NEW s, Began(r, op, at, s),
             op \in {"enable", "replace"} => req'[r].batch \in Batches,
             at = "matched" => req'[r].code \in Codes
      PROVE  Goal
  BY <1>3 DEF Began
<1>4. ASSUME req' = req
      PROVE  Goal
  BY <1>4, Types
<1>5. ASSUME NEW r \in Requests, OthersStay(r), req'[r].at # "matched" \/ req'[r].code \in Codes,
             req'[r].op = req[r].op, req'[r].batch = req[r].batch
      PROVE  Goal
  BY <1>5
<1> HIDE DEF Goal
<1>6. ASSUME NEW r \in Requests, SigninStep(r)
      PROVE  Goal
  BY <1>6, <1>1, <1>3, SigninMoves DEF SigninStep
<1>7. ASSUME NEW r \in Requests, SecondStep(r)
      PROVE  Goal
  <2>1. codes \subseteq Codes
    BY DEF TypeOK
  <2>2. ASSUME NEW s \in Sessions, SecondFactor(r, s)
        PROVE  Goal
    BY <2>1, <2>2, <1>3, SecondMoves
  <2>3. ConsumeCode(r) => Goal
    BY <1>5, SecondMoves
  <2>4. SecondCount(r) => Goal
    BY <1>1, <1>2, SecondMoves
  <2> QED
    BY <1>7, <2>2, <2>3, <2>4, <1>1, <1>2, SecondMoves DEF SecondStep
<1>8. ASSUME NEW r \in Requests, DisableStep(r)
      PROVE  Goal
  <2>1. codes \subseteq Codes
    BY DEF TypeOK
  <2> QED
    BY <1>8, <2>1, <1>1, <1>2, <1>3, <1>5, DisableMoves DEF DisableStep
<1>9. ASSUME NEW r \in Requests, EnableStep(r)
      PROVE  Goal
  <2>1. StoreDelete(r) \/ StoreCommit(r) => Goal
    BY <1>5, EnableMoves
  <2>2. ASSUME NEW s \in Sessions, Enable(r, s) \/ Replace(r, s)
        PROVE  Goal
    BY <2>2, <1>3, EnableMoves
  <2>3. Activate(r) \/ EnableInvalidate(r) \/ Cleanup(r) \/ ReplaceVerify(r) => Goal
    BY <1>1, <1>2, EnableMoves
  <2> QED
    BY <1>9, <2>1, <2>2, <2>3 DEF EnableStep
<1>10. ASSUME NEW r \in Requests, RenewStep(r)
       PROVE  Goal
  BY <1>10, <1>1, <1>2, <1>3, RenewMoves DEF RenewStep
<1>11. ASSUME NEW s \in Sessions, SessionStep(s)
       PROVE  Goal
  BY <1>11, <1>4 DEF SessionStep, Signout, EnableInit, EnableQrcode
<1>12. vars' = vars => Goal
  BY <1>4 DEF vars
<1> QED
  BY <1>6, <1>7, <1>8, <1>9, <1>10, <1>11, <1>12, Stepping DEF Goal

-----------------------------------------------------------------------------
RowOK(row) == row \in Row /\ (row.state # "signed in" => row \in {NoRow, Pending})

LEMMA RowsAre ==
    /\ RowOK(NoRow) /\ NoRow.state = "none" /\ ~NoRow.offered
    /\ RowOK(Pending) /\ Pending.state = "pending" /\ ~Pending.offered
    /\ \A second \in BOOLEAN : /\ RowOK(SignedIn(second)) /\ SignedIn(second).state = "signed in"
                               /\ SignedIn(second).second = second /\ ~SignedIn(second).offered
<1>1. NoRow \in Row /\ NoRow.state = "none" /\ ~NoRow.offered
  BY DEF NoRow, Row
<1>2. Pending \in Row /\ Pending.state = "pending" /\ ~Pending.offered
  BY <1>1 DEF Pending, Row
<1>3. ASSUME NEW second \in BOOLEAN
      PROVE  /\ SignedIn(second) \in Row /\ SignedIn(second).state = "signed in"
             /\ SignedIn(second).second = second /\ ~SignedIn(second).offered
  BY <1>1 DEF SignedIn, Row
<1> QED
  BY <1>1, <1>2, <1>3 DEF RowOK

\* A session's row is replaced, or other sessions go, or nothing happens to them.
Rewritten(s, row) == sess' = [sess EXCEPT ![s] = row] /\ RowOK(row)
Invalidated(s) == sess' = OthersInvalidated(s)

Edited(row, secret, b, offered) == [row EXCEPT !.secret = secret, !.batch = b, !.offered = offered]

LEMMA Rewrites ==
    ASSUME TypeOK, NEW s \in Sessions, sess[s].state = "signed in",
           NEW secret \in BOOLEAN, NEW b \in Batches \cup {NoBatch}, NEW offered \in BOOLEAN
    PROVE  LET row == Edited(sess[s], secret, b, offered)
           IN  /\ RowOK(row) /\ row.state = "signed in" /\ row.second = sess[s].second /\ row.offered = offered
  BY Types DEF Row, RowOK, Edited

\* What the steps make of the sessions.
LEMMA SessionsMove ==
    ASSUME TypeOK, SettingsSignedIn, NEW r \in Requests, NEW s \in Sessions
    PROVE  /\ SigninWithout(r, s) => Rewritten(s, SignedIn(FALSE)) /\ sess[s] = NoRow
           /\ SigninPending(r, s) => Rewritten(s, Pending) /\ sess[s] = NoRow
           /\ SecondSignin(r, s) => Rewritten(s, SignedIn(TRUE)) /\ sess[s] = NoRow
           /\ Signout(s) => Rewritten(s, NoRow)
           /\ SecondSignout(r) => Rewritten(req[r].session, NoRow)
           /\ EnableInvalidate(r) => Invalidated(req[r].session)
           /\ RenewInvalidate(r) => Invalidated(req[r].session)
  BY RowsAre DEF SigninWithout, SigninPending, SecondSignin, Signout, SecondSignout, EnableInvalidate,
                 RenewInvalidate, Rewritten, Invalidated, Fresh

\* A row that is changed stays signed in by the same factor.
Changed(s, offered) ==
    \E row \in Row :
        /\ Rewritten(s, row)
        /\ sess[s].state = "signed in" /\ row.state = "signed in"
        /\ row.second = sess[s].second /\ row.offered = offered

LEMMA SettingsChange ==
    ASSUME TypeOK, NEW s \in Sessions
    PROVE  /\ EnableInit(s) => Changed(s, sess[s].offered)
           /\ \A b \in Batches : EnableQrcode(s, b) => Changed(s, FALSE)
<1>1. sess \in [Sessions -> Row]
  BY Types
<1>2. ASSUME EnableInit(s)
      PROVE  Changed(s, sess[s].offered)
  <2> DEFINE row == Edited(sess[s], TRUE, sess[s].batch, sess[s].offered)
  <2>1. sess[s].batch \in Batches \cup {NoBatch} /\ sess[s].offered \in BOOLEAN /\ sess[s] \in Row
    BY <1>1 DEF Row
  <2>2. RowOK(row) /\ row.state = "signed in" /\ row.second = sess[s].second /\ row.offered = sess[s].offered
    BY <1>2, <2>1, Rewrites DEF EnableInit
  <2>3. [sess[s] EXCEPT !.secret = TRUE] = row
    BY <2>1 DEF Row, Edited
  <2>4. sess' = [sess EXCEPT ![s] = row]
    BY <1>2, <2>3 DEF EnableInit
  <2> HIDE DEF row
  <2> QED
    BY <1>2, <2>2, <2>4 DEF Changed, Rewritten, EnableInit, RowOK
<1>3. ASSUME NEW b \in Batches, EnableQrcode(s, b)
      PROVE  Changed(s, FALSE)
  <2> DEFINE row == Edited(sess[s], sess[s].secret, b, FALSE)
  <2>1. sess[s].secret \in BOOLEAN /\ sess[s] \in Row
    BY <1>1 DEF Row
  <2>2. RowOK(row) /\ row.state = "signed in" /\ row.second = sess[s].second /\ row.offered = FALSE
    BY <1>3, <2>1, Rewrites DEF EnableQrcode
  <2>3. [sess[s] EXCEPT !.batch = b, !.offered = FALSE] = row
    BY <2>1 DEF Row, Edited
  <2>4. sess' = [sess EXCEPT ![s] = row]
    BY <1>3, <2>3 DEF EnableQrcode
  <2> HIDE DEF row
  <2> QED
    BY <1>3, <2>2, <2>4 DEF Changed, Rewritten, EnableQrcode, RowOK
<1> QED
  BY <1>2, <1>3

LEMMA RequestsChange ==
    ASSUME TypeOK, SettingsSignedIn, NEW r \in Requests
    PROVE  /\ Cleanup(r) => sess' = sess \/ (req[r].session \in Sessions /\ Changed(req[r].session, FALSE))
           /\ RenewOffer(r) => sess' = sess \/ (req[r].session \in Sessions /\ Changed(req[r].session, TRUE))
<1> DEFINE t == req[r].session
<1>1. sess \in [Sessions -> Row] /\ \A x \in Sessions : sess[x].state # "signed in" => sess[x] \in {NoRow, Pending}
  BY Types DEF TypeOK
<1>2. (Cleanup(r) \/ RenewOffer(r)) /\ SessionThere(r) => t \in Sessions /\ sess[t].state = "signed in"
  BY <1>1, RowsAre DEF SettingsSignedIn, Cleanup, RenewOffer, At, SessionThere
<1>3. ASSUME Cleanup(r), SessionThere(r)
      PROVE  t \in Sessions /\ Changed(t, FALSE)
  <2> DEFINE row == Edited(sess[t], FALSE, NoBatch, FALSE)
  <2>1. t \in Sessions /\ sess[t].state = "signed in"
    BY <1>2, <1>3
  <2>2. RowOK(row) /\ row.state = "signed in" /\ row.second = sess[t].second /\ row.offered = FALSE
    BY <2>1, Rewrites
  <2>3. sess' = [sess EXCEPT ![t] = row]
    BY <1>3 DEF Cleanup, Edited
  <2> HIDE DEF row
  <2> QED
    BY <2>1, <2>2, <2>3 DEF Changed, Rewritten, RowOK
<1>4. ASSUME RenewOffer(r), SessionThere(r)
      PROVE  t \in Sessions /\ Changed(t, TRUE)
  <2>1. t \in Sessions /\ sess[t].state = "signed in" /\ sess[t] \in Row
    BY <1>1, <1>2, <1>4
  <2>2. PICK b \in Batches : sess' = [sess EXCEPT ![t].batch = b, ![t].offered = TRUE]
    BY <2>1, <1>4 DEF RenewOffer, Row
  <2> DEFINE row == Edited(sess[t], sess[t].secret, b, TRUE)
  <2>3. RowOK(row) /\ row.state = "signed in" /\ row.second = sess[t].second /\ row.offered = TRUE
    <3>1. sess[t].secret \in BOOLEAN
      BY <2>1 DEF Row
    <3> QED
      BY <2>1, <3>1, Rewrites
  <2>4. [sess[t] EXCEPT !.batch = b, !.offered = TRUE] = row
    BY <2>1 DEF Row, Edited
  <2>5. sess' = [sess EXCEPT ![t] = row]
    BY <2>2, <2>4
  <2> HIDE DEF row
  <2> QED
    BY <2>1, <2>3, <2>5 DEF Changed, Rewritten, RowOK
<1> QED
  BY <1>3, <1>4 DEF Cleanup, RenewOffer

-----------------------------------------------------------------------------
\* Sessions are replaced, or go, by a step of a known kind.
LEMMA SessionsGo ==
    ASSUME TypeOK, SettingsSignedIn, [Next]_vars
    PROVE  \/ sess' = sess
           \/ \E s \in Sessions, r \in Requests : SigninPending(r, s)
           \/ \E s, row : Rewritten(s, row) /\ row.state # "pending"
           \/ \E s : Invalidated(s)
<1> DEFINE Goal == \/ sess' = sess
                   \/ \E s \in Sessions, r \in Requests : SigninPending(r, s)
                   \/ \E s, row : Rewritten(s, row) /\ row.state # "pending"
                   \/ \E s : Invalidated(s)
<1>1. ASSUME NEW s, NEW offered, Changed(s, offered)
      PROVE  Goal
  BY <1>1 DEF Changed
<1>2. ASSUME NEW s, NEW row, Rewritten(s, row), row.state # "pending"
      PROVE  Goal
  BY <1>2
<1>3. ASSUME NEW s, Invalidated(s)
      PROVE  Goal
  BY <1>3
<1>4. ASSUME sess' = sess
      PROVE  Goal
  BY <1>4
<1>5. ASSUME NEW r \in Requests, SigninStep(r)
      PROVE  Goal
  <2>1. (Signin(r) \/ SigninError(r)) => Goal
    BY <1>4 DEF Signin, SigninError
  <2>2. ASSUME NEW s \in Sessions, SigninWithout(r, s)
        PROVE  Goal
    <3> HIDE DEF Goal
    <3> QED
      BY <2>2, <1>2, SessionsMove, RowsAre
  <2> QED
    BY <1>5, <2>1, <2>2 DEF SigninStep
<1> HIDE DEF Goal
<1>6. ASSUME NEW r \in Requests, SecondStep(r)
      PROVE  Goal
  <2>1. (ConsumeCode(r) \/ SecondCount(r) \/ ForceDeactivate(r)) => Goal
    BY <1>4 DEF ConsumeCode, SecondCount, ForceDeactivate
  <2>2. ASSUME NEW s \in Sessions, SecondFactor(r, s)
        PROVE  Goal
    BY <2>2, <1>4 DEF SecondFactor
  <2>3. ASSUME NEW s \in Sessions, SecondSignin(r, s)
        PROVE  Goal
    BY <2>3, <1>2, SessionsMove, RowsAre
  <2>4. ASSUME SecondSignout(r)
        PROVE  Goal
    <3>1. Rewritten(req[r].session, NoRow)
      BY <2>4, RowsAre DEF SecondSignout, Rewritten
    <3> QED
      BY <3>1, <1>2, RowsAre
  <2> QED
    BY <1>6, <2>1, <2>2, <2>3, <2>4 DEF SecondStep
<1>7. ASSUME NEW r \in Requests, DisableStep(r)
      PROVE  Goal
  BY <1>7, <1>4 DEF DisableStep, DisableVerify, Disable
<1>8. ASSUME NEW r \in Requests, EnableStep(r)
      PROVE  Goal
  <2>1. (StoreDelete(r) \/ StoreCommit(r) \/ Activate(r) \/ ReplaceVerify(r)) => Goal
    BY <1>4 DEF StoreDelete, StoreCommit, Activate, ReplaceVerify
  <2>2. ASSUME NEW s \in Sessions, Enable(r, s) \/ Replace(r, s)
        PROVE  Goal
    BY <2>2, <1>4 DEF Enable, Replace
  <2>3. EnableInvalidate(r) => Goal
    BY <1>3 DEF EnableInvalidate, Invalidated
  <2>4. ASSUME Cleanup(r)
        PROVE  Goal
    <3>1. CASE sess' = sess
      BY <3>1, <1>4
    <3>2. CASE sess' # sess
      <4>1. req[r].session \in Sessions
        BY <2>4 DEF SettingsSignedIn, Cleanup, At
      <4> QED
        BY <4>1, <3>2, <2>4, <1>1, RequestsChange
    <3> QED
      BY <3>1, <3>2
  <2> QED
    BY <1>8, <2>1, <2>2, <2>3, <2>4 DEF EnableStep
<1>9. ASSUME NEW r \in Requests, RenewStep(r)
      PROVE  Goal
  <2>1. Crash(r) => Goal
    BY <1>4 DEF Crash
  <2>2. ASSUME NEW s \in Sessions, Renew(r, s)
        PROVE  Goal
    BY <2>2, <1>4 DEF Renew
  <2>3. RenewInvalidate(r) => Goal
    BY <1>3 DEF RenewInvalidate, Invalidated
  <2>4. ASSUME RenewOffer(r)
        PROVE  Goal
    <3>1. CASE sess' = sess
      BY <3>1, <1>4
    <3>2. CASE sess' # sess
      <4>1. req[r].session \in Sessions
        BY <2>4 DEF SettingsSignedIn, RenewOffer, At
      <4> QED
        BY <4>1, <3>2, <2>4, <1>1, RequestsChange
    <3> QED
      BY <3>1, <3>2
  <2> QED
    BY <1>9, <2>1, <2>2, <2>3, <2>4 DEF RenewStep
<1>10. ASSUME NEW s \in Sessions, SessionStep(s)
       PROVE  Goal
  <2>1. Signout(s) => Goal
    BY <1>2, RowsAre DEF Signout, Rewritten
  <2> QED
    BY <1>10, <2>1, <1>1, SettingsChange DEF SessionStep
<1>11. vars' = vars => Goal
  BY <1>4 DEF vars
<1> QED
  BY <1>5, <1>6, <1>7, <1>8, <1>9, <1>10, <1>11, Stepping DEF Goal

\* Their rows stay what rows are.
LEMMA RowsInv ==
    ASSUME TypeOK, SettingsSignedIn, [Next]_vars
    PROVE  sess' \in [Sessions -> Row] /\ \A s \in Sessions : RowOK(sess'[s])
<1>1. sess \in [Sessions -> Row] /\ \A s \in Sessions : RowOK(sess[s])
  BY Types DEF TypeOK, RowOK
<1>2. ASSUME NEW s, NEW row, Rewritten(s, row)
      PROVE  sess' \in [Sessions -> Row] /\ \A t \in Sessions : RowOK(sess'[t])
  <2>1. row \in Row /\ RowOK(row) /\ sess' = [sess EXCEPT ![s] = row]
    BY <1>2 DEF Rewritten, RowOK
  <2> QED
    BY <1>1, <2>1
<1>3. ASSUME NEW s, Invalidated(s)
      PROVE  sess' \in [Sessions -> Row] /\ \A t \in Sessions : RowOK(sess'[t])
  <2>1. NoRow \in Row
    BY RowsAre DEF RowOK
  <2>2. sess' \in [Sessions -> Row]
    BY <1>1, <1>3, <2>1 DEF Invalidated, OthersInvalidated
  <2>3. \A t \in Sessions : sess'[t] = NoRow \/ sess'[t] = sess[t]
    BY <1>3 DEF Invalidated, OthersInvalidated
  <2> QED
    BY <1>1, <2>2, <2>3, RowsAre
<1>4. ASSUME NEW s \in Sessions, NEW r \in Requests, SigninPending(r, s)
      PROVE  sess' \in [Sessions -> Row] /\ \A t \in Sessions : RowOK(sess'[t])
  BY <1>2, <1>4, SessionsMove
<1> QED
  BY <1>1, <1>2, <1>3, <1>4, SessionsGo

\* A request to the settings comes with a session that is signed in.
LEMMA WhoseSession ==
    ASSUME TypeOK, Equipped, [Next]_vars, NEW r \in Requests,
           req'[r].op \in {"disable", "enable", "renew", "replace"}
    PROVE  \/ req[r].op = req'[r].op /\ req[r].session = req'[r].session
           \/ req'[r].session \in Sessions /\ sess[req'[r].session].state = "signed in" /\ sess' = sess
<1> DEFINE Goal == \/ req[r].op = req'[r].op /\ req[r].session = req'[r].session
                   \/ req'[r].session \in Sessions /\ sess[req'[r].session].state = "signed in" /\ sess' = sess
<1>1. ASSUME NEW q \in Requests, Ended(q)
      PROVE  Goal
  BY <1>1, IdleIs DEF Ended, OthersStay
<1>2. ASSUME NEW q \in Requests, NEW at, Went(q, at)
      PROVE  Goal
  BY <1>2 DEF Went, OthersStay
<1>3. ASSUME NEW q \in Requests, NEW op, NEW at, NEW s, Began(q, op, at, s),
             op \in {"signin", "second"} \/ (s \in Sessions /\ sess[s].state = "signed in" /\ sess' = sess)
      PROVE  Goal
  BY <1>3 DEF Began, OthersStay
<1>4. ASSUME req' = req
      PROVE  Goal
  BY <1>4
<1>5. ASSUME NEW q \in Requests, OthersStay(q), req'[q].op = req[q].op, req'[q].session = req[q].session
      PROVE  Goal
  BY <1>5 DEF OthersStay
<1> HIDE DEF Goal
<1>6. ASSUME NEW q \in Requests, SigninStep(q)
      PROVE  Goal
  BY <1>6, <1>1, <1>3, SigninMoves DEF SigninStep
<1>7. ASSUME NEW q \in Requests, SecondStep(q)
      PROVE  Goal
  <2>1. ASSUME NEW s \in Sessions, SecondFactor(q, s)
        PROVE  Goal
    BY <2>1, <1>3, SecondMoves
  <2>2. ConsumeCode(q) => Goal
    BY <1>5, SecondMoves
  <2>3. SecondCount(q) => Goal
    BY <1>1, <1>2, SecondMoves
  <2> QED
    BY <1>7, <2>1, <2>2, <2>3, <1>1, <1>2, SecondMoves DEF SecondStep
<1>8. ASSUME NEW q \in Requests, DisableStep(q)
      PROVE  Goal
  <2>1. ASSUME NEW s \in Sessions, Disable(q, s)
        PROVE  Goal
    BY <2>1, <1>3, DisableMoves DEF Disable
  <2>2. DisableVerify(q) => Goal
    BY <1>1, <1>2, <1>5, DisableMoves
  <2> QED
    BY <1>8, <2>1, <2>2 DEF DisableStep
<1>9. ASSUME NEW q \in Requests, EnableStep(q)
      PROVE  Goal
  <2>1. StoreDelete(q) \/ StoreCommit(q) => Goal
    BY <1>5, EnableMoves
  <2>2. ASSUME NEW s \in Sessions, Enable(q, s) \/ Replace(q, s)
        PROVE  Goal
    BY <2>2, <1>3, EnableMoves DEF Enable, Replace
  <2>3. Activate(q) \/ EnableInvalidate(q) \/ Cleanup(q) \/ ReplaceVerify(q) => Goal
    BY <1>1, <1>2, EnableMoves
  <2> QED
    BY <1>9, <2>1, <2>2, <2>3 DEF EnableStep
<1>10. ASSUME NEW q \in Requests, RenewStep(q)
       PROVE  Goal
  <2>1. ASSUME NEW s \in Sessions, Renew(q, s)
        PROVE  Goal
    BY <2>1, <1>3, RenewMoves DEF Renew
  <2> QED
    BY <1>10, <2>1, <1>1, <1>2, RenewMoves DEF RenewStep
<1>11. ASSUME NEW s \in Sessions, SessionStep(s)
       PROVE  Goal
  BY <1>11, <1>4 DEF SessionStep, Signout, EnableInit, EnableQrcode
<1>12. vars' = vars => Goal
  BY <1>4 DEF vars
<1> QED
  BY <1>6, <1>7, <1>8, <1>9, <1>10, <1>11, <1>12, Stepping DEF Goal

LEMMA SettingsInv ==
    ASSUME TypeOK, Equipped, SettingsSignedIn, [Next]_vars
    PROVE  SettingsSignedIn'
<1> SUFFICES ASSUME NEW r \in Requests, req'[r].op \in {"disable", "enable", "renew", "replace"}
             PROVE  req'[r].session \in Sessions /\ sess'[req'[r].session].state # "pending"
  BY DEF SettingsSignedIn
<1> DEFINE t == req'[r].session
<1>1. CASE sess[t].state = "signed in" /\ sess' = sess /\ t \in Sessions
  BY <1>1
<1>2. CASE req[r].op = req'[r].op /\ req[r].session = t
  <2>1. t \in Sessions /\ sess[t].state # "pending"
    BY <1>2 DEF SettingsSignedIn
  <2>2. ASSUME NEW s, NEW row, Rewritten(s, row), row.state # "pending"
        PROVE  sess'[t].state # "pending"
    BY <2>1, <2>2, Types DEF Rewritten
  <2>3. ASSUME NEW s, Invalidated(s)
        PROVE  sess'[t].state # "pending"
    BY <2>1, <2>3, RowsAre DEF Invalidated, OthersInvalidated
  <2>4. ASSUME NEW s \in Sessions, NEW q \in Requests, SigninPending(q, s)
        PROVE  sess'[t].state # "pending"
    BY <2>1, <2>4, <1>2, Types DEF SigninPending, Fresh
  <2> QED
    BY <2>1, <2>2, <2>3, <2>4, SessionsGo
<1> QED
  BY <1>1, <1>2, WhoseSession

\* Types.
LEMMA TypeInv ==
    ASSUME TypeOK, Equipped, SettingsSignedIn, [Next]_vars
    PROVE  TypeOK'
<1>1. req' \in [Requests -> Request] /\ \A r \in Requests : StepOf(req'[r].op, req'[r].at)
  BY RequestsInv
<1>2. sess' \in [Sessions -> Row] /\ \A s \in Sessions : RowOK(sess'[s])
  BY RowsInv
<1> DEFINE Rest == /\ enabled' \in BOOLEAN /\ codes' \subseteq Codes /\ drawn' \subseteq Batches
                   /\ uses' \in [Codes -> Nat] /\ raced' \subseteq Codes /\ crashes' \in 0 .. MaxCrashes
                   /\ late' \subseteq Sessions /\ undermined' \in BOOLEAN
<1>3. ASSUME NEW r \in Requests, SigninStep(r)
      PROVE  Rest
  BY <1>3 DEF TypeOK, SigninStep, Signin, SigninError, SigninWithout, SigninPending, history
<1>4. ASSUME NEW r \in Requests, SecondStep(r)
      PROVE  Rest
  <2>1. ASSUME ConsumeCode(r)
        PROVE  Rest
    <3> DEFINE c == req[r].code
    <3>1. c \in Codes
      BY <2>1, SecondMoves
    <3>2. uses' = [uses EXCEPT ![c] = uses[c] + 1] /\ uses \in [Codes -> Nat]
      BY <2>1 DEF ConsumeCode, TypeOK
    <3>3. raced' \in {raced, raced \cup {c}} /\ codes' = codes \ {c}
      BY <2>1 DEF ConsumeCode, Remaining
    <3>4. UNCHANGED <<enabled, drawn, crashes, late, undermined>>
      BY <2>1 DEF ConsumeCode
    <3>5. /\ enabled \in BOOLEAN /\ drawn \subseteq Batches /\ crashes \in 0 .. MaxCrashes
          /\ late \subseteq Sessions /\ undermined \in BOOLEAN /\ codes \subseteq Codes /\ raced \subseteq Codes
      BY DEF TypeOK
    <3> HIDE DEF c
    <3>6. uses' \in [Codes -> Nat]
      BY <3>1, <3>2
    <3>7. codes' \subseteq Codes /\ raced' \subseteq Codes
      BY <3>1, <3>3, <3>5
    <3> QED
      BY <3>4, <3>5, <3>6, <3>7
  <2>2. ASSUME ForceDeactivate(r)
        PROVE  Rest
    BY <2>2 DEF TypeOK, ForceDeactivate
  <2> QED
    BY <1>4, <2>1, <2>2 DEF TypeOK, SecondStep, SecondSignout, SecondCount, SecondFactor, SecondSignin, history
<1>5. ASSUME NEW r \in Requests, DisableStep(r)
      PROVE  Rest
  BY <1>5 DEF TypeOK, DisableStep, DisableVerify, Disable, history
<1>6. ASSUME NEW r \in Requests, EnableStep(r)
      PROVE  Rest
  <2>1. ASSUME StoreCommit(r)
        PROVE  Rest
    <3>1. PICK k \in Copies : /\ codes' = Kept(r) \cup CopyOf(req[r].batch, k)
                              /\ uses' = [c \in Codes |-> IF c \in CopyOf(req[r].batch, k) THEN 0 ELSE uses[c]]
                              /\ raced' = raced \ CopyOf(req[r].batch, k)
      BY <2>1 DEF StoreCommit
    <3>2. CopyOf(req[r].batch, k) \subseteq Codes /\ Kept(r) \subseteq codes
      BY DEF CopyOf, Kept
    <3>3. UNCHANGED <<enabled, drawn, crashes, late, undermined>>
      BY <2>1 DEF StoreCommit
    <3> QED
      BY <3>1, <3>2, <3>3 DEF TypeOK
  <2>2. ASSUME Activate(r)
        PROVE  Rest
    BY <2>2 DEF TypeOK, Activate, history
  <2> QED
    BY <1>6, <2>1, <2>2 DEF TypeOK, EnableStep, StoreDelete, EnableInvalidate, Cleanup, ReplaceVerify, Enable,
                            Replace, history
<1>7. ASSUME NEW r \in Requests, RenewStep(r)
      PROVE  Rest
  <2>1. ASSUME RenewOffer(r)
        PROVE  Rest
    <3>1. SessionThere(r) => sess[req[r].session].batch \in Batches \cup {NoBatch}
      <4>1. req[r].session \in Sessions
        BY <2>1 DEF RenewOffer, At, SettingsSignedIn
      <4> QED
        BY <4>1, Types DEF Row
    <3>2. UNCHANGED <<enabled, codes, uses, raced, crashes, late, undermined>>
      BY <2>1 DEF RenewOffer
    <3>3. drawn' \subseteq Batches
      <4>1. CASE SessionThere(r)
        <5>1. PICK b \in Batches \cup {NoBatch} : b # NoBatch /\ drawn' = drawn \cup {b}
          BY <2>1, <3>1, <4>1, NoneAssumption DEF RenewOffer
        <5> QED
          BY <5>1 DEF TypeOK
      <4>2. CASE ~SessionThere(r)
        BY <2>1, <4>2 DEF RenewOffer, TypeOK
      <4> QED
        BY <4>1, <4>2
    <3> QED
      BY <3>2, <3>3 DEF TypeOK
  <2>2. ASSUME Crash(r)
        PROVE  Rest
    <3>1. /\ crashes \in 0 .. MaxCrashes /\ crashes < MaxCrashes /\ crashes' = crashes + 1
          /\ late \subseteq Sessions /\ late' \in {Sessions, late} /\ UNCHANGED <<enabled, codes, drawn, uses, raced>>
      BY <2>2 DEF TypeOK, Crash
    <3>3. crashes' \in 0 .. MaxCrashes /\ late' \subseteq Sessions
      BY <3>1, CrashesAssumption
    <3>2. undermined' \in BOOLEAN
      BY <2>2, Zenon DEF TypeOK, Crash
    <3> QED
      BY <3>1, <3>2, <3>3 DEF TypeOK
  <2> QED
    BY <1>7, <2>1, <2>2 DEF TypeOK, RenewStep, RenewInvalidate, Renew, history
<1>8. ASSUME NEW s \in Sessions, SessionStep(s)
      PROVE  Rest
  BY <1>8 DEF TypeOK, SessionStep, Signout, EnableInit, EnableQrcode, history
<1>9. ASSUME vars' = vars
      PROVE  Rest
  BY <1>9 DEF TypeOK, vars, history
<1>10. Rest
  BY <1>3, <1>4, <1>5, <1>6, <1>7, <1>8, <1>9, Stepping
<1> HIDE DEF Rest
<1> QED
  BY <1>1, <1>2, <1>10 DEF TypeOK, Rest, Request, Row, RowOK

-----------------------------------------------------------------------------
LEMMA InitInv == Init => IInv
<1> SUFFICES ASSUME Init PROVE IInv
  OBVIOUS
<1>1. \A r \in Requests : req[r] = Idle
  BY DEF Init
<1>2. \A s \in Sessions : sess[s] = NoRow
  BY DEF Init
<1>3. TypeOK
  <2>1. /\ enabled \in BOOLEAN /\ codes \subseteq Codes /\ drawn \subseteq Batches
        /\ raced \subseteq Codes /\ late \subseteq Sessions /\ undermined \in BOOLEAN
    BY DEF Init
  <2>4. uses \in [Codes -> Nat] /\ crashes \in 0 .. MaxCrashes
    BY CrashesAssumption DEF Init
  <2>2. req \in [Requests -> Request] /\ \A r \in Requests : StepOf(req[r].op, req[r].at)
    BY IdleIs DEF Init
  <2>3. sess \in [Sessions -> Row] /\ \A s \in Sessions : RowOK(sess[s])
    BY RowsAre DEF Init, RowOK
  <2> QED
    BY <2>1, <2>2, <2>3, <2>4 DEF TypeOK, Request, Row, RowOK
<1>4. Equipped /\ SettingsSignedIn
  BY <1>1, IdleIs DEF Equipped, SettingsSignedIn
<1>5. CodesOrTurningOff
  BY <1>1, IdleIs DEF Init, CodesOrTurningOff, At
<1>6. AcceptedOnce /\ UnusedWhileWanted
  BY DEF Init, AcceptedOnce, UnusedWhileWanted
<1>7. OffersAlone
  BY <1>1, <1>2, IdleIs, RowsAre DEF OffersAlone, Offering, At
<1>8. OneUnpassed
  BY DEF Init, OneUnpassed
<1> QED
  BY <1>3, <1>4, <1>5, <1>6, <1>7, <1>8 DEF IInv

-----------------------------------------------------------------------------
LEMMA CodesInv ==
    ASSUME TypeOK, Equipped, CodesOrTurningOff, [Next]_vars
    PROVE  CodesOrTurningOff'
<1> DEFINE Storing == \E q \in Requests : At(q, "enable", "stored")
<1>1. ASSUME NEW r \in Requests, OthersStay(r), TurningOff(r)'
      PROVE  CodesOrTurningOff'
  BY <1>1 DEF CodesOrTurningOff
<1>2. ASSUME codes' # {}
      PROVE  CodesOrTurningOff'
  BY <1>2 DEF CodesOrTurningOff
\* A step of a request that was not on its way to turning 2FA off.
<1>3. ASSUME NEW r \in Requests, OthersStay(r), ~TurningOff(r), ~At(r, "enable", "stored")',
             codes' = codes, undermined' = undermined, enabled' => enabled \/ Storing
      PROVE  CodesOrTurningOff'
  <2>1. \A q \in Requests \ {r} : /\ TurningOff(q)' = TurningOff(q)
                                  /\ At(q, "enable", "stored")' = At(q, "enable", "stored")
    BY <1>3 DEF OthersStay, TurningOff, At
  <2>2. Storing' => Storing
    BY <2>1, <1>3
  <2> QED
    BY <2>1, <2>2, <1>3 DEF CodesOrTurningOff
<1>4. ASSUME req' = req, codes' = codes, undermined' = undermined, enabled' = enabled
      PROVE  CodesOrTurningOff'
  BY <1>4 DEF CodesOrTurningOff, TurningOff, At
<1>5. \A r \in Requests : Ended(r) => OthersStay(r) /\ ~At(r, "enable", "stored")'
  BY IdleIs DEF Ended, At
<1>6. \A op, at, s : \A r \in Requests :
          Began(r, op, at, s) /\ at # "stored" => OthersStay(r) /\ ~TurningOff(r) /\ ~At(r, "enable", "stored")'
  BY IdleIs DEF Began, At, TurningOff
<1>7. \A at : \A r \in Requests : Went(r, at) /\ at # "stored" => OthersStay(r) /\ ~At(r, "enable", "stored")'
  BY DEF Went, At
<1> HIDE DEF Storing
<1>8. ASSUME NEW r \in Requests, SigninStep(r)
      PROVE  CodesOrTurningOff'
  <2>1. CASE Signin(r)
    BY <2>1, <1>3, <1>6, SigninMoves DEF Signin, history
  <2>2. CASE SigninError(r)
    BY <2>2, <1>3, <1>5, SigninMoves DEF SigninError, OutOfCodes, history, TurningOff, At
  <2>3. ASSUME NEW s \in Sessions, SigninWithout(r, s) \/ SigninPending(r, s)
        PROVE  CodesOrTurningOff'
    <3>1. ~TurningOff(r) /\ UNCHANGED <<enabled, codes, undermined>>
      BY <2>3 DEF SigninWithout, SigninPending, TurningOff, At
    <3> QED
      BY <2>3, <3>1, <1>3, <1>5, SigninMoves
  <2> QED
    BY <1>8, <2>1, <2>2, <2>3 DEF SigninStep
<1>9. ASSUME NEW r \in Requests, SecondStep(r)
      PROVE  CodesOrTurningOff'
  <2>1. CASE ConsumeCode(r)
    BY <2>1, <1>1, SecondMoves DEF TurningOff, At
  <2>2. CASE SecondSignout(r)
    BY <2>2, <1>1, SecondMoves DEF TurningOff, At, Went, SecondSignout
  <2>3. ASSUME NEW s \in Sessions, SecondSignin(r, s)
        PROVE  CodesOrTurningOff'
    BY <2>3, <1>1, SecondMoves DEF TurningOff, At, Went, SecondSignin
  <2>4. CASE SecondCount(r)
    <3>1. CASE codes = {}
      BY <2>4, <3>1, <1>1, SecondMoves DEF TurningOff, At, Went, SecondCount
    <3>2. CASE codes # {}
      BY <2>4, <3>2, <1>2 DEF SecondCount
    <3> QED
      BY <3>1, <3>2
  <2>5. CASE ForceDeactivate(r)
    <3>1. ~enabled' /\ (~undermined' => ~Storing)
      BY <2>5, Zenon DEF ForceDeactivate, Storing
    <3>2. Ended(r)
      BY <2>5, SecondMoves
    <3>3. Storing' => Storing
      BY <3>2, <1>5 DEF OthersStay, Storing, At
    <3> QED
      BY <3>1, <3>3 DEF CodesOrTurningOff, Storing
  <2>6. ASSUME NEW s \in Sessions, SecondFactor(r, s)
        PROVE  CodesOrTurningOff'
    BY <2>6, <1>3, <1>6, SecondMoves DEF SecondFactor, history
  <2> QED
    BY <1>9, <2>1, <2>2, <2>3, <2>4, <2>5, <2>6 DEF SecondStep
<1>10. ASSUME NEW r \in Requests, DisableStep(r)
       PROVE  CodesOrTurningOff'
  <2>1. CASE DisableVerify(r)
    <3>1. OthersStay(r) /\ ~At(r, "enable", "stored")'
      BY <2>1, <1>5, <1>7, DisableMoves DEF At
    <3> QED
      BY <2>1, <3>1, <1>3 DEF DisableVerify, history, TurningOff, At
  <2>2. ASSUME NEW s \in Sessions, Disable(r, s)
        PROVE  CodesOrTurningOff'
    BY <2>2, <1>3, <1>6, DisableMoves DEF Disable, history
  <2> QED
    BY <1>10, <2>1, <2>2 DEF DisableStep
<1>11. ASSUME NEW r \in Requests, EnableStep(r)
       PROVE  CodesOrTurningOff'
  <2>1. CASE StoreDelete(r)
    BY <2>1, <1>3, EnableMoves DEF StoreDelete, history, TurningOff, At
  <2>2. CASE StoreCommit(r)
    <3>1. PICK k \in Copies : codes' = Kept(r) \cup CopyOf(req[r].batch, k)
      BY <2>2 DEF StoreCommit
    <3>2. req[r].batch \in Batches
      BY <2>2, EnableMoves DEF Equipped
    <3>3. <<req[r].batch, 1, k>> \in Codes
      BY <3>2, CodesAssumption DEF Codes
    <3>4. <<req[r].batch, 1, k>> \in CopyOf(req[r].batch, k)
      BY <3>3 DEF CopyOf
    <3> QED
      BY <3>1, <3>4, <1>2
  <2>3. CASE Activate(r)
    <3>1. Storing /\ ~TurningOff(r) /\ UNCHANGED <<codes, undermined>>
      BY <2>3 DEF Activate, Storing, TurningOff, At, history
    <3> QED
      BY <2>3, <3>1, <1>3, <1>5, <1>7, EnableMoves
  <2>4. CASE EnableInvalidate(r) \/ Cleanup(r)
    <3>1. ~TurningOff(r) /\ UNCHANGED <<enabled, codes, undermined>>
      BY <2>4 DEF EnableInvalidate, Cleanup, TurningOff, At, history
    <3> QED
      BY <2>4, <3>1, <1>3, <1>5, <1>7, EnableMoves
  <2>5. CASE ReplaceVerify(r)
    BY <2>5, <1>3, <1>5, <1>7, EnableMoves DEF ReplaceVerify, history, TurningOff, At
  <2>6. ASSUME NEW s \in Sessions, Enable(r, s) \/ Replace(r, s)
        PROVE  CodesOrTurningOff'
    <3>1. UNCHANGED <<enabled, codes, undermined>>
      BY <2>6 DEF Enable, Replace, history
    <3> QED
      BY <2>6, <3>1, <1>3, <1>6, EnableMoves
  <2> QED
    BY <1>11, <2>1, <2>2, <2>3, <2>4, <2>5, <2>6 DEF EnableStep
<1>12. ASSUME NEW r \in Requests, RenewStep(r)
       PROVE  CodesOrTurningOff'
  <2>1. CASE RenewInvalidate(r) \/ RenewOffer(r)
    <3>1. ~TurningOff(r) /\ UNCHANGED <<enabled, codes, undermined>>
      BY <2>1 DEF RenewInvalidate, RenewOffer, TurningOff, At, history
    <3> QED
      BY <2>1, <3>1, <1>3, <1>5, <1>7, RenewMoves
  <2>2. ASSUME NEW s \in Sessions, Renew(r, s)
        PROVE  CodesOrTurningOff'
    BY <2>2, <1>3, <1>6, RenewMoves DEF Renew, history
  <2>3. CASE Crash(r)
    <3>1. CASE undermined'
      BY <3>1 DEF CodesOrTurningOff
    <3>2. CASE ~undermined'
      <4>1. ~undermined /\ req[r].op \notin {"second", "disable"}
        BY <2>3, <3>2, Zenon DEF Crash
      <4>4. undermined = FALSE
        BY <4>1 DEF TypeOK
      <4>5. undermined' = (FALSE \/ FALSE)
        BY <2>3, <4>1, <4>4, Zenon DEF Crash
      <4>2. undermined' = undermined
        BY <4>4, <4>5
      <4>3. ~TurningOff(r) /\ UNCHANGED <<codes, enabled>>
        BY <2>3, <4>1 DEF TurningOff, At, Crash
      <4> QED
        BY <2>3, <4>2, <4>3, <1>3, <1>5, RenewMoves
    <3> QED
      BY <3>1, <3>2
  <2> QED
    BY <1>12, <2>1, <2>2, <2>3 DEF RenewStep
<1>13. ASSUME NEW s \in Sessions, SessionStep(s)
       PROVE  CodesOrTurningOff'
  BY <1>13, <1>4 DEF SessionStep, Signout, EnableInit, EnableQrcode, history
<1>14. CASE vars' = vars
  BY <1>14, <1>4 DEF vars, history
<1> QED
  BY <1>8, <1>9, <1>10, <1>11, <1>12, <1>13, <1>14, Stepping

-----------------------------------------------------------------------------
LEMMA AcceptInv ==
    ASSUME TypeOK, Equipped, AcceptedOnce, UnusedWhileWanted, [Next]_vars
    PROVE  AcceptedOnce' /\ UnusedWhileWanted'
<1> DEFINE Goal == AcceptedOnce' /\ UnusedWhileWanted'
           Held(r) == req'[r].code \in {NoCode, req[r].code} \cup codes
<1>1. uses \in [Codes -> Nat] /\ codes \subseteq Codes
  BY DEF TypeOK
\* Nothing is accepted, and what a request looks for was looked for or is stored.
<1>2. ASSUME NEW r \in Requests, OthersStay(r), Held(r), UNCHANGED <<uses, raced>>, codes' \subseteq codes
      PROVE  Goal
  <2>1. ASSUME NEW c \in Codes \ raced, c \in codes' \/ \E q \in Requests : req'[q].code = c
        PROVE  uses'[c] = 0
    <3>1. c \in codes \/ \E q \in Requests : req[q].code = c
      BY <1>2, <2>1, NoCodeAssumption DEF OthersStay
    <3> QED
      BY <1>2, <3>1 DEF UnusedWhileWanted
  <2> QED
    BY <1>2, <2>1 DEF AcceptedOnce, UnusedWhileWanted
<1>3. ASSUME UNCHANGED <<uses, raced, codes, req>>
      PROVE  Goal
  BY <1>3 DEF AcceptedOnce, UnusedWhileWanted
<1>4. \A r \in Requests : Ended(r) => OthersStay(r) /\ Held(r)
  BY IdleIs DEF Ended
<1>5. \A at : \A r \in Requests : Went(r, at) => OthersStay(r) /\ Held(r)
  BY DEF Went
<1>6. \A op, at, s : \A r \in Requests : Began(r, op, at, s) => OthersStay(r)
  BY DEF Began
<1>7. ASSUME NEW r \in Requests, SigninStep(r)
      PROVE  Goal
  <2>1. UNCHANGED <<uses, raced, codes>>
    BY <1>7 DEF SigninStep, Signin, SigninError, SigninWithout, SigninPending, history
  <2>2. OthersStay(r) /\ Held(r)
    BY <1>7, <1>4, <1>6, SigninMoves DEF SigninStep
  <2> QED
    BY <2>1, <2>2, <1>2
<1>8. ASSUME NEW r \in Requests, SecondStep(r)
      PROVE  Goal
  <2>1. CASE ConsumeCode(r)
    <3> DEFINE c == req[r].code
    <3>1. c \in Codes /\ OthersStay(r) /\ req'[r].code = NoCode
      BY <2>1, SecondMoves
    <3>2. codes' = codes \ {c} /\ uses' = [uses EXCEPT ![c] = uses[c] + 1]
      BY <2>1 DEF ConsumeCode, Remaining
    <3>3. raced' = IF \E q \in Requests \ {r} : req[q].code = c THEN raced \cup {c} ELSE raced
      BY <2>1 DEF ConsumeCode
    <3> HIDE DEF c
    <3>4. ASSUME NEW d \in Codes \ raced', d # c
          PROVE  /\ uses'[d] <= 1
                 /\ d \in codes' \/ (\E q \in Requests : req'[q].code = d) => uses'[d] = 0
      <4>1. d \in Codes \ raced /\ uses'[d] = uses[d]
        BY <1>1, <3>1, <3>2, <3>3, <3>4
      <4>2. (\E q \in Requests : req'[q].code = d) => \E q \in Requests : req[q].code = d
        BY <3>1, NoCodeAssumption DEF OthersStay
      <4>3. d \in codes' => d \in codes
        BY <3>2
      <4> QED
        BY <4>1, <4>2, <4>3 DEF AcceptedOnce, UnusedWhileWanted
    <3>5. ASSUME c \notin raced'
          PROVE  /\ uses'[c] <= 1
                 /\ c \notin codes' /\ \A q \in Requests : req'[q].code # c
      <4>1. c \in Codes \ raced /\ \A q \in Requests \ {r} : req[q].code # c
        BY <3>1, <3>3, <3>5
      <4>2. uses[c] = 0
        BY <4>1 DEF UnusedWhileWanted, c
      <4> QED
        BY <1>1, <3>1, <3>2, <4>1, <4>2, NoCodeAssumption DEF OthersStay
    <3> QED
      BY <3>4, <3>5 DEF AcceptedOnce, UnusedWhileWanted
  <2>2. CASE SecondSignout(r) \/ SecondCount(r) \/ ForceDeactivate(r)
    <3>1. UNCHANGED <<uses, raced>> /\ codes' \subseteq codes
      BY <2>2 DEF SecondSignout, SecondCount, ForceDeactivate, history
    <3>2. OthersStay(r) /\ Held(r)
      BY <2>2, <1>4, <1>5, SecondMoves
    <3> QED
      BY <3>1, <3>2, <1>2
  <2>3. ASSUME NEW s \in Sessions, SecondFactor(r, s) \/ SecondSignin(r, s)
        PROVE  Goal
    <3>1. UNCHANGED <<uses, raced, codes>>
      BY <2>3 DEF SecondFactor, SecondSignin, history
    <3>2. OthersStay(r) /\ Held(r)
      BY <2>3, <1>5, <1>6, SecondMoves
    <3> QED
      BY <3>1, <3>2, <1>2
  <2> QED
    BY <1>8, <2>1, <2>2, <2>3 DEF SecondStep
<1>9. ASSUME NEW r \in Requests, DisableStep(r)
      PROVE  Goal
  <2>1. UNCHANGED <<uses, raced, codes>>
    BY <1>9 DEF DisableStep, DisableVerify, Disable, history
  <2>2. OthersStay(r) /\ Held(r)
    BY <1>9, <1>4, <1>5, <1>6, DisableMoves DEF DisableStep
  <2> QED
    BY <2>1, <2>2, <1>2
<1>10. ASSUME NEW r \in Requests, EnableStep(r)
       PROVE  Goal
  <2>1. CASE StoreCommit(r)
    <3>1. PICK k \in Copies : /\ codes' = Kept(r) \cup CopyOf(req[r].batch, k)
                              /\ uses' = [c \in Codes |-> IF c \in CopyOf(req[r].batch, k) THEN 0 ELSE uses[c]]
                              /\ raced' = raced \ CopyOf(req[r].batch, k)
      BY <2>1 DEF StoreCommit
    <3> DEFINE new == CopyOf(req[r].batch, k)
    <3>2. OthersStay(r) /\ req'[r].code = req[r].code
      BY <2>1, EnableMoves
    <3>3. codes' \subseteq codes \cup new
      BY <3>1 DEF Kept
    <3>4. raced' = raced \ new /\ \A c \in Codes : uses'[c] = IF c \in new THEN 0 ELSE uses[c]
      BY <3>1
    <3> HIDE DEF new
    <3>5. ASSUME NEW c \in Codes \ raced'
          PROVE  /\ uses'[c] <= 1
                 /\ c \in codes' \/ (\E q \in Requests : req'[q].code = c) => uses'[c] = 0
      <4>1. CASE c \in new
        BY <3>4, <4>1
      <4>2. CASE c \notin new
        <5>1. c \in Codes \ raced /\ uses'[c] = uses[c] /\ (c \in codes' => c \in codes)
          BY <3>3, <3>4, <4>2
        <5>2. (\E q \in Requests : req'[q].code = c) => \E q \in Requests : req[q].code = c
          BY <3>2 DEF OthersStay
        <5> QED
          BY <5>1, <5>2 DEF AcceptedOnce, UnusedWhileWanted
      <4> QED
        BY <4>1, <4>2
    <3> QED
      BY <3>5 DEF AcceptedOnce, UnusedWhileWanted
  <2>2. CASE StoreDelete(r) \/ Activate(r) \/ EnableInvalidate(r) \/ Cleanup(r) \/ ReplaceVerify(r)
    <3>1. UNCHANGED <<uses, raced, codes>>
      BY <2>2 DEF StoreDelete, Activate, EnableInvalidate, Cleanup, ReplaceVerify, history
    <3>2. OthersStay(r) /\ Held(r)
      BY <2>2, <1>4, <1>5, EnableMoves
    <3> QED
      BY <3>1, <3>2, <1>2
  <2>3. ASSUME NEW s \in Sessions, Enable(r, s) \/ Replace(r, s)
        PROVE  Goal
    <3>1. UNCHANGED <<uses, raced, codes>>
      BY <2>3 DEF Enable, Replace, history
    <3>2. OthersStay(r) /\ Held(r)
      BY <2>3, <1>6, EnableMoves
    <3> QED
      BY <3>1, <3>2, <1>2
  <2> QED
    BY <1>10, <2>1, <2>2, <2>3 DEF EnableStep
<1>11. ASSUME NEW r \in Requests, RenewStep(r)
       PROVE  Goal
  <2>1. UNCHANGED <<uses, raced, codes>>
    BY <1>11 DEF RenewStep, RenewInvalidate, RenewOffer, Crash, Renew, history
  <2>2. OthersStay(r) /\ Held(r)
    BY <1>11, <1>4, <1>5, <1>6, RenewMoves DEF RenewStep
  <2> QED
    BY <2>1, <2>2, <1>2
<1>12. ASSUME NEW s \in Sessions, SessionStep(s)
       PROVE  Goal
  BY <1>12, <1>3 DEF SessionStep, Signout, EnableInit, EnableQrcode, history
<1>13. CASE vars' = vars
  BY <1>13, <1>3 DEF vars, history
<1> QED
  BY <1>7, <1>8, <1>9, <1>10, <1>11, <1>12, <1>13, Stepping

-----------------------------------------------------------------------------
LEMMA OffersInv ==
    ASSUME TypeOK, Equipped, SettingsSignedIn, OffersAlone, [Next]_vars
    PROVE  OffersAlone'
<1>1. sess \in [Sessions -> Row] /\ \A s \in Sessions : RowOK(sess[s])
  BY Types DEF TypeOK, RowOK
<1>2. \A s \in Sessions : sess[s].offered => sess[s].state = "signed in"
  BY <1>1, RowsAre DEF RowOK
<1>3. \A r \in Requests : Offering(r) => req[r].session \in Sessions
  BY DEF Offering, At, SettingsSignedIn
\* No offer is made and no request comes to make one.
<1>4. ASSUME \A s \in Sessions : sess'[s].offered => sess[s].offered,
             \A q \in Requests : Offering(q)' => Offering(q) /\ req'[q].session = req[q].session
      PROVE  OffersAlone'
  BY <1>4, <1>3 DEF OffersAlone
<1>5. ASSUME NEW r \in Requests, OthersStay(r), Offering(r)' => Offering(r) /\ req'[r].session = req[r].session,
             sess' = sess
      PROVE  OffersAlone'
  <2>1. \A q \in Requests : Offering(q)' => Offering(q) /\ req'[q].session = req[q].session
    BY <1>5 DEF OthersStay, Offering, At
  <2> QED
    BY <2>1, <1>5, <1>4
<1>6. \A r \in Requests : Ended(r) => OthersStay(r) /\ ~Offering(r)'
  BY IdleIs DEF Ended, Offering, At
<1>7. \A at : \A r \in Requests : Went(r, at) /\ at # "alone" => OthersStay(r) /\ ~Offering(r)'
  BY DEF Went, Offering, At
<1>8. \A op, at, s : \A r \in Requests : Began(r, op, at, s) /\ at # "alone" => OthersStay(r) /\ ~Offering(r)'
  BY DEF Began, Offering, At
\* A row no request is to offer in is replaced.
<1>9. ASSUME NEW s \in Sessions, NEW row, Rewritten(s, row), ~row.offered,
             \A q \in Requests : Offering(q)' =>
                 q \in Requests /\ At(q, "renew", "alone") /\ req'[q].session = req[q].session,
             row = NoRow \/ sess[s] # NoRow \/ \A q \in Requests : req[q].session # s
      PROVE  OffersAlone'
  <2>1. sess' = [sess EXCEPT ![s] = row]
    BY <1>9 DEF Rewritten
  <2>2. \A t \in Sessions : sess'[t].offered => sess[t].offered
    BY <1>1, <1>9, <2>1
  <2>3. ASSUME NEW q \in Requests, Offering(q)'
        PROVE  Offering(q) /\ req'[q].session = req[q].session
    <3>1. At(q, "renew", "alone") /\ req'[q].session = req[q].session /\ req[q].session \in Sessions
      BY <2>3, <1>9 DEF At, SettingsSignedIn
    <3>2. sess'[req[q].session] # NoRow
      BY <2>3, <3>1 DEF Offering
    <3>3. sess[req[q].session] # NoRow
      BY <1>1, <1>9, <2>1, <3>1, <3>2
    <3> QED
      BY <3>1, <3>3 DEF Offering
  <2> QED
    BY <2>2, <2>3, <1>4
<1>10. ASSUME NEW r \in Requests, OthersStay(r), ~Offering(r)', NEW q \in Requests, Offering(q)'
       PROVE  At(q, "renew", "alone") /\ req'[q].session = req[q].session
  BY <1>10 DEF OthersStay, Offering, At
<1>11. ASSUME NEW s \in Sessions, Changed(s, FALSE), NEW r \in Requests, OthersStay(r), ~Offering(r)'
       PROVE  OffersAlone'
  <2>1. PICK row : Rewritten(s, row) /\ ~row.offered /\ sess[s].state = "signed in"
    BY <1>11 DEF Changed
  <2> QED
    BY <2>1, <1>9, <1>10, <1>11, RowsAre
<1>12. ASSUME NEW s, Invalidated(s), NEW t \in Sessions
       PROVE  sess'[t] \in {sess[t], NoRow} /\ (t # s /\ sess[t].state # "pending" => sess'[t] = NoRow)
  <2>1. sess'[t] = IF t # s /\ sess[t].state = "signed in" THEN NoRow ELSE sess[t]
    BY <1>12 DEF Invalidated, OthersInvalidated
  <2>2. sess[t].state = "signed in" \/ sess[t].state = "pending" \/ sess[t] = NoRow
    BY <1>1, RowsAre DEF RowOK
  <2> QED
    BY <2>1, <2>2
<1>13. ASSUME NEW r \in Requests, SigninStep(r)
       PROVE  OffersAlone'
  <2>1. OthersStay(r) /\ ~Offering(r)'
    BY <1>13, <1>6, <1>8, SigninMoves DEF SigninStep
  <2>2. CASE Signin(r) \/ SigninError(r)
    BY <2>1, <2>2, <1>5 DEF Signin, SigninError
  <2>3. ASSUME NEW s \in Sessions, SigninWithout(r, s) \/ SigninPending(r, s)
        PROVE  OffersAlone'
    <3>1. PICK row : Rewritten(s, row) /\ ~row.offered
      BY <2>3, SessionsMove, RowsAre
    <3>2. \A q \in Requests : req[q].session # s
      BY <2>3 DEF SigninWithout, SigninPending, Fresh
    <3> QED
      BY <2>1, <3>1, <3>2, <1>9, <1>10
  <2> QED
    BY <1>13, <2>2, <2>3 DEF SigninStep
<1>14. ASSUME NEW r \in Requests, SecondStep(r)
       PROVE  OffersAlone'
  <2>1. CASE ConsumeCode(r)
    <3>1. OthersStay(r) /\ ~Offering(r)'
      BY <2>1, SecondMoves DEF Offering, At
    <3> QED
      BY <2>1, <3>1, <1>5 DEF ConsumeCode
  <2>2. CASE SecondCount(r) \/ ForceDeactivate(r)
    <3>1. OthersStay(r) /\ ~Offering(r)'
      BY <2>2, <1>6, <1>7, SecondMoves
    <3> QED
      BY <2>2, <3>1, <1>5 DEF SecondCount, ForceDeactivate
  <2>3. CASE SecondSignout(r)
    <3>1. OthersStay(r) /\ ~Offering(r)'
      BY <2>3, <1>7, SecondMoves
    <3>2. Rewritten(req[r].session, NoRow)
      BY <2>3, RowsAre DEF SecondSignout, Rewritten
    <3>3. CASE req[r].session \in Sessions
      BY <3>1, <3>2, <3>3, <1>9, <1>10, RowsAre
    <3>4. CASE req[r].session \notin Sessions
      <4>1. sess' = sess
        BY <1>1, <3>2, <3>4 DEF Rewritten
      <4> QED
        BY <3>1, <4>1, <1>5
    <3> QED
      BY <3>3, <3>4
  <2>4. ASSUME NEW s \in Sessions, SecondFactor(r, s)
        PROVE  OffersAlone'
    <3>1. OthersStay(r) /\ ~Offering(r)'
      BY <2>4, <1>8, SecondMoves
    <3> QED
      BY <2>4, <3>1, <1>5 DEF SecondFactor
  <2>5. ASSUME NEW s \in Sessions, SecondSignin(r, s)
        PROVE  OffersAlone'
    <3>1. OthersStay(r) /\ ~Offering(r)'
      BY <2>5, <1>7, SecondMoves
    <3>2. Rewritten(s, SignedIn(TRUE)) /\ \A q \in Requests : req[q].session # s
      BY <2>5, SessionsMove DEF SecondSignin, Fresh
    <3> QED
      BY <3>1, <3>2, <1>9, <1>10, RowsAre
  <2> QED
    BY <1>14, <2>1, <2>2, <2>3, <2>4, <2>5 DEF SecondStep
<1>15. ASSUME NEW r \in Requests, DisableStep(r)
       PROVE  OffersAlone'
  <2>1. OthersStay(r) /\ ~Offering(r)'
    BY <1>15, <1>6, <1>7, <1>8, DisableMoves DEF DisableStep, Offering, At
  <2> QED
    BY <2>1, <1>15, <1>5 DEF DisableStep, Disable, DisableVerify
<1>16. ASSUME NEW r \in Requests, EnableStep(r)
       PROVE  OffersAlone'
  <2>1. OthersStay(r) /\ ~Offering(r)'
    <3>1. EnableInvalidate(r) => OthersStay(r) /\ req'[r].op = "enable"
      BY EnableMoves DEF EnableInvalidate, At, Went
    <3>2. StoreDelete(r) \/ StoreCommit(r) => OthersStay(r) /\ req'[r].at # "alone"
      BY EnableMoves
    <3>3. (\E s \in Sessions : Enable(r, s) \/ Replace(r, s)) => OthersStay(r) /\ ~Offering(r)'
      BY <1>8, EnableMoves
    <3>4. Activate(r) \/ Cleanup(r) \/ ReplaceVerify(r) => OthersStay(r) /\ ~Offering(r)'
      BY <1>6, <1>7, EnableMoves
    <3> QED
      BY <3>1, <3>2, <3>3, <3>4, <1>16 DEF EnableStep, Offering, At
  <2>2. CASE EnableInvalidate(r)
    <3>1. \A s \in Sessions : sess'[s] \in {sess[s], NoRow}
      BY <2>2, <1>12, SessionsMove DEF EnableInvalidate, Invalidated
    <3>2. \A q \in Requests : Offering(q)' => Offering(q) /\ req'[q].session = req[q].session
      BY <2>1, <3>1, <1>10 DEF Offering, SettingsSignedIn, At
    <3> QED
      BY <3>1, <3>2, <1>4, RowsAre
  <2>3. CASE Cleanup(r)
    <3>1. CASE sess' = sess
      BY <2>1, <3>1, <1>5
    <3>2. CASE sess' # sess
      BY <2>1, <2>3, <3>2, <1>11, RequestsChange
    <3> QED
      BY <3>1, <3>2
  <2>4. CASE sess' = sess
    BY <2>1, <2>4, <1>5
  <2> QED
    BY <1>16, <2>2, <2>3, <2>4 DEF EnableStep, StoreDelete, StoreCommit, Activate, ReplaceVerify, Enable, Replace
<1>17. ASSUME NEW r \in Requests, RenewInvalidate(r)
       PROVE  OffersAlone'
  <2> DEFINE s == req[r].session
  <2>1. OthersStay(r) /\ req'[r].session = s /\ At(r, "renew", "checked") /\ s \in Sessions
    BY <1>17, RenewMoves DEF Went, RenewInvalidate, At, SettingsSignedIn
  <2>2. \A t \in Sessions : sess'[t] \in {sess[t], NoRow} /\ (t # s /\ sess[t].state # "pending" => sess'[t] = NoRow)
    BY <1>12, <1>17 DEF RenewInvalidate, Invalidated
  <2> HIDE DEF s
  <2>3. \A t \in Sessions : sess'[t].offered => t = s
    BY <1>2, <2>2, RowsAre
  <2>4. ASSUME NEW q \in Requests, Offering(q)'
        PROVE  req'[q].session = s
    <3>1. CASE q # r
      <4>1. req'[q].session = req[q].session /\ req[q].op = "renew"
        BY <2>1, <2>4, <3>1 DEF Offering, At, OthersStay
      <4>2. req[q].session \in Sessions /\ sess[req[q].session].state # "pending"
        BY <4>1 DEF SettingsSignedIn
      <4> QED
        BY <4>1, <4>2, <2>2, <2>4 DEF Offering
    <3> QED
      BY <2>1, <3>1
  <2> QED
    BY <2>3, <2>4 DEF OffersAlone
<1>18. ASSUME NEW r \in Requests, RenewOffer(r)
       PROVE  OffersAlone'
  <2> DEFINE s == req[r].session
  <2>1. OthersStay(r) /\ ~Offering(r)' /\ At(r, "renew", "alone")
    BY <1>18, <1>6, RenewMoves DEF RenewOffer
  <2>2. CASE sess' = sess
    BY <2>1, <2>2, <1>5
  <2>3. CASE sess' # sess
    <3>1. s \in Sessions /\ Changed(s, TRUE)
      BY <1>18, <2>3, RequestsChange
    <3>2. Offering(r)
      BY <2>1, <3>1, RowsAre DEF Offering, Changed
    <3> HIDE DEF s
    <3>3. PICK row : Rewritten(s, row) /\ sess[s].state = "signed in"
      BY <3>1 DEF Changed
    <3>4. \A t \in Sessions \ {s} : ~sess'[t].offered /\ sess'[t] = sess[t]
      BY <3>2, <3>3, <1>1 DEF OffersAlone, Rewritten, s
    <3>5. \A q \in Requests : Offering(q)' => req'[q].session = s
      <4> SUFFICES ASSUME NEW q \in Requests, Offering(q)' PROVE req'[q].session = s
        OBVIOUS
      <4>1. At(q, "renew", "alone") /\ req'[q].session = req[q].session /\ req[q].session \in Sessions
        BY <2>1, <1>10 DEF SettingsSignedIn, At
      <4>2. sess[req[q].session] # NoRow
        BY <3>3, <3>4, <4>1, RowsAre DEF Offering
      <4>3. Offering(q)
        BY <4>1, <4>2 DEF Offering
      <4> QED
        BY <3>2, <4>1, <4>3 DEF OffersAlone, s
    <3> QED
      BY <3>1, <3>4, <3>5 DEF OffersAlone
  <2> QED
    BY <2>2, <2>3
<1>19. ASSUME NEW r \in Requests, RenewStep(r)
       PROVE  OffersAlone'
  <2>1. CASE Crash(r)
    BY <2>1, <1>5, <1>6, RenewMoves DEF Crash
  <2>2. ASSUME NEW s \in Sessions, Renew(r, s)
        PROVE  OffersAlone'
    BY <2>2, <1>5, <1>8, RenewMoves DEF Renew
  <2> QED
    BY <1>17, <1>18, <1>19, <2>1, <2>2 DEF RenewStep
<1>20. ASSUME NEW s \in Sessions, SessionStep(s)
       PROVE  OffersAlone'
  <2>1. req' = req
    BY <1>20 DEF SessionStep, Signout, EnableInit, EnableQrcode
  <2>2. \A q \in Requests : At(q, "renew", "alone")' => At(q, "renew", "alone") /\ req'[q].session = req[q].session
    BY <2>1 DEF At
  <2>3. \A q \in Requests : Offering(q)' => At(q, "renew", "alone") /\ req'[q].session = req[q].session
    BY <2>2 DEF Offering
  <2>4. CASE Signout(s)
    BY <2>3, <2>4, <1>9, SessionsMove, RowsAre DEF Signout, Rewritten
  <2>5. ASSUME Changed(s, FALSE)
        PROVE  OffersAlone'
    <3>1. PICK row : Rewritten(s, row) /\ ~row.offered /\ sess[s].state = "signed in"
      BY <2>5 DEF Changed
    <3> QED
      BY <2>3, <3>1, <1>9, RowsAre
  <2>6. CASE EnableInit(s)
    <3>1. PICK row : Rewritten(s, row) /\ sess[s].state = "signed in" /\ row.offered = sess[s].offered
      BY <2>6, SettingsChange DEF Changed
    <3>2. \A t \in Sessions : sess'[t].offered => sess[t].offered
      BY <3>1, <1>1 DEF Rewritten
    <3>3. \A t \in Sessions : sess'[t] # NoRow => sess[t] # NoRow
      BY <3>1, <1>1, RowsAre DEF Rewritten
    <3>4. \A q \in Requests : Offering(q)' => Offering(q) /\ req'[q].session = req[q].session
      BY <2>3, <3>3 DEF Offering, SettingsSignedIn, At
    <3> QED
      BY <3>2, <3>4, <1>4
  <2> QED
    BY <1>20, <2>4, <2>5, <2>6, SettingsChange DEF SessionStep
<1>21. CASE vars' = vars
  <2>1. \A q \in Requests : Offering(q)' = Offering(q)
    BY <1>21 DEF vars, Offering, At
  <2> QED
    BY <1>21, <2>1, <1>4 DEF vars
<1> QED
  BY <1>13, <1>14, <1>15, <1>16, <1>19, <1>20, <1>21, Stepping

-----------------------------------------------------------------------------
LEMMA UnpassedInv ==
    ASSUME TypeOK, Equipped, SettingsSignedIn, OneUnpassed, [Next]_vars
    PROVE  OneUnpassed'
<1> DEFINE Activating == \E q \in Requests : At(q, "enable", "active")
<1>1. sess \in [Sessions -> Row] /\ late \subseteq Sessions
  BY Types DEF TypeOK
\* Nobody is signed in without the second factor who was not, and no activation ends.
<1>2. ASSUME enabled' => enabled, Activating /\ enabled' => Activating', Unpassed' \subseteq Unpassed
      PROVE  OneUnpassed'
  BY <1>2 DEF OneUnpassed
<1>3. \A r \in Requests : OthersStay(r) /\ ~At(r, "enable", "active") /\ Activating => Activating'
  BY DEF OthersStay, At
<1>4. ASSUME late' = late, NEW s, NEW row, Rewritten(s, row),
             row.state # "signed in" \/ (sess[s].state = "signed in" /\ row.second = sess[s].second)
      PROVE  Unpassed' \subseteq Unpassed
  BY <1>1, <1>4 DEF Unpassed, Rewritten
<1>5. ASSUME late' = late, NEW s, Invalidated(s)
      PROVE  Unpassed' \subseteq Unpassed
  <2>1. \A t \in Sessions : sess'[t] \in {sess[t], NoRow}
    BY <1>5 DEF Invalidated, OthersInvalidated
  <2> QED
    BY <1>5, <2>1, RowsAre DEF Unpassed
<1>6. ASSUME late' = late, sess' = sess
      PROVE  Unpassed' \subseteq Unpassed
  BY <1>6 DEF Unpassed
<1>7. ASSUME NEW s \in Sessions, NEW row, Rewritten(s, row), late' \in {late \ {s}, late \cup {s}},
             row.state = "signed in" /\ ~row.second => late' = late \cup {s}
      PROVE  Unpassed' \subseteq Unpassed
  <2>1. sess' = [sess EXCEPT ![s] = row]
    BY <1>7 DEF Rewritten
  <2> SUFFICES ASSUME NEW t \in Unpassed' PROVE t \in Unpassed
    OBVIOUS
  <2>2. t \in Sessions /\ t \notin late' /\ sess'[t].state = "signed in" /\ ~sess'[t].second
    BY DEF Unpassed
  <2>3. t # s
    BY <1>1, <1>7, <2>1, <2>2
  <2> QED
    BY <1>1, <1>7, <2>1, <2>2, <2>3 DEF Unpassed
<1> HIDE DEF Activating
<1>8. ASSUME NEW r \in Requests, SigninStep(r)
      PROVE  OneUnpassed'
  <2>1. OthersStay(r)
    BY <1>8, SigninMoves DEF SigninStep, Ended, Began
  <2>2. ~At(r, "enable", "active")
    BY <1>8, IdleIs DEF SigninStep, Signin, SigninError, OutOfCodes, SigninWithout, SigninPending, Begin, At
  <2>3. CASE Signin(r) \/ SigninError(r)
    <3>1. UNCHANGED <<enabled, late, sess>>
      BY <2>3 DEF Signin, SigninError, history
    <3> QED
      BY <2>1, <2>2, <3>1, <1>2, <1>3, <1>6
  <2>4. ASSUME NEW s \in Sessions, SigninWithout(r, s)
        PROVE  OneUnpassed'
    <3>1. Rewritten(s, SignedIn(FALSE)) /\ enabled' = enabled
      BY <2>4, SessionsMove DEF SigninWithout
    <3>2. CASE enabled
      <4>1. late' = late \cup {s}
        BY <2>4, <3>2 DEF SigninWithout
      <4> QED
        BY <2>1, <2>2, <3>1, <4>1, <1>2, <1>3, <1>7
    <3>3. CASE ~enabled
      BY <3>1, <3>3 DEF OneUnpassed
    <3> QED
      BY <3>2, <3>3
  <2>5. ASSUME NEW s \in Sessions, SigninPending(r, s)
        PROVE  OneUnpassed'
    <3>1. Rewritten(s, Pending) /\ enabled' = enabled /\ late' = late \ {s}
      BY <2>5, SessionsMove DEF SigninPending
    <3> QED
      BY <2>1, <2>2, <3>1, <1>2, <1>3, <1>7, RowsAre
  <2> QED
    BY <1>8, <2>3, <2>4, <2>5 DEF SigninStep
<1>9. ASSUME NEW r \in Requests, SecondStep(r)
      PROVE  OneUnpassed'
  <2>1. CASE ConsumeCode(r)
    <3>1. OthersStay(r) /\ ~At(r, "enable", "active")
      BY <2>1, SecondMoves DEF At
    <3>2. UNCHANGED <<enabled, late, sess>>
      BY <2>1 DEF ConsumeCode
    <3> QED
      BY <3>1, <3>2, <1>2, <1>3, <1>6
  <2>2. CASE SecondCount(r)
    <3>1. OthersStay(r) /\ ~At(r, "enable", "active")
      BY <2>2, SecondMoves DEF SecondCount, Went, Ended, At
    <3>2. UNCHANGED <<enabled, late, sess>>
      BY <2>2 DEF SecondCount, history
    <3> QED
      BY <3>1, <3>2, <1>2, <1>3, <1>6
  <2>3. CASE ForceDeactivate(r)
    BY <2>3 DEF ForceDeactivate, OneUnpassed
  <2>4. CASE SecondSignout(r)
    <3>1. OthersStay(r) /\ ~At(r, "enable", "active")
      BY <2>4, SecondMoves DEF SecondSignout, Went, At
    <3>2. UNCHANGED <<enabled, late>> /\ Rewritten(req[r].session, NoRow)
      BY <2>4, RowsAre DEF SecondSignout, Rewritten, history
    <3> QED
      BY <3>1, <3>2, <1>2, <1>3, <1>4, RowsAre
  <2>5. ASSUME NEW s \in Sessions, SecondFactor(r, s)
        PROVE  OneUnpassed'
    <3>1. OthersStay(r) /\ ~At(r, "enable", "active")
      BY <2>5, SecondMoves, IdleIs DEF Began, SecondFactor, At
    <3>2. UNCHANGED <<enabled, late, sess>>
      BY <2>5 DEF SecondFactor, history
    <3> QED
      BY <3>1, <3>2, <1>2, <1>3, <1>6
  <2>6. ASSUME NEW s \in Sessions, SecondSignin(r, s)
        PROVE  OneUnpassed'
    <3>1. OthersStay(r) /\ ~At(r, "enable", "active")
      BY <2>6, SecondMoves DEF Went, SecondSignin, At
    <3>2. Rewritten(s, SignedIn(TRUE)) /\ enabled' = enabled /\ late' = late \ {s}
      BY <2>6, SessionsMove DEF SecondSignin
    <3> QED
      BY <3>1, <3>2, <1>2, <1>3, <1>7, RowsAre
  <2> QED
    BY <1>9, <2>1, <2>2, <2>3, <2>4, <2>5, <2>6 DEF SecondStep
<1>10. ASSUME NEW r \in Requests, DisableStep(r)
       PROVE  OneUnpassed'
  <2>1. OthersStay(r)
    BY <1>10, DisableMoves DEF DisableStep, Began, Went, Ended
  <2>2. ~At(r, "enable", "active")
    BY <1>10, DisableMoves, IdleIs DEF DisableStep, DisableVerify, Began, At
  <2>3. UNCHANGED <<enabled, late, sess>>
    BY <1>10 DEF DisableStep, DisableVerify, Disable, history
  <2> QED
    BY <2>1, <2>2, <2>3, <1>2, <1>3, <1>6
<1>11. ASSUME NEW r \in Requests, EnableStep(r)
       PROVE  OneUnpassed'
  <2>1. CASE StoreDelete(r) \/ StoreCommit(r)
    <3>1. OthersStay(r)
      BY <2>1, EnableMoves
    <3>2. ~At(r, "enable", "active") /\ UNCHANGED <<enabled, late, sess>>
      BY <2>1 DEF StoreDelete, StoreCommit, At, history
    <3> QED
      BY <3>1, <3>2, <1>2, <1>3, <1>6
  <2>2. CASE Activate(r)
    <3>1. CASE enabled' = TRUE /\ Went(r, "active")
      <4>1. At(r, "enable", "active")'
        BY <2>2, <3>1 DEF Activate, Went, At
      <4> QED
        BY <4>1 DEF OneUnpassed
    <3>2. CASE enabled' = enabled /\ Ended(r)
      <4>1. ~At(r, "enable", "active") /\ UNCHANGED <<late, sess>>
        BY <2>2 DEF Activate, At, history
      <4> QED
        BY <3>2, <4>1, <1>2, <1>3, <1>6 DEF Ended
    <3> QED
      BY <2>2, <3>1, <3>2, EnableMoves
  <2>3. CASE EnableInvalidate(r)
    <3>1. sess' = OthersInvalidated(req[r].session)
      BY <2>3 DEF EnableInvalidate
    <3>2. \A t \in Sessions \ {req[r].session} : sess'[t].state # "signed in"
      BY <3>1, RowsAre DEF OthersInvalidated
    <3>3. Unpassed' \subseteq {req[r].session}
      BY <3>2 DEF Unpassed
    <3> QED
      BY <3>3 DEF OneUnpassed
  <2>4. CASE Cleanup(r)
    <3>1. OthersStay(r)
      BY <2>4, EnableMoves DEF Ended
    <3>2. ~At(r, "enable", "active") /\ UNCHANGED <<enabled, late>>
      BY <2>4 DEF Cleanup, At, history
    <3>3. Unpassed' \subseteq Unpassed
      BY <2>4, <3>2, <1>4, <1>6, RequestsChange DEF Changed
    <3> QED
      BY <3>1, <3>2, <3>3, <1>2, <1>3
  <2>5. CASE ReplaceVerify(r)
    <3>1. OthersStay(r)
      BY <2>5, EnableMoves DEF Ended, Went
    <3>2. ~At(r, "enable", "active") /\ UNCHANGED <<enabled, late, sess>>
      BY <2>5 DEF ReplaceVerify, At, history
    <3> QED
      BY <3>1, <3>2, <1>2, <1>3, <1>6
  <2>6. ASSUME NEW s \in Sessions, Enable(r, s) \/ Replace(r, s)
        PROVE  OneUnpassed'
    <3>1. OthersStay(r) /\ ~At(r, "enable", "active")
      BY <2>6, EnableMoves, IdleIs DEF Began, At
    <3>2. UNCHANGED <<enabled, late, sess>>
      BY <2>6 DEF Enable, Replace, history
    <3> QED
      BY <3>1, <3>2, <1>2, <1>3, <1>6
  <2> QED
    BY <1>11, <2>1, <2>2, <2>3, <2>4, <2>5, <2>6 DEF EnableStep
<1>12. ASSUME NEW r \in Requests, RenewStep(r)
       PROVE  OneUnpassed'
  <2>1. CASE RenewInvalidate(r)
    <3>1. OthersStay(r)
      BY <2>1, RenewMoves DEF Went
    <3>2. ~At(r, "enable", "active") /\ UNCHANGED <<enabled, late>>
      BY <2>1 DEF RenewInvalidate, At, history
    <3>3. Invalidated(req[r].session)
      BY <2>1 DEF RenewInvalidate, Invalidated
    <3> QED
      BY <3>1, <3>2, <3>3, <1>2, <1>3, <1>5
  <2>2. CASE RenewOffer(r)
    <3>1. OthersStay(r)
      BY <2>2, RenewMoves DEF Ended
    <3>2. ~At(r, "enable", "active") /\ UNCHANGED <<enabled, late>>
      BY <2>2 DEF RenewOffer, At
    <3>3. Unpassed' \subseteq Unpassed
      BY <2>2, <3>2, <1>4, <1>6, RequestsChange DEF Changed
    <3> QED
      BY <3>1, <3>2, <3>3, <1>2, <1>3
  <2>3. ASSUME NEW s \in Sessions, Renew(r, s)
        PROVE  OneUnpassed'
    <3>1. OthersStay(r) /\ ~At(r, "enable", "active")
      BY <2>3, RenewMoves, IdleIs DEF Began, At
    <3>2. UNCHANGED <<enabled, late, sess>>
      BY <2>3 DEF Renew, history
    <3> QED
      BY <3>1, <3>2, <1>2, <1>3, <1>6
  <2>4. CASE Crash(r)
    <3>1. CASE At(r, "enable", "active")
      <4>1. Unpassed' = {}
        BY <2>4, <3>1 DEF Crash, Unpassed
      <4> QED
        BY <4>1 DEF OneUnpassed
    <3>2. CASE ~At(r, "enable", "active")
      <4>1. UNCHANGED <<enabled, late, sess>>
        BY <2>4, <3>2 DEF Crash
      <4> QED
        BY <2>4, <3>2, <4>1, <1>2, <1>3, <1>6, RenewMoves DEF Ended
    <3> QED
      BY <3>1, <3>2
  <2> QED
    BY <1>12, <2>1, <2>2, <2>3, <2>4 DEF RenewStep
<1>13. ASSUME NEW s \in Sessions, SessionStep(s)
       PROVE  OneUnpassed'
  <2>1. UNCHANGED <<req, enabled, late>>
    BY <1>13 DEF SessionStep, Signout, EnableInit, EnableQrcode, history
  <2>2. Activating => Activating'
    BY <2>1 DEF Activating, At
  <2>3. CASE Signout(s)
    <3>1. Rewritten(s, NoRow)
      BY <2>3, RowsAre DEF Signout, Rewritten
    <3> QED
      BY <2>1, <2>2, <3>1, <1>2, <1>4, RowsAre
  <2>4. ASSUME NEW offered, Changed(s, offered)
        PROVE  OneUnpassed'
    BY <2>1, <2>2, <2>4, <1>2, <1>4 DEF Changed
  <2> QED
    BY <1>13, <2>3, <2>4, SettingsChange DEF SessionStep
<1>14. CASE vars' = vars
  <2>1. UNCHANGED <<enabled, late, sess, req>>
    BY <1>14 DEF vars, history
  <2>2. Activating => Activating'
    BY <2>1 DEF Activating, At
  <2> QED
    BY <2>1, <2>2, <1>2, <1>6
<1> QED
  BY <1>8, <1>9, <1>10, <1>11, <1>12, <1>13, <1>14, Stepping

-----------------------------------------------------------------------------
LEMMA NextInv == IInv /\ [Next]_vars => IInv'
  BY RequestsInv, SettingsInv, TypeInv, CodesInv, AcceptInv, OffersInv, UnpassedInv DEF IInv

\* The inductive invariant: what a request holds and where its session stands,
\* and the parts below that are properties by themselves.
THEOREM Invariant == Spec => []IInv
  BY InitInv, NextInv, PTL DEF Spec

\* Every variable keeps to its type; a request is only at steps of its handler.
THEOREM TypeCorrect == Spec => []TypeOK
<1>1. IInv => TypeOK
  BY DEF IInv
<1> QED
  BY <1>1, Invariant, PTL

\* With 2FA on and nothing under way there is a recovery code left to turn it
\* off with, whatever requests used codes up, renewed them, or activated at the
\* same time (get_number_of_recovery_codes, force_deactivate, store_recovery_codes).
THEOREM NobodyLockedOut == Spec => []NotLockedOut
<1>1. IInv => NotLockedOut
  BY IdleIs DEF IInv, CodesOrTurningOff, NotLockedOut, Quiet, TurningOff, At
<1> QED
  BY <1>1, Invariant, PTL

\* A recovery code is accepted once, unless two requests found it before one
\* of them deleted it (verify: the SELECT and the DELETE are two statements).
THEOREM CodesAcceptedOnce == Spec => []AcceptedOnce
<1>1. IInv => AcceptedOnce
  BY DEF IInv
<1> QED
  BY <1>1, Invariant, PTL

\* A set whose elements are all equal has at most one.
LEMMA AllEqual ==
    ASSUME NEW S, \A s, t \in S : s = t
    PROVE  Cardinality(S) <= 1
<1>1. CASE S = {}
  BY <1>1, FS_EmptySet
<1>2. CASE S # {}
  <2>1. PICK s \in S : S = {s}
    BY <1>2
  <2> QED
    BY <2>1, FS_Singleton
<1> QED
  BY <1>1, <1>2

\* After an activation at most one session is signed in that has not passed
\* the second factor: the one that activated 2FA (invalidate_other_sessions),
\* late sign-ins and a crash in between excepted.
THEOREM SecondFactorIsPassed == Spec => []SecondFactorPassed
<1>1. IInv => SecondFactorPassed
  <2> SUFFICES ASSUME IInv, enabled, \A r \in Requests : ~At(r, "enable", "active")
               PROVE  Cardinality({s \in Sessions \ late : sess[s].state = "signed in" /\ ~sess[s].second}) <= 1
    BY DEF SecondFactorPassed
  <2>1. \A s, t \in Unpassed : s = t
    BY DEF IInv, OneUnpassed
  <2> QED
    BY <2>1, AllEqual DEF Unpassed
<1> QED
  BY <1>1, Invariant, PTL

\* New recovery codes wait in one session at a time, whichever of several
\* sessions asked for them (tfa_generate_recovery_codes_verify_password_post_).
THEOREM CodesOfferedOnce == Spec => []OneOffer
<1>1. IInv => OneOffer
  <2> SUFFICES ASSUME IInv PROVE Cardinality({s \in Sessions : sess[s].offered}) <= 1
    BY DEF OneOffer
  <2>1. \A s, t \in {x \in Sessions : sess[x].offered} : s = t
    BY DEF IInv, OffersAlone
  <2> QED
    BY <2>1, AllEqual
<1> QED
  BY <1>1, Invariant, PTL
=============================================================================
