----------------------------- MODULE AccountConfig -----------------------------
(***************************************************************************)
(* What the site has to know of an account on every request: whether it is *)
(* banned, suspended or verified, and the rating it may see (the cached    *)
(* define._get_all_config), with everything that changes these: bans and   *)
(* suspensions (moderation.setusermode), signing in after a suspension     *)
(* (login.authenticate_bcrypt), vouching, preferences and the birthday     *)
(* (profile.py).                                                           *)
(*                                                                         *)
(* The cache has two levels: memcached, and a dictionary per thread that   *)
(* is emptied after every request (libweasyl/cache.py, middleware.py).     *)
(* Neither expires.  One account is modelled, with requests of its user    *)
(* and of moderators, one at a time on each thread.  Of config only the    *)
(* rating is kept, as general or not; of a birthday, whether it makes the  *)
(* user a minor; of a suspension, whether its release has passed.          *)
(***************************************************************************)
EXTENDS Naturals, FiniteSets

CONSTANTS Threads, Missing

VARIABLES
    permaban,       \* the account has a row of permaban
    suspension,     \* its row of suspension: none, running, or over
    voucher,        \* login.voucher is set
    rating,         \* profile.config and max_rating: general or adult
    birthday,       \* userinfo.birthday: none, minor or adult
    asserted_adult, \* userinfo.asserted_adult
    stored,         \* memcached: the value of _get_all_config, or Missing
    local,          \* the same of each thread's cache
    call,           \* the request on each thread
    overtaken,      \* history: stored was read before a change, and kept after it
    raced           \* history: preferences were saved by an age read before the
                    \* birthday was set

tables == <<permaban, suspension, voucher, rating, birthday, asserted_adult>>
caches == <<stored, local>>
vars == <<tables, caches, call, overtaken, raced>>

Configs == [banned : BOOLEAN, suspended : BOOLEAN, vouched : BOOLEAN, rating : {"general", "adult"}]
ConstantsOK == Missing \notin Configs

\* The query of _get_all_config.
Config == [banned |-> permaban, suspended |-> suspension # "none", vouched |-> voucher, rating |-> rating]

UserRequests == {"page", "signin", "preferences", "birthday", "profile"}
Idle == [at |-> "idle"]
UserCalls == [at : {"config", "fill", "decide", "suspension", "lift", "admitted", "assert", "prefer", "invalidate"},
              doing : UserRequests, seen : Configs \cup {Missing}, late : BOOLEAN, owed : BOOLEAN]
ModCalls == [at : {"delete", "commit", "manage rating", "invalidate"}, doing : {"b", "s", "x", "manage", "vouch"},
             deletes : SUBSET {"permaban", "suspension"}]

TypeOK ==
    /\ permaban \in BOOLEAN /\ voucher \in BOOLEAN /\ asserted_adult \in BOOLEAN
    /\ suspension \in {"none", "running", "over"}
    /\ rating \in {"general", "adult"}
    /\ birthday \in {"none", "minor", "adult"}
    /\ stored \in Configs \cup {Missing}
    /\ local \in [Threads -> Configs \cup {Missing}]
    /\ call \in [Threads -> {Idle} \cup UserCalls \cup ModCalls]
    /\ overtaken \in BOOLEAN /\ raced \in BOOLEAN

Init ==
    /\ permaban = FALSE /\ suspension = "none" /\ voucher = FALSE
    /\ rating = "general" /\ birthday = "none" /\ asserted_adult = FALSE
    /\ stored = Missing /\ local = [t \in Threads |-> Missing]
    /\ call = [t \in Threads |-> Idle]
    /\ overtaken = FALSE /\ raced = FALSE

-----------------------------------------------------------------------------
At(t, step) == call[t].at = step
Goto(t, step) == call' = [call EXCEPT ![t].at = step]

\* The request ends, and cache_clear_tween empties the thread's cache.
End(t) == call' = [call EXCEPT ![t] = Idle] /\ local' = [local EXCEPT ![t] = Missing]

Barred == permaban \/ suspension = "running"
\* A change has been announced when it is committed and the cache invalidated,
\* with no older value in memcached or on its way there.
Announced ==
    /\ ~overtaken
    /\ \A t \in Threads : ~At(t, "invalidate") /\ ~(At(t, "fill") /\ call[t].late)

\* A ban or suspension that is changed no longer has to stop a request.
Excused(t) == IF "owed" \in DOMAIN call[t] THEN [call[t] EXCEPT !.owed = FALSE] ELSE call[t]

\* status_check_tween and authenticate_bcrypt begin with get_login_settings.
Begin(t, doing) ==
    /\ call[t] = Idle
    /\ call' = [call EXCEPT ![t] = [at |-> "config", doing |-> doing, seen |-> Missing,
                                    late |-> FALSE, owed |-> Barred /\ Announced]]
    /\ UNCHANGED <<tables, caches, overtaken, raced>>

\* ThreadCacheProxy.get: the thread's value, or memcached's, which it keeps.
GetCached(t) ==
    /\ At(t, "config")
    /\ LET value == IF local[t] # Missing THEN local[t] ELSE stored
       IN  /\ value # Missing
           /\ call' = [call EXCEPT ![t].at = "decide", ![t].seen = value]
           /\ local' = [local EXCEPT ![t] = value]
    /\ UNCHANGED <<tables, stored, overtaken, raced>>

Query(t) ==
    /\ At(t, "config")
    /\ local[t] = Missing /\ stored = Missing
    /\ call' = [call EXCEPT ![t].at = "fill", ![t].seen = Config]
    /\ UNCHANGED <<tables, caches, overtaken, raced>>

\* ThreadCacheProxy.set, of what was read.
SetCached(t) ==
    /\ At(t, "fill")
    /\ stored' = call[t].seen
    /\ local' = [local EXCEPT ![t] = call[t].seen]
    /\ overtaken' = (overtaken \/ call[t].late)
    /\ call' = [call EXCEPT ![t].at = "decide", ![t].late = FALSE]
    /\ UNCHANGED <<tables, raced>>

\* Fault: the thread's value goes, and memcached's stays.
InvalidateLocally(t) ==
    /\ At(t, "invalidate")
    /\ local' = [local EXCEPT ![t] = Missing]
    /\ overtaken' = FALSE
    /\ call' = [u \in Threads |->
          IF u = t THEN IF call[t].doing = "signin" THEN [call[t] EXCEPT !.at = "admitted"] ELSE Idle
          ELSE IF At(u, "fill") THEN [call[u] EXCEPT !.late = TRUE] ELSE call[u]]
    /\ UNCHANGED <<tables, stored, raced>>

\* Some change has been made: ThreadCacheProxy.delete, by which this thread's
\* value and memcached's go, and the request ends.
Invalidate(t) ==
    /\ At(t, "invalidate")
    /\ stored' = Missing
    /\ local' = [local EXCEPT ![t] = Missing]
    /\ overtaken' = FALSE
    /\ call' = [u \in Threads |->
          IF u = t THEN IF call[t].doing = "signin" THEN [call[t] EXCEPT !.at = "admitted"] ELSE Idle
          ELSE IF At(u, "fill") THEN [call[u] EXCEPT !.late = TRUE] ELSE call[u]]
    /\ UNCHANGED <<tables, raced>>

-----------------------------------------------------------------------------
\* common_status_check: a banned or suspended user gets common_status_page.
StatusCheck(t) ==
    /\ At(t, "decide") /\ call[t].doing # "signin"
    /\ IF call[t].seen.banned \/ call[t].seen.suspended
         THEN End(t)
         ELSE Goto(t, "admitted") /\ UNCHANGED local
    /\ UNCHANGED <<tables, stored, overtaken, raced>>

Signin(t) ==
    /\ At(t, "decide") /\ call[t].doing = "signin"
    /\ \/ call[t].seen.banned /\ End(t)
       \/ ~call[t].seen.banned /\ call[t].seen.suspended /\ Goto(t, "suspension") /\ UNCHANGED local
       \/ ~call[t].seen.banned /\ ~call[t].seen.suspended /\ Goto(t, "admitted") /\ UNCHANGED local
    /\ UNCHANGED <<tables, stored, overtaken, raced>>

\* get_suspension: the row may be gone by now, and the request fails.
ReadSuspension(t) ==
    /\ At(t, "suspension")
    /\ IF suspension = "over" THEN Goto(t, "lift") /\ UNCHANGED local ELSE End(t)
    /\ UNCHANGED <<tables, stored, overtaken, raced>>

\* The suspension found to be over is deleted, or one that replaced it.
Lift(t) ==
    /\ At(t, "lift")
    /\ suspension' = "none"
    /\ call' = [u \in Threads |->
          IF u = t THEN [call[t] EXCEPT !.at = "invalidate"] ELSE Excused(u)]
    /\ UNCHANGED <<permaban, voucher, rating, birthday, asserted_adult, caches, overtaken, raced>>

\* A page, and a sign-in, end here.
Served(t) ==
    /\ At(t, "admitted") /\ call[t].doing \in {"page", "signin"}
    /\ End(t)
    /\ UNCHANGED <<tables, stored, overtaken, raced>>

\* edit_preferences with a rating above general reads the age, asserts that
\* the user is an adult, and saves; a minor's rating is saved as general.
PreferGeneral(t) ==
    /\ At(t, "admitted") /\ call[t].doing = "preferences"
    /\ rating' = "general"
    /\ Goto(t, "invalidate")
    /\ UNCHANGED <<permaban, suspension, voucher, birthday, asserted_adult, caches, overtaken, raced>>

ReadAge(t) ==
    /\ At(t, "admitted") /\ call[t].doing = "preferences"
    /\ birthday # "minor"
    /\ Goto(t, "assert")
    /\ UNCHANGED <<tables, caches, overtaken, raced>>

AssertAdult(t) ==
    /\ At(t, "assert")
    /\ asserted_adult' = TRUE
    /\ Goto(t, "prefer")
    /\ UNCHANGED <<permaban, suspension, voucher, rating, birthday, caches, overtaken, raced>>

PreferAdult(t) ==
    /\ At(t, "prefer")
    /\ rating' = "adult"
    /\ Goto(t, "invalidate")
    /\ UNCHANGED <<permaban, suspension, voucher, birthday, asserted_adult, caches, overtaken, raced>>

Saving == \E t \in Threads : call[t].at \in {"assert", "prefer"}

\* edit_userinfo: a birthday is set once, and a minor's only by someone who has
\* not asserted to be an adult.
EditUserinfo(t, born) ==
    /\ At(t, "admitted") /\ call[t].doing = "birthday"
    /\ IF birthday = "none" /\ (born = "minor" => ~asserted_adult)
         THEN birthday' = born /\ raced' = (raced \/ (Saving /\ born = "minor"))
         ELSE UNCHANGED <<birthday, raced>>
    /\ Goto(t, "invalidate")
    /\ UNCHANGED <<permaban, suspension, voucher, rating, asserted_adult, caches, overtaken>>

\* edit_profile_settings and edit_profile, and set_collection_preferences,
\* change what is not kept here, and invalidate the cache like the others.
EditProfile(t) ==
    /\ At(t, "admitted") /\ call[t].doing = "profile"
    /\ Goto(t, "invalidate")
    /\ UNCHANGED <<tables, caches, overtaken, raced>>

\* Posting with a rating above general: check_user_rating_allowed, assert_adult.
PostAdult ==
    /\ birthday # "minor"
    /\ asserted_adult' = TRUE
    /\ UNCHANGED <<permaban, suspension, voucher, rating, birthday, caches, call, overtaken, raced>>

-----------------------------------------------------------------------------
ModBegin(t, step, doing, deletes) ==
    /\ call[t] = Idle
    /\ call' = [call EXCEPT ![t] = [at |-> step, doing |-> doing, deletes |-> deletes]]

Locked == UNION {call[t].deletes : t \in {u \in Threads : At(u, "commit")}}
Rows == {table \in {"permaban", "suspension"} :
            IF table = "permaban" THEN permaban ELSE suspension # "none"}

\* setusermode, mode b, s or x: its transaction deletes the rows there are,
\* waiting for those that another one is deleting.
ModeDelete(t, mode) ==
    /\ Rows \cap Locked = {}
    /\ ModBegin(t, "commit", mode, Rows)
    /\ UNCHANGED <<tables, caches, overtaken, raced>>

\* It inserts its own row, unless one has appeared since, and commits.
ModeCommit(t) ==
    /\ At(t, "commit")
    /\ LET mode == call[t].doing
           left == Rows \ call[t].deletes
           conflict == (mode = "b" /\ "permaban" \in left) \/ (mode = "s" /\ "suspension" \in left)
       IN  IF conflict
             THEN End(t) /\ UNCHANGED <<permaban, suspension>>
             ELSE /\ permaban' = (mode = "b" \/ "permaban" \in left)
                  /\ suspension' = IF mode = "s" THEN "running"
                                   ELSE IF "suspension" \in left THEN suspension ELSE "none"
                  /\ call' = [u \in Threads |->
                        IF u = t THEN [call[t] EXCEPT !.at = "invalidate", !.deletes = {}]
                        ELSE Excused(u)]
                  /\ UNCHANGED local
    /\ UNCHANGED <<voucher, rating, birthday, asserted_adult, stored, overtaken, raced>>

\* The release of a suspension passes.
Release ==
    /\ suspension = "running"
    /\ suspension' = "over"
    /\ call' = [t \in Threads |-> IF permaban THEN call[t] ELSE Excused(t)]
    /\ UNCHANGED <<permaban, voucher, rating, birthday, asserted_adult, caches, overtaken, raced>>

Vouch(t) ==
    /\ ~voucher
    /\ ModBegin(t, "invalidate", "vouch", {})
    /\ voucher' = TRUE
    /\ UNCHANGED <<permaban, suspension, rating, birthday, asserted_adult, caches, overtaken, raced>>

\* do_manage sets or removes a birthday, and resets the rating of a minor; the
\* cached settings go with the rating.
ManageBirthday(t, born) ==
    /\ IF born = "minor" THEN ModBegin(t, "manage rating", "manage", {}) ELSE UNCHANGED call
    /\ birthday' = born
    /\ raced' = (raced \/ (Saving /\ born = "minor"))
    /\ UNCHANGED <<permaban, suspension, voucher, rating, asserted_adult, caches, overtaken>>

ManageRating(t) ==
    /\ At(t, "manage rating")
    /\ rating' = "general"
    /\ Goto(t, "invalidate")
    /\ UNCHANGED <<permaban, suspension, voucher, birthday, asserted_adult, caches, overtaken, raced>>

Next ==
    \/ PostAdult \/ Release
    \/ \E t \in Threads :
        \/ \E doing \in UserRequests : Begin(t, doing)
        \/ GetCached(t) \/ Query(t) \/ SetCached(t) \/ Invalidate(t)
        \/ StatusCheck(t) \/ Signin(t) \/ ReadSuspension(t) \/ Lift(t) \/ Served(t)
        \/ EditProfile(t) \/ PreferGeneral(t) \/ ReadAge(t) \/ AssertAdult(t) \/ PreferAdult(t)
        \/ \E born \in {"minor", "adult"} : EditUserinfo(t, born)
        \/ \E mode \in {"b", "s", "x"} : ModeDelete(t, mode)
        \/ ModeCommit(t) \/ Vouch(t) \/ ManageRating(t)
        \/ \E born \in {"none", "minor", "adult"} : ManageBirthday(t, born)

Spec == Init /\ [][Next]_vars

-----------------------------------------------------------------------------
\* A request that begins after a ban or suspension was announced is not
\* admitted unless that changes meanwhile, whatever the caches hold: setusermode
\* invalidates memcached after its commit, and no thread keeps a value from
\* one request to the next.
BarredAreRefused ==
    \A t \in Threads : At(t, "admitted") => ~call[t].owed

\* A user who is known to be a minor has the general rating, except between
\* the two statements of do_manage, or after a save of preferences that had
\* read the age before the birthday was set.
MinorsSeeGeneral ==
    birthday = "minor" /\ rating = "adult" => raced \/ \E t \in Threads : At(t, "manage rating")

\* Whoever has an adult rating has asserted to be an adult.
RatingIsAsserted == rating = "adult" => asserted_adult
==============================================================================
