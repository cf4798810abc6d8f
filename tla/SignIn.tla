--------------------------------- MODULE SignIn ---------------------------------
(***************************************************************************)
(* Signing in with a password and a code: the API (views.auth_login and    *)
(* the views of the second factor), the administration site                *)
(* (admin_auth.py), the counters of failures that both share               *)
(* (auth_throttle.py) and passwords that expire.                           *)
(*                                                                         *)
(* Whether a password is right is an input; where it is looked up is in    *)
(* Accounts.  The clock counts the steps of the codes (TOTP_PERIOD) and    *)
(* the periods of the policy are given in them.                            *)
(* Definitions marked "Mutant" are wrong on purpose and nothing uses them. *)
(***************************************************************************)
EXTENDS Integers

CONSTANTS
    Workers, Users, Sessions,
    Window, LockTime, MaxAttempts, Expiry,  \* LocalAuthPolicy
    LastTick,                               \* bound: the clock
    MaxSecrets,                             \* bound: secrets handed out
    MaxCalls                                \* bound: requests that start

\* A failure counts for a time, and the one that is too many locks for a time.
PolicyRanges ==
    Window \in Nat /\ LockTime \in Nat /\ MaxAttempts \in Nat \ {0} /\ LastTick \in Nat

VARIABLES
    tick,               \* time.time() // TOTP_PERIOD
    throttle,           \* AuthThrottleState
    profile,            \* UserSecurityProfile
    session,            \* user and stage of each browser session
    call, at, rows,     \* request of each worker, how far it is, rows it locked
    counted,            \* failures registered since each counter was last reset
    accepted,           \* the last code that completed a login of each user
    replayed,           \* a code of the secret in force completed two logins in a row
    calls, secrets

requestVars == <<call, at, rows>>
history == <<counted, accepted, replayed>>
vars == <<tick, throttle, profile, session, requestVars, history, calls, secrets>>

Never == -1
NoCall == [kind |-> "none"]
NoSession == [user |-> "nobody", stage |-> "out"]
Reset == [count |-> 0, first |-> Never, until |-> Never]

\* The counters of the account and of the address that a request comes from.
Keys(factor, u) == {<<factor, u>>, <<factor, "ip">>}
AllKeys == UNION {Keys(f, u) : f \in {"login", "code"}, u \in Users}

Kinds == {"login", "verify", "setup", "confirm", "disable", "password"}
Calls ==
    [kind : Kinds, session : Sessions, user : Users, admin : BOOLEAN, right : BOOLEAN,
     step : 0 .. LastTick + 1]

\* What a request carries: a password that is right or wrong, a code of a step,
\* of the secret that the user's device has.
Sensible(q) ==
    /\ q.kind # "login" => session[q.session].user = q.user
    /\ q.kind = "verify" => session[q.session].stage = IF q.admin THEN "admin pending" ELSE "pending"
    /\ q.kind \notin {"login", "verify"} => session[q.session].stage = "in" /\ ~q.admin
    /\ q.kind \in {"login", "setup", "password"} => q.step = 0
    /\ q.kind \notin {"login"} => q.right

Go(w, to) == at' = [at EXCEPT ![w] = to]

\* A request and what it learns on its way.
With(q, more) == [f \in DOMAIN q \cup DOMAIN more |-> IF f \in DOMAIN q THEN q[f] ELSE more[f]]

Done(w) ==
    /\ Go(w, "idle")
    /\ call' = [call EXCEPT ![w] = NoCall] /\ rows' = [rows EXCEPT ![w] = {}]

Free(w, some) == \A v \in Workers \ {w} : rows[v] \cap some = {}

Begin(w) ==
    \E q \in Calls :
        /\ at[w] = "idle" /\ calls < MaxCalls /\ Sensible(q)
        /\ calls' = calls + 1
        /\ call' = [call EXCEPT ![w] = With(q, [secret |-> profile[q.user].secret])]
        /\ Go(w, IF q.kind \in {"setup", "password"} THEN "open" ELSE "begun")
        /\ session' = IF q.kind = "login" /\ ~q.admin /\ session[q.session].stage = "pending"
                      THEN [session EXCEPT ![q.session] = NoSession] ELSE session
        /\ UNCHANGED <<tick, throttle, profile, rows, history, secrets>>

-----------------------------------------------------------------------------
(* Counters of failures                                                      *)

Factor(w) == IF call[w].kind = "login" THEN "login" ELSE "code"
KeysOf(w) == Keys(Factor(w), call[w].user)

\* _throttle_state, _locked_state: a lock that is over starts anew.
Over(k, now) == throttle[k].until # Never /\ throttle[k].until <= now
State(k) == IF Over(k, tick) THEN Reset ELSE throttle[k]

IsLocked(state) == state.until > tick

\* _login_lock_status, two_factor_lock_status
LookForLock(w) ==
    /\ at[w] = "begun" /\ Free(w, KeysOf(w))
    /\ throttle' = [k \in AllKeys |-> IF k \in KeysOf(w) THEN State(k) ELSE throttle[k]]
    /\ counted' = [k \in AllKeys |-> IF k \in KeysOf(w) /\ Over(k, tick) THEN 0 ELSE counted[k]]
    /\ IF \E k \in KeysOf(w) : IsLocked(State(k)) THEN Done(w)
       ELSE Go(w, "open") /\ UNCHANGED <<call, rows>>
    /\ UNCHANGED <<tick, profile, session, accepted, replayed, calls, secrets>>

\* Mutant: the counters are read without a lock.
NoLocks(w) == {}

\* select_for_update, until the end of the transaction
Locks(w) == KeysOf(w)

\* _register_login_failure, register_two_factor_failure: read ...
ReadCounters(w) ==
    /\ at[w] = "failing" /\ Free(w, Locks(w))
    /\ rows' = [rows EXCEPT ![w] = @ \cup Locks(w)]
    /\ call' = [call EXCEPT ![w] = With(@, [now |-> tick, read |-> [k \in KeysOf(w) |-> State(k)]])]
    /\ Go(w, "counting")
    /\ UNCHANGED <<tick, throttle, profile, session, history, calls, secrets>>

Stale(state, now) == state.first = Never \/ now - state.first > Window

Failed(state, now) ==
    LET count == IF Stale(state, now) THEN 1 ELSE state.count + 1 IN
    [count |-> count, first |-> IF Stale(state, now) THEN now ELSE state.first,
     until |-> IF count >= MaxAttempts THEN now + LockTime ELSE state.until]

\* A counter of codes that is locked counts no more.
Counts(w, state) == Factor(w) = "login" \/ state.until <= call[w].now

\* ... count and write.  A session that waits for a code and is locked out now
\* has to start again.
CountFailure(w) ==
    LET now == call[w].now  read == call[w].read  s == call[w].session
        new == [k \in KeysOf(w) |-> IF Counts(w, read[k]) THEN Failed(read[k], now) ELSE read[k]]
    IN /\ at[w] = "counting"
       /\ throttle' = [k \in AllKeys |-> IF k \in KeysOf(w) THEN new[k] ELSE throttle[k]]
       /\ counted' = [k \in AllKeys |->
              IF k \notin KeysOf(w) THEN counted[k]
              ELSE IF ~Counts(w, read[k]) THEN counted[k]
              ELSE IF Over(k, now) \/ Stale(throttle[k], now) THEN 1 ELSE counted[k] + 1]
       /\ session' = IF call[w].kind = "verify" /\ \E k \in KeysOf(w) : new[k].until > now
                     THEN [session EXCEPT ![s] = NoSession] ELSE session
       /\ Done(w)
       /\ UNCHANGED <<tick, profile, accepted, replayed, calls, secrets>>

\* _clear_login_throttle, clear_two_factor_throttle
Cleared(w) ==
    /\ Free(w, KeysOf(w))
    /\ throttle' = [k \in AllKeys |-> IF k \in KeysOf(w) THEN Reset ELSE throttle[k]]
    /\ counted' = [k \in AllKeys |-> IF k \in KeysOf(w) THEN 0 ELSE counted[k]]

Kept == UNCHANGED <<throttle, counted>>

-----------------------------------------------------------------------------
(* Passwords                                                                 *)

WrongPassword(w) ==
    /\ at[w] = "open" /\ call[w].kind = "login" /\ ~call[w].right
    /\ Go(w, "failing")
    /\ UNCHANGED <<tick, throttle, profile, session, call, rows, history, calls, secrets>>

\* auth_login, AdminSite.login: the counters are cleared, then the profile is
\* read, which tells whether the password has expired and a code is needed.
RightPassword(w) ==
    LET u == call[w].user IN
    /\ at[w] = "open" /\ call[w].kind = "login" /\ call[w].right
    /\ Cleared(w)
    /\ call' = [call EXCEPT ![w] = With(@, [expired |-> tick - profile[u].changed >= Expiry,
                                             code |-> profile[u].enabled])]
    /\ Go(w, "welcome")
    /\ UNCHANGED <<tick, profile, session, rows, accepted, replayed, calls, secrets>>

\* local_password_expired, requires_password_change: save what was read.
Welcome(w) ==
    LET q == call[w]  u == q.user
        stage == IF ~q.code THEN "in" ELSE IF q.admin THEN "admin pending" ELSE "pending" IN
    /\ at[w] = "welcome"
    /\ profile' = [profile EXCEPT ![u].mustChange = @ \/ q.expired]
    /\ session' = [session EXCEPT ![q.session] = [user |-> u, stage |-> stage]]
    /\ Done(w)
    /\ UNCHANGED <<tick, throttle, history, calls, secrets>>

ProfileRow(w) == {<<"profile", call[w].user>>}

\* change_own_password
ChangePassword(w) ==
    /\ at[w] = "open" /\ call[w].kind = "password"
    /\ profile' = [profile EXCEPT ![call[w].user].mustChange = FALSE,
                                  ![call[w].user].changed = tick]
    /\ Done(w)
    /\ UNCHANGED <<tick, throttle, session, history, calls, secrets>>

-----------------------------------------------------------------------------
(* Codes                                                                     *)

\* totp_step_for_code: a code of the step now, before or after.
Matches(q, secret) == q.secret = secret /\ q.step \in tick - 1 .. tick + 1

\* auth_2fa_setup: a new secret, not in force yet.
SetUp(w) ==
    LET u == call[w].user IN
    /\ at[w] = "open" /\ call[w].kind = "setup" /\ Free(w, ProfileRow(w))
    /\ IF profile[u].enabled THEN UNCHANGED <<profile, secrets>>
       ELSE /\ secrets < MaxSecrets /\ secrets' = secrets + 1
            /\ profile' = [profile EXCEPT ![u].secret = secrets', ![u].last = Never]
    /\ Done(w)
    /\ UNCHANGED <<tick, throttle, session, history, calls>>

\* auth_2fa_confirm
Confirm(w) ==
    LET u == call[w].user IN
    /\ at[w] = "open" /\ call[w].kind = "confirm" /\ Free(w, ProfileRow(w))
    /\ IF profile[u].enabled \/ profile[u].secret = Never
       THEN Done(w) /\ Kept /\ UNCHANGED profile
       ELSE IF Matches(call[w], profile[u].secret)
       THEN /\ profile' = [profile EXCEPT ![u].enabled = TRUE, ![u].last = Never]
            /\ Cleared(w) /\ Done(w)
       ELSE /\ Go(w, "failing") /\ rows' = [rows EXCEPT ![w] = ProfileRow(w)]
            /\ Kept /\ UNCHANGED <<profile, call>>
    /\ UNCHANGED <<tick, session, accepted, replayed, calls, secrets>>

\* auth_2fa_disable
Disable(w) ==
    LET u == call[w].user IN
    /\ at[w] = "open" /\ call[w].kind = "disable" /\ Free(w, ProfileRow(w))
    /\ IF ~profile[u].enabled
       THEN Done(w) /\ Kept /\ UNCHANGED profile
       ELSE IF Matches(call[w], profile[u].secret)
       THEN /\ profile' = [profile EXCEPT ![u].enabled = FALSE, ![u].secret = Never, ![u].last = Never]
            /\ Cleared(w) /\ Done(w)
       ELSE /\ Go(w, "failing") /\ rows' = [rows EXCEPT ![w] = ProfileRow(w)]
            /\ Kept /\ UNCHANGED <<profile, call>>
    /\ UNCHANGED <<tick, session, accepted, replayed, calls, secrets>>

\* The user is in, and the step of the code is used.  The code is of the secret
\* that it was compared with, which need not be in force any more (see Use).
Accept(w, u, step) ==
    LET code == <<call[w].secret, step>> IN
    /\ profile' = [profile EXCEPT ![u].last = step]
    /\ replayed' = (replayed \/ (accepted[u] = code /\ call[w].secret = profile[u].secret))
    /\ accepted' = [accepted EXCEPT ![u] = code]
    /\ session' = [session EXCEPT ![call[w].session] = [user |-> u, stage |-> "in"]]
    /\ Cleared(w) /\ Done(w)

\* auth_2fa_verify, all of it with the profile locked
Verify(w) ==
    LET q == call[w]  u == q.user IN
    /\ at[w] = "open" /\ q.kind = "verify" /\ ~q.admin /\ Free(w, ProfileRow(w))
    /\ IF ~profile[u].enabled
       THEN /\ session' = [session EXCEPT ![q.session] = NoSession]
            /\ Done(w) /\ Kept /\ UNCHANGED <<profile, accepted, replayed>>
       ELSE IF Matches(q, profile[u].secret) /\ q.step # profile[u].last
       THEN Accept(w, u, q.step)
       ELSE /\ Go(w, "failing") /\ rows' = [rows EXCEPT ![w] = ProfileRow(w)]
            /\ Kept /\ UNCHANGED <<profile, session, call, accepted, replayed>>
    /\ UNCHANGED <<tick, calls, secrets>>

\* SecureAdminSite.login_2fa: the code is compared first ...
Compare(w) ==
    LET q == call[w]  u == q.user IN
    /\ at[w] = "open" /\ q.kind = "verify" /\ q.admin
    /\ Go(w, IF profile[u].enabled /\ Matches(q, profile[u].secret) /\ q.step # profile[u].last
             THEN "compared" ELSE "failing")
    /\ UNCHANGED <<tick, throttle, profile, session, call, rows, history, calls, secrets>>

\* Mutant: what was compared is not compared again.
Compared(u, step) == TRUE

Unused(u, step) == step # profile[u].last

\* ... and its step again, with the profile locked; neither its secret nor that
\* the factor is on is looked at again.
Use(w) ==
    LET q == call[w]  u == q.user IN
    /\ at[w] = "compared" /\ Free(w, ProfileRow(w))
    /\ IF Unused(u, q.step) THEN Accept(w, u, q.step)
       ELSE Go(w, "failing") /\ Kept /\ UNCHANGED <<profile, session, call, rows, accepted, replayed>>
    /\ UNCHANGED <<tick, calls, secrets>>

-----------------------------------------------------------------------------
Tick ==
    /\ tick < LastTick
    /\ tick' = tick + 1
    /\ UNCHANGED <<throttle, profile, session, requestVars, history, calls, secrets>>

Init ==
    /\ tick = 1 /\ throttle = [k \in AllKeys |-> Reset]
    /\ \E enabled \in BOOLEAN :
        profile = [u \in Users |-> [enabled |-> enabled, secret |-> IF enabled THEN 0 ELSE Never,
                                    last |-> Never, mustChange |-> FALSE, changed |-> 0]]
    /\ session = [s \in Sessions |-> NoSession]
    /\ call = [w \in Workers |-> NoCall] /\ at = [w \in Workers |-> "idle"]
    /\ rows = [w \in Workers |-> {}]
    /\ counted = [k \in AllKeys |-> 0] /\ accepted = [u \in Users |-> <<>>] /\ replayed = FALSE
    /\ calls = 0 /\ secrets = 0

Next ==
    \/ Tick
    \/ \E w \in Workers :
        \/ Begin(w) \/ LookForLock(w) \/ ReadCounters(w) \/ CountFailure(w)
        \/ WrongPassword(w) \/ RightPassword(w) \/ Welcome(w) \/ ChangePassword(w)
        \/ SetUp(w) \/ Confirm(w) \/ Disable(w) \/ Verify(w) \/ Compare(w) \/ Use(w)

Spec == Init /\ [][Next]_vars

-----------------------------------------------------------------------------
(* Properties *)

\* Each failure counts, however many come at once through the API and the
\* administration site, so that the lock falls at the failure it is due.
FailuresAreCounted ==
    \A k \in AllKeys :
        /\ throttle[k].count = counted[k]
        /\ counted[k] >= MaxAttempts => throttle[k].until # Never

\* No code of the secret in force completes two logins in a row, in one session or
\* in two that send it at the same time, through either door, before or after the
\* factor is renewed.
CodesOpenOnce == ~replayed
=============================================================================
