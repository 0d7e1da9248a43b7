----------------------------- MODULE Credentials -----------------------------
(***************************************************************************)
(* The credentials of one account: logins with their lockout, an app       *)
(* password, the email address and its confirmation, and the tokens mailed *)
(* to confirm or change the address, to reset the password and to delete   *)
(* the account (the deletion itself is in Accounts).  A request is a chain of  *)
(* separate statements; where the code joins statements (try_join!) they   *)
(* run in any order, and when one fails the others may or may not have     *)
(* run.                                                                    *)
(***************************************************************************)
EXTENDS Naturals, FiniteSets

CONSTANTS
    Handlers,    \* concurrent requests
    Threshold,   \* failed logins that lock the account (5)
    LockFor,     \* how long it stays locked (900 s)
    TTL,         \* how long a mailed token is valid (15 min)
    MaxRequests, \* bound: requests accepted
    MaxFaults,   \* bound: statements and mails that fail
    MaxNow       \* bound: the clock

ASSUME CredentialsAssumption ==
    /\ IsFiniteSet(Handlers)
    /\ {Threshold, LockFor} \subseteq Nat \ {0}
    /\ {TTL, MaxRequests, MaxFaults, MaxNow} \subseteq Nat

VARIABLES
    password,   \* the account's password, as the number of the reset that set it
    app,        \* its app password, as the number of the request that made it, or 0
    address,    \* its email address, as the number of the update that set it
    confirmed,  \* emailConfirmedAt
    fails,      \* failedLoginCount
    lockedUntil,
    token,      \* token[p]: the email_token row of purpose p
    mail,       \* tokens that arrived in a mailbox
    sessions,   \* refresh tokens, by the credential that opened them
    req,        \* req[h]: the request h works on
    now, requests, faults,
    guesses,    \* history: wrong passwords tried since the last window began
    proved,     \* history: addresses whose own confirmation token came back
    overtaken,  \* history: a change of address met a confirmation, or was cut short
    straddled,  \* history: a session opened across a reset or a revocation
    partial,    \* history: a reset or a revocation was cut short
    finished,   \* history: reset tokens whose reset was carried out whole
    reused      \* history: a finished token was accepted again

account == <<password, app, address, confirmed>>
lockout == <<fails, lockedUntil>>
mailed == <<token, mail>>
history == <<guesses, proved, overtaken, straddled, partial, finished, reused>>
vars == <<account, lockout, mailed, sessions, req, now, requests, faults, history>>

Purposes == {"confirm_email", "update_email", "reset_password", "delete_account"}
Idle == [pc |-> "idle"]
NoToken == [id |-> 0, at |-> 0]
Ids == 1..MaxRequests

Init ==
    /\ password = 0 /\ app = 0 /\ address = 0 /\ confirmed = FALSE
    /\ fails = 0 /\ lockedUntil = 0
    /\ token = [p \in Purposes |-> NoToken]
    /\ mail = {} /\ sessions = {}
    /\ req = [h \in Handlers |-> Idle]
    /\ now = 0 /\ requests = 0 /\ faults = 0
    /\ guesses = 0 /\ proved = {} /\ overtaken = FALSE
    /\ straddled = FALSE /\ partial = FALSE
    /\ finished = {} /\ reused = FALSE

Fault == faults < MaxFaults /\ faults' = faults + 1
Works == UNCHANGED faults
Accept == requests < MaxRequests /\ requests' = requests + 1
Go(h, pc) == req' = [req EXCEPT ![h].pc = pc]
Done(h) == req' = [req EXCEPT ![h] = Idle]
Busy(pcs) == \E h \in Handlers : req[h].pc \in pcs

-----------------------------------------------------------------------------
(***************************************************************************)
(* createSession.                                                          *)
(***************************************************************************)
IsAccountLocked == lockedUntil > now

\* A password that was never set.
Wrong == [kind |-> "account", n |-> MaxRequests + 1]

\* What the caller may type: the password, the app password or a wrong one.
Typed ==
    {[kind |-> "account", n |-> password], Wrong}
      \cup (IF app = 0 THEN {} ELSE {[kind |-> "app", n |-> app]})

\* The login begins with the lock; for names what comes after the checks.
Begin(h, for) ==
    /\ req[h] = Idle /\ Accept
    /\ \E t \in Typed :
         req' = [req EXCEPT ![h] =
                   IF IsAccountLocked THEN Idle ELSE [pc |-> "verify", tried |-> t, for |-> for]]
    /\ UNCHANGED <<account, lockout, mailed, sessions, now, faults, history>>

CreateSession(h) == Begin(h, "session")

\* The sign-in page of OAuth: no app password counts, and no session is opened.
AuthenticateAccount(h) == Begin(h, "page")

\* verify_account_password, and for createSession verify_app_password.
Correct(c) ==
    \/ c.tried = [kind |-> "account", n |-> password]
    \/ c.for = "session" /\ app # 0 /\ c.tried = [kind |-> "app", n |-> app]

VerifyPassword(h) ==
    /\ req[h].pc = "verify"
    /\ \/ /\ Works
          /\ Go(h, IF Correct(req[h]) THEN "clear" ELSE "count")
          /\ guesses' = IF Correct(req[h]) THEN guesses ELSE guesses + 1
       \/ Fault /\ Done(h) /\ UNCHANGED guesses
    /\ UNCHANGED <<account, lockout, mailed, sessions, now, requests, proved, overtaken,
                   straddled, partial, finished, reused>>

\* record_failed_login_with_lockout: the counter goes up in one statement, is
\* read back in the next, and the third sets the deadline.
IncrementFailedLogins(h) ==
    /\ req[h].pc = "count"
    /\ \/ Works /\ fails' = fails + 1 /\ Go(h, "recount")
       \/ Fault /\ Done(h) /\ UNCHANGED fails
    /\ UNCHANGED <<account, lockedUntil, mailed, sessions, now, requests, history>>

\* Mutation of Reached: one login too late.
ReachedLate(n) == n > Threshold

Reached(n) == n >= Threshold

ReadFailedLogins(h) ==
    /\ req[h].pc = "recount"
    /\ IF Reached(fails) THEN Go(h, "lock") ELSE Done(h)
    /\ UNCHANGED <<account, lockout, mailed, sessions, now, requests, faults, history>>

\* Mutation of Deadline: a running lock is prolonged.
DeadlineProlonged == lockedUntil + now + LockFor

Deadline == now + LockFor

LockAccount(h) ==
    /\ req[h].pc = "lock" /\ Done(h)
    /\ \/ Works /\ lockedUntil' = Deadline
       \/ Fault /\ UNCHANGED lockedUntil
    /\ UNCHANGED <<account, fails, mailed, sessions, now, requests, history>>

\* The right password clears counter and deadline, also a deadline that was
\* set after this login had found the account unlocked.
ClearFailedLogins(h) ==
    /\ req[h].pc = "clear"
    /\ \/ /\ Works
          /\ IF req[h].for = "session" THEN Go(h, "recheck") ELSE Done(h)
          /\ fails' = 0 /\ lockedUntil' = 0 /\ guesses' = 0
       \/ Fault /\ Done(h) /\ UNCHANGED <<lockout, guesses>>
    /\ UNCHANGED <<account, mailed, sessions, now, requests, proved, overtaken, straddled,
                   partial, finished, reused>>

\* AccountManager::create_session looks at the lock again, then stores.
RecheckLock(h) ==
    /\ req[h].pc = "recheck"
    /\ IF IsAccountLocked THEN Done(h) ELSE Go(h, "open")
    /\ UNCHANGED <<account, lockout, mailed, sessions, now, requests, faults, history>>

Resetting == Busy({"set_password", "revoke_app"})

Current(t) == t.n = IF t.kind = "app" THEN app ELSE password

\* The tokens of a session carry a scope that tells an app password's session.
CreateTokens(t) == [scope |-> IF t.kind = "app" THEN "app_pass" ELSE "access", n |-> t.n]

OpenSession(h) ==
    /\ req[h].pc = "open" /\ Done(h)
    /\ \/ /\ Works
          /\ sessions' = sessions \cup {CreateTokens(req[h].tried)}
          /\ straddled' = (straddled \/ ~Current(req[h].tried) \/ Resetting)
       \/ Fault /\ UNCHANGED <<sessions, straddled>>
    /\ UNCHANGED <<account, lockout, mailed, now, requests, guesses, proved, overtaken, partial,
                   finished, reused>>

-----------------------------------------------------------------------------
(***************************************************************************)
(* The requests that mail a token: the account is read, the token upserted *)
(* and mailed to the address that was read.  requestPasswordReset does the *)
(* last two in a spawned task after it has answered, which changes nothing *)
(* here; requestEmailUpdate mails nothing to an unconfirmed account.  A    *)
(* token is random and taken to be new.                                    *)
(***************************************************************************)
RandomToken == requests + 1

RequestToken(h, p) ==
    /\ req[h] = Idle /\ Accept
    /\ req' = [req EXCEPT ![h] = [pc |-> "token", purpose |-> p, to |-> address,
                                  id |-> RandomToken]]
    /\ overtaken' = (overtaken \/ Busy({"set_email"}))
    /\ UNCHANGED <<account, lockout, mailed, sessions, now, faults, guesses, proved, straddled,
                   partial, finished, reused>>

RequestEmailConfirmation(h) == RequestToken(h, "confirm_email")

RequestEmailUpdate(h) == confirmed /\ RequestToken(h, "update_email")

RequestPasswordReset(h) == RequestToken(h, "reset_password")

RequestAccountDelete(h) == RequestToken(h, "delete_account")

CreateEmailToken(h) ==
    /\ req[h].pc = "token"
    /\ \/ /\ Works /\ Go(h, "mail")
          /\ token' = [token EXCEPT ![req[h].purpose] = [id |-> req[h].id, at |-> now]]
       \/ Fault /\ Done(h) /\ UNCHANGED token
    /\ UNCHANGED <<account, lockout, mail, sessions, now, requests, history>>

\* Mailing is external; a mail that fails leaves the token in the database.
SendMail(h) ==
    /\ req[h].pc = "mail" /\ Done(h)
    /\ \/ Works /\ mail' = mail \cup {[purpose |-> req[h].purpose, id |-> req[h].id,
                                       to |-> req[h].to]}
       \/ Fault /\ UNCHANGED mail
    /\ UNCHANGED <<account, lockout, token, sessions, now, requests, history>>

\* assert_valid_token: this row, younger than fifteen minutes.
ValidToken(p, id) == token[p].id = id /\ now < token[p].at + TTL

\* The rows that delete_email_token and delete_all_email_tokens leave.
DeleteEmailToken(p) == [token EXCEPT ![p] = NoToken]

\* Mutation of DeleteAllEmailTokens: confirmation tokens stay.
DeleteAllEmailTokensButConfirm ==
    [p \in Purposes |-> IF p = "confirm_email" THEN token[p] ELSE NoToken]

DeleteAllEmailTokens == [p \in Purposes |-> NoToken]

-----------------------------------------------------------------------------
(***************************************************************************)
(* confirmEmail: the caller names the address; token and address are       *)
(* checked, then token and account are written.                            *)
(***************************************************************************)
ConfirmEmail(h) ==
    /\ req[h] = Idle /\ Accept
    /\ \E m \in mail :
         /\ m.purpose = "confirm_email"
         /\ req' = [req EXCEPT ![h] = [pc |-> "check_confirm", m |-> m]]
    /\ UNCHANGED <<account, lockout, mailed, sessions, now, faults, history>>

CheckConfirm(h) ==
    /\ req[h].pc = "check_confirm"
    /\ IF ValidToken("confirm_email", req[h].m.id)
       THEN req' = [req EXCEPT ![h] = [pc |-> "confirm", m |-> req[h].m,
                                       left |-> {"token", "account"}]]
       ELSE Done(h)
    /\ overtaken' = (overtaken \/ Busy({"set_email"}))
    /\ UNCHANGED <<account, lockout, mailed, sessions, now, requests, faults, guesses, proved,
                   straddled, partial, finished, reused>>

\* set_email_confirmed_at: of the account, whatever its address is by now.
SetEmailConfirmedAt == confirmed' = TRUE

\* One of the joined statements is done; the request ends with the last.
Joined(h, s) ==
    req' = [req EXCEPT ![h] = IF req[h].left = {s} THEN Idle
                              ELSE [req[h] EXCEPT !.left = @ \ {s}]]

SetConfirmed(h) ==
    /\ req[h].pc = "confirm"
    /\ \/ /\ "token" \in req[h].left /\ Works /\ Joined(h, "token")
          /\ token' = DeleteEmailToken("confirm_email")
          /\ UNCHANGED <<confirmed, proved>>
       \/ /\ "account" \in req[h].left /\ Works /\ Joined(h, "account")
          /\ SetEmailConfirmedAt
          /\ proved' = proved \cup {req[h].m.to}
          /\ UNCHANGED token
       \/ Fault /\ Done(h) /\ UNCHANGED <<confirmed, token, proved>>
    /\ UNCHANGED <<password, app, address, lockout, mail, sessions, now, requests, guesses, overtaken,
                   straddled, partial, finished, reused>>

(***************************************************************************)
(* updateEmail: a confirmed address is changed only with a token.          *)
(***************************************************************************)
UpdateEmail(h) ==
    /\ req[h] = Idle /\ Accept
    /\ \/ ~confirmed /\ req' = [req EXCEPT ![h] = [pc |-> "set_email",
                                                   left |-> {"token", "account"}]]
       \/ /\ confirmed
          /\ \E m \in mail :
               /\ m.purpose = "update_email"
               /\ req' = [req EXCEPT ![h] = [pc |-> "check_update", m |-> m]]
    /\ UNCHANGED <<account, lockout, mailed, sessions, now, faults, history>>

CheckUpdate(h) ==
    /\ req[h].pc = "check_update"
    /\ IF ValidToken("update_email", req[h].m.id)
       THEN req' = [req EXCEPT ![h] = [pc |-> "set_email", left |-> {"token", "account"}]]
       ELSE Done(h)
    /\ UNCHANGED <<account, lockout, mailed, sessions, now, requests, faults, history>>

\* The new address is not confirmed; one that another account has is a fault.
StoreEmail == address' = address + 1 /\ confirmed' = FALSE

Confirming == Busy({"token", "mail", "check_confirm", "confirm"})

SetEmail(h) ==
    /\ req[h].pc = "set_email"
    /\ \/ /\ "token" \in req[h].left /\ Works /\ Joined(h, "token")
          /\ token' = DeleteAllEmailTokens
          /\ UNCHANGED <<address, confirmed>>
       \/ /\ "account" \in req[h].left /\ Works /\ Joined(h, "account")
          /\ StoreEmail
          /\ UNCHANGED token
       \/ Fault /\ Done(h) /\ UNCHANGED <<address, confirmed, token>>
    /\ overtaken' = (overtaken \/ Confirming \/ faults' > faults)
    /\ UNCHANGED <<password, app, lockout, mail, sessions, now, requests, guesses, proved, straddled,
                   partial, finished, reused>>

(***************************************************************************)
(* resetPassword.                                                          *)
(***************************************************************************)
ResetPassword(h) ==
    /\ req[h] = Idle /\ Accept
    /\ \E m \in mail :
         /\ m.purpose = "reset_password"
         /\ req' = [req EXCEPT ![h] = [pc |-> "check_reset", id |-> m.id]]
    /\ UNCHANGED <<account, lockout, mailed, sessions, now, faults, history>>

CheckReset(h) ==
    /\ req[h].pc = "check_reset"
    /\ IF ValidToken("reset_password", req[h].id)
       THEN req' = [req EXCEPT ![h] = [pc |-> "set_password", id |-> req[h].id,
                                       left |-> {"password", "token", "sessions"}]]
       ELSE Done(h)
    /\ reused' = (reused \/ (ValidToken("reset_password", req[h].id) /\ req[h].id \in finished))
    /\ UNCHANGED <<account, lockout, mailed, sessions, now, requests, faults, guesses, proved,
                   overtaken, straddled, partial, finished>>

\* Mutation of RevokeSessions: they are left alone.
RevokeSessionsNot == sessions

RevokeSessions == {}

StorePassword == password' = password + 1

UpdateAccountPassword(h) ==
    /\ req[h].pc = "set_password"
    /\ straddled' = (straddled \/ Busy({"clear", "recheck", "open"}))
    /\ \/ /\ "password" \in req[h].left /\ Works /\ Joined(h, "password")
          /\ StorePassword
          /\ UNCHANGED <<token, sessions, partial>>
       \/ /\ "token" \in req[h].left /\ Works /\ Joined(h, "token")
          /\ token' = DeleteEmailToken("reset_password")
          /\ UNCHANGED <<password, sessions, partial>>
       \/ /\ "sessions" \in req[h].left /\ Works /\ Joined(h, "sessions")
          /\ sessions' = RevokeSessions
          /\ UNCHANGED <<password, token, partial>>
       \/ /\ Fault /\ Done(h) /\ partial' = TRUE
          /\ UNCHANGED <<password, token, sessions>>
    /\ finished' = IF faults' = faults /\ Cardinality(req[h].left) = 1
                   THEN finished \cup {req[h].id} ELSE finished
    /\ UNCHANGED <<app, address, confirmed, lockout, mail, now, requests, guesses, proved, overtaken,
                   reused>>

-----------------------------------------------------------------------------
(***************************************************************************)
(* The app password: created under a name that is free, revoked with its   *)
(* sessions.                                                               *)
(***************************************************************************)
CreateAppPassword ==
    /\ Accept /\ app = 0
    /\ app' = requests + 1
    /\ UNCHANGED <<password, address, confirmed, lockout, mailed, sessions, req, now, faults,
                   history>>

RevokeAppPassword(h) ==
    /\ req[h] = Idle /\ Accept
    /\ req' = [req EXCEPT ![h] = [pc |-> "revoke_app", left |-> {"row", "sessions"}]]
    /\ UNCHANGED <<account, lockout, mailed, sessions, now, faults, history>>

\* The sessions that revoke_app_password_refresh_token leaves.
RevokeAppSessions == {s \in sessions : s.scope # "app_pass"}

DropAppPassword(h) ==
    /\ req[h].pc = "revoke_app"
    /\ straddled' = (straddled \/ Busy({"clear", "recheck", "open"}))
    /\ \/ /\ "row" \in req[h].left /\ Works /\ Joined(h, "row")
          /\ app' = 0
          /\ UNCHANGED <<sessions, partial>>
       \/ /\ "sessions" \in req[h].left /\ Works /\ Joined(h, "sessions")
          /\ sessions' = RevokeAppSessions
          /\ UNCHANGED <<app, partial>>
       \/ Fault /\ Done(h) /\ partial' = TRUE /\ UNCHANGED <<app, sessions>>
    /\ UNCHANGED <<password, address, confirmed, lockout, mailed, now, requests, guesses, proved,
                   overtaken, finished, reused>>

-----------------------------------------------------------------------------
Tick ==
    /\ now < MaxNow /\ now' = now + 1
    /\ guesses' = IF IsAccountLocked /\ lockedUntil <= now' THEN 0 ELSE guesses
    /\ UNCHANGED <<account, lockout, mailed, sessions, req, requests, faults, proved, overtaken,
                   straddled, partial, finished, reused>>

Login(h) ==
    \/ CreateSession(h) \/ AuthenticateAccount(h) \/ VerifyPassword(h) \/ IncrementFailedLogins(h)
    \/ ReadFailedLogins(h) \/ LockAccount(h) \/ ClearFailedLogins(h) \/ RecheckLock(h)
    \/ OpenSession(h)

Email(h) ==
    \/ RequestEmailConfirmation(h) \/ RequestEmailUpdate(h)
    \/ RequestPasswordReset(h) \/ RequestAccountDelete(h)
    \/ CreateEmailToken(h) \/ SendMail(h)
    \/ ConfirmEmail(h) \/ CheckConfirm(h) \/ SetConfirmed(h)
    \/ UpdateEmail(h) \/ CheckUpdate(h) \/ SetEmail(h)
    \/ ResetPassword(h) \/ CheckReset(h) \/ UpdateAccountPassword(h)

AppPassword(h) == RevokeAppPassword(h) \/ DropAppPassword(h)

Next ==
    \/ Tick \/ CreateAppPassword
    \/ \E h \in Handlers : Login(h) \/ Email(h) \/ AppPassword(h)

Spec == Init /\ [][Next]_vars

-----------------------------------------------------------------------------
\* The shape of the state; a lock never reaches further than its length.
TypeOK ==
    /\ {password, app, address} \subseteq 0..MaxRequests
    /\ confirmed \in BOOLEAN
    /\ fails \in 0..MaxRequests /\ lockedUntil \in 0..(now + LockFor)
    /\ token \in [Purposes -> [id: 0..MaxRequests, at: 0..MaxNow]]
    /\ sessions \subseteq [scope: {"access", "app_pass"}, n: 0..MaxRequests]

\* Guessing is bounded: before the account is locked, or locked again after a
\* lock has run out, at most as many wrong passwords are tried as the threshold
\* allows, plus the ones that were already past the check when the lock came,
\* plus the ones whose bookkeeping failed.
GuessesBounded == guesses <= Threshold - 1 + Cardinality(Handlers) + faults

\* An address counts as confirmed only if a token mailed to that very address
\* came back, unless the change of address met a confirmation on its way or was
\* cut short between its two statements.
ConfirmedIsProved == confirmed => address \in proved \/ overtaken

\* A finished reset of the password leaves no session that an earlier password
\* opened, and a finished revocation none of the app password, unless a login
\* was under way meanwhile or the request failed half-way.
ResetLogsOut ==
    straddled \/ partial \/ Resetting
    \/ \A s \in sessions : s.n = IF s.scope = "app_pass" THEN app ELSE password

\* A reset token that has carried out a reset is never accepted again, whichever
\* tokens were asked for in the meantime.
ResetTokenSpentOnce == ~reused

\* A reset of the password is final: it logs out everybody who came in by the
\* former password, and its token cannot be used to reset it again.
ResetIsFinal == ResetLogsOut /\ ResetTokenSpentOnce
=============================================================================
