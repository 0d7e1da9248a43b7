------------------------------- MODULE Access -------------------------------
(* Authentication of requests: the poem extractors (auth_extractors.rs), the
   token verifier they call (auth/verifier/*.rs), the registry of admin tokens
   and the table of used DPoP proofs.

   A worker thread polls one request until it awaits; a request may resume on
   another thread.  The DPoP context of a request (its URI and proofs) is handed
   to the verifier through a thread-local, which the extractor sets before and
   clears after the validation.  A JWT is abstracted to its scope and to what
   checking its signature, audience and expiry says.                          *)
EXTENDS Naturals, FiniteSets

CONSTANTS Requests,     \* slots for requests in flight
          Threads,      \* worker threads of the runtime
          Uris,         \* method and URI of a request
          Proofs,       \* DPoP proofs, named by their jti
          ProofUri,     \* the URI a proof was made for
          Expires,      \* the second up to which a proof is fresh
          Offered,      \* what clients send to which guard: <<[uri, proof, auth], extractor>>
          Envs,         \* environments: admin tokens [name, secret, scopes], password set or not
          MaxClock,     \* bound on the clock
          None          \* no request, no context, no proof, no header

ASSUME ProofAssumption == /\ ProofUri \in [Proofs -> Uris]
                          /\ Expires \in [Proofs -> Nat]

ASSUME NoneAssumption == /\ None \notin Requests /\ None \notin Nat /\ None \notin Proofs
                         /\ MaxClock \in Nat

ASSUME EnvsAssumption ==
    Envs \subseteq [tokens : SUBSET [name : STRING, secret : STRING, scopes : SUBSET STRING],
                   password : BOOLEAN]

VARIABLES ctx,       \* DPOP_REQUEST_CONTEXT of every thread
          running,   \* the request a thread is polling
          job,       \* the requests
          replay,    \* table dpop_replay: proof -> expires_at, None: no row
          account,   \* what the status check reads of the caller's account
          env,       \* admin tokens and password of the environment
          clock,
          accepted   \* how often a proof was accepted while it was fresh

vars == <<ctx, running, job, replay, account, env, clock, accepted>>

AuthScope == {"Access", "Refresh", "AppPass", "AppPassPrivileged", "SignupQueued"}
AdminScope == {"InviteAdmin", "AccountAdmin", "TakedownAdmin", "Wildcard"}
JwtState == {"good", "expired", "bad"}

Bearer == [scheme : {"bearer"}, scope : AuthScope, state : JwtState]
DPoP == [scheme : {"dpop"}, granted : SUBSET {"atproto", "generic", "chat"}, good : BOOLEAN]
Basic == [scheme : {"basic"}, name : STRING, secret : STRING]

Presented == {o[1] : o \in Offered}
Extractors == {o[2] : o \in Offered}

ASSUME OfferedAssumption ==
    \A q \in Presented : /\ q.uri \in Uris /\ q.proof \in Proofs \cup {None}
                         /\ q.auth = None \/ q.auth \in Bearer \/ q.auth \in DPoP \/ q.auth \in Basic

------------------------------------------------------------------------------
(* The extractors.  `scopes` and the two checks are what validate_access gets. *)

Access(scopes, takedown, deactivated) ==
    [kind |-> "access", scopes |-> scopes, takedown |-> takedown, deactivated |-> deactivated]

Other(kind, admin) ==
    [kind |-> kind, scopes |-> admin, takedown |-> FALSE, deactivated |-> FALSE]

AnyPassword == {"Access", "AppPass", "AppPassPrivileged"}

AccessStandard == Access(AnyPassword, FALSE, FALSE)

AccessFull == Access({"Access"}, FALSE, FALSE)

AccessPrivileged == Access({"Access", "AppPassPrivileged"}, FALSE, FALSE)

AccessStandardIncludeChecks == Access(AnyPassword, TRUE, TRUE)

AccessStandardCheckTakedown == Access(AnyPassword, TRUE, FALSE)

AccessFullImport == Access({"Access"}, TRUE, FALSE)

AccessStandardSignupQueued == Access(AnyPassword \cup {"SignupQueued"}, FALSE, FALSE)

Refresh == Other("refresh", {})

RevokeRefreshToken == Other("revoke", {})

AdminToken == Other("admin", {})

RequireInviteAdmin == Other("admin", {"InviteAdmin"})

RequireAccountAdmin == Other("admin", {"AccountAdmin"})

RequireTakedownAdmin == Other("admin", {"TakedownAdmin"})

Moderator == Other("moderator", {})

OptionalAccessOrAdminToken == Other("optional", {"Access"})

UserDidAuth == Other("user", {})

UserDidAuthOptional == Other("userOptional", {})

ASSUME GuardsAssumption ==
    Extractors \subseteq
        {AccessStandard, AccessFull, AccessPrivileged, AccessStandardIncludeChecks,
         AccessStandardCheckTakedown, AccessFullImport, AccessStandardSignupQueued,
         Refresh, RevokeRefreshToken, AdminToken, RequireInviteAdmin, RequireAccountAdmin,
         RequireTakedownAdmin, Moderator, OptionalAccessOrAdminToken, UserDidAuth,
         UserDidAuthOptional}

------------------------------------------------------------------------------
(* Admin tokens.                                                              *)

(* AdminScopeSet::from_env_value: unknown names are skipped.                  *)
FromEnvValue(words) == words \cap AdminScope

(* AdminTokenRegistry::from_env.  A token without a secret is skipped, one
   without scopes has them all, and the admin password is only looked at when
   no token is named.                                                         *)
FromEnv ==
    LET named == { [t EXCEPT !.scopes = IF @ = {} THEN {"Wildcard"} ELSE FromEnvValue(@)] :
                   t \in {t \in env.tokens : t.secret # ""} }
    IN  IF named = {} /\ env.password
        THEN {[name |-> "admin", secret |-> "password", scopes |-> {"Wildcard"}]}
        ELSE named

(* AdminTokenRegistry::lookup.                                                *)
Lookup(auth) == { t \in FromEnv : t.name = auth.name /\ t.secret = auth.secret }

(* AdminScopeSet::contains.                                                   *)
Contains(scopes, scope) == scope \in scopes \/ "Wildcard" \in scopes

(* require_admin_scope: AdminToken and Moderator ask for no scope.            *)
RequireAdminScope(t, e) == \A scope \in e.scopes : Contains(t.scopes, scope)

(* verify_admin_token, and the scope the extractor asks for.                  *)
VerifyAdminToken(auth, e) ==
    /\ auth # None
    /\ auth.scheme = "basic"
    /\ \E t \in Lookup(auth) : e.kind = "admin" => RequireAdminScope(t, e)

------------------------------------------------------------------------------
(* Tokens.                                                                    *)

(* oauth_scopes_to_auth_scope.                                                *)
OAuthScope(granted) ==
    IF "atproto" \notin granted THEN None
    ELSE IF "chat" \in granted THEN "AppPassPrivileged"
    ELSE IF "generic" \in granted THEN "AppPass" ELSE None

(* verify_jwt: the signature, the audience and the expiry.                    *)
VerifyJwt(auth) == auth.state = "good"

(* validate_bearer_token.                                                     *)
ValidateBearerToken(auth, scopes) ==
    /\ auth # None
    /\ auth.scheme = "bearer"
    /\ VerifyJwt(auth)
    /\ scopes # {} => auth.scope \in scopes

(* validate_refresh_token.                                                    *)
ValidateRefreshToken(auth) == ValidateBearerToken(auth, {"Refresh"})

(* Mutation of CheckAccountStatus: only a deactivated account is refused.     *)
CheckAccountStatusDeactivated(e) ==
    e.deactivated => ~account.deactivated

(* check_account_status on what fetch_account_status reads.                   *)
CheckAccountStatus(e) ==
    /\ e.takedown => ~account.takendown
    /\ e.deactivated => ~account.deactivated

Checks(e) == e.takedown \/ e.deactivated

------------------------------------------------------------------------------
(* A request.  `seen` is the context the verifier read, `now` the second it
   read with it; `down` remembers that the account has been taken down ever
   since the request arrived.                                                 *)

Contexts == [uri : Uris, proof : Proofs \cup {None}]

ContextOf(q) == [uri |-> q.uri, proof |-> q.proof]

Idle == [pc |-> "idle", req |-> None, ext |-> None, seen |-> None, now |-> 0,
         down |-> FALSE, granted |-> FALSE]

(* The scope validate_access_token is asked for: the optional guard passes its
   own only for a bearer header.                                              *)
ViaAccess(q, e) == \/ e.kind = "access"
                   \/ e.kind = "optional" /\ q.auth # None /\ q.auth.scheme = "bearer"

Arrived(r, q, e, pc) ==
    job' = [job EXCEPT ![r] = [Idle EXCEPT !.pc = pc, !.req = q, !.ext = e,
                                           !.down = e.takedown /\ account.takendown]]

(* Mutation of SetContext: the context is one static of the process.          *)
SetContextGlobal(r, t, q) ==
    /\ ctx' = [u \in Threads |-> ContextOf(q)]
    /\ running' = [running EXCEPT ![t] = r]

(* set_dpop_request_context, and the thread keeps polling the request.        *)
SetContext(r, t, q) ==
    /\ ctx' = [ctx EXCEPT ![t] = ContextOf(q)]
    /\ running' = [running EXCEPT ![t] = r]

(* validate_access starts: the context is set on the current thread.          *)
ValidateAccess(r, t, q, e) ==
    /\ job[r].pc = "idle"
    /\ running[t] = None
    /\ ViaAccess(q, e)
    /\ SetContext(r, t, q)
    /\ Arrived(r, q, e, "route")
    /\ UNCHANGED <<replay, account, env, clock, accepted>>

Leave(r, granted) == job' = [job EXCEPT ![r].pc = "clear", ![r].granted = granted]

(* The poll goes on with the request's thread or ends at an await.            *)
Holds(r, t) == running' = [running EXCEPT ![t] = r]
Awaits(t) == running' = [running EXCEPT ![t] = None]

(* validate_access_token_inner in the same poll, DPoP scheme: the verifier
   takes the context and the time, then awaits the provider.                  *)
RouteDPoP(r, t) ==
    LET q == job[r].req IN
    /\ job[r].pc = "route"
    /\ running[t] = r
    /\ q.auth # None
    /\ q.auth.scheme = "dpop"
    /\ IF ctx[t] = None
       THEN Leave(r, FALSE) /\ Holds(r, t)
       ELSE /\ job' = [job EXCEPT ![r].pc = "verify", ![r].seen = ctx[t], ![r].now = clock]
            /\ Awaits(t)
    /\ UNCHANGED <<ctx, replay, account, env, clock, accepted>>

(* validate_access_token_inner, bearer scheme or no token at all.             *)
RouteBearer(r, t) ==
    LET q == job[r].req
        e == job[r].ext
        valid == ValidateBearerToken(q.auth, e.scopes) IN
    /\ job[r].pc = "route"
    /\ running[t] = r
    /\ q.auth # None => q.auth.scheme # "dpop"
    /\ IF valid /\ Checks(e)
       THEN job' = [job EXCEPT ![r].pc = "status"] /\ Awaits(t)
       ELSE Leave(r, valid) /\ Holds(r, t)
    /\ UNCHANGED <<ctx, replay, account, env, clock, accepted>>

(* OAuthProvider::verify_access_token up to the replay store: the token and the
   proof are sound, the proof is for this URI and fresh at `now`.             *)
ProofSound(r) ==
    LET c == job[r].seen IN
    /\ job[r].req.auth.good
    /\ c.proof # None
    /\ ProofUri[c.proof] = c.uri
    /\ job[r].now <= Expires[c.proof]

(* DbBackedReplayStore::consume: the insert goes through when no row has the
   jti, which is the answer.                                                  *)
Consume(p) == replay[p] = None /\ replay' = [replay EXCEPT ![p] = Expires[p]]

(* The provider accepts the token and its proof; the granted OAuth scopes are
   mapped to a session scope, which the extractor must allow.                 *)
VerifyAccessToken(r, t) ==
    LET p == job[r].seen.proof
        e == job[r].ext
        scope == OAuthScope(job[r].req.auth.granted)
        valid == scope # None /\ (e.scopes # {} => scope \in e.scopes) IN
    /\ job[r].pc = "verify"
    /\ running[t] = None
    /\ ProofSound(r)
    /\ Consume(p)
    /\ accepted' = IF clock <= Expires[p]
                   THEN [accepted EXCEPT ![p] = IF @ = 2 THEN 2 ELSE @ + 1]
                   ELSE accepted
    /\ IF valid /\ Checks(e)
       THEN job' = [job EXCEPT ![r].pc = "status"] /\ Awaits(t)
       ELSE Leave(r, valid) /\ Holds(r, t)
    /\ UNCHANGED <<ctx, account, env, clock>>

(* The provider refuses: an unsound token or proof, or a jti already used.    *)
VerifyRefused(r, t) ==
    /\ job[r].pc = "verify"
    /\ running[t] = None
    /\ ProofSound(r) => replay[job[r].seen.proof] # None
    /\ Leave(r, FALSE)
    /\ Holds(r, t)
    /\ UNCHANGED <<ctx, replay, account, env, clock, accepted>>

(* A database error while the jti is inserted counts as a replay.             *)
ConsumeFails(r, t) ==
    /\ job[r].pc = "verify"
    /\ running[t] = None
    /\ ProofSound(r)
    /\ Leave(r, FALSE)
    /\ Holds(r, t)
    /\ UNCHANGED <<ctx, replay, account, env, clock, accepted>>

(* fetch_account_status answers and check_account_status decides.             *)
FetchAccountStatus(r, t) ==
    /\ job[r].pc = "status"
    /\ running[t] = None
    /\ Leave(r, CheckAccountStatus(job[r].ext))
    /\ Holds(r, t)
    /\ UNCHANGED <<ctx, replay, account, env, clock, accepted>>

(* A failing read and a deleted account are answered alike.                   *)
FetchFails(r, t) ==
    /\ job[r].pc = "status"
    /\ running[t] = None
    /\ Leave(r, FALSE)
    /\ Holds(r, t)
    /\ UNCHANGED <<ctx, replay, account, env, clock, accepted>>

(* clear_dpop_request_context on the thread the request has resumed on.       *)
ClearContext(r, t) ==
    /\ job[r].pc = "clear"
    /\ running[t] = r
    /\ ctx' = [ctx EXCEPT ![t] = None]
    /\ job' = [job EXCEPT ![r].pc = "done"]
    /\ running' = [running EXCEPT ![t] = None]
    /\ UNCHANGED <<replay, account, env, clock, accepted>>

(* The extractors that await nothing.                                         *)
Decide(r, q, e, granted) ==
    /\ job[r].pc = "idle"
    /\ job' = [job EXCEPT ![r] = [Idle EXCEPT !.pc = "done", !.req = q, !.ext = e,
                                     !.down = e.takedown /\ account.takendown, !.granted = granted]]
    /\ UNCHANGED <<ctx, running, replay, account, env, clock, accepted>>

(* Refresh and RevokeRefreshToken (which also needs the jti every refresh token
   carries).                                                                  *)
ExtractRefresh(r, q, e) ==
    /\ e.kind \in {"refresh", "revoke"}
    /\ Decide(r, q, e, ValidateRefreshToken(q.auth))

(* AdminToken and the guards that also ask for an admin scope.                *)
ExtractAdmin(r, q, e) ==
    /\ e.kind = "admin"
    /\ Decide(r, q, e, VerifyAdminToken(q.auth, e))

(* Moderator: a bearer token is always refused.                               *)
ExtractModerator(r, q, e) ==
    /\ e.kind = "moderator"
    /\ Decide(r, q, e, (q.auth # None => q.auth.scheme # "bearer") /\ VerifyAdminToken(q.auth, e))

(* OptionalAccessOrAdminToken without a bearer token: nobody, or an admin.    *)
ExtractOptional(r, q, e) ==
    /\ e.kind = "optional"
    /\ ~ViaAccess(q, e)
    /\ Decide(r, q, e, q.auth = None \/ VerifyAdminToken(q.auth, e))

(* verify_user_did_token: the signing-key resolver is never registered, so no
   token is accepted.                                                         *)
VerifyUserDidToken(q) == FALSE

ExtractUserDid(r, q, e) ==
    /\ e.kind = "user"
    /\ Decide(r, q, e, VerifyUserDidToken(q))

ExtractUserDidOptional(r, q, e) ==
    /\ e.kind = "userOptional"
    /\ Decide(r, q, e, (q.auth # None => q.auth.scheme # "bearer") \/ VerifyUserDidToken(q))

------------------------------------------------------------------------------
(* Around the requests.                                                       *)

(* Mutation of PruneExpired: a proof's last fresh second counts as expired.   *)
PruneExpiredEarly(p) == replay[p] # None /\ replay[p] <= clock

PruneExpired(p) == replay[p] # None /\ replay[p] < clock

(* A tick of schedule_dpop_replay_prune.                                      *)
Prune ==
    /\ \E p \in Proofs : PruneExpired(p)
    /\ replay' = [p \in Proofs |-> IF PruneExpired(p) THEN None ELSE replay[p]]
    /\ UNCHANGED <<ctx, running, job, account, env, clock, accepted>>

(* The account is taken down, restored, deactivated or activated by the
   operations of module Accounts.                                             *)
AccountChanges ==
    /\ \E a \in [takendown : BOOLEAN, deactivated : BOOLEAN] :
          /\ Cardinality({f \in DOMAIN a : a[f] # account[f]}) = 1
          /\ account' = a
          /\ job' = [r \in Requests |-> [job[r] EXCEPT !.down = @ /\ a.takendown]]
    /\ UNCHANGED <<ctx, running, replay, env, clock, accepted>>

(* The client goes away while the request awaits: its future is dropped and
   the context it set stays on the thread.                                    *)
Drop(r) ==
    /\ job[r].pc \in {"verify", "status"}
    /\ job' = [job EXCEPT ![r] = Idle]
    /\ UNCHANGED <<ctx, running, replay, account, env, clock, accepted>>

(* The handler has run and its answer is sent.                                *)
Answered(r) ==
    /\ job[r].pc = "done"
    /\ job' = [job EXCEPT ![r] = Idle]
    /\ UNCHANGED <<ctx, running, replay, account, env, clock, accepted>>

(* The process is restarted; the table of used proofs is on disk.             *)
Restart ==
    /\ ctx' = [t \in Threads |-> None]
    /\ running' = [t \in Threads |-> None]
    /\ job' = [r \in Requests |-> Idle]
    /\ UNCHANGED <<replay, account, env, clock, accepted>>

Tick ==
    /\ clock < MaxClock
    /\ clock' = clock + 1
    /\ UNCHANGED <<ctx, running, job, replay, account, env, accepted>>

------------------------------------------------------------------------------

Init ==
    /\ ctx = [t \in Threads |-> None]
    /\ running = [t \in Threads |-> None]
    /\ job = [r \in Requests |-> Idle]
    /\ replay = [p \in Proofs |-> None]
    /\ account = [takendown |-> FALSE, deactivated |-> FALSE]
    /\ env \in Envs
    /\ clock = 0
    /\ accepted = [p \in Proofs |-> 0]

Step(r, t) ==
    \/ RouteDPoP(r, t) \/ RouteBearer(r, t)
    \/ VerifyAccessToken(r, t) \/ VerifyRefused(r, t) \/ ConsumeFails(r, t)
    \/ FetchAccountStatus(r, t) \/ FetchFails(r, t)
    \/ ClearContext(r, t)

Arrive(r, q, e) ==
    \/ \E t \in Threads : ValidateAccess(r, t, q, e)
    \/ ExtractRefresh(r, q, e) \/ ExtractAdmin(r, q, e) \/ ExtractModerator(r, q, e)
    \/ ExtractOptional(r, q, e)
    \/ ExtractUserDid(r, q, e) \/ ExtractUserDidOptional(r, q, e)

Next ==
    \/ \E r \in Requests, o \in Offered : Arrive(r, o[1], o[2])
    \/ \E r \in Requests, t \in Threads : Step(r, t)
    \/ \E r \in Requests : Drop(r) \/ Answered(r)
    \/ Prune \/ AccountChanges \/ Restart \/ Tick

Spec == Init /\ [][Next]_vars

------------------------------------------------------------------------------
(* Properties.                                                                *)

Pcs == {"idle", "route", "verify", "status", "clear", "done"}

(* Every variable has its type: a row of the replay table lives as long as the
   proof, and a thread polls a request exactly between two of its awaits.     *)
TypeOK ==
    /\ ctx \in [Threads -> Contexts \cup {None}]
    /\ running \in [Threads -> Requests \cup {None}]
    /\ job \in [Requests -> [pc : Pcs, req : Presented \cup {None},
                             ext : Extractors \cup {None}, seen : Contexts \cup {None},
                             now : 0..MaxClock, down : BOOLEAN, granted : BOOLEAN]]
    /\ \A p \in Proofs : replay[p] \in {None, Expires[p]}
    /\ DOMAIN replay = Proofs
    /\ account \in [takendown : BOOLEAN, deactivated : BOOLEAN]
    /\ env \in Envs
    /\ clock \in 0..MaxClock
    /\ accepted \in [Proofs -> 0..2]
    /\ \A r \in Requests : (\E t \in Threads : running[t] = r) <=> job[r].pc \in {"route", "clear"}

(* A DPoP proof is checked against the context of the request that carries it,
   whatever the other requests on the same threads set and clear meanwhile:
   the thread-local is set and read within one poll.                          *)
OwnContext == \A r \in Requests : job[r].seen # None => job[r].seen = ContextOf(job[r].req)

(* No proof is accepted twice while it is fresh, across restarts, database
   errors and the pruning of the replay table.                                *)
ProofAcceptedOnce == \A p \in Proofs : accepted[p] <= 1

(* The guards that check for takedowns let no request in whose account has been
   taken down since before the request arrived.                               *)
TakenDownIsRefused ==
    \A r \in Requests : job[r].granted /\ job[r].ext.takedown => ~job[r].down

(* A route that takes full access only is entered with an unexpired password
   session: never with an app password, an OAuth token or a refresh token.    *)
FullAccessIsASession ==
    \A r \in Requests :
        job[r].granted /\ job[r].ext.kind = "access" /\ job[r].ext.scopes = {"Access"}
        => job[r].req.auth \in [scheme : {"bearer"}, scope : {"Access"}, state : {"good"}]

(* A route that asks for an admin scope is entered with a name and a secret of
   the environment: a token that lists that scope, or the wildcard, or nothing;
   or the admin password where no token with a secret is configured.          *)
AdminScopeIsConfigured ==
    \A r \in Requests :
        job[r].granted /\ job[r].ext.kind = "admin" /\ job[r].ext.scopes # {} =>
            LET a == job[r].req.auth IN
            \/ \E t \in env.tokens :
                 /\ a.name = t.name /\ a.secret = t.secret /\ t.secret # ""
                 /\ t.scopes = {} \/ "Wildcard" \in t.scopes \/ job[r].ext.scopes \subseteq t.scopes
            \/ env.password /\ \A t \in env.tokens : t.secret = ""

(* Requests on one thread do not mix: each is judged by its own context, and a
   thread is in the middle of at most one of them.                            *)
ContextConsistent == TypeOK /\ OwnContext

(* A guard lets in no more than it says: nobody whose account is taken down
   where it checks that, only password sessions where it asks for full access,
   only a configured secret where it asks for an admin scope.                 *)
AdmitsOnlyItsOwn == TakenDownIsRefused /\ FullAccessIsASession /\ AdminScopeIsConfigured
==============================================================================
