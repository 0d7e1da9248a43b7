-------------------------------- MODULE OAuth --------------------------------
(***************************************************************************)
(* OAuth for one account: the authorization request a client pushes, the   *)
(* consent steps that a trusted remote client drives with a one-time nonce *)
(* (/oauth/remote), and the token endpoint with its code exchange, its     *)
(* rotation of refresh tokens and its revocation.                          *)
(*                                                                         *)
(* The provider is a library (rsky-oauth).  What it does between the calls *)
(* it makes to the store is external; the statements of the store and of   *)
(* the consent nonces are this program's, and each is one step here.       *)
(***************************************************************************)
EXTENDS Naturals, Sequences, FiniteSets

CONSTANTS
    Handlers,   \* HTTP requests served at once
    Requests,   \* authorization requests
    Devices,    \* device ids the remote client names
    Window,     \* lifetime of a nonce and of an idle request (300 s)
    MaxNonces,  \* bound: nonces drawn
    MaxMinted,  \* bound: codes and tokens drawn
    MaxFaults,  \* bound: statements that fail, handlers that are dropped
    MaxNow      \* bound: the clock

ASSUME OAuthAssumption ==
    /\ Window \in Nat \ {0}
    /\ {MaxNonces, MaxMinted, MaxFaults, MaxNow} \subseteq Nat

VARIABLES
    request,    \* request[q]: its authorization_request row: not pushed yet, live, or deleted
    consent,    \* consent[q]: its consent_state row
    revealed,   \* revealed[q]: nonces the remote client was given
    devices,    \* device rows
    signedIn,   \* devices with an account_device row for the account
    token,      \* token[k]: the token row first issued as number k
    used,       \* used_refresh_token rows
    codes,      \* codes clients were given
    refreshes,  \* refresh tokens clients were given
    req,        \* req[h]: what handler h is doing
    nonces, minted, now, faults,
    consumed,   \* history: codes exchanged
    grants,     \* history: the token row each code was exchanged for
    rotations,  \* history: refresh tokens with their successors
    revoked     \* history: token rows deleted

rows == <<request, consent, devices, signedIn, token, used>>
given == <<revealed, codes, refreshes>>
bounds == <<nonces, minted, now, faults>>
history == <<consumed, grants, rotations, revoked>>
vars == <<rows, given, req, bounds, history>>

Idle == [pc |-> "idle"]
NoDevice == "none"
NoRequest == [st |-> "never", device |-> NoDevice, did |-> FALSE, code |-> 0, until |-> 0]
NoConsent == [state |-> 0, until |-> 0]
NoToken == [id |-> 0, refresh |-> 0, code |-> 0]
Keys == 1..MaxMinted

Init ==
    /\ request = [q \in Requests |-> NoRequest]
    /\ consent = [q \in Requests |-> NoConsent]
    /\ revealed = [q \in Requests |-> {}]
    /\ devices = {} /\ signedIn = {}
    /\ token = [k \in Keys |-> NoToken]
    /\ used = {} /\ codes = {} /\ refreshes = {}
    /\ req = [h \in Handlers |-> Idle]
    /\ nonces = 0 /\ minted = 0 /\ now = 0 /\ faults = 0
    /\ consumed = {} /\ grants = {} /\ rotations = {} /\ revoked = {}

Done(h) == req' = [req EXCEPT ![h] = Idle]
Go(h, pc) == req' = [req EXCEPT ![h].pc = pc]
Mint == minted < MaxMinted /\ minted' = minted + 1

\* Any statement may fail and any handler may be dropped with its connection:
\* what it has written stays, what it would have answered is never known.
Fail(h) ==
    /\ req[h] # Idle /\ Done(h)
    /\ faults < MaxFaults /\ faults' = faults + 1
    /\ UNCHANGED <<rows, given, nonces, minted, now, history>>

-----------------------------------------------------------------------------
(***************************************************************************)
(* Pushed requests, the redirect to the remote client, devices.            *)
(***************************************************************************)
\* create_request: a row without device, account or code.
Created(q) == [request EXCEPT ![q].st = "live", ![q].until = now + Window]

\* /oauth/par.
PushRequest(q) ==
    /\ request[q].st = "never"
    /\ request' = Created(q)
    /\ UNCHANGED <<consent, devices, signedIn, token, used, given, req, bounds, history>>

\* /oauth/authorize inserts a nonce and redirects with it; it does not look at
\* the request, and while a row is there the insert fails.
Authorize(q) ==
    /\ request[q].st # "never"
    /\ consent[q] = NoConsent
    /\ nonces < MaxNonces /\ nonces' = nonces + 1
    /\ consent' = [consent EXCEPT ![q] = [state |-> nonces', until |-> now + Window]]
    /\ revealed' = [revealed EXCEPT ![q] = @ \cup {nonces'}]
    /\ UNCHANGED <<request, devices, signedIn, token, used, codes, refreshes, req, minted, now,
                   faults, history>>

\* create_device: the id is unique.
CreateDevice(d) == d \notin devices /\ devices' = devices \cup {d}

\* The cookie of a new browser.
EnsureDevice(d) ==
    /\ CreateDevice(d)
    /\ UNCHANGED <<request, consent, signedIn, token, used, given, req, bounds, history>>

-----------------------------------------------------------------------------
(***************************************************************************)
(* The consent steps.  Each rotates the nonce, then goes through phases    *)
(* that read the request, check it and write it back: first in             *)
(* read_request_data, then in the provider.                                *)
(***************************************************************************)
Kinds == {"request", "select", "sign_in", "create_account", "accept", "reject"}

\* select answers with a page whether the account is on the device or not.
SelectAccount == <<"data", "page">>

\* create_account runs the sign-up between reading the request and the page.
CreateAccount == <<"data", "sign_up", "page">>

Phases(kind) ==
    CASE kind = "request" -> <<"data", "page">>
      [] kind = "select" -> SelectAccount
      [] kind = "create_account" -> CreateAccount
      [] kind = "sign_in" -> <<"data", "sign_in", "page">>
      [] kind = "accept" -> <<"data", "accept">>
      [] kind = "reject" -> <<"data", "reject">>

\* Mutation of Matches: any nonce that was ever handed out.
MatchesAny(q, n) == now < consent[q].until

\* The WHERE of the one UPDATE in consent_state::rotate.
Matches(q, n) == consent[q].state = n /\ now < consent[q].until

StartStep(h, q, kind, d) ==
    /\ req[h] = Idle
    /\ nonces < MaxNonces /\ nonces' = nonces + 1
    /\ \E n \in revealed[q] : Matches(q, n)
    /\ consent' = [consent EXCEPT ![q] = [state |-> nonces', until |-> now + Window]]
    /\ req' = [req EXCEPT ![h] = [pc |-> "read", q |-> q, kind |-> kind, device |-> d,
                                  fresh |-> nonces', phases |-> Phases(kind)]]
    /\ UNCHANGED <<request, devices, signedIn, token, used, given, minted, now, faults, history>>

\* Mutation of Active: a request that has its code is let in again.
ActiveAuthorized(row, d) ==
    row.st = "live" /\ now <= row.until /\ row.device \in {NoDevice, d}

Active(row, d) ==
    row.st = "live" /\ row.code = 0 /\ now <= row.until /\ row.device \in {NoDevice, d}

Phase(h) == Head(req[h].phases)

\* The provider accepts only for an account that signed in on the device.
Admits(h) ==
    /\ Active(request[req[h].q], req[h].device)
    /\ Phase(h) = "accept" => req[h].device \in signedIn

\* A refusal here answers without the fresh nonce: the request is stranded.
ReadRequest(h) ==
    /\ req[h].pc = "read" /\ Phase(h) # "sign_up"
    /\ IF Admits(h)
       THEN req' = [req EXCEPT ![h] = [pc |-> "write", q |-> @.q, kind |-> @.kind,
                                       device |-> @.device, fresh |-> @.fresh, phases |-> @.phases,
                                       data |-> [request[@.q] EXCEPT !.device = req[h].device,
                                                                     !.until = now + Window]]]
       ELSE Done(h)
    /\ UNCHANGED <<rows, given, bounds, history>>

\* After a phase: the next one, or the answer.
Advance(h) ==
    req' = [req EXCEPT ![h] =
      [pc |-> IF Tail(@.phases) = <<>> THEN "answer" ELSE "read", q |-> @.q, kind |-> @.kind,
       device |-> @.device, fresh |-> @.fresh, phases |-> Tail(@.phases)]]

\* update_request and delete_request fail on a request that is gone.
UpdateRequest(h) ==
    /\ req[h].pc = "write" /\ Phase(h) \in {"data", "page", "sign_in"}
    /\ IF request[req[h].q].st # "live" THEN Done(h) /\ UNCHANGED request
       ELSE /\ request' = [request EXCEPT ![req[h].q] = req[h].data]
            /\ IF Phase(h) = "sign_in" THEN Go(h, "authenticate") ELSE Advance(h)
    /\ UNCHANGED <<consent, devices, signedIn, token, used, given, bounds, history>>

\* The sign-up itself is in module Accounts.  An answer about bad input or a
\* failure carries no nonce: the request is stranded.
SignUp(h) ==
    /\ req[h].pc = "read" /\ Phase(h) = "sign_up"
    /\ Advance(h) \/ Done(h)
    /\ UNCHANGED <<rows, given, bounds, history>>

\* The key of the device row with this id, if there is one.
DeviceId(d) == {d} \cap devices

UpsertDeviceAccount(d) == signedIn \cup DeviceId(d)

\* A wrong password, like an unknown device, is an error page that carries the
\* nonce.  (The lockout that authenticate_account keeps is in Credentials.)
SignIn(h) ==
    /\ req[h].pc = "authenticate" /\ Advance(h)
    /\ signedIn' \in {signedIn, UpsertDeviceAccount(req[h].device)}
    /\ UNCHANGED <<request, consent, devices, token, used, given, bounds, history>>

AcceptRequest(h) ==
    /\ req[h].pc = "write" /\ Phase(h) = "accept"
    /\ IF request[req[h].q].st # "live" THEN Done(h) /\ UNCHANGED <<request, minted>>
       ELSE /\ Mint
            /\ request' = [request EXCEPT ![req[h].q] =
                             [req[h].data EXCEPT !.did = TRUE, !.code = minted']]
            /\ req' = [req EXCEPT ![h] = [pc |-> "answer", q |-> @.q, kind |-> @.kind,
                                          code |-> minted']]
    /\ UNCHANGED <<consent, devices, signedIn, token, used, given, nonces, now, faults, history>>

\* delete_request.
Erased(q) == [request EXCEPT ![q] = [NoRequest EXCEPT !.st = "gone"]]

RejectRequest(h) ==
    /\ req[h].pc = "write" /\ Phase(h) = "reject"
    /\ IF request[req[h].q].st # "live" THEN Done(h) /\ UNCHANGED request
       ELSE request' = Erased(req[h].q) /\ Advance(h)
    /\ UNCHANGED <<consent, devices, signedIn, token, used, given, bounds, history>>

\* A page answers with the fresh nonce.
AnswerPage(h) ==
    /\ req[h].pc = "answer" /\ req[h].kind \notin {"accept", "reject"} /\ Done(h)
    /\ revealed' = [revealed EXCEPT ![req[h].q] = @ \cup {req[h].fresh}]
    /\ UNCHANGED <<rows, codes, refreshes, bounds, history>>

\* accept and reject drop the nonce, whose failure they ignore, and answer with
\* the redirect.
AnswerRedirect(h) ==
    /\ req[h].pc = "answer" /\ req[h].kind \in {"accept", "reject"} /\ Done(h)
    /\ \/ consent' = [consent EXCEPT ![req[h].q] = NoConsent] /\ UNCHANGED faults
       \/ faults < MaxFaults /\ faults' = faults + 1 /\ UNCHANGED consent
    /\ codes' = IF req[h].kind = "accept" THEN codes \cup {req[h].code} ELSE codes
    /\ UNCHANGED <<request, devices, signedIn, token, used, revealed, refreshes, nonces, minted,
                   now, history>>

-----------------------------------------------------------------------------
(***************************************************************************)
(* The token endpoint: a code is exchanged.                                *)
(***************************************************************************)
Holder(c) == {q \in Requests : request[q].st = "live" /\ request[q].code = c}

\* Mutation of Taken: the row is read and stays.
TakenNot(c) == request

\* What consume_request_code leaves: DELETE ... RETURNING by code.
Taken(c) ==
    [q \in Requests |-> IF q \in Holder(c) THEN [NoRequest EXCEPT !.st = "gone"] ELSE request[q]]

ConsumeCode(h, c) ==
    /\ req[h] = Idle
    /\ request' = Taken(c)
    /\ consumed' = IF Holder(c) # {} THEN consumed \cup {c} ELSE consumed
    /\ req' = [req EXCEPT ![h] = [pc |-> IF Holder(c) # {} THEN "grant" ELSE "by_code",
                                  code |-> c]]
    /\ UNCHANGED <<consent, devices, signedIn, token, used, given, bounds, grants, rotations,
                   revoked>>

\* create_token, one transaction.
CreateToken(h) ==
    /\ req[h].pc = "grant" /\ Done(h) /\ Mint
    /\ token' = [token EXCEPT ![minted'] = [id |-> minted', refresh |-> minted',
                                            code |-> req[h].code]]
    /\ refreshes' = refreshes \cup {minted'}
    /\ grants' = grants \cup {<<req[h].code, minted'>>}
    /\ UNCHANGED <<request, consent, devices, signedIn, used, revealed, codes, nonces, now, faults,
                   consumed, rotations, revoked>>

Rows(k) == {i \in Keys : token[i] # NoToken /\ token[i].id = k}

\* A code that is gone: the token it was exchanged for, if any, is to go too.
FindTokenByCode(h) ==
    /\ req[h].pc = "by_code"
    /\ \/ \E i \in Keys : /\ token[i].code = req[h].code
                          /\ req' = [req EXCEPT ![h] = [pc |-> "delete", id |-> token[i].id]]
       \/ (\A i \in Keys : token[i].code # req[h].code) /\ Done(h)
    /\ UNCHANGED <<rows, given, bounds, history>>

(***************************************************************************)
(* A refresh token is rotated or revoked.                                  *)
(***************************************************************************)
\* find_token_by_refresh_token: the used tokens in one statement ...
LookupUsed(h, r, grant) ==
    /\ req[h] = Idle
    /\ req' = [req EXCEPT ![h] = [pc |-> "lookup", r |-> r, grant |-> grant,
                                  pks |-> {u.pk : u \in {v \in used : v.refresh = r}}]]
    /\ UNCHANGED <<rows, given, bounds, history>>

\* The two endpoints that begin so.
Refresh(h, r) == LookupUsed(h, r, "refresh")
Revoke(h, r) == LookupUsed(h, r, "revoke")

\* ... and the token row in the next, by key if the token was used before.
Found(h) ==
    IF req[h].pks # {} THEN {i \in req[h].pks : token[i] # NoToken}
    ELSE {i \in Keys : token[i].refresh = req[h].r}

LookupToken(h) ==
    /\ req[h].pc = "lookup"
    /\ \/ \E i \in Found(h) :
            req' = [req EXCEPT ![h] =
                      [pc |-> IF req[h].grant = "refresh" /\ token[i].refresh = req[h].r
                              THEN "rotate" ELSE "delete",
                       id |-> token[i].id]]
       \/ Found(h) = {} /\ Done(h)
    /\ UNCHANGED <<rows, given, bounds, history>>

\* rotate_token reads the row by its token id ...
RotateRead(h) ==
    /\ req[h].pc = "rotate"
    /\ \/ \E i \in Rows(req[h].id) :
            req' = [req EXCEPT ![h] = [pc |-> "rotate_write", pk |-> i,
                                       refresh |-> token[i].refresh]]
       \/ Rows(req[h].id) = {} /\ Done(h)
    /\ UNCHANGED <<rows, given, bounds, history>>

\* Mutation of RowThere: neither the foreign key nor the UPDATE notices.
RowThereAlways(pk) == TRUE

\* The foreign key of used_refresh_token and the UPDATE by key need the row.
RowThere(pk) == token[pk] # NoToken

\* ... and records the old refresh token, which is unique and refers to the row;
\* when that fails the transaction is undone.
Recorded(pk, r) ==
    IF ~RowThere(pk) \/ \E u \in used : u.refresh = r THEN {}
    ELSE {used \cup {[refresh |-> r, pk |-> pk]}}

RotateWrite(h) ==
    /\ req[h].pc = "rotate_write" /\ Done(h)
    /\ LET pk == req[h].pk
           r == req[h].refresh
       IN  \/ /\ RowThere(pk) /\ Mint
              /\ used' \in Recorded(pk, r)
              /\ token' = [token EXCEPT ![pk].id = minted', ![pk].refresh = minted']
              /\ refreshes' = refreshes \cup {minted'}
              /\ rotations' = rotations \cup {<<r, minted'>>}
           \/ /\ ~RowThere(pk) \/ Recorded(pk, r) = {}
              /\ UNCHANGED <<used, token, refreshes, rotations, minted>>
    /\ UNCHANGED <<request, consent, devices, signedIn, revealed, codes, nonces, now, faults,
                   consumed, grants, revoked>>

\* delete_token by token id: the used tokens go with the row; an id that was
\* rotated away in the meantime deletes nothing.
DeleteToken(h) ==
    /\ req[h].pc = "delete" /\ Done(h)
    /\ LET gone == Rows(req[h].id)
       IN  /\ token' = [i \in Keys |-> IF i \in gone THEN NoToken ELSE token[i]]
           /\ used' = {u \in used : u.pk \notin gone}
           /\ revoked' = revoked \cup gone
    /\ UNCHANGED <<request, consent, devices, signedIn, given, bounds, consumed, grants, rotations>>

-----------------------------------------------------------------------------
Tick ==
    /\ now < MaxNow /\ now' = now + 1
    /\ UNCHANGED <<rows, given, req, nonces, minted, faults, history>>

Consent(h) ==
    \/ \E q \in Requests, kind \in Kinds, d \in Devices : StartStep(h, q, kind, d)
    \/ ReadRequest(h) \/ UpdateRequest(h) \/ SignUp(h) \/ SignIn(h) \/ AcceptRequest(h) \/ RejectRequest(h)
    \/ AnswerPage(h) \/ AnswerRedirect(h)

Tokens(h) ==
    \/ \E c \in codes : ConsumeCode(h, c)
    \/ CreateToken(h) \/ FindTokenByCode(h)
    \/ \E r \in refreshes : Refresh(h, r) \/ Revoke(h, r)
    \/ LookupToken(h) \/ RotateRead(h) \/ RotateWrite(h) \/ DeleteToken(h)

Next ==
    \/ Tick
    \/ \E q \in Requests : PushRequest(q) \/ Authorize(q)
    \/ \E d \in Devices : EnsureDevice(d)
    \/ \E h \in Handlers : Fail(h) \/ Consent(h) \/ Tokens(h)

Spec == Init /\ [][Next]_vars

-----------------------------------------------------------------------------
\* The shape of the tables.  No refresh token is both current and used.
TypeOK ==
    /\ \A q \in Requests :
         /\ request[q].device \in Devices \cup {NoDevice}
         /\ request[q].code \in 0..minted /\ request[q].until \in 0..(now + Window)
         /\ (request[q].code # 0) = request[q].did
         /\ consent[q] \in [state: 0..nonces, until: 0..(now + Window)]
         /\ revealed[q] \subseteq 1..nonces
    /\ signedIn \subseteq devices
    /\ \A k \in Keys : {token[k].id, token[k].refresh, token[k].code} \subseteq 0..minted
    /\ \A u \in used : \A k \in Keys : token[k].refresh # u.refresh

InStep(h, q) == req[h].pc \in {"read", "write", "authenticate", "answer"} /\ req[h].q = q

\* Whatever the remote client sends at once, and whichever answers are lost, the
\* nonce lets one consent step at a time through for each request, although a
\* step reads the request and writes it back in separate statements.
StepsSerialize ==
    \A q \in Requests : Cardinality({h \in Handlers : InStep(h, q)}) <= 1

\* A code that was handed to a client stays exchangeable until it is exchanged:
\* no later or concurrent consent step replaces or erases it.
CodeSurvives == \A c \in codes \ consumed : Holder(c) # {}

\* A code is exchanged for one token row at most, however often it is presented.
CodeSpentOnce == \A g, f \in grants : g[1] = f[1] => g = f

\* A refresh token has one successor at most, however often it is presented.
RefreshSpentOnce == \A a, b \in rotations : a[1] = b[1] => a = b

\* A token row that was revoked, by its client or because a spent code or token
\* was presented again, does not come back through a rotation under way.
RevokedIsGone == \A k \in revoked : token[k] = NoToken

\* The consent page of a request is answered one step at a time, and its row
\* has its code exactly when it has its account.
ConsentConsistent == TypeOK /\ StepsSerialize

\* What may be exchanged once is exchanged once, code and refresh token alike,
\* with requests that race and requests that are retried.
SpentOnce == CodeSpentOnce /\ RefreshSpentOnce
=============================================================================
