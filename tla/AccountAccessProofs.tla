------------------------ MODULE AccountAccessProofs ------------------------
(***************************************************************************)
(* Two components that decide about an account: the guards that let a      *)
(* request act for it, and its life from createAccount to deleteAccount.   *)
(*                                                                         *)
(* The guards.  For every number of requests and threads and whatever the  *)
(* clients present: a request is judged by its own context, a proof is     *)
(* accepted once while it is fresh, and a guard admits what it says.       *)
(*                                                                         *)
(* The life of an account, from CreatePcs on.  For every number of         *)
(* requests, dids, handles and codes: an account that was answered for is  *)
(* whole, one that was deleted is forgotten, an invite code is not used    *)
(* more often than it may be, and nobody gets more codes than intervals    *)
(* have passed.  The invariant follows a request from place to place       *)
(* (Reached): as long as nobody else works on the did, what the steps      *)
(* before have made is still there.                                        *)
(***************************************************************************)
EXTENDS Access, Accounts, FiniteSetTheorems, TLAPS

JobState == [pc : Pcs, req : Presented \cup {None}, ext : Extractors \cup {None},
             seen : Contexts \cup {None}, now : 0..MaxClock, down : BOOLEAN,
             granted : BOOLEAN]

(* A guard that takes full access only has been given a password session. *)
Entitled(j) ==
    j.ext.kind = "access" /\ j.ext.scopes = {"Access"}
        => j.req.auth \in [scheme : {"bearer"}, scope : {"Access"}, state : {"good"}]

(* A guard that asks for an admin scope has been given a configured secret. *)
Configured(j) ==
    j.ext.kind = "admin" /\ j.ext.scopes # {} =>
        LET a == j.req.auth IN
        \/ \E t \in env.tokens :
             /\ a.name = t.name /\ a.secret = t.secret /\ t.secret # ""
             /\ t.scopes = {} \/ "Wildcard" \in t.scopes \/ j.ext.scopes \subseteq t.scopes
        \/ env.password /\ \A t \in env.tokens : t.secret = ""

(* What is known of a request on its way through validate_access.  It is   *)
(* entitled to what it will be granted before the status of the account is *)
(* read, and `down` is about the account as it is.                         *)
JobOK(j) ==
    /\ j.pc = "idle" => ~j.granted
    /\ j.pc # "idle" => j.req \in Presented /\ j.ext \in Extractors
    /\ j.pc \in {"route", "verify", "status", "clear"} => ViaAccess(j.req, j.ext)
    /\ j.pc \in {"route", "verify", "status"} => ~j.granted
    /\ j.pc = "verify" => j.seen \in Contexts
    /\ j.pc = "status" => Entitled(j)
    /\ j.seen # None => j.seen = ContextOf(j.req)
    /\ j.down => account.takendown
    /\ j.granted => Entitled(j) /\ Configured(j) /\ (j.ext.takedown => ~j.down)

(* A thread polls one request, a request is polled by one thread, and what *)
(* the thread-local holds when the verifier reads it is that request's.    *)
Polling ==
    /\ \A t, u \in Threads : running[t] = running[u] /\ running[t] # None => t = u
    /\ \A t \in Threads : \A r \in Requests :
         running[t] = r /\ job[r].pc = "route" => ctx[t] = ContextOf(job[r].req)

(* A proof that was accepted while fresh has its row until it is stale.    *)
Used == \A p \in Proofs :
          /\ accepted[p] <= 1
          /\ accepted[p] = 1 => replay[p] = Expires[p] \/ clock > Expires[p]

Inv == TypeOK /\ Polling /\ Used /\ \A r \in Requests : JobOK(job[r])

-----------------------------------------------------------------------------
(* The part of TypeOK that says which requests are polled. *)
Polled ==
    \A r \in Requests : (\E t \in Threads : running[t] = r) <=> job[r].pc \in {"route", "clear"}

(* The types, without it. *)
Types ==
    /\ ctx \in [Threads -> Contexts \cup {None}]
    /\ running \in [Threads -> Requests \cup {None}]
    /\ job \in [Requests -> JobState]
    /\ \A p \in Proofs : replay[p] \in {None, Expires[p]}
    /\ DOMAIN replay = Proofs
    /\ account \in [takendown : BOOLEAN, deactivated : BOOLEAN]
    /\ env \in Envs
    /\ clock \in 0..MaxClock
    /\ accepted \in [Proofs -> 0..2]

LEMMA Parts == TypeOK <=> Types /\ Polled
BY DEF TypeOK, Types, Polled, JobState

(* The fields of a request. *)
LEMMA JobParts ==
    ASSUME NEW j \in JobState
    PROVE  /\ j.pc \in Pcs /\ j.req \in Presented \cup {None}
           /\ j.ext \in Extractors \cup {None} /\ j.seen \in Contexts \cup {None}
           /\ j.now \in 0..MaxClock /\ j.down \in BOOLEAN /\ j.granted \in BOOLEAN
BY DEF JobState

(* A guard: only the guards of a session check the account, and what they  *)
(* ask for is not an admin scope.                                          *)
LEMMA GuardParts ==
    ASSUME NEW e \in Extractors
    PROVE  /\ e.takedown \in BOOLEAN /\ e.deactivated \in BOOLEAN
           /\ e.kind # "access" => ~e.takedown
<1>1. \/ \E S : \E t, d \in BOOLEAN : e = Access(S, t, d)
      \/ \E k, S : e = Other(k, S)
  BY GuardsAssumption, Zenon DEF AccessStandard, AccessFull, AccessPrivileged,
     AccessStandardIncludeChecks, AccessStandardCheckTakedown, AccessFullImport,
     AccessStandardSignupQueued, Refresh, RevokeRefreshToken, AdminToken,
     RequireInviteAdmin, RequireAccountAdmin, RequireTakedownAdmin, Moderator,
     OptionalAccessOrAdminToken, UserDidAuth, UserDidAuthOptional
<1>2. ASSUME NEW S, NEW t \in BOOLEAN, NEW d \in BOOLEAN, e = Access(S, t, d)
      PROVE  e.kind = "access" /\ e.takedown \in BOOLEAN /\ e.deactivated \in BOOLEAN
  BY <1>2 DEF Access
<1>3. ASSUME NEW k, NEW S, e = Other(k, S)
      PROVE  ~e.takedown /\ e.takedown \in BOOLEAN /\ e.deactivated \in BOOLEAN
  BY <1>3 DEF Other
<1> QED
  BY <1>1, <1>2, <1>3

(* What a client presents. *)
LEMMA OfferParts ==
    ASSUME NEW o \in Offered
    PROVE  /\ o[1] \in Presented /\ o[2] \in Extractors
           /\ ContextOf(o[1]) \in Contexts
BY OfferedAssumption DEF Presented, Extractors, ContextOf, Contexts

LEMMA IdleOK == Idle \in JobState /\ JobOK(Idle) /\ Idle.pc = "idle"
<1>1. 0 \in 0..MaxClock
  BY NoneAssumption
<1>2. Idle \in JobState
  BY <1>1 DEF Idle, JobState, Pcs
<1>3. JobOK(Idle)
  BY DEF Idle, JobOK
<1> QED
  BY <1>2, <1>3 DEF Idle

(* One request changes. *)
LEMMA JobChanges ==
    ASSUME Inv, NEW r \in Requests, NEW j \in JobState, JobOK(j),
           job' = [job EXCEPT ![r] = j], UNCHANGED <<account, env>>
    PROVE  /\ job' \in [Requests -> JobState]
           /\ \A q \in Requests : JobOK(job[q])'
           /\ \A q \in Requests : job'[q] = IF q = r THEN j ELSE job[q]
<1>1. job \in [Requests -> JobState]
  BY Parts DEF Inv, Types
<1>2. job' \in [Requests -> JobState]
  BY <1>1
<1>3. \A q \in Requests : job'[q] = IF q = r THEN j ELSE job[q]
  BY <1>1
<1>4. \A q \in Requests : JobOK(job'[q])
  BY <1>3 DEF Inv
<1>5. \A q \in Requests : JobOK(job[q])'
  BY <1>4 DEF JobOK, Configured, Entitled
<1> QED
  BY <1>2, <1>3, <1>5

(* It is polled as it was, by the same thread or by none. *)
LEMMA Stays ==
    ASSUME Inv, NEW r \in Requests, NEW j \in JobState, JobOK(j),
           job' = [job EXCEPT ![r] = j], UNCHANGED <<account, env, ctx, running>>,
           j.pc # "route", j.pc = "clear" <=> job[r].pc \in {"route", "clear"}
    PROVE  Polling' /\ Polled' /\ ctx' \in [Threads -> Contexts \cup {None}]
           /\ running' \in [Threads -> Requests \cup {None}]
<1>1. \A q \in Requests : job'[q] = IF q = r THEN j ELSE job[q]
  BY JobChanges
<1>2. Polling'
  BY <1>1 DEF Inv, Polling
<1>3. Polled'
  BY <1>1, Parts DEF Inv, Polled
<1> QED
  BY <1>2, <1>3, Parts DEF Inv, Types

(* The thread lets go of it. *)
LEMMA Releases ==
    ASSUME Inv, NEW r \in Requests, NEW j \in JobState, JobOK(j),
           job' = [job EXCEPT ![r] = j], UNCHANGED <<account, env>>,
           NEW t \in Threads, running[t] = r, running' = [running EXCEPT ![t] = None],
           ctx' = ctx \/ ctx' = [ctx EXCEPT ![t] = None],
           j.pc \notin {"route", "clear"}
    PROVE  Polling' /\ Polled' /\ ctx' \in [Threads -> Contexts \cup {None}]
           /\ running' \in [Threads -> Requests \cup {None}]
<1>1. \A q \in Requests : job'[q] = IF q = r THEN j ELSE job[q]
  BY JobChanges
<1>2. /\ running \in [Threads -> Requests \cup {None}]
      /\ ctx \in [Threads -> Contexts \cup {None}]
  BY Parts DEF Inv, Types
<1>3. /\ \A u \in Threads : running'[u] = IF u = t THEN None ELSE running[u]
      /\ \A u \in Threads : u # t => ctx'[u] = ctx[u]
      /\ running' \in [Threads -> Requests \cup {None}]
      /\ ctx' \in [Threads -> Contexts \cup {None}]
  BY <1>2
<1>4. None \notin Requests
  BY NoneAssumption
<1>5. \A u \in Threads : running[u] = r => u = t
  BY <1>4 DEF Inv, Polling
<1>6. Polling'
  BY <1>1, <1>3, <1>4, <1>5 DEF Inv, Polling
<1>7. Polled
  BY Parts DEF Inv
<1>8. ASSUME NEW q \in Requests
      PROVE  (\E u \in Threads : running'[u] = q) <=> job'[q].pc \in {"route", "clear"}
  <2>1. CASE q = r
    BY <1>1, <1>3, <1>4, <1>5, <2>1
  <2>2. CASE q # r
    BY <1>1, <1>3, <1>4, <1>7, <2>2 DEF Polled
  <2> QED
    BY <2>1, <2>2
<1>9. Polled'
  BY <1>8 DEF Polled
<1> QED
  BY <1>3, <1>6, <1>9

(* A free thread takes it up. *)
LEMMA Takes ==
    ASSUME Inv, NEW r \in Requests, NEW j \in JobState, JobOK(j),
           job' = [job EXCEPT ![r] = j], UNCHANGED <<account, env>>,
           NEW t \in Threads, running[t] = None, running' = [running EXCEPT ![t] = r],
           job[r].pc \notin {"route", "clear"}, j.pc \in {"route", "clear"},
           \/ j.pc = "clear" /\ ctx' = ctx
           \/ ContextOf(j.req) \in Contexts /\ ctx' = [ctx EXCEPT ![t] = ContextOf(j.req)]
    PROVE  Polling' /\ Polled' /\ ctx' \in [Threads -> Contexts \cup {None}]
           /\ running' \in [Threads -> Requests \cup {None}]
<1>1. \A q \in Requests : job'[q] = IF q = r THEN j ELSE job[q]
  BY JobChanges
<1>2. /\ running \in [Threads -> Requests \cup {None}]
      /\ ctx \in [Threads -> Contexts \cup {None}]
  BY Parts DEF Inv, Types
<1>3. /\ \A u \in Threads : running'[u] = IF u = t THEN r ELSE running[u]
      /\ \A u \in Threads : u # t => ctx'[u] = ctx[u]
      /\ j.pc = "route" => ctx'[t] = ContextOf(j.req)
      /\ running' \in [Threads -> Requests \cup {None}]
      /\ ctx' \in [Threads -> Contexts \cup {None}]
  BY <1>2
<1>4. None \notin Requests
  BY NoneAssumption
<1>5. Polled
  BY Parts DEF Inv
<1>6. \A u \in Threads : running[u] # r
  BY <1>5 DEF Polled
<1>7. Polling'
  BY <1>1, <1>3, <1>4, <1>6 DEF Inv, Polling
<1>8. ASSUME NEW q \in Requests
      PROVE  (\E u \in Threads : running'[u] = q) <=> job'[q].pc \in {"route", "clear"}
  <2>1. CASE q = r
    BY <1>1, <1>3, <2>1
  <2>2. CASE q # r
    BY <1>1, <1>3, <1>4, <1>5, <2>2 DEF Polled
  <2> QED
    BY <2>1, <2>2
<1>9. Polled'
  BY <1>8 DEF Polled
<1> QED
  BY <1>3, <1>7, <1>9

(* The invariant after a step of one request, put together. *)
LEMMA Together ==
    ASSUME Inv, NEW r \in Requests, NEW j \in JobState, JobOK(j),
           job' = [job EXCEPT ![r] = j], UNCHANGED <<account, env, clock>>,
           Polling' /\ Polled' /\ ctx' \in [Threads -> Contexts \cup {None}]
           /\ running' \in [Threads -> Requests \cup {None}],
           Used', \A p \in Proofs : replay'[p] \in {None, Expires[p]},
           DOMAIN replay' = Proofs, accepted' \in [Proofs -> 0..2]
    PROVE  Inv'
<1>1. job' \in [Requests -> JobState] /\ \A q \in Requests : JobOK(job[q])'
  BY JobChanges
<1>2. Types'
  BY <1>1, Parts DEF Inv, Types
<1>3. TypeOK'
  BY <1>2 DEF TypeOK, Types, Polled, JobState
<1> QED
  BY <1>1, <1>3 DEF Inv

(* The table of proofs stays. *)
LEMMA SameProofs ==
    ASSUME Inv, UNCHANGED <<replay, clock, accepted>>
    PROVE  /\ Used' /\ \A p \in Proofs : replay'[p] \in {None, Expires[p]}
           /\ DOMAIN replay' = Proofs /\ accepted' \in [Proofs -> 0..2]
BY Parts DEF Inv, Types, Used

-----------------------------------------------------------------------------
(* A request that has arrived. *)
LEMMA ArrivedOK ==
    ASSUME NEW j \in JobState, j.seen = None, j.pc \in {"route", "done"},
           j.req \in Presented, j.ext \in Extractors, j.down => account.takendown,
           j.pc = "route" => ViaAccess(j.req, j.ext) /\ ~j.granted,
           j.granted => Entitled(j) /\ Configured(j) /\ ~j.ext.takedown
    PROVE  JobOK(j)
BY DEF JobOK

LEMMA ValidateAccessInv ==
    ASSUME Inv, NEW r \in Requests, NEW t \in Threads, NEW o \in Offered,
           ValidateAccess(r, t, o[1], o[2])
    PROVE  Inv'
<1> DEFINE q == o[1]
           e == o[2]
           d == e.takedown /\ account.takendown
<1>1. PICK j : j = [Idle EXCEPT !.pc = "route", !.req = q, !.ext = e, !.down = d]
  OBVIOUS
<1>0. job' = [job EXCEPT ![r] = j]
  BY <1>1 DEF ValidateAccess, Arrived
<1>3. q \in Presented /\ e \in Extractors /\ ContextOf(q) \in Contexts /\ ViaAccess(q, e)
  BY OfferParts DEF ValidateAccess
<1>4. /\ ctx' = [ctx EXCEPT ![t] = ContextOf(q)] /\ running' = [running EXCEPT ![t] = r]
      /\ job[r].pc = "idle" /\ running[t] = None
      /\ UNCHANGED <<replay, account, env, clock, accepted>>
  BY DEF ValidateAccess, SetContext
<1>5. d \in BOOLEAN /\ (d => account.takendown)
  OBVIOUS
<1> HIDE DEF q, e, d
<1>2. /\ j.pc = "route" /\ j.req = q /\ j.ext = e /\ j.seen = None
      /\ j.down = d /\ j.granted = FALSE /\ j \in JobState
  <2>1. Idle = [pc |-> "idle", req |-> None, ext |-> None, seen |-> None, now |-> 0,
                down |-> FALSE, granted |-> FALSE]
    BY DEF Idle
  <2>2. 0 \in 0..MaxClock /\ "route" \in Pcs
    BY NoneAssumption DEF Pcs
  <2> QED
    BY <1>1, <1>3, <1>5, <2>1, <2>2 DEF JobState
<1>6. JobOK(j)
  BY <1>2, <1>3, <1>5, ArrivedOK
<1>7. Polling' /\ Polled' /\ ctx' \in [Threads -> Contexts \cup {None}]
      /\ running' \in [Threads -> Requests \cup {None}]
  BY <1>0, <1>2, <1>3, <1>4, <1>6, Takes
<1> QED
  BY <1>0, <1>2, <1>4, <1>6, <1>7, SameProofs, Together

(* The guards that decide at once. *)
LEMMA DecideInv ==
    ASSUME Inv, NEW r \in Requests, NEW q \in Presented, NEW e \in Extractors,
           NEW granted \in BOOLEAN, Decide(r, q, e, granted), e.kind # "access",
           granted /\ e.kind = "admin" => VerifyAdminToken(q.auth, e)
    PROVE  Inv'
<1> DEFINE d == e.takedown /\ account.takendown
<1>1. PICK j : j = [Idle EXCEPT !.pc = "done", !.req = q, !.ext = e, !.down = d,
                                !.granted = granted]
  OBVIOUS
<1>2. /\ job' = [job EXCEPT ![r] = j] /\ job[r].pc = "idle"
      /\ UNCHANGED <<ctx, running, replay, account, env, clock, accepted>>
  BY <1>1 DEF Decide
<1>3. ~e.takedown /\ d \in BOOLEAN /\ (d => account.takendown)
  BY GuardParts
<1> HIDE DEF d
<1>4. /\ j.pc = "done" /\ j.req = q /\ j.ext = e /\ j.seen = None
      /\ j.down = d /\ j.granted = granted /\ j \in JobState
  <2>1. Idle = [pc |-> "idle", req |-> None, ext |-> None, seen |-> None, now |-> 0,
                down |-> FALSE, granted |-> FALSE]
    BY DEF Idle
  <2>2. 0 \in 0..MaxClock /\ "done" \in Pcs
    BY NoneAssumption DEF Pcs
  <2> QED
    BY <1>1, <1>3, <2>1, <2>2 DEF JobState
<1>5. granted => Configured(j)
  <2> SUFFICES ASSUME granted, e.kind = "admin", e.scopes # {} PROVE Configured(j)
    BY <1>4 DEF Configured
  <2> DEFINE a == q.auth
             keyed == {x \in env.tokens : x.secret # ""}
             named == { [x EXCEPT !.scopes = IF @ = {} THEN {"Wildcard"} ELSE FromEnvValue(@)] :
                        x \in keyed }
  <2>1. PICK t \in FromEnv : t.name = a.name /\ t.secret = a.secret /\ RequireAdminScope(t, e)
    BY DEF VerifyAdminToken, Lookup
  <2>2. env.tokens \subseteq [name : STRING, secret : STRING, scopes : SUBSET STRING]
    BY EnvsAssumption, Parts DEF Inv, Types
  <2>3. FromEnv = IF named = {} /\ env.password
                  THEN {[name |-> "admin", secret |-> "password", scopes |-> {"Wildcard"}]}
                  ELSE named
    BY DEF FromEnv
  <2>4. CASE named = {} /\ env.password
    <3>1. \A x \in env.tokens : x.secret = ""
      BY <2>4
    <3> QED
      BY <1>4, <2>4, <3>1 DEF Configured
  <2>5. CASE t \in named
    <3>1. PICK x \in keyed :
            t = [x EXCEPT !.scopes = IF @ = {} THEN {"Wildcard"} ELSE FromEnvValue(@)]
      BY <2>5
    <3>2. /\ x \in env.tokens /\ x.secret # "" /\ t.name = x.name /\ t.secret = x.secret
          /\ t.scopes = IF x.scopes = {} THEN {"Wildcard"} ELSE FromEnvValue(x.scopes)
      BY <2>2, <3>1
    <3>3. x.scopes = {} \/ t.scopes \subseteq x.scopes
      BY <3>2 DEF FromEnvValue
    <3>4. "Wildcard" \in t.scopes \/ e.scopes \subseteq t.scopes
      BY <2>1 DEF RequireAdminScope, Contains
    <3>5. x.scopes = {} \/ "Wildcard" \in x.scopes \/ e.scopes \subseteq x.scopes
      BY <3>3, <3>4
    <3> QED
      BY <1>4, <2>1, <3>2, <3>5 DEF Configured
  <2> QED
    BY <2>1, <2>3, <2>4, <2>5
<1>6. Entitled(j)
  BY <1>4 DEF Entitled
<1>7. JobOK(j) /\ j.pc = "done"
  BY <1>3, <1>4, <1>5, <1>6, ArrivedOK
<1>8. Polling' /\ Polled' /\ ctx' \in [Threads -> Contexts \cup {None}]
      /\ running' \in [Threads -> Requests \cup {None}]
  BY <1>2, <1>4, <1>7, Stays
<1> QED
  BY <1>2, <1>4, <1>7, <1>8, SameProofs, Together

LEMMA ArriveInv ==
    ASSUME Inv, NEW r \in Requests, NEW o \in Offered, Arrive(r, o[1], o[2])
    PROVE  Inv'
<1> DEFINE q == o[1]
           e == o[2]
<1>1. q \in Presented /\ e \in Extractors
  BY OfferParts
<1>2. CASE \E t \in Threads : ValidateAccess(r, t, q, e)
  BY <1>2, ValidateAccessInv
<1> HIDE DEF q, e
<1>3. CASE ExtractRefresh(r, q, e)
  <2>1. ValidateRefreshToken(q.auth) \in BOOLEAN
    BY DEF ValidateRefreshToken, ValidateBearerToken
  <2> QED
    BY <1>1, <1>3, <2>1, DecideInv DEF ExtractRefresh
<1>4. CASE ExtractAdmin(r, q, e)
  <2>1. VerifyAdminToken(q.auth, e) \in BOOLEAN
    BY DEF VerifyAdminToken
  <2> QED
    BY <1>1, <1>4, <2>1, DecideInv DEF ExtractAdmin
<1>5. CASE ExtractModerator(r, q, e)
  <2> DEFINE g == (q.auth # None => q.auth.scheme # "bearer") /\ VerifyAdminToken(q.auth, e)
  <2>1. g \in BOOLEAN /\ e.kind = "moderator" /\ Decide(r, q, e, g)
    BY <1>5 DEF ExtractModerator
  <2> HIDE DEF g
  <2> QED
    BY <1>1, <2>1, DecideInv
<1>6. CASE ExtractOptional(r, q, e)
  <2> DEFINE g == q.auth = None \/ VerifyAdminToken(q.auth, e)
  <2>1. g \in BOOLEAN /\ e.kind = "optional" /\ Decide(r, q, e, g)
    BY <1>6 DEF ExtractOptional
  <2> HIDE DEF g
  <2> QED
    BY <1>1, <2>1, DecideInv
<1>7. CASE ExtractUserDid(r, q, e)
  <2>1. e.kind = "user" /\ Decide(r, q, e, FALSE)
    BY <1>7 DEF ExtractUserDid, VerifyUserDidToken
  <2> QED
    BY <1>1, <2>1, DecideInv
<1>8. CASE ExtractUserDidOptional(r, q, e)
  <2> DEFINE g == (q.auth # None => q.auth.scheme # "bearer") \/ VerifyUserDidToken(q)
  <2>1. g \in BOOLEAN /\ e.kind = "userOptional" /\ Decide(r, q, e, g)
    BY <1>8 DEF ExtractUserDidOptional
  <2> HIDE DEF g
  <2> QED
    BY <1>1, <2>1, DecideInv
<1> QED
  BY <1>2, <1>3, <1>4, <1>5, <1>6, <1>7, <1>8 DEF Arrive, q, e

-----------------------------------------------------------------------------
(* The request leaves validate_access with an answer. *)
LEMMA Left ==
    ASSUME Inv, NEW r \in Requests, NEW granted \in BOOLEAN, Leave(r, granted)
    PROVE  \E j \in JobState :
             /\ job' = [job EXCEPT ![r] = j] /\ j.pc = "clear" /\ j.granted = granted
             /\ j.req = job[r].req /\ j.ext = job[r].ext /\ j.seen = job[r].seen
             /\ j.down = job[r].down
<1>1. job \in [Requests -> JobState] /\ job[r] \in JobState
  BY Parts DEF Inv, Types
<1>2. PICK j : j = [job[r] EXCEPT !.pc = "clear", !.granted = granted]
  OBVIOUS
<1>3. job' = [job EXCEPT ![r] = j]
  BY <1>1, <1>2 DEF Leave
<1>4. /\ j \in JobState /\ j.pc = "clear" /\ j.granted = granted
      /\ j.req = job[r].req /\ j.ext = job[r].ext /\ j.seen = job[r].seen
      /\ j.down = job[r].down
  BY <1>1, <1>2 DEF JobState, Pcs
<1> QED
  BY <1>3, <1>4

(* It may be let in when it is entitled to what the guard asks, and the    *)
(* account is up where the guard looks.                                    *)
LEMMA LeftOK ==
    ASSUME Inv, NEW r \in Requests, job[r].pc \in {"route", "verify", "status"},
           NEW j \in JobState, j.pc = "clear", j.req = job[r].req, j.ext = job[r].ext,
           j.seen = job[r].seen, j.down = job[r].down,
           j.granted => Entitled(job[r]) /\ (job[r].ext.takedown => ~job[r].down)
    PROVE  JobOK(j)
<1>1. JobOK(job[r])
  BY DEF Inv
<1>2. ViaAccess(j.req, j.ext) /\ j.req \in Presented /\ j.ext \in Extractors
  BY <1>1 DEF JobOK
<1>3. Configured(j)
  BY <1>2 DEF ViaAccess, Configured
<1>4. j.granted => Entitled(j)
  BY DEF Entitled
<1> QED
  BY <1>1, <1>2, <1>3, <1>4 DEF JobOK

(* It goes on without the thread, to have the status of the account read.  *)
LEMMA Goes ==
    ASSUME Inv, NEW r \in Requests, job' = [job EXCEPT ![r].pc = "status"],
           job[r].pc \in {"route", "verify"}, Entitled(job[r])
    PROVE  \E j \in JobState :
             job' = [job EXCEPT ![r] = j] /\ j.pc = "status" /\ JobOK(j)
<1>1. job \in [Requests -> JobState] /\ job[r] \in JobState /\ JobOK(job[r])
  BY Parts DEF Inv, Types
<1>2. PICK j : j = [job[r] EXCEPT !.pc = "status"]
  OBVIOUS
<1>3. job' = [job EXCEPT ![r] = j]
  BY <1>1, <1>2
<1>4. /\ j \in JobState /\ j.pc = "status" /\ j.granted = job[r].granted
      /\ j.req = job[r].req /\ j.ext = job[r].ext /\ j.seen = job[r].seen
      /\ j.down = job[r].down
  BY <1>1, <1>2 DEF JobState, Pcs
<1>5. Entitled(j)
  BY <1>4 DEF Entitled
<1>6. JobOK(j)
  BY <1>1, <1>4, <1>5 DEF JobOK
<1> QED
  BY <1>3, <1>4, <1>6

(* An answer in the poll in which the request was routed. *)
LEMMA LeavesPolled ==
    ASSUME Inv, NEW r \in Requests, NEW t \in Threads, NEW granted \in BOOLEAN,
           job[r].pc = "route", running[t] = r, Leave(r, granted), Holds(r, t),
           granted => Entitled(job[r]) /\ (job[r].ext.takedown => ~job[r].down),
           UNCHANGED <<ctx, replay, account, env, clock, accepted>>
    PROVE  Inv'
<1>1. PICK j \in JobState :
        /\ job' = [job EXCEPT ![r] = j] /\ j.pc = "clear" /\ j.granted = granted
        /\ j.req = job[r].req /\ j.ext = job[r].ext /\ j.seen = job[r].seen
        /\ j.down = job[r].down
  BY Left
<1>2. JobOK(j)
  BY <1>1, LeftOK
<1>3. running' = running
  BY Parts DEF Inv, Types, Holds
<1>4. Polling' /\ Polled' /\ ctx' \in [Threads -> Contexts \cup {None}]
      /\ running' \in [Threads -> Requests \cup {None}]
  BY <1>1, <1>2, <1>3, Stays
<1> QED
  BY <1>1, <1>2, <1>4, SameProofs, Together

(* An answer after an await: a free thread resumes the request. *)
LEMMA LeavesAwaited ==
    ASSUME Inv, NEW r \in Requests, NEW t \in Threads, NEW granted \in BOOLEAN,
           job[r].pc \in {"verify", "status"}, running[t] = None, Leave(r, granted),
           Holds(r, t), granted => Entitled(job[r]) /\ (job[r].ext.takedown => ~job[r].down),
           UNCHANGED <<ctx, account, env, clock>>,
           Used', \A p \in Proofs : replay'[p] \in {None, Expires[p]},
           DOMAIN replay' = Proofs, accepted' \in [Proofs -> 0..2]
    PROVE  Inv'
<1>1. PICK j \in JobState :
        /\ job' = [job EXCEPT ![r] = j] /\ j.pc = "clear" /\ j.granted = granted
        /\ j.req = job[r].req /\ j.ext = job[r].ext /\ j.seen = job[r].seen
        /\ j.down = job[r].down
  BY Left
<1>2. JobOK(j)
  BY <1>1, LeftOK
<1>3. Polling' /\ Polled' /\ ctx' \in [Threads -> Contexts \cup {None}]
      /\ running' \in [Threads -> Requests \cup {None}]
  BY <1>1, <1>2, Takes DEF Holds
<1> QED
  BY <1>1, <1>2, <1>3, Together

(* A guard that does not look at the account lets in without a look. *)
LEMMA NoChecks ==
    ASSUME NEW e \in Extractors, ~Checks(e)
    PROVE  ~e.takedown
BY DEF Checks

LEMMA RouteDPoPInv ==
    ASSUME Inv, NEW r \in Requests, NEW t \in Threads, RouteDPoP(r, t)
    PROVE  Inv'
<1>1. /\ job[r].pc = "route" /\ running[t] = r
      /\ UNCHANGED <<ctx, replay, account, env, clock, accepted>>
  BY DEF RouteDPoP
<1>2. CASE ctx[t] = None
  BY <1>1, <1>2, LeavesPolled DEF RouteDPoP
<1>3. CASE ctx[t] # None
  <2>1. /\ job \in [Requests -> JobState] /\ job[r] \in JobState /\ JobOK(job[r])
        /\ ctx[t] \in Contexts /\ clock \in 0..MaxClock
    BY <1>3, Parts DEF Inv, Types
  <2>2. PICK j : j = [job[r] EXCEPT !.pc = "verify", !.seen = ctx[t], !.now = clock]
    OBVIOUS
  <2>3. job' = [job EXCEPT ![r] = j] /\ running' = [running EXCEPT ![t] = None]
    BY <1>3, <2>1, <2>2 DEF RouteDPoP, Awaits
  <2>4. /\ j \in JobState /\ j.pc = "verify" /\ j.granted = job[r].granted
        /\ j.req = job[r].req /\ j.ext = job[r].ext /\ j.seen = ctx[t]
        /\ j.down = job[r].down
    BY <2>1, <2>2 DEF JobState, Pcs
  <2>5. ctx[t] = ContextOf(job[r].req)
    BY <1>1 DEF Inv, Polling
  <2>6. JobOK(j)
    BY <1>1, <2>1, <2>4, <2>5 DEF JobOK
  <2>7. Polling' /\ Polled' /\ ctx' \in [Threads -> Contexts \cup {None}]
        /\ running' \in [Threads -> Requests \cup {None}]
    BY <1>1, <2>3, <2>4, <2>6, Releases
  <2> QED
    BY <1>1, <2>3, <2>4, <2>6, <2>7, SameProofs, Together
<1> QED
  BY <1>2, <1>3

LEMMA RouteBearerInv ==
    ASSUME Inv, NEW r \in Requests, NEW t \in Threads, RouteBearer(r, t)
    PROVE  Inv'
<1> DEFINE q == job[r].req
           e == job[r].ext
           valid == ValidateBearerToken(q.auth, e.scopes)
<1>1. /\ job[r].pc = "route" /\ running[t] = r
      /\ UNCHANGED <<ctx, replay, account, env, clock, accepted>>
  BY DEF RouteBearer
<1>2. q \in Presented /\ e \in Extractors
  BY <1>1 DEF Inv, JobOK
<1>3. valid \in BOOLEAN
  BY DEF ValidateBearerToken
<1>4. valid => Entitled(job[r])
  <2> SUFFICES ASSUME valid, e.scopes = {"Access"}
               PROVE  q.auth \in [scheme : {"bearer"}, scope : {"Access"}, state : {"good"}]
    BY DEF Entitled
  <2>1. /\ q.auth # None /\ q.auth.scheme = "bearer" /\ q.auth.state = "good"
        /\ q.auth.scope = "Access"
    BY DEF ValidateBearerToken, VerifyJwt
  <2>2. q.auth \in Bearer
    BY <1>2, <2>1, OfferedAssumption DEF Bearer, DPoP, Basic
  <2> QED
    BY <2>1, <2>2 DEF Bearer
<1>5. CASE valid /\ Checks(e)
  <2>1. job' = [job EXCEPT ![r].pc = "status"] /\ running' = [running EXCEPT ![t] = None]
    BY <1>5 DEF RouteBearer, Awaits
  <2>2. PICK j \in JobState : job' = [job EXCEPT ![r] = j] /\ j.pc = "status" /\ JobOK(j)
    BY <1>1, <1>4, <1>5, <2>1, Goes
  <2>3. Polling' /\ Polled' /\ ctx' \in [Threads -> Contexts \cup {None}]
        /\ running' \in [Threads -> Requests \cup {None}]
    BY <1>1, <2>1, <2>2, Releases
  <2> QED
    BY <1>1, <2>2, <2>3, SameProofs, Together
<1>6. CASE ~(valid /\ Checks(e))
  <2>1. Leave(r, valid) /\ Holds(r, t)
    BY <1>6 DEF RouteBearer
  <2>2. valid => ~e.takedown
    BY <1>2, <1>6, NoChecks
  <2> HIDE DEF valid
  <2> QED
    BY <1>1, <1>3, <1>4, <2>1, <2>2, LeavesPolled
<1> QED
  BY <1>5, <1>6

(* A proof whose jti is inserted had no row, so it was not accepted before *)
(* or it is stale by now.                                                  *)
LEMMA ConsumeUsed ==
    ASSUME Inv, NEW p \in Proofs, Consume(p), clock' = clock,
           accepted' = IF clock <= Expires[p]
                       THEN [accepted EXCEPT ![p] = IF @ = 2 THEN 2 ELSE @ + 1]
                       ELSE accepted
    PROVE  /\ Used' /\ \A x \in Proofs : replay'[x] \in {None, Expires[x]}
           /\ DOMAIN replay' = Proofs /\ accepted' \in [Proofs -> 0..2]
<1>1. /\ DOMAIN replay = Proofs /\ accepted \in [Proofs -> 0..2] /\ clock \in Nat
      /\ \A x \in Proofs : replay[x] \in {None, Expires[x]}
  <2>1. clock \in 0..MaxClock
    BY Parts DEF Inv, Types
  <2> QED
    BY <2>1, Parts, NoneAssumption DEF Inv, Types
<1>2. Expires[p] \in Nat /\ None # Expires[p]
  BY ProofAssumption, NoneAssumption
<1>3. /\ DOMAIN replay' = Proofs
      /\ \A x \in Proofs : replay'[x] = IF x = p THEN Expires[p] ELSE replay[x]
  BY <1>1 DEF Consume
<1>4. accepted[p] \in 0..2 /\ accepted[p] <= 1
  BY <1>1 DEF Inv, Used
<1>5. accepted[p] = 0 \/ clock > Expires[p]
  <2>1. replay[p] = None
    BY DEF Consume
  <2> QED
    BY <1>2, <1>4, <2>1 DEF Inv, Used
<1>6. /\ accepted' \in [Proofs -> 0..2]
      /\ \A x \in Proofs : x # p => accepted'[x] = accepted[x]
      /\ accepted'[p] \in 0..1
  BY <1>1, <1>2, <1>4, <1>5
<1>7. Used'
  BY <1>3, <1>6 DEF Inv, Used
<1>8. \A x \in Proofs : replay'[x] \in {None, Expires[x]}
  BY <1>1, <1>3
<1> QED
  BY <1>3, <1>6, <1>7, <1>8

(* No OAuth token stands for a password session. *)
LEMMA OAuthIsNoSession ==
    ASSUME NEW granted
    PROVE  OAuthScope(granted) # None => OAuthScope(granted) # "Access"
BY DEF OAuthScope

LEMMA VerifyAccessTokenInv ==
    ASSUME Inv, NEW r \in Requests, NEW t \in Threads, VerifyAccessToken(r, t)
    PROVE  Inv'
<1> DEFINE p == job[r].seen.proof
           e == job[r].ext
           scope == OAuthScope(job[r].req.auth.granted)
           valid == scope # None /\ (e.scopes # {} => scope \in e.scopes)
<1>1. /\ job[r].pc = "verify" /\ running[t] = None /\ ProofSound(r) /\ Consume(p)
      /\ UNCHANGED <<ctx, account, env, clock>>
      /\ accepted' = IF clock <= Expires[p]
                     THEN [accepted EXCEPT ![p] = IF @ = 2 THEN 2 ELSE @ + 1]
                     ELSE accepted
  BY DEF VerifyAccessToken
<1>2. e \in Extractors /\ job[r].seen \in Contexts /\ JobOK(job[r])
  BY <1>1 DEF Inv, JobOK
<1>3. p \in Proofs
  BY <1>1, <1>2 DEF ProofSound, Contexts
<1>4. /\ Used' /\ \A x \in Proofs : replay'[x] \in {None, Expires[x]}
      /\ DOMAIN replay' = Proofs /\ accepted' \in [Proofs -> 0..2]
  BY <1>1, <1>3, ConsumeUsed
<1>5. valid => Entitled(job[r])
  BY OAuthIsNoSession DEF Entitled
<1>6. CASE valid /\ Checks(e)
  <2>1. job' = [job EXCEPT ![r].pc = "status"] /\ running' = [running EXCEPT ![t] = None]
    BY <1>6 DEF VerifyAccessToken, Awaits
  <2>2. PICK j \in JobState : job' = [job EXCEPT ![r] = j] /\ j.pc = "status" /\ JobOK(j)
    BY <1>1, <1>5, <1>6, <2>1, Goes
  <2>3. running' = running
    BY <1>1, <2>1, Parts DEF Inv, Types
  <2>4. Polling' /\ Polled' /\ ctx' \in [Threads -> Contexts \cup {None}]
        /\ running' \in [Threads -> Requests \cup {None}]
    BY <1>1, <2>2, <2>3, Stays
  <2> QED
    BY <1>1, <1>4, <2>2, <2>4, Together
<1>7. CASE ~(valid /\ Checks(e))
  <2>1. Leave(r, valid) /\ Holds(r, t)
    BY <1>7 DEF VerifyAccessToken
  <2>2. valid => ~e.takedown
    BY <1>2, <1>7, NoChecks
  <2>3. valid \in BOOLEAN
    OBVIOUS
  <2> HIDE DEF valid
  <2> QED
    BY <1>1, <1>4, <1>5, <2>1, <2>2, <2>3, LeavesAwaited
<1> QED
  BY <1>6, <1>7

(* The answers that let nobody in. *)
LEMMA RefusedInv ==
    ASSUME Inv, NEW r \in Requests, NEW t \in Threads,
           VerifyRefused(r, t) \/ ConsumeFails(r, t) \/ FetchFails(r, t)
    PROVE  Inv'
<1>1. /\ job[r].pc \in {"verify", "status"} /\ running[t] = None /\ Leave(r, FALSE)
      /\ Holds(r, t) /\ UNCHANGED <<ctx, replay, account, env, clock, accepted>>
  BY DEF VerifyRefused, ConsumeFails, FetchFails
<1> QED
  BY <1>1, SameProofs, LeavesAwaited

LEMMA FetchAccountStatusInv ==
    ASSUME Inv, NEW r \in Requests, NEW t \in Threads, FetchAccountStatus(r, t)
    PROVE  Inv'
<1> DEFINE g == CheckAccountStatus(job[r].ext)
<1>1. /\ job[r].pc = "status" /\ running[t] = None /\ Leave(r, g)
      /\ Holds(r, t) /\ UNCHANGED <<ctx, replay, account, env, clock, accepted>>
  BY DEF FetchAccountStatus
<1>2. g \in BOOLEAN
  BY DEF CheckAccountStatus
<1>3. g => (job[r].ext.takedown => ~account.takendown)
  BY DEF CheckAccountStatus
<1>4. Entitled(job[r]) /\ (job[r].down => account.takendown)
  BY <1>1 DEF Inv, JobOK
<1> HIDE DEF g
<1> QED
  BY <1>1, <1>2, <1>3, <1>4, SameProofs, LeavesAwaited

LEMMA ClearContextInv ==
    ASSUME Inv, NEW r \in Requests, NEW t \in Threads, ClearContext(r, t)
    PROVE  Inv'
<1>1. /\ job[r].pc = "clear" /\ running[t] = r /\ job' = [job EXCEPT ![r].pc = "done"]
      /\ ctx' = [ctx EXCEPT ![t] = None] /\ running' = [running EXCEPT ![t] = None]
      /\ UNCHANGED <<replay, account, env, clock, accepted>>
  BY DEF ClearContext
<1>2. job \in [Requests -> JobState] /\ job[r] \in JobState /\ JobOK(job[r])
  BY Parts DEF Inv, Types
<1>3. PICK j : j = [job[r] EXCEPT !.pc = "done"]
  OBVIOUS
<1>4. job' = [job EXCEPT ![r] = j]
  BY <1>1, <1>2, <1>3
<1>5. /\ j \in JobState /\ j.pc = "done" /\ j.granted = job[r].granted
      /\ j.req = job[r].req /\ j.ext = job[r].ext /\ j.seen = job[r].seen
      /\ j.down = job[r].down
  BY <1>2, <1>3 DEF JobState, Pcs
<1>6. /\ Entitled(job[r]) => Entitled(j)
      /\ Configured(job[r]) => Configured(j)
  BY <1>5 DEF Entitled, Configured
<1>7. JobOK(j)
  BY <1>1, <1>2, <1>5, <1>6 DEF JobOK
<1>8. Polling' /\ Polled' /\ ctx' \in [Threads -> Contexts \cup {None}]
      /\ running' \in [Threads -> Requests \cup {None}]
  BY <1>1, <1>4, <1>5, <1>7, Releases
<1> QED
  BY <1>1, <1>4, <1>5, <1>7, <1>8, SameProofs, Together

(* A request is over: its client went away, or has the answer. *)
LEMMA EndsInv ==
    ASSUME Inv, NEW r \in Requests, Drop(r) \/ Answered(r)
    PROVE  Inv'
<1>1. /\ job[r].pc \notin {"route", "clear"} /\ job' = [job EXCEPT ![r] = Idle]
      /\ UNCHANGED <<ctx, running, replay, account, env, clock, accepted>>
  BY DEF Drop, Answered
<1>2. Polling' /\ Polled' /\ ctx' \in [Threads -> Contexts \cup {None}]
      /\ running' \in [Threads -> Requests \cup {None}]
  BY <1>1, IdleOK, Stays
<1> QED
  BY <1>1, <1>2, IdleOK, SameProofs, Together

-----------------------------------------------------------------------------
(* Only stale rows are pruned. *)
LEMMA PruneInv ==
    ASSUME Inv, Prune
    PROVE  Inv'
<1>1. /\ replay' = [p \in Proofs |-> IF PruneExpired(p) THEN None ELSE replay[p]]
      /\ UNCHANGED <<ctx, running, job, account, env, clock, accepted>>
  BY DEF Prune
<1>2. Types /\ Polled /\ Polling /\ Used /\ \A r \in Requests : JobOK(job[r])
  BY Parts DEF Inv
<1>3. Types' /\ Polled' /\ Polling'
  BY <1>1, <1>2 DEF Types, Polled, Polling
<1>4. Used'
  <2>1. clock \in Nat /\ \A p \in Proofs : Expires[p] \in Nat /\ Expires[p] # None
    <3>1. clock \in 0..MaxClock
      BY <1>2 DEF Types
    <3> QED
      BY <3>1, NoneAssumption, ProofAssumption
  <2> QED
    BY <1>1, <1>2, <2>1 DEF Used, PruneExpired
<1>5. \A r \in Requests : JobOK(job[r])'
  BY <1>1, <1>2 DEF JobOK, Configured, Entitled
<1>6. TypeOK'
  BY <1>3 DEF TypeOK, Types, Polled, JobState
<1> QED
  BY <1>3, <1>4, <1>5, <1>6 DEF Inv

(* `down` follows the account. *)
LEMMA AccountChangesInv ==
    ASSUME Inv, AccountChanges
    PROVE  Inv'
<1>1. PICK a \in [takendown : BOOLEAN, deactivated : BOOLEAN] :
        /\ account' = a
        /\ job' = [r \in Requests |-> [job[r] EXCEPT !.down = @ /\ a.takendown]]
  BY DEF AccountChanges
<1>2. UNCHANGED <<ctx, running, replay, env, clock, accepted>>
  BY DEF AccountChanges
<1>3. Types /\ Polled /\ Polling /\ Used /\ \A r \in Requests : JobOK(job[r])
  BY Parts DEF Inv
<1>4. a.takendown \in BOOLEAN
  OBVIOUS
<1>5. ASSUME NEW r \in Requests
      PROVE  /\ job'[r] \in JobState /\ job'[r].pc = job[r].pc /\ job'[r].req = job[r].req
             /\ job'[r].ext = job[r].ext /\ job'[r].seen = job[r].seen
             /\ job'[r].granted = job[r].granted
             /\ job'[r].down = (job[r].down /\ a.takendown)
  <2>1. job[r] \in JobState
    BY <1>3 DEF Types
  <2>2. job[r].down \in BOOLEAN
    BY <2>1, JobParts
  <2>3. job'[r] = [job[r] EXCEPT !.down = @ /\ a.takendown]
    BY <1>1
  <2> QED
    BY <1>4, <2>1, <2>2, <2>3 DEF JobState
<1>6. job' \in [Requests -> JobState]
  BY <1>1, <1>5
<1>7. Types' /\ Polled' /\ Polling' /\ Used'
  <2>1. Types'
    BY <1>1, <1>2, <1>3, <1>6 DEF Types
  <2>2. Polled' /\ Polling' /\ Used'
    BY <1>2, <1>3, <1>5 DEF Polled, Polling, Used
  <2> QED
    BY <2>1, <2>2
<1>8. ASSUME NEW r \in Requests
      PROVE  JobOK(job[r])'
  <2>1. JobOK(job[r])
    BY <1>3
  <2>2. /\ Entitled(job[r]) => Entitled(job[r])'
        /\ Configured(job[r]) => Configured(job[r])'
    BY <1>2, <1>5 DEF Entitled, Configured
  <2> QED
    BY <1>1, <1>5, <2>1, <2>2 DEF JobOK
<1>9. TypeOK'
  BY <1>7 DEF TypeOK, Types, Polled, JobState
<1> QED
  BY <1>7, <1>8, <1>9 DEF Inv

LEMMA RestartInv ==
    ASSUME Inv, Restart
    PROVE  Inv'
<1>1. /\ ctx' = [t \in Threads |-> None] /\ running' = [t \in Threads |-> None]
      /\ job' = [r \in Requests |-> Idle]
      /\ UNCHANGED <<replay, account, env, clock, accepted>>
  BY DEF Restart
<1>2. Types /\ Used /\ None \notin Requests
  BY Parts, NoneAssumption DEF Inv
<1>3. Types'
  BY <1>1, <1>2, IdleOK DEF Types
<1>4. Polled' /\ Polling' /\ Used'
  BY <1>1, <1>2, IdleOK DEF Polled, Polling, Used
<1>5. \A r \in Requests : JobOK(job[r])'
  BY <1>1 DEF JobOK, Idle
<1>6. TypeOK'
  BY <1>3, <1>4 DEF TypeOK, Types, Polled, JobState
<1> QED
  BY <1>4, <1>5, <1>6 DEF Inv

LEMMA TickInv ==
    ASSUME Inv, Tick
    PROVE  Inv'
<1>1. /\ clock < MaxClock /\ clock' = clock + 1
      /\ UNCHANGED <<ctx, running, job, replay, account, env, accepted>>
  BY DEF Tick
<1>2. Types /\ Polled /\ Polling /\ Used /\ \A r \in Requests : JobOK(job[r])
  BY Parts DEF Inv
<1>3. clock \in Nat /\ clock' \in 0..MaxClock
  <2>1. clock \in 0..MaxClock
    BY <1>2 DEF Types
  <2> QED
    BY <1>1, <2>1, NoneAssumption
<1>4. Types' /\ Polled' /\ Polling'
  BY <1>1, <1>2, <1>3 DEF Types, Polled, Polling
<1>5. Used'
  BY <1>1, <1>2, <1>3, ProofAssumption DEF Used
<1>6. \A r \in Requests : JobOK(job[r])'
  BY <1>1, <1>2 DEF JobOK, Configured, Entitled
<1>7. TypeOK'
  BY <1>4 DEF TypeOK, Types, Polled, JobState
<1> QED
  BY <1>4, <1>5, <1>6, <1>7 DEF Inv

LEMMA InitInv == Init => Inv
<1> SUFFICES ASSUME Init PROVE Inv
  OBVIOUS
<1>1. None \notin Requests /\ 0 \in 0..MaxClock
  BY NoneAssumption
<1>2. Types
  BY <1>1, IdleOK DEF Init, Types
<1>3. Polled /\ Polling /\ Used
  BY <1>1, IdleOK DEF Init, Polled, Polling, Used
<1>4. \A r \in Requests : JobOK(job[r])
  BY IdleOK DEF Init
<1> QED
  BY <1>2, <1>3, <1>4, Parts DEF Inv

LEMMA StutterInv ==
    ASSUME Inv, UNCHANGED vars
    PROVE  Inv'
<1>1. Types /\ Polled /\ Polling /\ Used /\ \A r \in Requests : JobOK(job[r])
  BY Parts DEF Inv
<1>2. Types' /\ Polled' /\ Polling' /\ Used'
  BY <1>1 DEF vars, Types, Polled, Polling, Used
<1>3. \A r \in Requests : JobOK(job[r])'
  BY <1>1 DEF vars, JobOK, Configured, Entitled
<1>4. TypeOK'
  BY <1>2 DEF TypeOK, Types, Polled, JobState
<1> QED
  BY <1>2, <1>3, <1>4 DEF Inv

LEMMA NextInv == Inv /\ [Next]_vars => Inv'
<1> SUFFICES ASSUME Inv, [Next]_vars PROVE Inv'
  OBVIOUS
<1>1. CASE \E r \in Requests, o \in Offered : Arrive(r, o[1], o[2])
  BY <1>1, ArriveInv
<1>2. ASSUME NEW r \in Requests, NEW t \in Threads, Step(r, t) PROVE Inv'
  BY <1>2, RouteDPoPInv, RouteBearerInv, VerifyAccessTokenInv, RefusedInv,
     FetchAccountStatusInv, ClearContextInv DEF Step
<1>3. CASE \E r \in Requests : Drop(r) \/ Answered(r)
  BY <1>3, EndsInv
<1>4. CASE Prune \/ AccountChanges \/ Restart \/ Tick
  BY <1>4, PruneInv, AccountChangesInv, RestartInv, TickInv
<1>5. CASE UNCHANGED vars
  BY <1>5, StutterInv
<1> QED
  BY <1>1, <1>2, <1>3, <1>4, <1>5 DEF Next

(* The invariant holds in every state the guards can reach. *)
THEOREM Invariance == Spec => []Inv
BY InitInv, NextInv, PTL DEF Spec

(* The verifier judges every request by the context the request came with, *)
(* on however many threads its polls run, and whoever else's requests are  *)
(* polled, dropped or resumed on them in between.                          *)
THEOREM OwnContexts == Spec => []ContextConsistent
<1>1. Inv => ContextConsistent
  BY DEF Inv, ContextConsistent, OwnContext, JobOK
<1> QED
  BY <1>1, Invariance, PTL

(* DbBackedReplayStore lets a proof through once for as long as it is      *)
(* fresh, whenever the table is pruned and the process restarted.          *)
THEOREM OnceAccepted == Spec => []ProofAcceptedOnce
<1>1. Inv => ProofAcceptedOnce
  BY DEF Inv, ProofAcceptedOnce, Used
<1> QED
  BY <1>1, Invariance, PTL

(* A guard admits only whom it says: nobody taken down since before the    *)
(* request where it looks, a password session where it asks for full       *)
(* access, a configured secret where it asks for an admin scope.           *)
THEOREM AdmitsItsOwn == Spec => []AdmitsOnlyItsOwn
<1>1. Inv => AdmitsOnlyItsOwn
  BY DEF Inv, AdmitsOnlyItsOwn, TakenDownIsRefused, FullAccessIsASession,
     AdminScopeIsConfigured, JobOK, Entitled, Configured
<1> QED
  BY <1>1, Invariance, PTL

-----------------------------------------------------------------------------
(* The life of an account.                                                 *)

(* Where a request may be, by what it does.                                *)
CreatePcs == {"exists", "make", "key", "repo", "plc", "invite", "actor", "account", "use",
              "root", "events", "destroy"}
ActPcs == {"refused", "find", "activate", "sync", "status", "wipe", "rows", "gone",
           "purge"}
Statuses == {"active", "deactivated", "takendown", "deleted"}

Creating == [pc : CreatePcs, did : Dids, handle : Handles, email : Emails,
             code : Codes \cup {Nothing}]
Acting == [pc : ActPcs, did : Dids]
Announcing == [pc : {"announce"}, did : Dids, status : Statuses]
Inviting == [pc : {"codes"}, did : Dids, n : Nat, total : Nat]

Work == {NoRequest} \cup Creating \cup Acting \cup Announcing \cup Inviting

CodeRow == [avail : Nat, off : BOOLEAN, for : Dids \cup {"admin", Nothing},
            by : Dids \cup {"admin", Nothing}]

(* What the invariant needs of the types and AccountsTypeOK does not say.  *)
Shape ==
    /\ AccountsTypeOK
    /\ req \in [Handlers -> Work]
    /\ code \in [Codes -> CodeRow]
    /\ now \in 0..MaxNow
    /\ born \in [Dids -> 0..(MaxNow + 1)]
    /\ created \cup deleted \subseteq Dids

-----------------------------------------------------------------------------
(* The life of one account.  A request that asks for invite codes does not *)
(* touch it.                                                               *)
Working(h, d) == req[h].pc \notin {"idle", "codes"} /\ req[h].did = d

Sole(d) == \A h, o \in Handlers : Working(h, d) /\ Working(o, d) => h = o

(* What a request at p has done to d if no other one worked on d.          *)
Reached(p, d) ==
    /\ d \notin deleted
    /\ p \in (CreatePcs \ {"exists"}) \cup {"rows", "gone", "purge"} => d \notin created
    /\ p \in {"repo", "plc", "invite", "actor", "account", "use", "root", "events"} /\ d \in Minted
         => d \in keyFile
    /\ p \in {"plc", "invite", "actor", "account", "use", "root", "events"} => store[d] = "repo"
    /\ p \in {"account", "use", "root", "events"} => HasActor(d)
    /\ p \in {"use", "root", "events"} => email[d] # Nothing
    /\ p = "events" => d \in root
    /\ p \in {"rows", "gone", "purge"} => store[d] = Nothing /\ d \notin keyFile
    /\ p \in {"gone", "purge"} => ~HasActor(d) /\ email[d] = Nothing /\ d \notin root

Whole(d) ==
    d \in created =>
        /\ HasActor(d) /\ email[d] # Nothing /\ d \in root
        /\ store[d] = "repo"
        /\ d \in Minted => d \in keyFile /\ doc[d] = "own"

Forgotten(d) ==
    d \in deleted =>
        /\ ~HasActor(d) /\ email[d] = Nothing /\ d \notin root
        /\ store[d] = Nothing /\ d \notin keyFile
        /\ feed[d] = Nothing

(* A did that was minted here is in the directory before it has any row,   *)
(* and stays there, so nobody mints it again.                              *)
PostedPcs == {"invite", "actor", "account", "use", "root", "events", "wipe", "rows", "gone",
              "purge"}

Listed(d) ==
    d \in Minted =>
        /\ doc[d] \in {Nothing, "own"}
        /\ HasActor(d) \/ d \in deleted => doc[d] = "own"
        /\ \A h \in Handlers : Working(h, d) /\ req[h].pc \in PostedPcs => doc[d] = "own"

Life(d) ==
    /\ Listed(d)
    /\ d \notin contested =>
         /\ Sole(d) /\ Whole(d) /\ Forgotten(d)
         /\ \A h \in Handlers : Working(h, d) => Reached(req[h].pc, d)

-----------------------------------------------------------------------------
(* The uses of one code.                                                   *)
Checked(h, c) == req[h].pc \in {"actor", "account", "use"} /\ req[h].code = c

Usage(c) ==
    /\ IsFiniteSet(uses[c])
    /\ c \notin raced =>
         /\ Cardinality(uses[c]) <= code[c].avail
         /\ \A h \in Handlers : Checked(h, c) => Cardinality(uses[c]) < code[c].avail
         /\ \A h, o \in Handlers : Checked(h, c) /\ Checked(o, c) => h = o

-----------------------------------------------------------------------------
(* The routine codes of one account.  A request that has read how many     *)
(* there are will insert its own only while there are as many still.       *)
Asking(h, d) == req[h].pc = "codes" /\ req[h].did = d

Promise(n, total, d) ==
    /\ born[d] <= now /\ total <= now - born[d]
    /\ total <= Cardinality(Routine(d)) + n
    /\ total = Cardinality(Routine(d)) + n => Cardinality(Unused(d)) + n <= UnusedLimit

Grant(d) ==
    /\ HasActor(d) => born[d] <= actor[d].at /\ actor[d].at <= now
    /\ Cardinality(Routine(d)) <= Minus(now, born[d])
    /\ Cardinality(Unused(d)) <= UnusedLimit
    /\ \A h \in Handlers : Asking(h, d) => Promise(req[h].n, req[h].total, d)

AccountsInv ==
    /\ Shape
    /\ \A d \in Dids : Life(d) /\ Grant(d)
    /\ \A c \in Codes : Usage(c)

-----------------------------------------------------------------------------
(* A request is what its place says.                                       *)
LEMMA Kinds ==
    ASSUME Shape, NEW h \in Handlers
    PROVE  /\ req[h].pc \in CreatePcs => req[h] \in Creating
           /\ req[h].pc \in ActPcs => req[h] \in Acting
           /\ req[h].pc = "announce" => req[h] \in Announcing
           /\ req[h].pc = "codes" => req[h] \in Inviting
           /\ req[h].pc = "idle" => req[h] = NoRequest
           /\ req[h].pc \in CreatePcs \cup ActPcs \cup {"announce", "codes", "idle"}
<1>1. req[h] \in {NoRequest} \cup Creating \cup Acting \cup Announcing \cup Inviting
  BY DEF Shape, Work
<1>2. CASE req[h] = NoRequest
  BY <1>2 DEF NoRequest, CreatePcs, ActPcs
<1>3. CASE req[h] \in Creating
  BY <1>3 DEF Creating, CreatePcs, ActPcs
<1>4. CASE req[h] \in Acting
  BY <1>4 DEF Acting, CreatePcs, ActPcs
<1>5. CASE req[h] \in Announcing
  BY <1>5 DEF Announcing, CreatePcs, ActPcs
<1>6. CASE req[h] \in Inviting
  BY <1>6 DEF Inviting, CreatePcs, ActPcs
<1> QED
  BY <1>1, <1>2, <1>3, <1>4, <1>5, <1>6

(* Only h has moved: it is done, or still works on d.                      *)
Moved(h, d) ==
    /\ req' \in [Handlers -> Work]
    /\ \A o \in Handlers \ {h} : req'[o] = req[o]
    /\ req'[h].pc = "idle" \/ (req'[h].pc # "codes" /\ req'[h].did = d)

(* A sign-up goes on.                                                      *)
LEMMA GoCreate ==
    ASSUME Shape, NEW h \in Handlers, req[h].pc \in CreatePcs, NEW p \in CreatePcs, Go(h, p)
    PROVE  /\ Moved(h, req[h].did) /\ Working(h, req[h].did) /\ req[h] \in Creating
           /\ req'[h].pc = p /\ req'[h].did = req[h].did /\ req'[h].code = req[h].code
<1>1. req[h] \in Creating
  BY Kinds
<1>2. PICK q \in Creating : q = req[h]
  BY <1>1
<1>3. [q EXCEPT !.pc = p] \in Creating
  BY <1>2 DEF Creating
<1>4. /\ [q EXCEPT !.pc = p].pc = p /\ [q EXCEPT !.pc = p].did = q.did
      /\ [q EXCEPT !.pc = p].code = q.code
  BY <1>2 DEF Creating
<1>5. req' = [req EXCEPT ![h] = [q EXCEPT !.pc = p]]
  BY <1>2 DEF Go
<1>6. req \in [Handlers -> Work]
  BY DEF Shape
<1>7. [q EXCEPT !.pc = p] \in Work
  BY <1>3 DEF Work
<1>8. /\ req' \in [Handlers -> Work] /\ req'[h] = [q EXCEPT !.pc = p]
      /\ \A o \in Handlers \ {h} : req'[o] = req[o]
  BY <1>5, <1>6, <1>7
<1>9. p # "codes" /\ q.pc \notin {"idle", "codes"}
  BY <1>2 DEF CreatePcs
<1> QED
  BY <1>2, <1>4, <1>8, <1>9 DEF Moved, Working

(* So does a request that activates or deletes.                            *)
LEMMA GoAct ==
    ASSUME Shape, NEW h \in Handlers, req[h].pc \in ActPcs, NEW p \in ActPcs, Go(h, p)
    PROVE  /\ Moved(h, req[h].did) /\ Working(h, req[h].did) /\ req[h] \in Acting
           /\ req'[h].pc = p /\ req'[h].did = req[h].did
<1>1. req[h] \in Acting
  BY Kinds
<1>2. PICK q \in Acting : q = req[h]
  BY <1>1
<1>3. [q EXCEPT !.pc = p] \in Acting
  BY <1>2 DEF Acting
<1>4. [q EXCEPT !.pc = p].pc = p /\ [q EXCEPT !.pc = p].did = q.did
  BY <1>2 DEF Acting
<1>5. req' = [req EXCEPT ![h] = [q EXCEPT !.pc = p]]
  BY <1>2 DEF Go
<1>6. req \in [Handlers -> Work]
  BY DEF Shape
<1>7. [q EXCEPT !.pc = p] \in Work
  BY <1>3 DEF Work
<1>8. /\ req' \in [Handlers -> Work] /\ req'[h] = [q EXCEPT !.pc = p]
      /\ \A o \in Handlers \ {h} : req'[o] = req[o]
  BY <1>5, <1>6, <1>7
<1>9. p # "codes" /\ q.pc \notin {"idle", "codes"}
  BY <1>2 DEF ActPcs
<1> QED
  BY <1>2, <1>4, <1>8, <1>9 DEF Moved, Working

(* A request takes another shape, or is answered.                          *)
LEMMA Becomes ==
    ASSUME Shape, NEW h \in Handlers, NEW q \in Work, req' = [req EXCEPT ![h] = q]
    PROVE  /\ req' \in [Handlers -> Work] /\ req'[h] = q
           /\ \A o \in Handlers \ {h} : req'[o] = req[o]
<1>1. req \in [Handlers -> Work]
  BY DEF Shape
<1> QED
  BY <1>1

LEMMA Ends ==
    ASSUME Shape, NEW h \in Handlers, NEW d, Done(h)
    PROVE  /\ Moved(h, d) /\ req'[h] = NoRequest /\ req'[h].pc = "idle"
<1>1. NoRequest \in Work
  BY DEF Work
<1>2. /\ req' \in [Handlers -> Work] /\ req'[h] = NoRequest
      /\ \A o \in Handlers \ {h} : req'[o] = req[o]
  BY <1>1, Becomes DEF Done
<1> QED
  BY <1>2 DEF Moved, NoRequest

-----------------------------------------------------------------------------
(* What a step leaves of an account it is not about.                       *)
Kept(e) ==
    /\ actor'[e].handle = Nothing <=> actor[e].handle = Nothing
    /\ email'[e] = email[e] /\ store'[e] = store[e] /\ feed'[e] = feed[e]
    /\ e \in root' <=> e \in root
    /\ e \in keyFile' <=> e \in keyFile
    /\ e \in Minted => doc'[e] = doc[e]
    /\ e \in created' <=> e \in created
    /\ e \in deleted' <=> e \in deleted
    /\ e \in contested => e \in contested'

(* ... and whom it leaves working on it.                                   *)
LEMMA KeptLife ==
    ASSUME NEW e \in Dids, Life(e), Kept(e),
           \A o \in Handlers : Working(o, e)' => Working(o, e) /\ req'[o].pc = req[o].pc
    PROVE  Life(e)'
<1>1. Listed(e)'
  BY DEF Life, Listed, Kept, HasActor
<1>2. ASSUME e \notin contested'
      PROVE  /\ Sole(e)' /\ Whole(e)' /\ Forgotten(e)'
             /\ \A h \in Handlers : Working(h, e)' => Reached(req[h].pc, e)'
  <2>1. e \notin contested
    BY <1>2 DEF Kept
  <2>2. Sole(e)'
    BY <2>1 DEF Life, Sole
  <2>3. Whole(e)'
    BY <2>1 DEF Life, Whole, Kept, HasActor
  <2>4. Forgotten(e)'
    BY <2>1 DEF Life, Forgotten, Kept, HasActor
  <2>5. ASSUME NEW h \in Handlers, Working(h, e)'
        PROVE  Reached(req[h].pc, e)'
    <3>1. Reached(req[h].pc, e) /\ req'[h].pc = req[h].pc
      BY <2>1, <2>5 DEF Life
    <3> QED
      BY <3>1 DEF Reached, Kept, HasActor
  <2> QED
    BY <2>2, <2>3, <2>4, <2>5
<1> QED
  BY <1>1, <1>2 DEF Life

(* A step of h for d keeps every account if it keeps d, where it may take  *)
(* for granted what h has reached, and that nobody else works on d.        *)
LEMMA StepLife ==
    ASSUME NEW h \in Handlers, NEW d \in Dids, Working(h, d), Moved(h, d),
           \A e \in Dids : Life(e),
           \A e \in Dids \ {d} : Kept(e),
           contested' = contested,
           d \in Minted => doc'[d] \in {doc[d], "own"},
           d \in Minted => \/ doc'[d] = "own"
                           \/ /\ actor[d].handle = Nothing => actor'[d].handle = Nothing
                              /\ d \in deleted' => d \in deleted
                              /\ req'[h].pc \notin PostedPcs,
           d \notin contested =>
                /\ Whole(d)' /\ Forgotten(d)'
                /\ req'[h].pc # "idle" => Reached(req[h].pc, d)'
    PROVE  \A e \in Dids : Life(e)'
<1>1. ASSUME NEW e \in Dids \ {d}
      PROVE  Life(e)'
  <2>1. \A o \in Handlers : Working(o, e)' => Working(o, e) /\ req'[o].pc = req[o].pc
    BY <1>1 DEF Moved, Working
  <2> QED
    BY <1>1, <2>1, KeptLife
<1>2. \A o \in Handlers \ {h} : Working(o, d)' => Working(o, d) /\ req'[o].pc = req[o].pc
  BY DEF Moved, Working
<1>3. Listed(d)'
  <2>1. CASE d \notin Minted
    BY <2>1 DEF Listed
  <2>2. CASE d \in Minted
    <3>1. Listed(d)
      BY DEF Life
    <3>2. doc'[d] \in {Nothing, "own"}
      BY <2>2, <3>1 DEF Listed
    <3>3. CASE doc'[d] = "own"
      BY <3>3 DEF Listed
    <3>4. CASE doc'[d] # "own"
      <4>1. /\ doc'[d] = doc[d] /\ req'[h].pc \notin PostedPcs
            /\ actor[d].handle = Nothing => actor'[d].handle = Nothing
            /\ d \in deleted' => d \in deleted
        BY <2>2, <3>4
      <4>2. actor'[d].handle = Nothing /\ d \notin deleted'
        BY <2>2, <3>1, <3>4, <4>1 DEF Listed, HasActor
      <4>3. \A o \in Handlers : ~(Working(o, d)' /\ req'[o].pc \in PostedPcs)
        <5>1. ASSUME NEW o \in Handlers \ {h}, Working(o, d)', req'[o].pc \in PostedPcs
              PROVE  FALSE
          BY <1>2, <2>2, <3>1, <3>4, <4>1, <5>1 DEF Listed
        <5> QED
          BY <4>1, <5>1
      <4> QED
        BY <3>2, <4>2, <4>3 DEF Listed, HasActor
    <3> QED
      BY <3>3, <3>4
  <2> QED
    BY <2>1, <2>2
<1>4. ASSUME d \notin contested
      PROVE  Sole(d)' /\ \A o \in Handlers : Working(o, d)' => Reached(req[o].pc, d)'
  <2>1. \A o \in Handlers \ {h} : ~Working(o, d)'
    <3>1. Sole(d)
      BY <1>4 DEF Life
    <3> QED
      BY <1>2, <3>1 DEF Sole
  <2>2. Sole(d)'
    BY <2>1 DEF Sole
  <2>3. Working(h, d)' => req'[h].pc # "idle"
    BY DEF Working
  <2> QED
    BY <1>4, <2>1, <2>2, <2>3
<1>5. Life(d)'
  BY <1>3, <1>4 DEF Life
<1> QED
  BY <1>1, <1>5

-----------------------------------------------------------------------------
(* Codes and their uses, when a step does not touch them.                  *)
LEMMA KeptUsage ==
    ASSUME NEW c \in Codes, Usage(c), Shape, uses'[c] = uses[c],
           code'[c].avail \in Nat, code[c].avail <= code'[c].avail,
           c \in raced => c \in raced',
           \A o \in Handlers : Checked(o, c)' => Checked(o, c)
    PROVE  Usage(c)'
<1>1. Cardinality(uses[c]) \in Nat
  BY FS_CardinalityType DEF Usage
<1>2. code[c].avail \in Nat
  BY DEF Shape, CodeRow
<1> QED
  BY <1>1, <1>2 DEF Usage

(* Routine codes and how many of them are unused.                          *)
LEMMA Counted ==
    ASSUME NEW d \in Dids
    PROVE  /\ IsFiniteSet(Routine(d)) /\ Cardinality(Routine(d)) \in Nat
           /\ IsFiniteSet(Unused(d)) /\ Cardinality(Unused(d)) \in Nat
           /\ Unused(d) \subseteq Routine(d)
<1>1. Routine(d) \subseteq Codes /\ Unused(d) \subseteq Routine(d)
  BY DEF Routine, Unused
<1>2. IsFiniteSet(Codes)
  BY AccountsAssumption
<1>3. IsFiniteSet(Routine(d)) /\ IsFiniteSet(Unused(d))
  BY <1>1, <1>2, FS_Subset
<1> QED
  BY <1>1, <1>3, FS_CardinalityType

LEMMA KeptGrant ==
    ASSUME NEW d \in Dids, Grant(d), Shape, Shape',
           Routine(d)' = Routine(d), Unused(d)' \subseteq Unused(d),
           now <= now', born'[d] = born[d],
           actor'[d].handle # Nothing => actor[d].handle # Nothing /\ actor'[d].at = actor[d].at,
           \A o \in Handlers : Asking(o, d)' =>
                Asking(o, d) /\ req'[o].n = req[o].n /\ req'[o].total = req[o].total
    PROVE  Grant(d)'
<1>1. /\ now \in Nat /\ now' \in Nat /\ born[d] \in Nat
      /\ actor[d].at \in Nat
  BY DEF Shape, AccountsTypeOK
<1>2. PICK R, U : R = Cardinality(Routine(d)) /\ U = Cardinality(Unused(d))
  OBVIOUS
<1>3. R \in Nat /\ U \in Nat
  BY <1>2, Counted
<1>4. PICK V : V = Cardinality(Unused(d)')
  OBVIOUS
<1>5. V \in Nat /\ V <= U
  <2>1. PICK S, T : S = Unused(d) /\ T = Unused(d)' /\ T \subseteq S
    OBVIOUS
  <2>2. IsFiniteSet(S)
    BY <2>1, Counted
  <2>3. IsFiniteSet(T) /\ Cardinality(T) <= Cardinality(S) /\ Cardinality(T) \in Nat
    BY <2>1, <2>2, FS_Subset, FS_CardinalityType
  <2> QED
    BY <1>2, <1>4, <2>1, <2>3
<1>6. HasActor(d)' => born'[d] <= actor'[d].at /\ actor'[d].at <= now'
  BY <1>1 DEF Grant, HasActor
<1>7. Cardinality(Routine(d)') <= Minus(now, born[d])'
  <2>1. R <= Minus(now, born[d])
    BY <1>2 DEF Grant
  <2> QED
    BY <1>1, <1>2, <1>3, <2>1 DEF Minus
<1>8. UnusedLimit \in Nat
  BY AccountsAssumption
<1>9. V <= UnusedLimit
  BY <1>2, <1>3, <1>5, <1>8 DEF Grant
<1>10. ASSUME NEW h \in Handlers, Asking(h, d)'
       PROVE  Promise(req[h].n, req[h].total, d)'
  <2>1. Asking(h, d) /\ req'[h].n = req[h].n /\ req'[h].total = req[h].total
    BY <1>10
  <2>2. Promise(req[h].n, req[h].total, d)
    BY <2>1 DEF Grant
  <2>3. req[h].n \in Nat /\ req[h].total \in Nat
    BY <2>1, Kinds DEF Asking, Inviting
  <2>4. PICK n \in Nat, t \in Nat : n = req[h].n /\ t = req[h].total
    BY <2>3
  <2>5. /\ born[d] <= now /\ t <= now - born[d] /\ t <= R + n
        /\ t = R + n => U + n <= UnusedLimit
    BY <1>2, <2>2, <2>4 DEF Promise
  <2>6. /\ born[d] <= now' /\ t <= now' - born[d] /\ t <= R + n
        /\ t = R + n => V + n <= UnusedLimit
    BY <1>1, <1>3, <1>5, <1>8, <2>4, <2>5
  <2> QED
    BY <1>2, <1>4, <2>1, <2>4, <2>6 DEF Promise
<1> QED
  BY <1>4, <1>6, <1>7, <1>9, <1>10 DEF Grant

(* A step that leaves the codes and the clock alone, asks for no codes and *)
(* checks none.                                                            *)
LEMMA Plain ==
    ASSUME AccountsInv, Shape', UNCHANGED <<code, uses, raced, now, born>>,
           \A d \in Dids : actor'[d].handle # Nothing =>
                             actor[d].handle # Nothing /\ actor'[d].at = actor[d].at,
           \A o \in Handlers : req'[o].pc \in {"actor", "account", "use"} =>
                /\ req[o].pc \in {"actor", "account", "use"} /\ req'[o].code = req[o].code,
           \A o \in Handlers : req'[o].pc = "codes" =>
                /\ req[o].pc = "codes" /\ req'[o].did = req[o].did
                /\ req'[o].n = req[o].n /\ req'[o].total = req[o].total
    PROVE  (\A d \in Dids : Grant(d)') /\ (\A c \in Codes : Usage(c)')
<1>1. ASSUME NEW d \in Dids
      PROVE  Grant(d)'
  <2>1. Routine(d)' = Routine(d) /\ Unused(d)' \subseteq Unused(d)
    BY DEF Routine, Unused, UseCount
  <2>2. now \in Nat
    BY DEF AccountsInv, Shape
  <2>3. \A o \in Handlers : Asking(o, d)' =>
             Asking(o, d) /\ req'[o].n = req[o].n /\ req'[o].total = req[o].total
    BY DEF Asking
  <2> QED
    BY <2>1, <2>2, <2>3, KeptGrant DEF AccountsInv
<1>2. ASSUME NEW c \in Codes
      PROVE  Usage(c)'
  <2>1. code[c].avail \in Nat
    BY DEF AccountsInv, Shape, CodeRow
  <2>2. \A o \in Handlers : Checked(o, c)' => Checked(o, c)
    BY DEF Checked
  <2> QED
    BY <2>1, <2>2, KeptUsage DEF AccountsInv
<1> QED
  BY <1>1, <1>2

(* The same for a step of one request.                                     *)
LEMMA PlainStep ==
    ASSUME AccountsInv, Shape', UNCHANGED <<code, uses, raced, now, born>>,
           NEW h \in Handlers, NEW d \in Dids, Moved(h, d),
           \A e \in Dids : actor'[e].handle # Nothing =>
                             actor[e].handle # Nothing /\ actor'[e].at = actor[e].at,
           req'[h].pc \in {"actor", "account", "use"} =>
                req[h].pc \in {"actor", "account", "use"} /\ req'[h].code = req[h].code
    PROVE  (\A e \in Dids : Grant(e)') /\ (\A c \in Codes : Usage(c)')
<1>1. req'[h].pc # "codes"
  BY DEF Moved
<1>2. \A o \in Handlers : req'[o].pc \in {"actor", "account", "use"} =>
           /\ req[o].pc \in {"actor", "account", "use"} /\ req'[o].code = req[o].code
  BY DEF Moved
<1>3. \A o \in Handlers : req'[o].pc = "codes" =>
           /\ req[o].pc = "codes" /\ req'[o].did = req[o].did
           /\ req'[o].n = req[o].n /\ req'[o].total = req[o].total
  BY <1>1 DEF Moved
<1> QED
  BY <1>2, <1>3, Plain

(* A request that is about an account.                                     *)
LEMMA OnAccount ==
    ASSUME Shape, NEW h \in Handlers, req[h].pc \in CreatePcs \cup ActPcs \cup {"announce"}
    PROVE  req[h].did \in Dids /\ Working(h, req[h].did)
<1>1. req[h].pc \notin {"idle", "codes"}
  BY DEF CreatePcs, ActPcs
<1>2. req[h] \in Creating \cup Acting \cup Announcing
  BY Kinds
<1> QED
  BY <1>1, <1>2 DEF Working, Creating, Acting, Announcing

-----------------------------------------------------------------------------
(* createAccount.                                                          *)

(* A store that is there is nobody's to destroy.                           *)
LEMMA CheckStoreInv ==
    ASSUME AccountsInv, NEW h \in Handlers, CheckStore(h)
    PROVE  AccountsInv'
<1>1. Shape /\ req[h].pc = "exists" /\ req[h].pc \in CreatePcs
  BY DEF AccountsInv, CheckStore, CreatePcs
<1>2. PICK d \in Dids : d = req[h].did
  BY <1>1, OnAccount
<1>3. Working(h, d)
  BY <1>1, <1>2, OnAccount
<1>4. Moved(h, d) /\ (req'[h].pc = "idle" \/ (req'[h].pc = "make" /\ ~Taken(d)))
  <2>1. CASE Taken(d)
    BY <1>1, <1>2, <2>1, Ends DEF CheckStore
  <2>2. CASE ~Taken(d)
    <3>1. Go(h, "make") /\ "make" \in CreatePcs
      BY <1>2, <2>2 DEF CheckStore, Go, CreatePcs
    <3> QED
      BY <1>1, <1>2, <2>2, <3>1, GoCreate
  <2> QED
    BY <2>1, <2>2
<1>5. UNCHANGED <<actor, email, root, store, keyFile, doc, code, uses, feed, now, created, deleted,
                  contested, raced, born>>
  BY DEF CheckStore, rows, files, invites, counters, history
<1>6. Shape'
  BY <1>1, <1>4, <1>5 DEF Shape, AccountsTypeOK, Moved
<1>7. \A e \in Dids : Life(e)'
  <2>1. \A e \in Dids \ {d} : Kept(e)
    BY <1>5 DEF Kept
  <2>2. ASSUME d \notin contested
        PROVE  /\ Whole(d)' /\ Forgotten(d)'
               /\ req'[h].pc # "idle" => Reached(req[h].pc, d)'
    <3>1. Whole(d) /\ Forgotten(d) /\ Reached(req[h].pc, d)
      BY <1>3, <2>2 DEF AccountsInv, Life
    <3>2. Whole(d)' /\ Forgotten(d)'
      BY <1>5, <3>1 DEF Whole, Forgotten, HasActor
    <3>3. ~Taken(d) => d \notin created
      BY <3>1 DEF Whole, Taken, Nothing
    <3> QED
      BY <1>4, <1>5, <3>1, <3>2, <3>3 DEF Reached
  <2>3. req'[h].pc \notin PostedPcs
    BY <1>4 DEF PostedPcs
  <2> QED
    BY <1>3, <1>4, <1>5, <2>1, <2>2, <2>3, StepLife DEF AccountsInv
<1>8. (\A e \in Dids : Grant(e)') /\ (\A c \in Codes : Usage(c)')
  BY <1>4, <1>5, <1>6, PlainStep
<1> QED
  BY <1>6, <1>7, <1>8 DEF AccountsInv

LEMMA MakeStoreInv ==
    ASSUME AccountsInv, NEW h \in Handlers, MakeStore(h)
    PROVE  AccountsInv'
<1>1. Shape /\ req[h].pc = "make" /\ req[h].pc \in CreatePcs
  BY DEF AccountsInv, MakeStore, CreatePcs
<1>2. PICK d \in Dids : d = req[h].did
  BY <1>1, OnAccount
<1>3. Working(h, d)
  BY <1>1, <1>2, OnAccount
<1>4. Moved(h, d) /\ req'[h].pc \in {"idle", "key"}
  <2>1. CASE Done(h)
    BY <1>1, <2>1, Ends
  <2>2. CASE Go(h, "key")
    BY <1>1, <1>2, <2>2, GoCreate DEF CreatePcs
  <2> QED
    BY <2>1, <2>2 DEF MakeStore
<1>5. UNCHANGED <<actor, email, root, keyFile, doc, code, uses, feed, now, created, deleted,
                  contested, raced, born>>
  BY DEF MakeStore, rows, invites, history
<1>6. /\ store' \in [Dids -> {Nothing, "made", "repo"}]
      /\ \A e \in Dids \ {d} : store'[e] = store[e]
  BY <1>1, <1>2 DEF MakeStore, Shape, AccountsTypeOK
<1>7. Shape'
  BY <1>1, <1>4, <1>5, <1>6 DEF Shape, AccountsTypeOK, Moved
<1>8. \A e \in Dids : Life(e)'
  <2>1. \A e \in Dids \ {d} : Kept(e)
    BY <1>5, <1>6 DEF Kept
  <2>2. ASSUME d \notin contested
        PROVE  /\ Whole(d)' /\ Forgotten(d)'
               /\ req'[h].pc # "idle" => Reached(req[h].pc, d)'
    <3>1. Whole(d) /\ Forgotten(d) /\ Reached("make", d)
      BY <1>1, <1>3, <2>2 DEF AccountsInv, Life
    <3>2. d \notin created /\ d \notin deleted
      BY <3>1 DEF Reached, CreatePcs
    <3> QED
      BY <1>4, <1>5, <3>2 DEF Reached, Whole, Forgotten
  <2>3. req'[h].pc \notin PostedPcs
    BY <1>4 DEF PostedPcs
  <2> QED
    BY <1>3, <1>4, <1>5, <2>1, <2>2, <2>3, StepLife DEF AccountsInv
<1>9. (\A e \in Dids : Grant(e)') /\ (\A c \in Codes : Usage(c)')
  BY <1>4, <1>5, <1>7, PlainStep
<1> QED
  BY <1>7, <1>8, <1>9 DEF AccountsInv

LEMMA StoreKeyInv ==
    ASSUME AccountsInv, NEW h \in Handlers, StoreKey(h)
    PROVE  AccountsInv'
<1>1. Shape /\ req[h].pc = "key" /\ req[h].pc \in CreatePcs
  BY DEF AccountsInv, StoreKey, CreatePcs
<1>2. PICK d \in Dids : d = req[h].did
  BY <1>1, OnAccount
<1>3. Working(h, d)
  BY <1>1, <1>2, OnAccount
<1>4. /\ Moved(h, d) /\ req'[h].pc \in {"repo", "destroy"}
      /\ keyFile' \in {keyFile, keyFile \cup {d}}
      /\ d \in Minted /\ req'[h].pc = "repo" => keyFile' = keyFile \cup {d}
  <2>1. CASE Go(h, "repo") /\ keyFile' = keyFile \cup {d}
    BY <1>1, <1>2, <2>1, GoCreate DEF CreatePcs
  <2>2. CASE Go(h, IF d \in Minted THEN "destroy" ELSE "repo") /\ keyFile' = keyFile
    <3>1. (IF d \in Minted THEN "destroy" ELSE "repo") \in CreatePcs
      BY DEF CreatePcs
    <3> QED
      BY <1>1, <1>2, <2>2, <3>1, GoCreate
  <2> QED
    BY <1>2, <2>1, <2>2 DEF StoreKey
<1>5. UNCHANGED <<actor, email, root, store, doc, code, uses, feed, now, created, deleted,
                  contested, raced, born>>
  BY DEF StoreKey, rows, invites, history
<1>6. Shape'
  BY <1>1, <1>4, <1>5 DEF Shape, AccountsTypeOK, Moved
<1>7. \A e \in Dids : Life(e)'
  <2>1. \A e \in Dids \ {d} : Kept(e)
    BY <1>4, <1>5 DEF Kept
  <2>2. ASSUME d \notin contested
        PROVE  /\ Whole(d)' /\ Forgotten(d)'
               /\ req'[h].pc # "idle" => Reached(req[h].pc, d)'
    <3>1. Reached("key", d)
      BY <1>1, <1>3, <2>2 DEF AccountsInv, Life
    <3>2. d \notin created /\ d \notin deleted
      BY <3>1 DEF Reached, CreatePcs
    <3> QED
      BY <1>4, <1>5, <3>2 DEF Reached, Whole, Forgotten
  <2>3. req'[h].pc \notin PostedPcs
    BY <1>4 DEF PostedPcs
  <2> QED
    BY <1>3, <1>4, <1>5, <2>1, <2>2, <2>3, StepLife DEF AccountsInv
<1>8. (\A e \in Dids : Grant(e)') /\ (\A c \in Codes : Usage(c)')
  BY <1>4, <1>5, <1>6, PlainStep
<1> QED
  BY <1>6, <1>7, <1>8 DEF AccountsInv

LEMMA CreateRepoInv ==
    ASSUME AccountsInv, NEW h \in Handlers, CreateRepo(h)
    PROVE  AccountsInv'
<1>1. Shape /\ req[h].pc = "repo" /\ req[h].pc \in CreatePcs
  BY DEF AccountsInv, CreateRepo, CreatePcs
<1>2. PICK d \in Dids : d = req[h].did
  BY <1>1, OnAccount
<1>3. Working(h, d)
  BY <1>1, <1>2, OnAccount
<1>4. /\ Moved(h, d) /\ req'[h].pc \in {"plc", "invite", "destroy"}
      /\ d \in Minted => req'[h].pc # "invite"
      /\ store' \in {store, [store EXCEPT ![d] = "repo"]}
      /\ req'[h].pc # "destroy" => store' = [store EXCEPT ![d] = "repo"]
  <2>1. CASE /\ Go(h, IF d \in Minted THEN "plc" ELSE "invite")
             /\ store' = [store EXCEPT ![d] = "repo"]
    <3>1. (IF d \in Minted THEN "plc" ELSE "invite") \in CreatePcs
      BY DEF CreatePcs
    <3> QED
      BY <1>1, <1>2, <2>1, <3>1, GoCreate
  <2>2. CASE Go(h, "destroy") /\ store' = store
    BY <1>1, <1>2, <2>2, GoCreate DEF CreatePcs
  <2> QED
    BY <1>2, <2>1, <2>2 DEF CreateRepo
<1>5. UNCHANGED <<actor, email, root, keyFile, doc, code, uses, feed, now, created, deleted,
                  contested, raced, born>>
  BY DEF CreateRepo, rows, invites, history
<1>6. /\ store' \in [Dids -> {Nothing, "made", "repo"}]
      /\ \A e \in Dids \ {d} : store'[e] = store[e]
      /\ req'[h].pc # "destroy" => store'[d] = "repo"
  BY <1>1, <1>4 DEF Shape, AccountsTypeOK
<1>7. Shape'
  BY <1>1, <1>4, <1>5, <1>6 DEF Shape, AccountsTypeOK, Moved
<1>8. \A e \in Dids : Life(e)'
  <2>1. \A e \in Dids \ {d} : Kept(e)
    BY <1>5, <1>6 DEF Kept
  <2>2. ASSUME d \notin contested
        PROVE  /\ Whole(d)' /\ Forgotten(d)'
               /\ req'[h].pc # "idle" => Reached(req[h].pc, d)'
    <3>1. Reached("repo", d)
      BY <1>1, <1>3, <2>2 DEF AccountsInv, Life
    <3>2. d \notin created /\ d \notin deleted /\ (d \in Minted => d \in keyFile)
      BY <3>1 DEF Reached, CreatePcs
    <3> QED
      BY <1>4, <1>5, <1>6, <3>2 DEF Reached, Whole, Forgotten
  <2>3. d \in Minted => req'[h].pc \notin PostedPcs
    BY <1>4 DEF PostedPcs
  <2> QED
    BY <1>3, <1>4, <1>5, <2>1, <2>2, <2>3, StepLife DEF AccountsInv
<1>9. (\A e \in Dids : Grant(e)') /\ (\A c \in Codes : Usage(c)')
  BY <1>4, <1>5, <1>7, PlainStep
<1> QED
  BY <1>7, <1>8, <1>9 DEF AccountsInv

(* The directory keeps a genesis operation whatever becomes of its answer. *)
LEMMA SendOperationInv ==
    ASSUME AccountsInv, NEW h \in Handlers, SendOperation(h)
    PROVE  AccountsInv'
<1>1. Shape /\ req[h].pc = "plc" /\ req[h].pc \in CreatePcs
  BY DEF AccountsInv, SendOperation, CreatePcs
<1>2. PICK d \in Dids : d = req[h].did
  BY <1>1, OnAccount
<1>3. Working(h, d)
  BY <1>1, <1>2, OnAccount
<1>4. /\ Moved(h, d)
      /\ \/ req'[h].pc = "invite" /\ doc' = Posted(d)
         \/ req'[h].pc = "destroy" /\ doc' \in {doc, Posted(d)}
  <2>1. CASE Go(h, "invite") /\ doc' = Posted(d)
    BY <1>1, <1>2, <2>1, GoCreate DEF CreatePcs
  <2>2. CASE Go(h, "destroy") /\ doc' \in {doc, Posted(d)}
    BY <1>1, <1>2, <2>2, GoCreate DEF CreatePcs
  <2> QED
    BY <1>2, <2>1, <2>2 DEF SendOperation
<1>5. UNCHANGED <<actor, email, root, store, keyFile, code, uses, feed, now, created, deleted,
                  contested, raced, born>>
  BY DEF SendOperation, rows, files, invites, history
<1>6. /\ doc' \in [Dids -> {Nothing, "own", "foreign", "shared"}]
      /\ \A e \in Dids \ {d} : doc'[e] = doc[e]
      /\ doc'[d] \in {doc[d], "own"}
      /\ req'[h].pc # "destroy" => doc'[d] = "own"
  <2>1. /\ Posted(d) \in [Dids -> {Nothing, "own", "foreign", "shared"}]
        /\ Posted(d)[d] = "own" /\ \A e \in Dids \ {d} : Posted(d)[e] = doc[e]
    BY <1>1 DEF Shape, AccountsTypeOK, Posted, CreateOp
  <2>2. doc \in [Dids -> {Nothing, "own", "foreign", "shared"}]
    BY <1>1 DEF Shape, AccountsTypeOK
  <2> QED
    BY <1>4, <2>1, <2>2
<1>7. Shape'
  BY <1>1, <1>4, <1>5, <1>6 DEF Shape, AccountsTypeOK, Moved
<1>8. \A e \in Dids : Life(e)'
  <2>1. \A e \in Dids \ {d} : Kept(e)
    BY <1>5, <1>6 DEF Kept
  <2>2. ASSUME d \notin contested
        PROVE  /\ Whole(d)' /\ Forgotten(d)'
               /\ req'[h].pc # "idle" => Reached(req[h].pc, d)'
    <3>1. Reached("plc", d)
      BY <1>1, <1>3, <2>2 DEF AccountsInv, Life
    <3>2. /\ d \notin created /\ d \notin deleted /\ (d \in Minted => d \in keyFile)
          /\ store[d] = "repo"
      BY <3>1 DEF Reached, CreatePcs
    <3> QED
      BY <1>4, <1>5, <1>6, <3>2 DEF Reached, Whole, Forgotten
  <2>3. doc'[d] = "own" \/ req'[h].pc \notin PostedPcs
    BY <1>4, <1>6 DEF PostedPcs
  <2> QED
    BY <1>3, <1>4, <1>5, <1>6, <2>1, <2>2, <2>3, StepLife DEF AccountsInv
<1>9. (\A e \in Dids : Grant(e)') /\ (\A c \in Codes : Usage(c)')
  BY <1>4, <1>5, <1>7, PlainStep
<1> QED
  BY <1>7, <1>8, <1>9 DEF AccountsInv

(* Where the rows are written the document is the did's own already.       *)
LEMMA OwnDocument ==
    ASSUME NEW h \in Handlers, NEW d \in Dids, Working(h, d), req[h].pc \in PostedPcs, Life(d)
    PROVE  d \in Minted => doc[d] = "own"
  BY DEF Life, Listed

LEMMA DestroyInv ==
    ASSUME AccountsInv, NEW h \in Handlers, Destroy(h)
    PROVE  AccountsInv'
<1>1. Shape /\ req[h].pc = "destroy" /\ req[h].pc \in CreatePcs
  BY DEF AccountsInv, Destroy, CreatePcs
<1>2. PICK d \in Dids : d = req[h].did
  BY <1>1, OnAccount
<1>3. Working(h, d)
  BY <1>1, <1>2, OnAccount
<1>4. Moved(h, d) /\ req'[h].pc = "idle"
  BY <1>1, Ends DEF Destroy
<1>5. UNCHANGED <<actor, email, root, doc, code, uses, feed, now, created, deleted,
                  contested, raced, born>>
  BY DEF Destroy, rows, invites, history
<1>6. /\ store' \in [Dids -> {Nothing, "made", "repo"}] /\ keyFile' \subseteq Dids
      /\ \A e \in Dids \ {d} : store'[e] = store[e] /\ (e \in keyFile' <=> e \in keyFile)
  BY <1>1, <1>2 DEF Destroy, Shape, AccountsTypeOK, files
<1>7. Shape'
  BY <1>1, <1>4, <1>5, <1>6 DEF Shape, AccountsTypeOK, Moved
<1>8. \A e \in Dids : Life(e)'
  <2>1. \A e \in Dids \ {d} : Kept(e)
    BY <1>5, <1>6 DEF Kept
  <2>2. ASSUME d \notin contested
        PROVE  Whole(d)' /\ Forgotten(d)'
    <3>1. Reached("destroy", d)
      BY <1>1, <1>3, <2>2 DEF AccountsInv, Life
    <3>2. d \notin created /\ d \notin deleted
      BY <3>1 DEF Reached, CreatePcs
    <3> QED
      BY <1>5, <3>2 DEF Whole, Forgotten
  <2>3. req'[h].pc \notin PostedPcs
    BY <1>4 DEF PostedPcs
  <2> QED
    BY <1>3, <1>4, <1>5, <2>1, <2>2, <2>3, StepLife DEF AccountsInv
<1>9. (\A e \in Dids : Grant(e)') /\ (\A c \in Codes : Usage(c)')
  BY <1>4, <1>5, <1>7, PlainStep
<1> QED
  BY <1>7, <1>8, <1>9 DEF AccountsInv

(* The row, the session and the root.                                      *)
LEMMA RegisterAccountInv ==
    ASSUME AccountsInv, NEW h \in Handlers, RegisterAccount(h)
    PROVE  AccountsInv'
<1>1. Shape /\ req[h].pc = "account" /\ req[h].pc \in CreatePcs
  BY DEF AccountsInv, RegisterAccount, CreatePcs
<1>2. PICK d \in Dids : d = req[h].did
  BY <1>1, OnAccount
<1>3. Working(h, d) /\ req[h].email \in Emails
  BY <1>1, <1>2, OnAccount, Kinds DEF Creating
<1>4. /\ Moved(h, d) /\ req'[h].code = req[h].code
      /\ \/ req'[h].pc = "use" /\ email' = [email EXCEPT ![d] = req[h].email]
         \/ req'[h].pc = "destroy" /\ email' = email
  <2>1. CASE Go(h, "use") /\ email' = [email EXCEPT ![d] = req[h].email]
    BY <1>1, <1>2, <2>1, GoCreate DEF CreatePcs
  <2>2. CASE Go(h, "destroy") /\ email' = email
    BY <1>1, <1>2, <2>2, GoCreate DEF CreatePcs
  <2> QED
    BY <1>2, <2>1, <2>2 DEF RegisterAccount
<1>5. UNCHANGED <<actor, root, store, keyFile, doc, code, uses, feed, now, created, deleted,
                  contested, raced, born>>
  BY DEF RegisterAccount, files, invites, history
<1>6. /\ email' \in [Dids -> Emails \cup {Nothing}]
      /\ \A e \in Dids \ {d} : email'[e] = email[e]
      /\ req'[h].pc = "use" => email'[d] # Nothing
  BY <1>1, <1>3, <1>4, AccountsAssumption DEF Shape, AccountsTypeOK
<1>7. Shape'
  BY <1>1, <1>4, <1>5, <1>6 DEF Shape, AccountsTypeOK, Moved
<1>8. \A e \in Dids : Life(e)'
  <2>1. \A e \in Dids \ {d} : Kept(e)
    BY <1>5, <1>6 DEF Kept
  <2>2. ASSUME d \notin contested
        PROVE  /\ Whole(d)' /\ Forgotten(d)'
               /\ req'[h].pc # "idle" => Reached(req[h].pc, d)'
    <3>1. Reached("account", d)
      BY <1>1, <1>3, <2>2 DEF AccountsInv, Life
    <3>2. /\ d \notin created /\ d \notin deleted /\ (d \in Minted => d \in keyFile)
          /\ store[d] = "repo" /\ HasActor(d)
      BY <3>1 DEF Reached, CreatePcs
    <3> QED
      BY <1>4, <1>5, <1>6, <3>2 DEF Reached, Whole, Forgotten, HasActor
  <2>3. d \in Minted => doc'[d] = "own"
    BY <1>1, <1>3, <1>5, OwnDocument DEF AccountsInv, PostedPcs
  <2> QED
    BY <1>3, <1>4, <1>5, <2>1, <2>2, <2>3, StepLife DEF AccountsInv
<1>9. (\A e \in Dids : Grant(e)') /\ (\A c \in Codes : Usage(c)')
  BY <1>1, <1>4, <1>5, <1>7, PlainStep
<1> QED
  BY <1>7, <1>8, <1>9 DEF AccountsInv

(* Only h has moved, and the codes are as they were: what is unused can    *)
(* only have become less.                                                  *)
LEMMA StepGrant ==
    ASSUME AccountsInv, Shape', UNCHANGED <<code, now, born>>,
           NEW h \in Handlers, NEW d \in Dids, Moved(h, d),
           \A e \in Dids : actor'[e].handle # Nothing =>
                             actor[e].handle # Nothing /\ actor'[e].at = actor[e].at,
           \A e \in Dids : Unused(e)' \subseteq Unused(e)
    PROVE  \A e \in Dids : Grant(e)'
<1>1. ASSUME NEW e \in Dids
      PROVE  Grant(e)'
  <2>1. Routine(e)' = Routine(e)
    BY DEF Routine
  <2>2. now \in Nat
    BY DEF AccountsInv, Shape
  <2>3. \A o \in Handlers : Asking(o, e)' =>
             Asking(o, e) /\ req'[o].n = req[o].n /\ req'[o].total = req[o].total
    BY DEF Asking, Moved
  <2> QED
    BY <2>1, <2>2, <2>3, KeptGrant DEF AccountsInv
<1> QED
  BY <1>1

(* Two sign-ups may both pass the check: then the code is raced.           *)
LEMMA EnsureInviteInv ==
    ASSUME AccountsInv, NEW h \in Handlers, EnsureInvite(h)
    PROVE  AccountsInv'
<1>1. Shape /\ req[h].pc = "invite" /\ req[h].pc \in CreatePcs
  BY DEF AccountsInv, EnsureInvite, CreatePcs
<1>2. PICK d \in Dids : d = req[h].did
  BY <1>1, OnAccount
<1>3. Working(h, d)
  BY <1>1, <1>2, OnAccount
<1>4. PICK c : c = req[h].code
  OBVIOUS
<1>5. /\ Moved(h, d) /\ req'[h].code = c
      /\ \/ req'[h].pc = "destroy" /\ raced' = raced
         \/ /\ req'[h].pc = "actor" /\ (c # Nothing => EnsureAvailable(c))
            /\ \/ raced' = raced /\ \A o \in Handlers \ {h} : ~Checked(o, c)
               \/ raced' = raced \cup {c}
  <2>1. CASE Go(h, "destroy") /\ raced' = raced
    BY <1>1, <1>2, <1>4, <2>1, GoCreate DEF CreatePcs
  <2>2. CASE /\ Go(h, "actor") /\ (c # Nothing => EnsureAvailable(c))
             /\ raced' = IF \E o \in Handlers \ {h} : req[o].pc \in {"actor", "account", "use"}
                                                      /\ req[o].code = c
                         THEN raced \cup {c} ELSE raced
    <3>1. Moved(h, d) /\ req'[h].pc = "actor" /\ req'[h].code = c
      BY <1>1, <1>2, <1>4, <2>2, GoCreate DEF CreatePcs
    <3> QED
      BY <2>2, <3>1 DEF Checked
  <2> QED
    BY <1>4, <2>1, <2>2 DEF EnsureInvite
<1>6. UNCHANGED <<actor, email, root, store, keyFile, doc, code, uses, feed, now, created, deleted,
                  contested, born>>
  BY DEF EnsureInvite, rows, files, invites
<1>7. Shape'
  BY <1>1, <1>5, <1>6 DEF Shape, AccountsTypeOK, Moved
<1>8. \A e \in Dids : Life(e)'
  <2>1. \A e \in Dids \ {d} : Kept(e)
    BY <1>6 DEF Kept
  <2>2. ASSUME d \notin contested
        PROVE  /\ Whole(d)' /\ Forgotten(d)'
               /\ req'[h].pc # "idle" => Reached(req[h].pc, d)'
    <3>1. Reached("invite", d)
      BY <1>1, <1>3, <2>2 DEF AccountsInv, Life
    <3>2. /\ d \notin created /\ d \notin deleted /\ (d \in Minted => d \in keyFile)
          /\ store[d] = "repo"
      BY <3>1 DEF Reached, CreatePcs
    <3> QED
      BY <1>5, <1>6, <3>2 DEF Reached, Whole, Forgotten
  <2>3. d \in Minted => doc'[d] = "own"
    BY <1>1, <1>3, <1>6, OwnDocument DEF AccountsInv, PostedPcs
  <2> QED
    BY <1>3, <1>5, <1>6, <2>1, <2>2, <2>3, StepLife DEF AccountsInv
<1>9. \A e \in Dids : Grant(e)'
  <2>1. \A e \in Dids : Unused(e)' \subseteq Unused(e)
    BY <1>6 DEF Unused, Routine, UseCount
  <2> QED
    BY <1>5, <1>6, <1>7, <2>1, StepGrant
<1>10. ASSUME NEW x \in Codes
       PROVE  Usage(x)'
  <2>1. Usage(x) /\ code[x].avail \in Nat /\ x # Nothing
    BY AccountsAssumption DEF AccountsInv, Shape, CodeRow
  <2>2. x \in raced => x \in raced'
    BY <1>5
  <2>3. \A o \in Handlers \ {h} : Checked(o, x)' => Checked(o, x)
    BY <1>5 DEF Checked, Moved
  <2>4. CASE ~Checked(h, x)'
    BY <1>1, <1>6, <2>1, <2>2, <2>3, <2>4, KeptUsage
  <2>5. CASE Checked(h, x)'
    <3>1. x = c /\ req'[h].pc = "actor"
      BY <1>5, <2>5 DEF Checked
    <3>2. Cardinality(uses[x]) < code[x].avail
      BY <1>5, <2>1, <3>1 DEF EnsureAvailable
    <3>3. x \notin raced' => \A o \in Handlers \ {h} : ~Checked(o, x)'
      BY <1>5, <2>3, <3>1
    <3>4. Cardinality(uses[x]) \in Nat
      BY <2>1, FS_CardinalityType DEF Usage
    <3>5. x \notin raced' => \A o, u \in Handlers : Checked(o, x)' /\ Checked(u, x)' => o = u
      BY <3>3
    <3> QED
      BY <1>6, <2>1, <3>2, <3>4, <3>5 DEF Usage
  <2> QED
    BY <2>4, <2>5
<1> QED
  BY <1>7, <1>8, <1>9, <1>10 DEF AccountsInv

(* A first row starts the account's invite intervals.                      *)
LEMMA RegisterActorInv ==
    ASSUME AccountsInv, NEW h \in Handlers, RegisterActor(h)
    PROVE  AccountsInv'
<1>1. Shape /\ req[h].pc = "actor" /\ req[h].pc \in CreatePcs
  BY DEF AccountsInv, RegisterActor, CreatePcs
<1>2. PICK d \in Dids : d = req[h].did
  BY <1>1, OnAccount
<1>3. Working(h, d) /\ req[h].handle \in Handles /\ req[h].handle # Nothing
  BY <1>1, <1>2, OnAccount, Kinds, AccountsAssumption DEF Creating
<1>4. /\ Moved(h, d) /\ req'[h].code = req[h].code
      /\ \/ /\ req'[h].pc = "account" /\ ~HasActor(d)
            /\ actor' = [actor EXCEPT ![d] = [handle |-> req[h].handle, off |-> d \in Imported,
                                              down |-> FALSE, at |-> now]]
            /\ born' = [born EXCEPT ![d] = IF @ > now THEN now ELSE @]
         \/ req'[h].pc = "destroy" /\ actor' = actor /\ born' = born
  <2>1. CASE /\ Go(h, "account") /\ ~HasActor(d)
             /\ actor' = [actor EXCEPT ![d] = [handle |-> req[h].handle, off |-> d \in Imported,
                                               down |-> FALSE, at |-> now]]
             /\ born' = [born EXCEPT ![d] = IF @ > now THEN now ELSE @]
    <3>1. Moved(h, d) /\ req'[h].code = req[h].code /\ req'[h].pc = "account"
      BY <1>1, <1>2, <2>1, GoCreate DEF CreatePcs
    <3> QED
      BY <2>1, <3>1
  <2>2. CASE Go(h, "destroy") /\ UNCHANGED <<actor, born>>
    BY <1>1, <1>2, <2>2, GoCreate DEF CreatePcs
  <2> QED
    BY <1>2, <2>1, <2>2 DEF RegisterActor
<1>5. UNCHANGED <<email, root, store, keyFile, doc, code, uses, feed, now, created, deleted,
                  contested, raced>>
  BY DEF RegisterActor, files, invites
<1>6. now \in 0..MaxNow /\ MaxNow \in Nat /\ now \in Nat /\ born[d] \in Nat
  BY <1>1, AccountsAssumption DEF Shape
<1>7. /\ actor' \in [Dids -> [handle: Handles \cup {Nothing}, off: BOOLEAN, down: BOOLEAN,
                              at: 0..MaxNow]]
      /\ born' \in [Dids -> 0..(MaxNow + 1)]
      /\ \A e \in Dids \ {d} : actor'[e] = actor[e] /\ born'[e] = born[e]
      /\ req'[h].pc = "account" =>
            /\ actor'[d].handle # Nothing /\ actor'[d].at = now
            /\ born'[d] = IF born[d] > now THEN now ELSE born[d]
  <2>1. /\ actor \in [Dids -> [handle: Handles \cup {Nothing}, off: BOOLEAN, down: BOOLEAN,
                               at: 0..MaxNow]]
        /\ born \in [Dids -> 0..(MaxNow + 1)]
    BY <1>1 DEF Shape, AccountsTypeOK
  <2>2. CASE req'[h].pc = "destroy"
    BY <1>4, <2>1, <2>2
  <2>3. CASE req'[h].pc = "account"
    <3>1. (IF born[d] > now THEN now ELSE born[d]) \in 0..(MaxNow + 1)
      BY <1>6, <2>1
    <3>2. PICK b, r : /\ b = (IF born[d] > now THEN now ELSE born[d])
                      /\ r = [handle |-> req[h].handle, off |-> d \in Imported,
                              down |-> FALSE, at |-> now]
      OBVIOUS
    <3>3. (d \in Imported) \in BOOLEAN
      OBVIOUS
    <3>4. /\ r \in [handle: Handles \cup {Nothing}, off: BOOLEAN, down: BOOLEAN, at: 0..MaxNow]
          /\ r.handle = req[h].handle /\ r.at = now
      BY <1>3, <1>6, <3>2, <3>3
    <3>5. actor' = [actor EXCEPT ![d] = r] /\ born' = [born EXCEPT ![d] = b]
      BY <1>4, <2>3, <3>2
    <3> QED
      BY <1>3, <2>1, <3>1, <3>2, <3>4, <3>5
  <2> QED
    BY <1>4, <2>2, <2>3
<1>8. Shape'
  BY <1>1, <1>4, <1>5, <1>7 DEF Shape, AccountsTypeOK, Moved
<1>9. \A e \in Dids : Life(e)'
  <2>1. \A e \in Dids \ {d} : Kept(e)
    BY <1>5, <1>7 DEF Kept
  <2>2. ASSUME d \notin contested
        PROVE  /\ Whole(d)' /\ Forgotten(d)'
               /\ req'[h].pc # "idle" => Reached(req[h].pc, d)'
    <3>1. Reached("actor", d)
      BY <1>1, <1>3, <2>2 DEF AccountsInv, Life
    <3>2. /\ d \notin created /\ d \notin deleted /\ (d \in Minted => d \in keyFile)
          /\ store[d] = "repo"
      BY <3>1 DEF Reached, CreatePcs
    <3> QED
      BY <1>4, <1>5, <1>7, <3>2 DEF Reached, Whole, Forgotten, HasActor
  <2>3. d \in Minted => doc'[d] = "own"
    BY <1>1, <1>3, <1>5, OwnDocument DEF AccountsInv, PostedPcs
  <2> QED
    BY <1>3, <1>4, <1>5, <2>1, <2>2, <2>3, StepLife DEF AccountsInv
<1>10. \A c \in Codes : Usage(c)'
  <2>1. \A c \in Codes, o \in Handlers : Checked(o, c)' => Checked(o, c)
    BY <1>1, <1>4 DEF Checked, Moved
  <2>2. \A c \in Codes : code[c].avail \in Nat
    BY <1>1 DEF Shape, CodeRow
  <2> QED
    BY <1>1, <1>5, <2>1, <2>2, KeptUsage DEF AccountsInv
<1>11. \A e \in Dids : Routine(e)' = Routine(e) /\ Unused(e)' = Unused(e)
  BY <1>5 DEF Routine, Unused, UseCount
<1>12. \A e \in Dids, o \in Handlers : Asking(o, e)' =>
            Asking(o, e) /\ req'[o].n = req[o].n /\ req'[o].total = req[o].total
  BY <1>4 DEF Asking, Moved
<1>13. \A e \in Dids \ {d} : Grant(e)'
  BY <1>1, <1>5, <1>6, <1>7, <1>8, <1>11, <1>12, KeptGrant DEF AccountsInv
<1>14. Grant(d)'
  <2>1. CASE req'[h].pc = "destroy"
    BY <1>1, <1>4, <1>5, <1>6, <1>8, <1>11, <1>12, <2>1, KeptGrant DEF AccountsInv
  <2>2. CASE req'[h].pc = "account"
    <3>1. HasActor(d)' => born'[d] <= actor'[d].at /\ actor'[d].at <= now'
      BY <1>5, <1>6, <1>7, <2>2
    <3>2. Minus(now, born[d])' = Minus(now, born[d])
      BY <1>5, <1>6, <1>7, <2>2 DEF Minus
    <3>3. Grant(d)
      BY DEF AccountsInv
    <3>4. ASSUME NEW o \in Handlers, Asking(o, d)'
          PROVE  Promise(req[o].n, req[o].total, d)'
      <4>1. Promise(req[o].n, req[o].total, d) /\ req'[o].n = req[o].n /\ req'[o].total = req[o].total
        BY <1>12, <3>3, <3>4 DEF Grant
      <4>2. born'[d] = born[d]
        BY <1>6, <1>7, <2>2, <4>1 DEF Promise
      <4> QED
        BY <1>5, <1>11, <4>1, <4>2 DEF Promise
    <3> QED
      BY <1>11, <3>1, <3>2, <3>3, <3>4 DEF Grant
  <2> QED
    BY <1>4, <2>1, <2>2
<1> QED
  BY <1>8, <1>9, <1>10, <1>13, <1>14 DEF AccountsInv

(* A use more, and a sign-up less that has checked the code.               *)
LEMMA RecordInviteUseInv ==
    ASSUME AccountsInv, NEW h \in Handlers, RecordInviteUse(h)
    PROVE  AccountsInv'
<1>1. Shape /\ req[h].pc = "use" /\ req[h].pc \in CreatePcs
  BY DEF AccountsInv, RecordInviteUse, CreatePcs
<1>2. PICK d \in Dids : d = req[h].did
  BY <1>1, OnAccount
<1>3. Working(h, d) /\ req[h].code \in Codes \cup {Nothing}
  BY <1>1, <1>2, OnAccount, Kinds DEF Creating
<1>4. PICK c \in Codes \cup {Nothing} : c = req[h].code
  BY <1>3
<1>5. /\ Moved(h, d) /\ req'[h].pc \in {"root", "destroy"}
      /\ \/ uses' = uses
         \/ c # Nothing /\ uses' = [uses EXCEPT ![c] = @ \cup {d}]
  <2>1. CASE Go(h, "root")
    BY <1>1, <1>2, <1>4, <2>1, GoCreate DEF CreatePcs, RecordInviteUse
  <2>2. CASE Go(h, "destroy")
    BY <1>1, <1>2, <1>4, <2>2, GoCreate DEF CreatePcs, RecordInviteUse
  <2> QED
    BY <1>2, <1>4, <2>1, <2>2 DEF RecordInviteUse
<1>6. UNCHANGED <<actor, email, root, store, keyFile, doc, code, feed, now, created, deleted,
                  contested, raced, born>>
  BY DEF RecordInviteUse, rows, files, history
<1>7. /\ uses' \in [Codes -> SUBSET Dids]
      /\ \A x \in Codes : uses'[x] = uses[x] \/ (x = c /\ uses'[x] = uses[x] \cup {d})
  <2>1. uses \in [Codes -> SUBSET Dids]
    BY <1>1 DEF Shape, AccountsTypeOK
  <2> QED
    BY <1>4, <1>5, <2>1
<1>8. Shape'
  BY <1>1, <1>5, <1>6, <1>7 DEF Shape, AccountsTypeOK, Moved
<1>9. \A e \in Dids : Life(e)'
  <2>1. \A e \in Dids \ {d} : Kept(e)
    BY <1>6 DEF Kept
  <2>2. ASSUME d \notin contested
        PROVE  /\ Whole(d)' /\ Forgotten(d)'
               /\ req'[h].pc # "idle" => Reached(req[h].pc, d)'
    <3>1. Reached("use", d)
      BY <1>1, <1>3, <2>2 DEF AccountsInv, Life
    <3>2. /\ d \notin created /\ d \notin deleted /\ (d \in Minted => d \in keyFile)
          /\ store[d] = "repo" /\ HasActor(d) /\ email[d] # Nothing
      BY <3>1 DEF Reached, CreatePcs
    <3> QED
      BY <1>5, <1>6, <3>2 DEF Reached, Whole, Forgotten, HasActor
  <2>3. d \in Minted => doc'[d] = "own"
    BY <1>1, <1>3, <1>6, OwnDocument DEF AccountsInv, PostedPcs
  <2> QED
    BY <1>3, <1>5, <1>6, <2>1, <2>2, <2>3, StepLife DEF AccountsInv
<1>10. \A x \in Codes : /\ IsFiniteSet(uses'[x])
                        /\ Cardinality(uses[x]) \in Nat /\ Cardinality(uses'[x]) \in Nat
                        /\ Cardinality(uses[x]) <= Cardinality(uses'[x])
                        /\ Cardinality(uses'[x]) <= Cardinality(uses[x]) + 1
                        /\ x # c => uses'[x] = uses[x]
  <2>1. ASSUME NEW x \in Codes
        PROVE  /\ IsFiniteSet(uses'[x])
               /\ Cardinality(uses[x]) \in Nat /\ Cardinality(uses'[x]) \in Nat
               /\ Cardinality(uses[x]) <= Cardinality(uses'[x])
               /\ Cardinality(uses'[x]) <= Cardinality(uses[x]) + 1
               /\ x # c => uses'[x] = uses[x]
    <3>1. IsFiniteSet(uses[x]) /\ Cardinality(uses[x]) \in Nat
      BY FS_CardinalityType DEF AccountsInv, Usage
    <3>2. PICK S, T : S = uses[x] /\ T = uses'[x]
      OBVIOUS
    <3>3. T = S \/ T = S \cup {d}
      BY <1>7, <3>2
    <3>4. /\ IsFiniteSet(S \cup {d})
          /\ Cardinality(S \cup {d}) = IF d \in S THEN Cardinality(S) ELSE Cardinality(S) + 1
      BY <3>1, <3>2, FS_AddElement
    <3> QED
      BY <1>7, <3>1, <3>2, <3>3, <3>4
  <2> QED
    BY <2>1
<1>11. \A e \in Dids : Grant(e)'
  <2>1. \A e \in Dids : Unused(e)' \subseteq Unused(e)
    <3>1. \A x \in Codes : code[x].avail \in Nat
      BY <1>1 DEF Shape, CodeRow
    <3> QED
      BY <1>6, <1>10, <3>1 DEF Unused, Routine, UseCount
  <2> QED
    BY <1>5, <1>6, <1>8, <2>1, StepGrant
<1>12. ASSUME NEW x \in Codes
       PROVE  Usage(x)'
  <2>1. Usage(x) /\ code[x].avail \in Nat
    BY DEF AccountsInv, Shape, CodeRow
  <2>2. ~Checked(h, x)' /\ \A o \in Handlers : Checked(o, x)' => Checked(o, x) /\ o # h
    BY <1>5 DEF Checked, Moved
  <2>3. CASE x # c
    BY <1>1, <1>6, <1>10, <2>1, <2>2, <2>3, KeptUsage
  <2>4. CASE x = c
    <3>1. Checked(h, x)
      BY <1>1, <1>4, <2>4 DEF Checked
    <3>2. x \notin raced => /\ \A o \in Handlers : ~Checked(o, x)'
                            /\ Cardinality(uses'[x]) <= code[x].avail
      BY <1>10, <2>1, <2>2, <3>1 DEF Usage
    <3> QED
      BY <1>6, <1>10, <3>2 DEF Usage
  <2> QED
    BY <2>3, <2>4
<1> QED
  BY <1>8, <1>9, <1>11, <1>12 DEF AccountsInv

LEMMA UpdateRootInv ==
    ASSUME AccountsInv, NEW h \in Handlers, UpdateRoot(h)
    PROVE  AccountsInv'
<1>1. Shape /\ req[h].pc = "root" /\ req[h].pc \in CreatePcs
  BY DEF AccountsInv, UpdateRoot, CreatePcs
<1>2. PICK d \in Dids : d = req[h].did
  BY <1>1, OnAccount
<1>3. Working(h, d)
  BY <1>1, <1>2, OnAccount
<1>4. /\ Moved(h, d)
      /\ \/ req'[h].pc = "events" /\ root' = root \cup {d}
         \/ req'[h].pc = "destroy" /\ root' = root
  <2>1. CASE Go(h, "events") /\ root' = root \cup {d}
    BY <1>1, <1>2, <2>1, GoCreate DEF CreatePcs
  <2>2. CASE Go(h, "destroy") /\ root' = root
    BY <1>1, <1>2, <2>2, GoCreate DEF CreatePcs
  <2> QED
    BY <1>2, <2>1, <2>2 DEF UpdateRoot
<1>5. UNCHANGED <<actor, email, store, keyFile, doc, code, uses, feed, now, created, deleted,
                  contested, raced, born>>
  BY DEF UpdateRoot, files, invites, history
<1>6. Shape'
  BY <1>1, <1>4, <1>5 DEF Shape, AccountsTypeOK, Moved
<1>7. \A e \in Dids : Life(e)'
  <2>1. \A e \in Dids \ {d} : Kept(e)
    BY <1>4, <1>5 DEF Kept
  <2>2. ASSUME d \notin contested
        PROVE  /\ Whole(d)' /\ Forgotten(d)'
               /\ req'[h].pc # "idle" => Reached(req[h].pc, d)'
    <3>1. Reached("root", d)
      BY <1>1, <1>3, <2>2 DEF AccountsInv, Life
    <3>2. /\ d \notin created /\ d \notin deleted /\ (d \in Minted => d \in keyFile)
          /\ store[d] = "repo" /\ HasActor(d) /\ email[d] # Nothing
      BY <3>1 DEF Reached, CreatePcs
    <3> QED
      BY <1>4, <1>5, <3>2 DEF Reached, Whole, Forgotten, HasActor
  <2>3. d \in Minted => doc'[d] = "own"
    BY <1>1, <1>3, <1>5, OwnDocument DEF AccountsInv, PostedPcs
  <2> QED
    BY <1>3, <1>4, <1>5, <2>1, <2>2, <2>3, StepLife DEF AccountsInv
<1>8. (\A e \in Dids : Grant(e)') /\ (\A c \in Codes : Usage(c)')
  BY <1>4, <1>5, <1>6, PlainStep
<1> QED
  BY <1>6, <1>7, <1>8 DEF AccountsInv

(* What a sign-up has reached when it answers is a whole account.          *)
LEMMA AnnounceCreatedInv ==
    ASSUME AccountsInv, NEW h \in Handlers, AnnounceCreated(h)
    PROVE  AccountsInv'
<1>1. Shape /\ req[h].pc = "events" /\ req[h].pc \in CreatePcs
  BY DEF AccountsInv, AnnounceCreated, CreatePcs
<1>2. PICK d \in Dids : d = req[h].did
  BY <1>1, OnAccount
<1>3. Working(h, d)
  BY <1>1, <1>2, OnAccount
<1>4. Moved(h, d) /\ req'[h].pc = "idle"
  BY <1>1, Ends DEF AnnounceCreated
<1>5. UNCHANGED <<actor, email, root, store, keyFile, doc, code, uses, now, contested, raced,
                  born>>
  BY DEF AnnounceCreated, rows, files, invites
<1>6. /\ feed' \in [Dids -> {Nothing, "active", "deactivated", "takendown", "deleted"}]
      /\ \A e \in Dids \ {d} : feed'[e] = feed[e]
      /\ created' \in {created, created \cup {d}} /\ deleted' = deleted \ {d}
  BY <1>1, <1>2 DEF AnnounceCreated, Announced, Shape, AccountsTypeOK
<1>7. Shape'
  BY <1>1, <1>4, <1>5, <1>6 DEF Shape, AccountsTypeOK, Moved
<1>8. d \in Minted => doc[d] = "own"
  BY <1>1, <1>3, OwnDocument DEF AccountsInv, PostedPcs
<1>9. \A e \in Dids : Life(e)'
  <2>1. \A e \in Dids \ {d} : Kept(e)
    BY <1>5, <1>6 DEF Kept
  <2>2. ASSUME d \notin contested
        PROVE  Whole(d)' /\ Forgotten(d)'
    <3>1. Reached("events", d)
      BY <1>1, <1>3, <2>2 DEF AccountsInv, Life
    <3>2. /\ (d \in Minted => d \in keyFile) /\ d \in root
          /\ store[d] = "repo" /\ HasActor(d) /\ email[d] # Nothing
      BY <3>1 DEF Reached
    <3> QED
      BY <1>5, <1>6, <1>8, <3>2 DEF Whole, Forgotten, HasActor
  <2> QED
    BY <1>3, <1>4, <1>5, <1>8, <2>1, <2>2, StepLife DEF AccountsInv
<1>10. (\A e \in Dids : Grant(e)') /\ (\A c \in Codes : Usage(c)')
  BY <1>4, <1>5, <1>7, PlainStep
<1> QED
  BY <1>7, <1>9, <1>10 DEF AccountsInv

-----------------------------------------------------------------------------
(* activateAccount.  Nothing of it undoes what an account has.             *)

(* A step that only moves a request on, to a place where nothing more is   *)
(* promised.                                                               *)
LEMMA PassInv ==
    ASSUME AccountsInv, NEW h \in Handlers, NEW d \in Dids, Working(h, d), Moved(h, d),
           req'[h].pc \in {"idle", "activate", "sync", "status", "announce"},
           UNCHANGED <<email, root, store, keyFile, doc, code, uses, now, created, deleted,
                       contested, raced, born>>,
           actor' \in [Dids -> [handle: Handles \cup {Nothing}, off: BOOLEAN, down: BOOLEAN,
                                at: 0..MaxNow]],
           \A e \in Dids : actor'[e].handle = actor[e].handle /\ actor'[e].at = actor[e].at,
           feed' \in [Dids -> {Nothing, "active", "deactivated", "takendown", "deleted"}],
           \A e \in Dids \ {d} : feed'[e] = feed[e]
    PROVE  AccountsInv'
<1>1. Shape'
  BY DEF AccountsInv, Shape, AccountsTypeOK, Moved
<1>2. \A e \in Dids : Life(e)'
  <2>1. \A e \in Dids \ {d} : Kept(e)
    BY DEF Kept
  <2>2. ASSUME d \notin contested
        PROVE  /\ Whole(d)' /\ Forgotten(d)'
               /\ req'[h].pc # "idle" => Reached(req[h].pc, d)'
    <3>1. Reached(req[h].pc, d) /\ Whole(d)
      BY <2>2 DEF AccountsInv, Life
    <3>2. d \notin deleted
      BY <3>1 DEF Reached
    <3> QED
      BY <3>1, <3>2 DEF Reached, Whole, Forgotten, HasActor, CreatePcs
  <2>3. req'[h].pc \notin PostedPcs
    BY DEF PostedPcs
  <2> QED
    BY <2>1, <2>2, <2>3, StepLife DEF AccountsInv
<1>3. (\A e \in Dids : Grant(e)') /\ (\A c \in Codes : Usage(c)')
  BY <1>1, PlainStep
<1> QED
  BY <1>1, <1>2, <1>3 DEF AccountsInv

LEMMA RefuseInv ==
    ASSUME AccountsInv, NEW h \in Handlers, Refuse(h)
    PROVE  AccountsInv'
<1>1. Shape /\ req[h].pc \in ActPcs
  BY DEF AccountsInv, Refuse, ActPcs
<1>2. PICK d \in Dids : d = req[h].did /\ Working(h, d)
  BY <1>1, OnAccount
<1>3. Moved(h, d) /\ req'[h].pc = "idle"
  BY <1>1, Ends DEF Refuse
<1>4. UNCHANGED <<actor, email, root, store, keyFile, doc, code, uses, feed, now, created, deleted,
                  contested, raced, born>>
  BY DEF Refuse, rows, files, invites, counters, history
<1> QED
  BY <1>1, <1>2, <1>3, <1>4, PassInv DEF Shape, AccountsTypeOK

LEMMA FindInactiveInv ==
    ASSUME AccountsInv, NEW h \in Handlers, FindInactive(h)
    PROVE  AccountsInv'
<1>1. Shape /\ req[h].pc \in ActPcs
  BY DEF AccountsInv, FindInactive, ActPcs
<1>2. PICK d \in Dids : d = req[h].did /\ Working(h, d)
  BY <1>1, OnAccount
<1>3. Moved(h, d) /\ req'[h].pc \in {"idle", "activate"}
  <2>1. CASE Done(h)
    BY <1>1, <2>1, Ends
  <2>2. CASE Go(h, "activate")
    BY <1>1, <1>2, <2>2, GoAct DEF ActPcs
  <2> QED
    BY <2>1, <2>2 DEF FindInactive
<1>4. UNCHANGED <<actor, email, root, store, keyFile, doc, code, uses, feed, now, created, deleted,
                  contested, raced, born>>
  BY DEF FindInactive, rows, files, invites, counters, history
<1> QED
  BY <1>1, <1>2, <1>3, <1>4, PassInv DEF Shape, AccountsTypeOK

(* A row of the table actor.                                               *)
ActorRow == [handle: Handles \cup {Nothing}, off: BOOLEAN, down: BOOLEAN, at: 0..MaxNow]

LEMMA RowChanges ==
    ASSUME Shape, NEW d \in Dids, NEW r \in ActorRow, actor' = [actor EXCEPT ![d] = r]
    PROVE  /\ actor' \in [Dids -> [handle: Handles \cup {Nothing}, off: BOOLEAN, down: BOOLEAN,
                                   at: 0..MaxNow]]
           /\ actor'[d] = r /\ \A e \in Dids \ {d} : actor'[e] = actor[e]
<1>1. actor \in [Dids -> ActorRow]
  BY DEF Shape, AccountsTypeOK, ActorRow
<1> QED
  BY <1>1 DEF ActorRow

LEMMA ActivateRowInv ==
    ASSUME AccountsInv, NEW h \in Handlers, ActivateRow(h)
    PROVE  AccountsInv'
<1>1. Shape /\ req[h].pc \in ActPcs
  BY DEF AccountsInv, ActivateRow, ActPcs
<1>2. PICK d \in Dids : d = req[h].did /\ Working(h, d)
  BY <1>1, OnAccount
<1>3. Moved(h, d) /\ req'[h].pc \in {"idle", "sync"}
  <2>1. CASE Done(h)
    BY <1>1, <2>1, Ends
  <2>2. CASE Go(h, "sync")
    BY <1>1, <1>2, <2>2, GoAct DEF ActPcs
  <2> QED
    BY <2>1, <2>2 DEF ActivateRow
<1>4. UNCHANGED <<email, root, store, keyFile, doc, code, uses, feed, now, created, deleted,
                  contested, raced, born>>
  BY DEF ActivateRow, rows, files, invites, history
<1>5. actor' = actor \/ actor' = [actor EXCEPT ![d].off = FALSE]
  BY <1>2 DEF ActivateRow
<1>6. /\ actor' \in [Dids -> [handle: Handles \cup {Nothing}, off: BOOLEAN, down: BOOLEAN,
                              at: 0..MaxNow]]
      /\ \A e \in Dids : actor'[e].handle = actor[e].handle /\ actor'[e].at = actor[e].at
  <2>1. actor[d] \in ActorRow /\ FALSE \in BOOLEAN
    BY <1>1 DEF Shape, AccountsTypeOK, ActorRow
  <2>2. PICK r : r = [actor[d] EXCEPT !.off = FALSE]
    OBVIOUS
  <2>3. r \in ActorRow /\ r.handle = actor[d].handle /\ r.at = actor[d].at
    BY <2>1, <2>2 DEF ActorRow
  <2>4. CASE actor' = actor
    BY <1>1, <2>4 DEF Shape, AccountsTypeOK
  <2>5. CASE actor' = [actor EXCEPT ![d].off = FALSE]
    <3>1. actor' = [actor EXCEPT ![d] = r]
      BY <2>2, <2>5
    <3> QED
      BY <1>1, <2>3, <3>1, RowChanges
  <2> QED
    BY <1>5, <2>4, <2>5
<1> QED
  BY <1>1, <1>2, <1>3, <1>4, <1>6, PassInv DEF Shape, AccountsTypeOK

LEMMA ReadSyncDataInv ==
    ASSUME AccountsInv, NEW h \in Handlers, ReadSyncData(h)
    PROVE  AccountsInv'
<1>1. Shape /\ req[h].pc \in ActPcs
  BY DEF AccountsInv, ReadSyncData, ActPcs
<1>2. PICK d \in Dids : d = req[h].did /\ Working(h, d)
  BY <1>1, OnAccount
<1>3. Moved(h, d) /\ req'[h].pc \in {"idle", "status"}
  <2>1. CASE Done(h)
    BY <1>1, <2>1, Ends
  <2>2. CASE Go(h, "status")
    BY <1>1, <1>2, <2>2, GoAct DEF ActPcs
  <2> QED
    BY <2>1, <2>2 DEF ReadSyncData
<1>4. UNCHANGED <<actor, email, root, store, keyFile, doc, code, uses, feed, now, created, deleted,
                  contested, raced, born>>
  BY DEF ReadSyncData, rows, files, invites, counters, history
<1> QED
  BY <1>1, <1>2, <1>3, <1>4, PassInv DEF Shape, AccountsTypeOK

LEMMA StatusKinds ==
    ASSUME NEW d \in Dids
    PROVE  FormatAccountStatus(d) \in Statuses
<1>1. CASE ~HasActor(d)
  BY <1>1 DEF FormatAccountStatus, Statuses
<1>2. CASE HasActor(d) /\ actor[d].down
  BY <1>2 DEF FormatAccountStatus, Statuses
<1>3. CASE HasActor(d) /\ ~actor[d].down /\ actor[d].off
  BY <1>3 DEF FormatAccountStatus, Statuses
<1>4. CASE HasActor(d) /\ ~actor[d].down /\ ~actor[d].off
  BY <1>4 DEF FormatAccountStatus, Statuses
<1> QED
  BY <1>1, <1>2, <1>3, <1>4

LEMMA ReadStatusInv ==
    ASSUME AccountsInv, NEW h \in Handlers, ReadStatus(h)
    PROVE  AccountsInv'
<1>1. Shape /\ req[h].pc \in ActPcs
  BY DEF AccountsInv, ReadStatus, ActPcs
<1>2. PICK d \in Dids : d = req[h].did /\ Working(h, d)
  BY <1>1, OnAccount
<1>3. PICK q : q = [pc |-> "announce", did |-> d, status |-> FormatAccountStatus(d)]
  OBVIOUS
<1>4. q \in Work /\ q.pc = "announce" /\ q.did = d
  BY <1>3, StatusKinds DEF Work, Announcing
<1>5. req' = [req EXCEPT ![h] = q]
  BY <1>2, <1>3 DEF ReadStatus
<1>6. Moved(h, d) /\ req'[h].pc = "announce"
  BY <1>1, <1>4, <1>5, Becomes DEF Moved
<1>7. UNCHANGED <<actor, email, root, store, keyFile, doc, code, uses, feed, now, created, deleted,
                  contested, raced, born>>
  BY DEF ReadStatus, rows, files, invites, counters, history
<1> QED
  BY <1>1, <1>2, <1>6, <1>7, PassInv DEF Shape, AccountsTypeOK

LEMMA AnnounceStatusInv ==
    ASSUME AccountsInv, NEW h \in Handlers, AnnounceStatus(h)
    PROVE  AccountsInv'
<1>1. Shape /\ req[h].pc = "announce"
  BY DEF AccountsInv, AnnounceStatus
<1>2. PICK d \in Dids : d = req[h].did /\ Working(h, d)
  BY <1>1, OnAccount
<1>3. Moved(h, d) /\ req'[h].pc = "idle"
  BY <1>1, Ends DEF AnnounceStatus
<1>4. UNCHANGED <<actor, email, root, store, keyFile, doc, code, uses, now, created, deleted,
                  contested, raced, born>>
  BY DEF AnnounceStatus, rows, files, invites, history
<1>5. req[h].status \in Statuses
  BY <1>1, Kinds DEF Announcing
<1>6. /\ feed' \in [Dids -> {Nothing, "active", "deactivated", "takendown", "deleted"}]
      /\ \A e \in Dids \ {d} : feed'[e] = feed[e]
  BY <1>1, <1>2, <1>5 DEF AnnounceStatus, Shape, AccountsTypeOK, Statuses
<1> QED
  BY <1>1, <1>2, <1>3, <1>4, <1>6, PassInv DEF Shape, AccountsTypeOK

-----------------------------------------------------------------------------
(* deleteAccount.                                                          *)
LEMMA WipeStoreInv ==
    ASSUME AccountsInv, NEW h \in Handlers, WipeStore(h)
    PROVE  AccountsInv'
<1>1. Shape /\ req[h].pc = "wipe" /\ req[h].pc \in ActPcs
  BY DEF AccountsInv, WipeStore, ActPcs
<1>2. PICK d \in Dids : d = req[h].did /\ Working(h, d)
  BY <1>1, OnAccount
<1>3. /\ Moved(h, d)
      /\ \/ /\ req'[h].pc = "rows"
            /\ store' = [store EXCEPT ![d] = Nothing] /\ keyFile' = keyFile \ {d}
         \/ req'[h].pc = "idle" /\ store' = store /\ keyFile' = keyFile
  <2>1. CASE Go(h, "rows") /\ store' = [store EXCEPT ![d] = Nothing] /\ keyFile' = keyFile \ {d}
    BY <1>1, <1>2, <2>1, GoAct DEF ActPcs
  <2>2. CASE Done(h) /\ UNCHANGED files
    BY <1>1, <2>2, Ends DEF files
  <2> QED
    BY <1>2, <2>1, <2>2 DEF WipeStore
<1>4. UNCHANGED <<actor, email, root, doc, code, uses, feed, now, deleted, contested, raced,
                  born>>
  BY DEF WipeStore, rows, invites
<1>5. created' = created \ {d}
  BY <1>2 DEF WipeStore
<1>6. /\ store' \in [Dids -> {Nothing, "made", "repo"}] /\ keyFile' \subseteq Dids
      /\ \A e \in Dids \ {d} : store'[e] = store[e] /\ (e \in keyFile' <=> e \in keyFile)
      /\ store'[d] \in {store[d], Nothing} /\ keyFile' \subseteq keyFile
      /\ req'[h].pc = "rows" => store'[d] = Nothing /\ d \notin keyFile'
  BY <1>1, <1>3 DEF Shape, AccountsTypeOK
<1>7. Shape'
  BY <1>1, <1>3, <1>4, <1>5, <1>6 DEF Shape, AccountsTypeOK, Moved
<1>8. \A e \in Dids : Life(e)'
  <2>1. \A e \in Dids \ {d} : Kept(e)
    BY <1>4, <1>5, <1>6 DEF Kept
  <2>2. ASSUME d \notin contested
        PROVE  /\ Whole(d)' /\ Forgotten(d)'
               /\ req'[h].pc # "idle" => Reached(req[h].pc, d)'
    <3>1. Reached("wipe", d)
      BY <1>1, <1>2, <2>2 DEF AccountsInv, Life
    <3>2. d \notin deleted
      BY <3>1 DEF Reached
    <3> QED
      BY <1>3, <1>4, <1>5, <1>6, <3>2 DEF Reached, Whole, Forgotten
  <2>3. d \in Minted => doc'[d] = "own"
    BY <1>1, <1>2, <1>4, OwnDocument DEF AccountsInv, PostedPcs
  <2> QED
    BY <1>2, <1>3, <1>4, <2>1, <2>2, <2>3, StepLife DEF AccountsInv
<1>9. (\A e \in Dids : Grant(e)') /\ (\A c \in Codes : Usage(c)')
  BY <1>3, <1>4, <1>7, PlainStep
<1> QED
  BY <1>7, <1>8, <1>9 DEF AccountsInv

LEMMA DeleteRowsInv ==
    ASSUME AccountsInv, NEW h \in Handlers, DeleteRows(h)
    PROVE  AccountsInv'
<1>1. Shape /\ req[h].pc = "rows" /\ req[h].pc \in ActPcs
  BY DEF AccountsInv, DeleteRows, ActPcs
<1>2. PICK d \in Dids : d = req[h].did /\ Working(h, d)
  BY <1>1, OnAccount
<1>3. /\ Moved(h, d)
      /\ \/ /\ req'[h].pc = "gone"
            /\ actor' = [actor EXCEPT ![d] = NoActor] /\ email' = [email EXCEPT ![d] = Nothing]
            /\ root' = root \ {d}
         \/ req'[h].pc = "idle" /\ actor' = actor /\ email' = email /\ root' = root
  <2>1. CASE /\ Go(h, "gone") /\ actor' = [actor EXCEPT ![d] = NoActor]
             /\ email' = [email EXCEPT ![d] = Nothing] /\ root' = root \ {d}
    BY <1>1, <1>2, <2>1, GoAct DEF ActPcs
  <2>2. CASE Done(h) /\ UNCHANGED rows
    BY <1>1, <2>2, Ends DEF rows
  <2> QED
    BY <1>2, <2>1, <2>2 DEF DeleteRows
<1>4. UNCHANGED <<store, keyFile, doc, code, uses, feed, now, created, deleted, contested, raced,
                  born>>
  BY DEF DeleteRows, files, invites, history
<1>5. NoActor \in ActorRow /\ NoActor.handle = Nothing
  BY AccountsAssumption DEF NoActor, ActorRow
<1>6. /\ actor' \in [Dids -> [handle: Handles \cup {Nothing}, off: BOOLEAN, down: BOOLEAN,
                              at: 0..MaxNow]]
      /\ \A e \in Dids \ {d} : actor'[e] = actor[e]
      /\ actor'[d] = actor[d] \/ actor'[d].handle = Nothing
      /\ req'[h].pc = "gone" => actor'[d].handle = Nothing
  <2>1. CASE actor' = [actor EXCEPT ![d] = NoActor]
    BY <1>1, <1>5, <2>1, RowChanges
  <2>2. CASE req'[h].pc # "gone"
    BY <1>1, <1>3, <2>2 DEF Shape, AccountsTypeOK
  <2> QED
    BY <1>3, <2>1, <2>2
<1>7. /\ email' \in [Dids -> Emails \cup {Nothing}] /\ root' \subseteq Dids
      /\ \A e \in Dids \ {d} : email'[e] = email[e] /\ (e \in root' <=> e \in root)
      /\ req'[h].pc = "gone" => email'[d] = Nothing /\ d \notin root'
  BY <1>1, <1>3 DEF Shape, AccountsTypeOK
<1>8. Shape'
  BY <1>1, <1>3, <1>4, <1>6, <1>7 DEF Shape, AccountsTypeOK, Moved
<1>9. \A e \in Dids : Life(e)'
  <2>1. \A e \in Dids \ {d} : Kept(e)
    BY <1>4, <1>6, <1>7 DEF Kept
  <2>2. ASSUME d \notin contested
        PROVE  /\ Whole(d)' /\ Forgotten(d)'
               /\ req'[h].pc # "idle" => Reached(req[h].pc, d)'
    <3>1. Reached("rows", d)
      BY <1>1, <1>2, <2>2 DEF AccountsInv, Life
    <3>2. d \notin deleted /\ d \notin created /\ store[d] = Nothing /\ d \notin keyFile
      BY <3>1 DEF Reached
    <3> QED
      BY <1>3, <1>4, <1>6, <1>7, <3>2 DEF Reached, Whole, Forgotten, HasActor, CreatePcs
  <2>3. d \in Minted => doc'[d] = "own"
    BY <1>1, <1>2, <1>4, OwnDocument DEF AccountsInv, PostedPcs
  <2> QED
    BY <1>2, <1>3, <1>4, <2>1, <2>2, <2>3, StepLife DEF AccountsInv
<1>10. (\A e \in Dids : Grant(e)') /\ (\A c \in Codes : Usage(c)')
  BY <1>3, <1>4, <1>6, <1>8, PlainStep
<1> QED
  BY <1>8, <1>9, <1>10 DEF AccountsInv

LEMMA AnnounceDeletedInv ==
    ASSUME AccountsInv, NEW h \in Handlers, AnnounceDeleted(h)
    PROVE  AccountsInv'
<1>1. Shape /\ req[h].pc = "gone" /\ req[h].pc \in ActPcs
  BY DEF AccountsInv, AnnounceDeleted, ActPcs
<1>2. PICK d \in Dids : d = req[h].did /\ Working(h, d)
  BY <1>1, OnAccount
<1>3. /\ Moved(h, d) /\ req'[h].pc \in {"purge", "idle"}
      /\ feed' = [feed EXCEPT ![d] = "deleted"] \/ feed' = feed
  <2>1. CASE Go(h, "purge") /\ feed' = [feed EXCEPT ![d] = "deleted"]
    BY <1>1, <1>2, <2>1, GoAct DEF ActPcs
  <2>2. CASE Done(h) /\ UNCHANGED feed
    BY <1>1, <2>2, Ends
  <2> QED
    BY <1>2, <2>1, <2>2 DEF AnnounceDeleted
<1>4. UNCHANGED <<actor, email, root, store, keyFile, doc, code, uses, now, created, deleted,
                  contested, raced, born>>
  BY DEF AnnounceDeleted, rows, files, invites, history
<1>5. /\ feed' \in [Dids -> {Nothing, "active", "deactivated", "takendown", "deleted"}]
      /\ \A e \in Dids \ {d} : feed'[e] = feed[e]
  BY <1>1, <1>3 DEF Shape, AccountsTypeOK
<1>6. Shape'
  BY <1>1, <1>3, <1>4, <1>5 DEF Shape, AccountsTypeOK, Moved
<1>7. \A e \in Dids : Life(e)'
  <2>1. \A e \in Dids \ {d} : Kept(e)
    BY <1>4, <1>5 DEF Kept
  <2>2. ASSUME d \notin contested
        PROVE  /\ Whole(d)' /\ Forgotten(d)'
               /\ req'[h].pc # "idle" => Reached(req[h].pc, d)'
    <3>1. Reached("gone", d)
      BY <1>1, <1>2, <2>2 DEF AccountsInv, Life
    <3>2. /\ d \notin deleted /\ d \notin created /\ store[d] = Nothing /\ d \notin keyFile
          /\ ~HasActor(d) /\ email[d] = Nothing /\ d \notin root
      BY <3>1 DEF Reached
    <3> QED
      BY <1>3, <1>4, <3>2 DEF Reached, Whole, Forgotten, HasActor, CreatePcs
  <2>3. d \in Minted => doc'[d] = "own"
    BY <1>1, <1>2, <1>4, OwnDocument DEF AccountsInv, PostedPcs
  <2> QED
    BY <1>2, <1>3, <1>4, <2>1, <2>2, <2>3, StepLife DEF AccountsInv
<1>8. (\A e \in Dids : Grant(e)') /\ (\A c \in Codes : Usage(c)')
  BY <1>3, <1>4, <1>6, PlainStep
<1> QED
  BY <1>6, <1>7, <1>8 DEF AccountsInv

LEMMA DeleteAllForUserInv ==
    ASSUME AccountsInv, NEW h \in Handlers, DeleteAllForUser(h)
    PROVE  AccountsInv'
<1>1. Shape /\ req[h].pc = "purge" /\ req[h].pc \in ActPcs
  BY DEF AccountsInv, DeleteAllForUser, ActPcs
<1>2. PICK d \in Dids : d = req[h].did /\ Working(h, d)
  BY <1>1, OnAccount
<1>3. Moved(h, d) /\ req'[h].pc = "idle"
  BY <1>1, Ends DEF DeleteAllForUser
<1>4. UNCHANGED <<actor, email, root, store, keyFile, doc, code, uses, now, created, contested,
                  raced, born>>
  BY DEF DeleteAllForUser, rows, files, invites
<1>5. /\ feed' \in [Dids -> {Nothing, "active", "deactivated", "takendown", "deleted"}]
      /\ \A e \in Dids \ {d} : feed'[e] = feed[e] /\ (e \in deleted' <=> e \in deleted)
      /\ deleted' \subseteq deleted \cup {d}
      /\ \/ feed'[d] = Nothing /\ d \in deleted'
         \/ feed' = feed /\ deleted' = deleted
  BY <1>1, <1>2 DEF DeleteAllForUser, Shape, AccountsTypeOK
<1>6. Shape'
  BY <1>1, <1>3, <1>4, <1>5 DEF Shape, AccountsTypeOK, Moved
<1>7. \A e \in Dids : Life(e)'
  <2>1. \A e \in Dids \ {d} : Kept(e)
    BY <1>4, <1>5 DEF Kept
  <2>2. ASSUME d \notin contested
        PROVE  Whole(d)' /\ Forgotten(d)'
    <3>1. Reached("purge", d)
      BY <1>1, <1>2, <2>2 DEF AccountsInv, Life
    <3>2. /\ d \notin deleted /\ d \notin created /\ store[d] = Nothing /\ d \notin keyFile
          /\ ~HasActor(d) /\ email[d] = Nothing /\ d \notin root
      BY <3>1 DEF Reached
    <3> QED
      BY <1>4, <1>5, <3>2 DEF Whole, Forgotten, HasActor
  <2>3. d \in Minted => doc'[d] = "own"
    BY <1>1, <1>2, <1>4, OwnDocument DEF AccountsInv, PostedPcs
  <2> QED
    BY <1>2, <1>3, <1>4, <2>1, <2>2, <2>3, StepLife DEF AccountsInv
<1>8. (\A e \in Dids : Grant(e)') /\ (\A c \in Codes : Usage(c)')
  BY <1>3, <1>4, <1>6, PlainStep
<1> QED
  BY <1>6, <1>7, <1>8 DEF AccountsInv

-----------------------------------------------------------------------------
(* A request starts.  If nobody works on d it is the only one; otherwise d *)
(* is contested and nothing is promised any more.                          *)
LEMMA StartInv ==
    ASSUME AccountsInv, NEW h \in Handlers, req[h] = NoRequest, NEW d \in Dids,
           NEW q \in Creating \cup Acting, q.did = d,
           q.pc \in {"exists", "refused", "find", "wipe"},
           req' = [req EXCEPT ![h] = q], Overlap(d),
           deleted' \in {deleted, deleted \ {d}},
           UNCHANGED <<actor, email, root, store, keyFile, doc, code, uses, feed, now, created,
                       raced, born>>,
           d \in Minted /\ q.pc = "wipe" => doc[d] = "own",
           d \notin contested /\ ~Busy(d) => d \notin deleted'
    PROVE  AccountsInv'
<1>1. Shape /\ q \in Work
  BY DEF AccountsInv, Work
<1>2. /\ req' \in [Handlers -> Work] /\ req'[h] = q
      /\ \A o \in Handlers \ {h} : req'[o] = req[o]
  BY <1>1, Becomes
<1>3. Moved(h, d) /\ Working(h, d)' /\ ~Working(h, d)
  BY <1>2 DEF Moved, Working, NoRequest
<1>4. Shape'
  BY <1>1, <1>2 DEF Shape, AccountsTypeOK
<1>5. contested' = IF Busy(d) THEN contested \cup {d} ELSE contested
  BY DEF Overlap
<1>6. \A o \in Handlers \ {h}, e \in Dids : Working(o, e)' <=> Working(o, e)
  BY <1>2 DEF Working
<1>7. ASSUME NEW e \in Dids \ {d}
      PROVE  Life(e)'
  <2>1. Kept(e)
    BY <1>5 DEF Kept
  <2>2. \A o \in Handlers : Working(o, e)' => Working(o, e) /\ req'[o].pc = req[o].pc
    BY <1>2, <1>6, <1>7 DEF Working
  <2> QED
    BY <1>7, <2>1, <2>2, KeptLife DEF AccountsInv
<1>8. Life(d)'
  <2>1. Life(d)
    BY DEF AccountsInv
  <2>2. Listed(d)'
    <3>1. d \in Minted => /\ doc[d] \in {Nothing, "own"}
                          /\ HasActor(d) \/ d \in deleted => doc[d] = "own"
      BY <2>1 DEF Life, Listed
    <3>2. ASSUME d \in Minted, NEW o \in Handlers, Working(o, d)', req'[o].pc \in PostedPcs
          PROVE  doc[d] = "own"
      <4>1. CASE o = h
        BY <1>2, <3>2, <4>1 DEF PostedPcs
      <4>2. CASE o # h
        BY <1>2, <1>6, <2>1, <3>2, <4>2 DEF Life, Listed
      <4> QED
        BY <4>1, <4>2
    <3> QED
      BY <3>1, <3>2 DEF Listed, HasActor
  <2>3. ASSUME d \notin contested'
        PROVE  /\ Sole(d)' /\ Whole(d)' /\ Forgotten(d)'
               /\ \A o \in Handlers : Working(o, d)' => Reached(req[o].pc, d)'
    <3>1. ~Busy(d) /\ d \notin contested
      BY <1>5, <2>3
    <3>2. \A o \in Handlers : ~Working(o, d)
      BY <3>1 DEF Busy, Working
    <3>3. \A o \in Handlers : Working(o, d)' => o = h
      BY <1>6, <3>2
    <3>4. Whole(d) /\ Forgotten(d) /\ d \notin deleted'
      BY <2>1, <3>1 DEF Life
    <3>5. Reached(req[h].pc, d)'
      BY <1>2, <3>4 DEF Reached, CreatePcs
    <3> QED
      BY <3>3, <3>4, <3>5 DEF Sole, Whole, Forgotten, HasActor
  <2> QED
    BY <2>2, <2>3 DEF Life
<1>9. (\A e \in Dids : Grant(e)') /\ (\A c \in Codes : Usage(c)')
  BY <1>2, <1>3, <1>4, PlainStep
<1> QED
  BY <1>4, <1>7, <1>8, <1>9 DEF AccountsInv

LEMMA ValidateInv ==
    ASSUME AccountsInv, NEW h \in Handlers, Validate(h)
    PROVE  AccountsInv'
<1>1. PICK n \in Handles, e \in Emails, c \in Codes \cup {Nothing}, d \in Dids :
        /\ req' = [req EXCEPT ![h] =
             [pc |-> "exists", did |-> d, handle |-> n, email |-> e, code |-> c]]
        /\ Overlap(d) /\ deleted' = deleted \ {d}
  BY DEF Validate
<1>2. req[h] = NoRequest
  BY DEF Validate
<1>3. UNCHANGED <<actor, email, root, store, keyFile, doc, code, uses, feed, now, created,
                  raced, born>>
  BY DEF Validate, rows, files, invites
<1>4. PICK q : q = [pc |-> "exists", did |-> d, handle |-> n, email |-> e, code |-> c]
  OBVIOUS
<1>5. q \in Creating /\ q.did = d /\ q.pc = "exists"
  BY <1>1, <1>4 DEF Creating, CreatePcs
<1> QED
  BY <1>1, <1>2, <1>3, <1>4, <1>5, StartInv

(* A did that is minted has never had an account: the directory would know *)
(* it.                                                                     *)
LEMMA RemoteCreateAccountInv ==
    ASSUME AccountsInv, NEW h \in Handlers, RemoteCreateAccount(h)
    PROVE  AccountsInv'
<1>1. PICK n \in Handles, e \in Emails, c \in Codes \cup {Nothing}, d \in BuildDidAndPlcOp :
        req' = [req EXCEPT ![h] =
          [pc |-> "exists", did |-> d, handle |-> n, email |-> e, code |-> c]]
  BY DEF RemoteCreateAccount
<1>2. req[h] = NoRequest
  BY DEF RemoteCreateAccount
<1>3. UNCHANGED <<actor, email, root, store, keyFile, doc, code, uses, feed, now, created,
                  deleted, contested, raced, born>>
  BY DEF RemoteCreateAccount, rows, files, invites, history
<1>4. d \in Minted /\ d \in Dids /\ doc[d] = Nothing /\ ~Busy(d)
  BY <1>1 DEF BuildDidAndPlcOp, Unminted, Dids
<1>5. Overlap(d)
  BY <1>3, <1>4 DEF Overlap
<1>6. d \notin deleted
  <2>1. Listed(d)
    BY <1>4 DEF AccountsInv, Life
  <2> QED
    BY <1>4, <2>1 DEF Listed, Nothing
<1>7. PICK q : q = [pc |-> "exists", did |-> d, handle |-> n, email |-> e, code |-> c]
  OBVIOUS
<1>8. q \in Creating /\ q.did = d /\ q.pc = "exists"
  BY <1>1, <1>4, <1>7 DEF Creating, CreatePcs
<1> QED
  BY <1>1, <1>2, <1>3, <1>4, <1>5, <1>6, <1>7, <1>8, StartInv

LEMMA StartActivateInv ==
    ASSUME AccountsInv, NEW h \in Handlers, StartActivate(h)
    PROVE  AccountsInv'
<1>1. PICK d \in Dids :
        /\ HasActor(d)
        /\ req' = [req EXCEPT ![h] =
             IF ValidDocument(d) THEN [pc |-> "find", did |-> d] ELSE [pc |-> "refused", did |-> d]]
        /\ Overlap(d)
  BY DEF StartActivate
<1>2. req[h] = NoRequest
  BY DEF StartActivate
<1>3. UNCHANGED <<actor, email, root, store, keyFile, doc, code, uses, feed, now, created,
                  deleted, raced, born>>
  BY DEF StartActivate, rows, files, invites
<1>4. PICK q : q = IF ValidDocument(d) THEN [pc |-> "find", did |-> d]
                   ELSE [pc |-> "refused", did |-> d]
  OBVIOUS
<1>5. q \in Acting /\ q.did = d /\ q.pc \in {"find", "refused"}
  BY <1>1, <1>4 DEF Acting, ActPcs
<1>6. d \notin contested => d \notin deleted
  BY <1>1 DEF AccountsInv, Life, Forgotten
<1>7. req' = [req EXCEPT ![h] = q]
  BY <1>1, <1>4
<1> QED
  BY <1>1, <1>2, <1>3, <1>5, <1>6, <1>7, StartInv

LEMMA StartDeleteInv ==
    ASSUME AccountsInv, NEW h \in Handlers, StartDelete(h)
    PROVE  AccountsInv'
<1>1. PICK d \in Dids :
        /\ HasActor(d)
        /\ req' = [req EXCEPT ![h] = [pc |-> "wipe", did |-> d]]
        /\ Overlap(d)
  BY DEF StartDelete
<1>2. req[h] = NoRequest
  BY DEF StartDelete
<1>3. UNCHANGED <<actor, email, root, store, keyFile, doc, code, uses, feed, now, created,
                  deleted, raced, born>>
  BY DEF StartDelete, rows, files, invites
<1>4. PICK q : q = [pc |-> "wipe", did |-> d]
  OBVIOUS
<1>5. q \in Acting /\ q.did = d /\ q.pc = "wipe"
  BY <1>1, <1>4 DEF Acting, ActPcs
<1>6. d \notin contested => d \notin deleted
  BY <1>1 DEF AccountsInv, Life, Forgotten
<1>7. d \in Minted => doc[d] = "own"
  BY <1>1 DEF AccountsInv, Life, Listed
<1> QED
  BY <1>1, <1>2, <1>3, <1>4, <1>5, <1>6, <1>7, StartInv

-----------------------------------------------------------------------------
(* What is done to an account without a request that lasts, the clock and  *)
(* a crash.                                                                *)

(* The row of an account changes, and still is its row.                    *)
LEMMA RowInv ==
    ASSUME AccountsInv, NEW d \in Dids, NEW r \in ActorRow, HasActor(d), r.handle # Nothing,
           r.at = actor[d].at, actor' = [actor EXCEPT ![d] = r],
           UNCHANGED <<email, root, files, doc, invites, feed, req, now, faults, history>>
    PROVE  AccountsInv'
<1>1. Shape
  BY DEF AccountsInv
<1>2. UNCHANGED <<email, root, store, keyFile, doc, code, uses, feed, req, now, created,
                  deleted, contested, raced, born>>
  BY DEF files, invites, history
<1>3. /\ actor' \in [Dids -> [handle: Handles \cup {Nothing}, off: BOOLEAN, down: BOOLEAN,
                              at: 0..MaxNow]]
      /\ actor'[d] = r /\ \A e \in Dids \ {d} : actor'[e] = actor[e]
  BY <1>1, RowChanges
<1>4. Shape'
  BY <1>1, <1>2, <1>3 DEF Shape, AccountsTypeOK
<1>5. \A e \in Dids : Kept(e)
  BY <1>2, <1>3 DEF Kept, HasActor
<1>6. \A e \in Dids : Life(e)'
  BY <1>2, <1>5, KeptLife DEF AccountsInv, Working
<1>7. (\A e \in Dids : Grant(e)') /\ (\A c \in Codes : Usage(c)')
  BY <1>2, <1>3, <1>4, Plain DEF HasActor
<1> QED
  BY <1>4, <1>6, <1>7 DEF AccountsInv

LEMMA DeactivateAccountInv ==
    ASSUME AccountsInv, NEW d \in Dids, DeactivateAccount(d)
    PROVE  AccountsInv'
<1>1. actor[d] \in ActorRow
  BY DEF AccountsInv, Shape, AccountsTypeOK, ActorRow
<1>2. PICK r : r = [actor[d] EXCEPT !.off = TRUE]
  OBVIOUS
<1>3. r \in ActorRow /\ r.handle = actor[d].handle /\ r.at = actor[d].at
  BY <1>1, <1>2 DEF ActorRow
<1>4. actor' = [actor EXCEPT ![d] = r]
  BY <1>2 DEF DeactivateAccount, Deactivated
<1>5. /\ HasActor(d)
      /\ UNCHANGED <<email, root, files, doc, invites, feed, req, now, faults, history>>
  BY DEF DeactivateAccount
<1> QED
  BY <1>3, <1>4, <1>5, RowInv DEF HasActor

LEMMA TakedownAccountInv ==
    ASSUME AccountsInv, NEW d \in Dids, NEW applied \in BOOLEAN, TakedownAccount(d, applied)
    PROVE  AccountsInv'
<1>1. actor[d] \in ActorRow
  BY DEF AccountsInv, Shape, AccountsTypeOK, ActorRow
<1>2. PICK r : r = [actor[d] EXCEPT !.down = applied]
  OBVIOUS
<1>3. r \in ActorRow /\ r.handle = actor[d].handle /\ r.at = actor[d].at
  BY <1>1, <1>2 DEF ActorRow
<1>4. actor' = [actor EXCEPT ![d] = r]
  BY <1>2 DEF TakedownAccount
<1>5. /\ HasActor(d)
      /\ UNCHANGED <<email, root, files, doc, invites, feed, req, now, faults, history>>
  BY DEF TakedownAccount
<1> QED
  BY <1>3, <1>4, <1>5, RowInv DEF HasActor

LEMMA UpdateHandleInv ==
    ASSUME AccountsInv, NEW d \in Dids, NEW n \in Handles, UpdateHandle(d, n)
    PROVE  AccountsInv'
<1>1. actor[d] \in ActorRow
  BY DEF AccountsInv, Shape, AccountsTypeOK, ActorRow
<1>2. PICK r : r = [actor[d] EXCEPT !.handle = n]
  OBVIOUS
<1>3. r \in ActorRow /\ r.handle # Nothing /\ r.at = actor[d].at
  BY <1>1, <1>2, AccountsAssumption DEF ActorRow
<1>4. actor' = [actor EXCEPT ![d] = r]
  BY <1>2 DEF UpdateHandle
<1>5. /\ HasActor(d)
      /\ UNCHANGED <<email, root, files, doc, invites, feed, req, now, faults, history>>
  BY DEF UpdateHandle
<1> QED
  BY <1>3, <1>4, <1>5, RowInv DEF HasActor

(* A did that was minted here never had a foreign document.                *)
LEMMA PointDocumentHereInv ==
    ASSUME AccountsInv, NEW d \in Dids, PointDocumentHere(d)
    PROVE  AccountsInv'
<1>1. Shape /\ Life(d)
  BY DEF AccountsInv
<1>2. d \notin Minted
  BY <1>1 DEF PointDocumentHere, Life, Listed, Nothing
<1>3. UNCHANGED <<actor, email, root, store, keyFile, code, uses, feed, req, now, created,
                  deleted, contested, raced, born>>
  BY DEF PointDocumentHere, rows, files, invites, counters, history
<1>4. /\ doc' \in [Dids -> {Nothing, "own", "foreign", "shared"}]
      /\ \A e \in Dids \ {d} : doc'[e] = doc[e]
  BY <1>1 DEF PointDocumentHere, Shape, AccountsTypeOK
<1>5. Shape'
  BY <1>1, <1>3, <1>4 DEF Shape, AccountsTypeOK
<1>6. \A e \in Dids : Kept(e)
  BY <1>2, <1>3, <1>4 DEF Kept
<1>7. \A e \in Dids : Life(e)'
  BY <1>3, <1>6, KeptLife DEF AccountsInv, Working
<1>8. (\A e \in Dids : Grant(e)') /\ (\A c \in Codes : Usage(c)')
  BY <1>3, <1>5, Plain
<1> QED
  BY <1>5, <1>7, <1>8 DEF AccountsInv

LEMMA CrashInv ==
    ASSUME AccountsInv, Crash
    PROVE  AccountsInv'
<1>1. Shape
  BY DEF AccountsInv
<1>2. UNCHANGED <<actor, email, root, store, keyFile, doc, code, uses, feed, now, created,
                  deleted, contested, raced, born>>
  BY DEF Crash, rows, files, invites, history
<1>3. NoRequest \in Work
  BY DEF Work
<1>4. req' \in [Handlers -> Work] /\ \A o \in Handlers : req'[o].pc = "idle"
  BY <1>3 DEF Crash, NoRequest
<1>5. Shape'
  BY <1>1, <1>2, <1>4 DEF Shape, AccountsTypeOK
<1>6. \A e \in Dids : Kept(e)
  BY <1>2 DEF Kept
<1>7. \A e \in Dids : Life(e)'
  <2>1. \A o \in Handlers, e \in Dids : ~Working(o, e)'
    BY <1>4 DEF Working
  <2> QED
    BY <1>6, <2>1, KeptLife DEF AccountsInv
<1>8. (\A e \in Dids : Grant(e)') /\ (\A c \in Codes : Usage(c)')
  BY <1>2, <1>4, <1>5, Plain
<1> QED
  BY <1>5, <1>7, <1>8 DEF AccountsInv

(* Time only widens what an account may have.                              *)
LEMMA IntervalPassesInv ==
    ASSUME AccountsInv, IntervalPasses
    PROVE  AccountsInv'
<1>1. Shape /\ now \in Nat /\ MaxNow \in Nat
  BY AccountsAssumption DEF AccountsInv, Shape
<1>2. UNCHANGED <<actor, email, root, store, keyFile, doc, code, uses, feed, req, created,
                  deleted, contested, raced, born>>
  BY DEF IntervalPasses, rows, files, invites, history
<1>3. now' = now + 1 /\ now' \in 0..MaxNow /\ now <= now'
  BY <1>1 DEF IntervalPasses, Shape
<1>4. Shape'
  BY <1>1, <1>2, <1>3 DEF Shape, AccountsTypeOK
<1>5. \A e \in Dids : Kept(e)
  BY <1>2 DEF Kept
<1>6. \A e \in Dids : Life(e)'
  BY <1>2, <1>5, KeptLife DEF AccountsInv, Working
<1>7. ASSUME NEW e \in Dids
      PROVE  Grant(e)'
  <2>1. Routine(e)' = Routine(e) /\ Unused(e)' = Unused(e)
    BY <1>2 DEF Routine, Unused, UseCount
  <2>2. \A o \in Handlers : Asking(o, e)' =>
             Asking(o, e) /\ req'[o].n = req[o].n /\ req'[o].total = req[o].total
    BY <1>2 DEF Asking
  <2> QED
    BY <1>1, <1>2, <1>3, <1>4, <2>1, <2>2, KeptGrant DEF AccountsInv
<1>8. \A c \in Codes : Usage(c)'
  <2>1. \A c \in Codes : code[c].avail \in Nat
    BY <1>1 DEF Shape, CodeRow
  <2> QED
    BY <1>1, <1>2, <2>1, KeptUsage DEF AccountsInv, Checked
<1> QED
  BY <1>4, <1>6, <1>7, <1>8 DEF AccountsInv

-----------------------------------------------------------------------------
(* Invite codes.  Nobody's routine codes are touched by what an            *)
(* administrator makes.                                                    *)
LEMMA CodesInv ==
    ASSUME AccountsInv, code' \in [Codes -> CodeRow],
           UNCHANGED <<rows, files, doc, uses, feed, req, now, faults, history>>,
           \A c \in Codes : code[c].avail <= code'[c].avail,
           \A e \in Dids : Routine(e)' = Routine(e) /\ Unused(e)' \subseteq Unused(e)
    PROVE  AccountsInv'
<1>1. Shape /\ now \in Nat
  BY DEF AccountsInv, Shape
<1>2. UNCHANGED <<actor, email, root, store, keyFile, doc, uses, feed, req, now, created,
                  deleted, contested, raced, born>>
  BY DEF rows, files, history
<1>3. Shape'
  BY <1>1, <1>2 DEF Shape, AccountsTypeOK
<1>4. \A e \in Dids : Kept(e)
  BY <1>2 DEF Kept
<1>5. \A e \in Dids : Life(e)'
  BY <1>2, <1>4, KeptLife DEF AccountsInv, Working
<1>6. ASSUME NEW e \in Dids
      PROVE  Grant(e)'
  <2>1. \A o \in Handlers : Asking(o, e)' =>
             Asking(o, e) /\ req'[o].n = req[o].n /\ req'[o].total = req[o].total
    BY <1>2 DEF Asking
  <2> QED
    BY <1>1, <1>2, <1>3, <2>1, KeptGrant DEF AccountsInv
<1>7. \A c \in Codes : Usage(c)'
  <2>1. \A c \in Codes : code'[c].avail \in Nat
    BY DEF CodeRow
  <2> QED
    BY <1>1, <1>2, <2>1, KeptUsage DEF AccountsInv, Checked
<1> QED
  BY <1>3, <1>5, <1>6, <1>7 DEF AccountsInv

(* What an insertion leaves: a row is made where none was.                 *)
LEMMA Inserted ==
    ASSUME Shape, NEW new \in SUBSET Fresh, NEW by \in Dids \cup {"admin"},
           NEW owner, \A c \in new : owner[c] \in Dids \cup {"admin"},
           InsertInviteCodes(new, owner, by)
    PROVE  /\ code' \in [Codes -> CodeRow]
           /\ \A c \in Codes \ new : code'[c] = code[c]
           /\ \A c \in new : /\ code[c].avail = 0 /\ code[c].by = Nothing
                             /\ code'[c].avail = 1 /\ code'[c].for = owner[c]
                             /\ code'[c].by = by
<1>1. new \subseteq Codes /\ \A c \in new : code[c] = NoCode
  BY DEF Fresh
<1>2. code \in [Codes -> CodeRow]
  BY DEF Shape
<1>3. ASSUME NEW c \in new
      PROVE  [avail |-> 1, off |-> FALSE, for |-> owner[c], by |-> by] \in CodeRow
  BY <1>3 DEF CodeRow
<1>4. \A c \in Codes : code'[c] = IF c \in new
                                  THEN [avail |-> 1, off |-> FALSE, for |-> owner[c], by |-> by]
                                  ELSE code[c]
  BY DEF InsertInviteCodes
<1>5. code' \in [Codes -> CodeRow]
  BY <1>1, <1>2, <1>3 DEF InsertInviteCodes
<1> QED
  BY <1>1, <1>4, <1>5 DEF NoCode

LEMMA AdminCodesInv ==
    ASSUME AccountsInv, NEW new \in SUBSET Fresh,
           NEW owner, \A c \in new : owner[c] \in Dids \cup {"admin"},
           AdminCodes(new, owner),
           UNCHANGED <<rows, files, doc, uses, feed, req, now, faults, history>>
    PROVE  AccountsInv'
<1>1. Shape /\ InsertInviteCodes(new, owner, "admin") /\ "admin" \in Dids \cup {"admin"}
  BY DEF AccountsInv, AdminCodes
<1>2. /\ code' \in [Codes -> CodeRow]
      /\ \A c \in Codes \ new : code'[c] = code[c]
      /\ \A c \in new : /\ code[c].avail = 0 /\ code[c].by = Nothing
                        /\ code'[c].avail = 1 /\ code'[c].by = "admin"
  BY <1>1, Inserted
<1>3. \A c \in Codes : code[c].avail \in Nat
  BY <1>1 DEF Shape, CodeRow
<1>4. \A c \in Codes : code[c].avail <= code'[c].avail
  BY <1>2, <1>3
<1>5. uses' = uses /\ Nothing \notin Dids /\ "admin" \notin Dids
  BY AccountsAssumption
<1>6. ASSUME NEW e \in Dids
      PROVE  Routine(e)' = Routine(e) /\ Unused(e)' \subseteq Unused(e)
  <2>1. Routine(e)' = Routine(e) /\ \A c \in Routine(e) : code'[c] = code[c]
    BY <1>2, <1>5 DEF Routine
  <2> QED
    BY <1>5, <2>1 DEF Unused, UseCount
<1> QED
  BY <1>2, <1>4, <1>6, CodesInv

LEMMA CreateInviteCodeInv ==
    ASSUME AccountsInv, NEW c \in Codes, NEW for \in {"admin"} \cup {d \in Dids : HasActor(d)},
           CreateInviteCode(c, for)
    PROVE  AccountsInv'
<1>1. {c} \in SUBSET Fresh /\ \A x \in {c} : [o \in {c} |-> for][x] \in Dids \cup {"admin"}
  BY DEF CreateInviteCode
<1> QED
  BY <1>1, AdminCodesInv DEF CreateInviteCode

LEMMA CreateInviteCodesInv ==
    ASSUME AccountsInv, NEW new \in SUBSET Codes, CreateInviteCodes(new)
    PROVE  AccountsInv'
<1>1. new \in SUBSET Fresh
  BY DEF CreateInviteCodes
<1>2. PICK owner \in [new -> {"admin"} \cup {d \in Dids : HasActor(d)}] : AdminCodes(new, owner)
  BY DEF CreateInviteCodes
<1>3. \A c \in new : owner[c] \in Dids \cup {"admin"}
  BY <1>2
<1> QED
  BY <1>1, <1>2, <1>3, AdminCodesInv DEF CreateInviteCodes

LEMMA DisableInviteCodesInv ==
    ASSUME AccountsInv, NEW names \in SUBSET Codes, NEW accounts \in SUBSET Dids,
           DisableInviteCodes(names, accounts)
    PROVE  AccountsInv'
<1>1. code \in [Codes -> CodeRow]
  BY DEF AccountsInv, Shape
<1>2. PICK hit : code' = [c \in Codes |-> IF c \in hit THEN [code[c] EXCEPT !.off = TRUE]
                                          ELSE code[c]]
  BY DEF DisableInviteCodes
<1>3. \A c \in Codes : /\ [code[c] EXCEPT !.off = TRUE] \in CodeRow
                       /\ [code[c] EXCEPT !.off = TRUE].avail = code[c].avail
                       /\ [code[c] EXCEPT !.off = TRUE].for = code[c].for
                       /\ [code[c] EXCEPT !.off = TRUE].by = code[c].by
                       /\ [code[c] EXCEPT !.off = TRUE].off = TRUE
  BY <1>1 DEF CodeRow
<1>4. code' \in [Codes -> CodeRow]
  BY <1>1, <1>2, <1>3
<1>5. \A c \in Codes : /\ code'[c].avail = code[c].avail /\ code'[c].for = code[c].for
                       /\ code'[c].by = code[c].by
                       /\ code[c].off = TRUE => code'[c].off = TRUE
  BY <1>2, <1>3
<1>6. /\ uses' = uses
      /\ UNCHANGED <<rows, files, doc, uses, feed, req, now, faults, history>>
  BY DEF DisableInviteCodes
<1>7. ASSUME NEW e \in Dids
      PROVE  Routine(e)' = Routine(e) /\ Unused(e)' \subseteq Unused(e)
  <2>1. Routine(e)' = Routine(e)
    BY <1>5 DEF Routine
  <2>2. \A c \in Codes : code[c].off \in BOOLEAN
    BY <1>1 DEF CodeRow
  <2>3. ASSUME NEW c \in Unused(e)'
        PROVE  c \in Unused(e)
    <3>1. c \in Routine(e) /\ c \in Codes /\ code'[c].off # TRUE
      BY <2>1, <2>3 DEF Unused, Routine
    <3>2. code[c].off = FALSE
      BY <1>5, <2>2, <3>1
    <3>3. code[c].avail > UseCount(c)
      BY <1>5, <1>6, <2>3, <3>1 DEF Unused, UseCount
    <3> QED
      BY <3>1, <3>2, <3>3 DEF Unused
  <2> QED
    BY <2>1, <2>3
<1>8. \A c \in Codes : code[c].avail <= code'[c].avail
  BY <1>1, <1>5 DEF CodeRow
<1> QED
  BY <1>4, <1>6, <1>7, <1>8, CodesInv

(* A request counts its codes: it may insert them as long as the count     *)
(* holds.                                                                  *)
LEMMA StartInvitesInv ==
    ASSUME AccountsInv, NEW h \in Handlers, StartInvites(h)
    PROVE  AccountsInv'
<1>1. Shape
  BY DEF AccountsInv
<1>2. PICK d \in Dids :
        /\ Available(d, FALSE, FALSE) /\ CodesToCreate(d) > 0
        /\ req' = [req EXCEPT ![h] = [pc |-> "codes", did |-> d, n |-> CodesToCreate(d),
                                      total |-> Cardinality(Routine(d)) + CodesToCreate(d)]]
  BY DEF StartInvites
<1>3. PICK R, U, n : R = Cardinality(Routine(d)) /\ U = Cardinality(Unused(d)) /\ n = CodesToCreate(d)
  OBVIOUS
<1>4. /\ R \in Nat /\ U \in Nat /\ now \in Nat /\ born[d] \in Nat /\ actor[d].at \in Nat
      /\ UnusedLimit \in Nat
  BY <1>1, <1>3, Counted, AccountsAssumption DEF Shape, AccountsTypeOK
<1>5. born[d] <= actor[d].at /\ actor[d].at <= now
  BY <1>2 DEF Available, AccountsInv, Grant
<1>6. n = Min(Minus(UnusedLimit, U), Minus(now - actor[d].at, R)) /\ n > 0
  BY <1>2, <1>3 DEF CodesToCreate
<1>7. /\ n \in Nat /\ R + n \in Nat /\ R + n <= now - actor[d].at /\ U + n <= UnusedLimit
  BY <1>4, <1>5, <1>6 DEF Min, Minus
<1>8. PICK q : q = [pc |-> "codes", did |-> d, n |-> n, total |-> R + n]
  OBVIOUS
<1>9. /\ q \in Inviting /\ q.pc = "codes" /\ q.did = d /\ q.n = n /\ q.total = R + n
  BY <1>7, <1>8 DEF Inviting
<1>10. /\ req' \in [Handlers -> Work] /\ req'[h] = q
       /\ \A o \in Handlers \ {h} : req'[o] = req[o]
  <2>1. q \in Work /\ req' = [req EXCEPT ![h] = q]
    BY <1>2, <1>3, <1>8, <1>9 DEF Work
  <2> QED
    BY <1>1, <2>1, Becomes
<1>11. UNCHANGED <<actor, email, root, store, keyFile, doc, code, uses, feed, now, created,
                   deleted, contested, raced, born>>
  BY DEF StartInvites, rows, files, invites, history
<1>12. Shape'
  BY <1>1, <1>10, <1>11 DEF Shape, AccountsTypeOK
<1>13. \A e \in Dids : Life(e)'
  <2>1. \A e \in Dids : Kept(e)
    BY <1>11 DEF Kept
  <2>2. \A o \in Handlers, e \in Dids : Working(o, e)' => Working(o, e) /\ req'[o].pc = req[o].pc
    BY <1>9, <1>10 DEF Working
  <2> QED
    BY <2>1, <2>2, KeptLife DEF AccountsInv
<1>14. \A e \in Dids : Routine(e)' = Routine(e) /\ Unused(e)' = Unused(e)
  BY <1>11 DEF Routine, Unused, UseCount
<1>15. ASSUME NEW e \in Dids
       PROVE  Grant(e)'
  <2>1. Grant(e)
    BY DEF AccountsInv
  <2>2. ASSUME NEW o \in Handlers, Asking(o, e)'
        PROVE  Promise(req[o].n, req[o].total, e)'
    <3>1. CASE o = h
      <4>1. e = d /\ req'[o].n = n /\ req'[o].total = R + n
        BY <1>9, <1>10, <2>2, <3>1 DEF Asking
      <4> QED
        BY <1>3, <1>4, <1>5, <1>7, <1>11, <1>14, <4>1 DEF Promise
    <3>2. CASE o # h
      <4>1. Asking(o, e) /\ req'[o] = req[o]
        BY <1>10, <2>2, <3>2 DEF Asking
      <4>2. Promise(req[o].n, req[o].total, e)
        BY <2>1, <4>1 DEF Grant
      <4> QED
        BY <1>11, <1>14, <4>1, <4>2 DEF Promise
    <3> QED
      BY <3>1, <3>2
  <2> QED
    BY <1>11, <1>14, <2>1, <2>2 DEF Grant, HasActor
<1>16. \A c \in Codes : Usage(c)'
  <2>1. \A c \in Codes : code[c].avail \in Nat
    BY <1>1 DEF Shape, CodeRow
  <2>2. \A c \in Codes, o \in Handlers : Checked(o, c)' => Checked(o, c)
    BY <1>9, <1>10 DEF Checked
  <2> QED
    BY <1>1, <1>11, <2>1, <2>2, KeptUsage DEF AccountsInv
<1> QED
  BY <1>12, <1>13, <1>15, <1>16 DEF AccountsInv

(* The new codes are counted: as many routine ones, at most as many unused *)
(* ones.  Who had counted before them will not insert, unless none is new. *)
LEMMA CreateAccountInviteCodesInv ==
    ASSUME AccountsInv, NEW h \in Handlers, CreateAccountInviteCodes(h)
    PROVE  AccountsInv'
<1>1. Shape /\ req[h].pc = "codes"
  BY DEF AccountsInv, CreateAccountInviteCodes
<1>2. req[h] \in Inviting
  BY <1>1, Kinds
<1>3. PICK d \in Dids, n \in Nat, total \in Nat :
        d = req[h].did /\ n = req[h].n /\ total = req[h].total
  BY <1>2 DEF Inviting
<1>4. UNCHANGED <<actor, email, root, store, keyFile, doc, uses, feed, now, created,
                  deleted, contested, raced, born>>
  BY DEF CreateAccountInviteCodes, rows, files, history
<1>5. /\ req' \in [Handlers -> Work] /\ req'[h].pc = "idle"
      /\ \A o \in Handlers \ {h} : req'[o] = req[o]
  BY <1>1, Ends DEF CreateAccountInviteCodes, Moved
<1>6. PICK R, U, free : /\ R = Routine(d) /\ U = Unused(d) /\ free = Cardinality(Fresh)
  OBVIOUS
<1>7. /\ IsFiniteSet(R) /\ IsFiniteSet(U) /\ Cardinality(R) \in Nat /\ Cardinality(U) \in Nat
      /\ now \in Nat /\ born[d] \in Nat /\ UnusedLimit \in Nat
  BY <1>1, <1>6, Counted, AccountsAssumption DEF Shape
<1>8. IsFiniteSet(Fresh) /\ free \in Nat
  <2>1. Fresh \subseteq Codes /\ IsFiniteSet(Codes)
    BY AccountsAssumption DEF Fresh
  <2>2. IsFiniteSet(Fresh)
    BY <2>1, FS_Subset
  <2> QED
    BY <1>6, <2>2, FS_CardinalityType
<1>9. PICK new \in SUBSET Fresh :
        \/ /\ Cardinality(R) + n <= total /\ Cardinality(new) = Min(n, free)
           /\ InsertInviteCodes(new, [c \in new |-> d], d)
        \/ new = {} /\ code' = code
  <2>1. CASE code' = code
    BY <2>1
  <2>2. CASE code' # code
    <3>1. ~DuplicateCreate(d, n, total)
      BY <1>3, <2>2 DEF CreateAccountInviteCodes
    <3>2. PICK new \in SUBSET Fresh :
            /\ Cardinality(new) = Min(n, free)
            /\ InsertInviteCodes(new, [c \in new |-> d], d)
      BY <1>3, <1>6, <2>2 DEF CreateAccountInviteCodes
    <3>3. Cardinality(R) + n <= total
      BY <1>3, <1>6, <1>7, <3>1 DEF DuplicateCreate
    <3> QED
      BY <3>2, <3>3
  <2> QED
    BY <2>1, <2>2
<1>10. code \in [Codes -> CodeRow] /\ new \subseteq Codes /\ \A c \in new : code[c].by = Nothing
  BY <1>1 DEF Shape, Fresh, NoCode
<1>11. /\ code' \in [Codes -> CodeRow]
       /\ \A c \in Codes \ new : code'[c] = code[c]
       /\ \A c \in new : code[c].avail <= code'[c].avail /\ code'[c].for = d /\ code'[c].by = d
  <2>1. CASE new = {} /\ code' = code
    BY <1>10, <2>1
  <2>2. CASE InsertInviteCodes(new, [c \in new |-> d], d)
    <3>1. \A c \in new : [x \in new |-> d][c] = d
      OBVIOUS
    <3> QED
      BY <1>1, <2>2, <3>1, Inserted
  <2> QED
    BY <1>9, <2>1, <2>2
<1>12. PICK k \in Nat : /\ IsFiniteSet(new) /\ k = Cardinality(new) /\ k <= n
                        /\ k = 0 \/ Cardinality(R) + n <= total
  <2>1. IsFiniteSet(new) /\ Cardinality(new) \in Nat
    BY <1>8, FS_Subset, FS_CardinalityType
  <2>2. CASE new = {}
    BY <2>1, <2>2, FS_EmptySet
  <2>3. CASE Cardinality(new) = Min(n, free) /\ Cardinality(R) + n <= total
    <3>1. Min(n, free) <= n
      BY <1>8 DEF Min
    <3> QED
      BY <2>1, <2>3, <3>1
  <2> QED
    BY <1>9, <2>2, <2>3
<1>13. Nothing \notin Dids
  BY AccountsAssumption
<1>14. Routine(d)' = R \cup new /\ R \cap new = {} /\ Unused(d)' \subseteq U \cup new
  <2>1. Routine(d)' = R \cup new /\ R \cap new = {}
    BY <1>6, <1>10, <1>11, <1>13 DEF Routine
  <2>2. \A c \in R : code'[c] = code[c]
    BY <1>6, <1>11, <2>1 DEF Routine
  <2> QED
    BY <1>4, <1>6, <2>1, <2>2 DEF Unused, UseCount
<1>15. PICK r, u : /\ r = Cardinality(Routine(d)') /\ u = Cardinality(Unused(d)')
                   /\ r = Cardinality(R) + k /\ u \in Nat /\ u <= Cardinality(U) + k
  <2>1. Cardinality(R \cup new) = Cardinality(R) + k
    <3>1. Cardinality(R \cup new) = Cardinality(R) + Cardinality(new) - Cardinality(R \cap new)
      BY <1>7, <1>12, FS_Union
    <3>2. Cardinality(R \cap new) = 0
      BY <1>14, FS_EmptySet
    <3> QED
      BY <1>7, <1>12, <3>1, <3>2
  <2>2. /\ IsFiniteSet(U \cup new)
        /\ Cardinality(U \cup new) = Cardinality(U) + k - Cardinality(U \cap new)
    BY <1>7, <1>12, FS_Union
  <2>3. IsFiniteSet(U \cap new) /\ Cardinality(U \cap new) \in Nat
    <3>1. U \cap new \in SUBSET U
      OBVIOUS
    <3> QED
      BY <1>7, <3>1, FS_Subset, FS_CardinalityType
  <2>4. PICK V : V = Unused(d)' /\ V \in SUBSET (U \cup new)
    BY <1>14
  <2>5. /\ Cardinality(V) <= Cardinality(U \cup new) /\ Cardinality(V) \in Nat
        /\ Cardinality(U \cup new) \in Nat
    BY <2>2, <2>4, FS_Subset, FS_CardinalityType
  <2>6. Cardinality(V) <= Cardinality(U) + k
    BY <1>7, <2>2, <2>3, <2>5
  <2> QED
    BY <1>14, <2>1, <2>4, <2>5, <2>6
<1>16. Shape'
  BY <1>1, <1>4, <1>5, <1>11 DEF Shape, AccountsTypeOK
<1>17. \A e \in Dids : Life(e)'
  <2>1. \A e \in Dids : Kept(e)
    BY <1>4 DEF Kept
  <2>2. \A o \in Handlers, e \in Dids : Working(o, e)' => Working(o, e) /\ req'[o].pc = req[o].pc
    BY <1>5 DEF Working
  <2> QED
    BY <2>1, <2>2, KeptLife DEF AccountsInv
<1>18. \A e \in Dids, o \in Handlers : Asking(o, e)' =>
            Asking(o, e) /\ req'[o].n = req[o].n /\ req'[o].total = req[o].total
  BY <1>5 DEF Asking
<1>19. ASSUME NEW e \in Dids \ {d}
       PROVE  Grant(e)'
  <2>1. Routine(e)' = Routine(e) /\ \A c \in Routine(e) : code'[c] = code[c]
    BY <1>10, <1>11, <1>13, <1>19 DEF Routine
  <2>2. Unused(e)' \subseteq Unused(e)
    BY <1>4, <2>1 DEF Unused, UseCount
  <2> QED
    BY <1>1, <1>4, <1>7, <1>16, <1>18, <2>1, <2>2, KeptGrant DEF AccountsInv
<1>20. Grant(d)'
  <2>1. /\ HasActor(d) => born[d] <= actor[d].at /\ actor[d].at <= now
        /\ Cardinality(R) <= Minus(now, born[d]) /\ Cardinality(U) <= UnusedLimit
    BY <1>6 DEF AccountsInv, Grant
  <2>2. /\ born[d] <= now /\ total <= now - born[d] /\ total <= Cardinality(R) + n
        /\ total = Cardinality(R) + n => Cardinality(U) + n <= UnusedLimit
    <3>1. Asking(h, d)
      BY <1>1, <1>3 DEF Asking
    <3>2. Promise(req[h].n, req[h].total, d)
      BY <3>1 DEF AccountsInv, Grant
    <3> QED
      BY <1>3, <1>6, <3>2 DEF Promise
  <2>3. r <= Minus(now, born[d]) /\ u <= UnusedLimit
    BY <1>7, <1>12, <1>15, <2>1, <2>2 DEF Minus
  <2>4. ASSUME NEW o \in Handlers, Asking(o, d)'
        PROVE  Promise(req[o].n, req[o].total, d)'
    <3>1. Asking(o, d) /\ req'[o].n = req[o].n /\ req'[o].total = req[o].total
      BY <1>18, <2>4
    <3>2. req[o] \in Inviting
      BY <1>1, <3>1, Kinds DEF Asking
    <3>3. PICK m \in Nat, t \in Nat : m = req[o].n /\ t = req[o].total
      BY <3>2 DEF Inviting
    <3>4. /\ t <= now - born[d] /\ t <= Cardinality(R) + m
          /\ t = Cardinality(R) + m => Cardinality(U) + m <= UnusedLimit
      BY <1>6, <3>1, <3>3 DEF AccountsInv, Grant, Promise
    <3>5. t <= r + m /\ (t = r + m => u + m <= UnusedLimit)
      BY <1>7, <1>15, <3>4
    <3> QED
      BY <1>4, <1>15, <2>2, <3>1, <3>3, <3>4, <3>5 DEF Promise
  <2> QED
    BY <1>4, <1>15, <2>1, <2>3, <2>4 DEF Grant, HasActor
<1>21. \A c \in Codes : Usage(c)'
  <2>1. \A c \in Codes : code'[c].avail \in Nat /\ code[c].avail \in Nat
    BY <1>10, <1>11 DEF CodeRow
  <2>2. \A c \in Codes : code[c].avail <= code'[c].avail
    BY <1>11, <2>1
  <2>3. \A c \in Codes, o \in Handlers : Checked(o, c)' => Checked(o, c)
    BY <1>5 DEF Checked
  <2> QED
    BY <1>1, <1>4, <2>1, <2>2, <2>3, KeptUsage DEF AccountsInv
<1> QED
  BY <1>16, <1>17, <1>19, <1>20, <1>21 DEF AccountsInv

-----------------------------------------------------------------------------
LEMMA AccountsInitInv ==
    ASSUME AccountsInit
    PROVE  AccountsInv
<1>1. MaxNow \in Nat /\ UnusedLimit \in Nat /\ Nothing \notin Dids
  BY AccountsAssumption
<1>2. \A h \in Handlers : req[h] = NoRequest /\ req[h].pc = "idle"
  BY DEF AccountsInit, NoRequest
<1>3. NoActor \in [handle: Handles \cup {Nothing}, off: BOOLEAN, down: BOOLEAN, at: 0..MaxNow]
  BY <1>1 DEF NoActor
<1>4. NoCode \in CodeRow
  BY DEF NoCode, CodeRow
<1>5. NoRequest \in Work
  BY DEF Work
<1>6. Shape
  BY <1>1, <1>3, <1>4, <1>5 DEF AccountsInit, Shape, AccountsTypeOK
<1>7. ASSUME NEW d \in Dids
      PROVE  Life(d) /\ Grant(d)
  <2>1. d \in Minted => doc[d] = Nothing
    BY DEF AccountsInit
  <2>2. ~HasActor(d) /\ d \notin created /\ d \notin deleted
    BY DEF AccountsInit, HasActor, NoActor
  <2>3. Life(d)
    BY <1>2, <2>1, <2>2 DEF Life, Listed, Sole, Whole, Forgotten, Working
  <2>4. Routine(d) = {} /\ Unused(d) = {}
    BY <1>1 DEF AccountsInit, Routine, Unused, NoCode
  <2>5. Cardinality(Routine(d)) = 0 /\ Cardinality(Unused(d)) = 0
    BY <2>4, FS_EmptySet
  <2>6. 0 <= Minus(now, born[d])
    BY <1>1 DEF AccountsInit, Minus
  <2> QED
    BY <1>1, <1>2, <2>2, <2>3, <2>5, <2>6 DEF Grant, Asking
<1>8. ASSUME NEW c \in Codes
      PROVE  Usage(c)
  <2>1. uses[c] = {} /\ code[c].avail = 0
    BY DEF AccountsInit, NoCode
  <2>2. IsFiniteSet(uses[c]) /\ Cardinality(uses[c]) = 0
    BY <2>1, FS_EmptySet
  <2> QED
    BY <1>2, <2>1, <2>2 DEF Usage, Checked
<1> QED
  BY <1>6, <1>7, <1>8 DEF AccountsInv

LEMMA AccountsStutterInv ==
    ASSUME AccountsInv, UNCHANGED accountsVars
    PROVE  AccountsInv'
<1>1. Shape
  BY DEF AccountsInv
<1>2. UNCHANGED <<actor, email, root, store, keyFile, doc, code, uses, feed, req, now, created,
                  deleted, contested, raced, born>>
  BY DEF accountsVars, rows, files, invites, counters, history
<1>3. Shape'
  BY <1>1, <1>2 DEF Shape, AccountsTypeOK
<1>4. \A e \in Dids : Kept(e)
  BY <1>2 DEF Kept
<1>5. \A e \in Dids : Life(e)'
  BY <1>2, <1>4, KeptLife DEF AccountsInv, Working
<1>6. (\A e \in Dids : Grant(e)') /\ (\A c \in Codes : Usage(c)')
  BY <1>2, <1>3, Plain
<1> QED
  BY <1>3, <1>5, <1>6 DEF AccountsInv

LEMMA AccountsNextInv ==
    ASSUME AccountsInv, [AccountsNext]_accountsVars
    PROVE  AccountsInv'
<1>1. ASSUME NEW h \in Handlers, Create(h)
      PROVE  AccountsInv'
  BY <1>1, ValidateInv, RemoteCreateAccountInv, CheckStoreInv, MakeStoreInv, StoreKeyInv,
     CreateRepoInv, SendOperationInv, EnsureInviteInv, RegisterActorInv, RegisterAccountInv,
     RecordInviteUseInv, UpdateRootInv, AnnounceCreatedInv, DestroyInv
     DEF Create
<1>2. ASSUME NEW h \in Handlers, Activate(h)
      PROVE  AccountsInv'
  BY <1>2, StartActivateInv, RefuseInv, FindInactiveInv, ActivateRowInv, ReadSyncDataInv,
     ReadStatusInv, AnnounceStatusInv
     DEF Activate
<1>3. ASSUME NEW h \in Handlers, Delete(h)
      PROVE  AccountsInv'
  BY <1>3, StartDeleteInv, WipeStoreInv, DeleteRowsInv, AnnounceDeletedInv, DeleteAllForUserInv
     DEF Delete
<1>4. ASSUME NEW h \in Handlers, StartInvites(h) \/ CreateAccountInviteCodes(h)
      PROVE  AccountsInv'
  BY <1>4, StartInvitesInv, CreateAccountInviteCodesInv
<1>5. ASSUME NEW d \in Dids,
             \/ DeactivateAccount(d) \/ PointDocumentHere(d)
             \/ \E b \in BOOLEAN : TakedownAccount(d, b)
             \/ \E n \in Handles : UpdateHandle(d, n)
      PROVE  AccountsInv'
  BY <1>5, DeactivateAccountInv, PointDocumentHereInv, TakedownAccountInv, UpdateHandleInv
<1>6. ASSUME NEW c \in Codes, NEW for \in {"admin"} \cup {d \in Dids : HasActor(d)},
             CreateInviteCode(c, for)
      PROVE  AccountsInv'
  BY <1>6, CreateInviteCodeInv
<1>7. ASSUME NEW cs \in SUBSET Codes,
             \/ CreateInviteCodes(cs)
             \/ \E ds \in SUBSET Dids : DisableInviteCodes(cs, ds)
      PROVE  AccountsInv'
  BY <1>7, CreateInviteCodesInv, DisableInviteCodesInv
<1> QED
  BY <1>1, <1>2, <1>3, <1>4, <1>5, <1>6, <1>7, IntervalPassesInv, CrashInv, AccountsStutterInv
     DEF AccountsNext

-----------------------------------------------------------------------------
(* The invariant holds of every behaviour of the account life cycle: for   *)
(* any number of requests, accounts, handles and codes.                    *)
THEOREM AccountsInvariance == AccountsSpec => []AccountsInv
<1>1. AccountsInit => AccountsInv
  BY AccountsInitInv
<1>2. AccountsInv /\ [AccountsNext]_accountsVars => AccountsInv'
  BY AccountsNextInv
<1> QED
  BY <1>1, <1>2, PTL DEF AccountsSpec

(* What createAccount or the sign-up page answered for is all there, rows, *)
(* store, repo, key and directory entry, and what deleteAccount answered   *)
(* for has left nothing, whatever other sign-ups, failures and crashes     *)
(* come in between.                                                        *)
THEOREM AccountsWholeOrGone == AccountsSpec => []AccountsConsistent
<1>1. ASSUME AccountsInv
      PROVE  AccountsConsistent
  <2>1. AccountsTypeOK
    BY <1>1 DEF AccountsInv, Shape
  <2>2. ASSUME NEW d, d \in Dids, d \notin contested
        PROVE  Whole(d) /\ Forgotten(d)
    BY <1>1, <2>2 DEF AccountsInv, Life
  <2>3. created \subseteq Dids /\ deleted \subseteq Dids
    BY <1>1 DEF AccountsInv, Shape
  <2>4. CreatedIsWhole
    BY <2>2, <2>3 DEF CreatedIsWhole, Whole
  <2>5. DeletedIsForgotten
    BY <2>2, <2>3 DEF DeletedIsForgotten, Forgotten
  <2> QED
    BY <2>1, <2>4, <2>5 DEF AccountsConsistent
<1> QED
  BY <1>1, AccountsInvariance, PTL

(* An invite code that no two sign-ups raced for is used no more often     *)
(* than it may be, though the check and the use are statements apart.      *)
THEOREM InvitesStayWithinUses == AccountsSpec => []InviteWithinUses
<1>1. AccountsInv => InviteWithinUses
  BY DEF AccountsInv, InviteWithinUses, Usage
<1> QED
  BY <1>1, AccountsInvariance, PTL

(* getAccountInviteCodes never gives an account more codes than intervals  *)
(* have passed, nor more unused ones than the limit, however many requests *)
(* counted the codes before one of them inserted its own.                  *)
THEOREM AllowanceIsKept == AccountsSpec => []CodesWithinAllowance
<1>1. AccountsInv => CodesWithinAllowance
  BY DEF AccountsInv, CodesWithinAllowance, Grant
<1> QED
  BY <1>1, AccountsInvariance, PTL
============================================================================
