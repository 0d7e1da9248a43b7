------------------------------ MODULE Sessions ------------------------------
(***************************************************************************)
(* The refresh tokens of one account.                                      *)
(*                                                                         *)
(* A client that presents a refresh token gets a new one with another id;  *)
(* the old token stays usable for a grace period, in which it always leads *)
(* to the same successor.  rotate_refresh_token takes four statements and  *)
(* no transaction: it reads the row, tidies expired rows, and then joins   *)
(* an UPDATE of the old row with the INSERT of the new one, in either      *)
(* order.  Requests of several clients interleave between the statements.  *)
(***************************************************************************)
EXTENDS Integers, FiniteSets

CONSTANTS
    Handlers,    \* concurrent refreshSession requests
    Apps,        \* names of app passwords
    NoApp,       \* a session opened with the account password
    Grace,       \* REFRESH_GRACE_MS (2 hours)
    Lifetime,    \* validity of a new refresh token (90 days)
    MaxTime,     \* bound: the clock shows 0..MaxTime
    MaxSessions, \* bound: no new session once this many tokens are out
    MaxIds,      \* bound: token ids ever drawn
    MaxFaults    \* bound: statements that fail

ASSUME SessionsAssumption ==
    /\ {Grace, Lifetime, MaxTime, MaxSessions, MaxIds, MaxFaults} \subseteq Nat
    /\ Grace > 0
    /\ Lifetime >= Grace
    /\ NoApp \notin Apps

VARIABLES
    clock,     \* the wall clock
    tokens,    \* the table refresh_token: id -> row
    drawn,     \* the number of ids drawn so far; an id is its number
    call,      \* progress of each request through rotate_refresh_token
    issued,    \* history: the refresh JWTs handed to clients
    granted,   \* history: which token led to which, on successful requests
    removed,   \* history: ids whose row was ever deleted
    dead,      \* history: ids of sessions revoked as a whole while no
               \* request was in flight
    faults     \* number of failed statements so far

vars == <<clock, tokens, drawn, call, issued, granted, removed, dead, faults>>

Idle == [pc |-> "idle"]

(* nextId IS NULL; ids are positive. *)
NoId == 0

(* A statement that returns an error. *)
Fault == faults < MaxFaults /\ faults' = faults + 1

(* Mutation of Draw: an id is drawn again and again. *)
DrawRepeated(id) == drawn < MaxIds /\ id = drawn + 1 /\ UNCHANGED drawn

(* get_refresh_token_id: 32 random bytes, taken to be new. *)
Draw(id) == drawn < MaxIds /\ id = drawn + 1 /\ drawn' = drawn + 1

Without(S) == [i \in DOMAIN tokens \ S |-> tokens[i]]

(* ON CONFLICT (id) DO NOTHING. *)
With(id, row) ==
    [i \in DOMAIN tokens \cup {id} |-> IF i \in DOMAIN tokens THEN tokens[i] ELSE row]

-----------------------------------------------------------------------------
Tick ==
    /\ clock < MaxTime
    /\ clock' = clock + 1
    /\ UNCHANGED <<tokens, drawn, call, issued, granted, removed, dead, faults>>

(* AccountManager::create_session, once createSession has checked the      *)
(* credentials and the lockout: the new token is stored, then handed out.  *)
CreateSession(app) ==
    /\ Cardinality(issued) < MaxSessions
    /\ \E id \in 1..MaxIds :
         /\ Draw(id)
         /\ tokens' = With(id, [app |-> app, expires |-> clock + Lifetime,
                                next |-> NoId])
         /\ issued' = issued \cup {[id |-> id, app |-> app]}
    /\ UNCHANGED <<clock, call, granted, removed, dead, faults>>

(* refreshSession: validate_refresh_token checks the JWT only, which never *)
(* expires before its row does; an account that is taken down gets no      *)
(* further.                                                                *)
RefreshSession(h) ==
    /\ call[h] = Idle
    /\ \E jwt \in issued :
         call' = [call EXCEPT ![h] = [pc |-> "get", id |-> jwt.id]]
    /\ UNCHANGED <<clock, tokens, drawn, issued, granted, removed, dead, faults>>

(* get_refresh_token; without a row the answer is ExpiredToken. *)
GetToken(h) ==
    /\ call[h].pc = "get"
    /\ LET id == call[h].id
       IN call' = [call EXCEPT ![h] =
                     IF id \in DOMAIN tokens
                     THEN [pc |-> "tidy", id |-> id, row |-> tokens[id], now |-> clock]
                     ELSE Idle]
    /\ UNCHANGED <<clock, tokens, drawn, issued, granted, removed, dead, faults>>

(* Mutation of Shortened: the grace period starts when the token expires. *)
Extended(c) == c.row.expires + Grace

(* The expiry of a token that has been rotated: its grace period from now, *)
(* unless it expires earlier.                                              *)
Shortened(c) ==
    IF c.now + Grace < c.row.expires THEN c.now + Grace ELSE c.row.expires

(* delete_expired_refresh_tokens.  The request goes on, with the row it    *)
(* has read, unless that has expired too.                                  *)
Tidy(h) ==
    LET c == call[h]
        old == {i \in DOMAIN tokens : tokens[i].expires <= c.now}
        join(next) == [pc |-> "join", id |-> c.id, next |-> next, app |-> c.row.app,
                       expires |-> Shortened(c), exp |-> clock + Lifetime,
                       todo |-> {"grace", "store"}]
    IN  /\ c.pc = "tidy"
        /\ tokens' = Without(old)
        /\ removed' = removed \cup old
        /\ \/ /\ Shortened(c) <= c.now
              /\ call' = [call EXCEPT ![h] = Idle]
              /\ UNCHANGED drawn
           \/ /\ Shortened(c) > c.now
              /\ c.row.next # NoId
              /\ call' = [call EXCEPT ![h] = join(c.row.next)]
              /\ UNCHANGED drawn
           \/ /\ Shortened(c) > c.now
              /\ c.row.next = NoId
              /\ \E id \in 1..MaxIds : Draw(id) /\ call' = [call EXCEPT ![h] = join(id)]
        /\ UNCHANGED <<clock, issued, granted, dead, faults>>

(* A statement of the join has succeeded; after the last of them the new   *)
(* JWT is handed out.                                                      *)
Joined(h, part) ==
    LET c == call[h]
    IN  \/ /\ c.todo # {part}
           /\ call' = [call EXCEPT ![h].todo = c.todo \ {part}]
           /\ UNCHANGED <<issued, granted>>
        \/ /\ c.todo = {part}
           /\ call' = [call EXCEPT ![h] = Idle]
           /\ issued' = issued \cup {[id |-> c.next, app |-> c.app]}
           /\ granted' = granted \cup {[from |-> c.id, to |-> c.next]}

(* Mutation of Matches: WHERE id = ?. *)
MatchesAny(c) == c.id \in DOMAIN tokens

(* Mutation of Matches: WHERE id = ? AND nextId IS NULL. *)
MatchesUnrotated(c) ==
    /\ c.id \in DOMAIN tokens
    /\ tokens[c.id].next = NoId

(* add_refresh_grace_period: WHERE id = ? AND (nextId IS NULL OR nextId =  *)
(* the chosen id).                                                         *)
Matches(c) ==
    /\ c.id \in DOMAIN tokens
    /\ tokens[c.id].next \in {NoId, c.next}

AddGracePeriod(h) ==
    /\ call[h].pc = "join" /\ "grace" \in call[h].todo
    /\ Matches(call[h])
    /\ LET c == call[h]
       IN tokens' = [tokens EXCEPT ![c.id] =
                       [app |-> tokens[c.id].app, expires |-> c.expires, next |-> c.next]]
    /\ Joined(h, "grace")
    /\ UNCHANGED <<clock, drawn, removed, dead, faults>>

(* No row matches: ConcurrentRefresh.  The other half of the join is       *)
(* dropped, done or not, and the rotation starts again.                    *)
ConcurrentRefresh(h) ==
    /\ call[h].pc = "join" /\ "grace" \in call[h].todo
    /\ ~Matches(call[h])
    /\ call' = [call EXCEPT ![h] = [pc |-> "get", id |-> call[h].id]]
    /\ UNCHANGED <<clock, tokens, drawn, issued, granted, removed, dead, faults>>

(* Mutation of StoreToken: the app password name is not passed on. *)
StoreUnnamed(h) ==
    /\ call[h].pc = "join" /\ "store" \in call[h].todo
    /\ LET c == call[h]
       IN tokens' = With(c.next, [app |-> NoApp, expires |-> c.exp, next |-> NoId])
    /\ Joined(h, "store")
    /\ UNCHANGED <<clock, drawn, removed, dead, faults>>

(* store_refresh_token with the app password name of the old row. *)
StoreToken(h) ==
    /\ call[h].pc = "join" /\ "store" \in call[h].todo
    /\ LET c == call[h]
       IN tokens' = With(c.next, [app |-> c.app, expires |-> c.exp, next |-> NoId])
    /\ Joined(h, "store")
    /\ UNCHANGED <<clock, drawn, removed, dead, faults>>

(* A statement fails and the request with it; what was written stays. *)
RequestFails(h) ==
    /\ call[h].pc # "idle"
    /\ Fault
    /\ call' = [call EXCEPT ![h] = Idle]
    /\ UNCHANGED <<clock, tokens, drawn, issued, granted, removed, dead>>

-----------------------------------------------------------------------------
(* deleteSession: revoke_refresh_token of the presented id; without a row  *)
(* it changes nothing.                                                     *)
DeleteSession ==
    /\ \E jwt \in issued :
         /\ jwt.id \in DOMAIN tokens
         /\ tokens' = Without({jwt.id})
         /\ removed' = removed \cup {jwt.id}
    /\ UNCHANGED <<clock, drawn, call, issued, granted, dead, faults>>

Quiet == \A h \in Handlers : call[h] = Idle

(* The ids of S are gone for good if no request was in flight. *)
Bury(S) == dead' = IF Quiet THEN dead \cup S ELSE dead

(* revokeAppPassword: DELETE ... WHERE did = ? AND appPasswordName = ?. *)
RevokeAppPassword(app) ==
    /\ LET rows == {i \in DOMAIN tokens : tokens[i].app = app}
       IN  tokens' = Without(rows) /\ removed' = removed \cup rows
    /\ Bury({jwt.id : jwt \in {j \in issued : j.app = app}})
    /\ UNCHANGED <<clock, drawn, call, issued, granted, faults>>

(* revoke_refresh_tokens_by_did: a new password, a takedown, or the        *)
(* deletion of the account.                                                *)
RevokeAll ==
    /\ tokens' = <<>>
    /\ removed' = removed \cup DOMAIN tokens
    /\ Bury({jwt.id : jwt \in issued})
    /\ UNCHANGED <<clock, drawn, call, issued, granted, faults>>

-----------------------------------------------------------------------------
Init ==
    /\ clock = 0
    /\ tokens = <<>>
    /\ drawn = 0
    /\ call = [h \in Handlers |-> Idle]
    /\ issued = {}
    /\ granted = {}
    /\ removed = {}
    /\ dead = {}
    /\ faults = 0

(* What a request does once it has been accepted. *)
Rotate(h) ==
    \/ GetToken(h) \/ Tidy(h) \/ AddGracePeriod(h) \/ ConcurrentRefresh(h)
    \/ StoreToken(h)

Next ==
    \/ Tick
    \/ \E app \in Apps \cup {NoApp} : CreateSession(app)
    \/ \E h \in Handlers : RefreshSession(h) \/ Rotate(h) \/ RequestFails(h)
    \/ DeleteSession
    \/ \E app \in Apps : RevokeAppPassword(app)
    \/ RevokeAll

Spec == Init /\ [][Next]_vars

(* The runtime polls every request until it returns. *)
LiveSpec == Spec /\ \A h \in Handlers : WF_vars(Rotate(h))

-----------------------------------------------------------------------------
(* The types of rows and requests when n ids have been drawn. *)
Row(n) == [app : Apps \cup {NoApp}, expires : Nat, next : 0..n]

CallState(n) ==
    [pc : {"idle"}]
      \cup [pc : {"get"}, id : 1..n]
      \cup [pc : {"tidy"}, id : 1..n, row : Row(n), now : Nat]
      \cup [pc : {"join"}, id : 1..n, next : 1..n, app : Apps \cup {NoApp},
            expires : Nat, exp : Nat, todo : SUBSET {"grace", "store"}]

(* The type of the state. *)
TypeOK ==
    /\ clock \in Nat /\ drawn \in 0..MaxIds /\ faults \in Nat
    /\ DOMAIN tokens \subseteq 1..drawn
    /\ tokens \in [DOMAIN tokens -> Row(drawn)]
    /\ call \in [Handlers -> CallState(drawn)]
    /\ issued \subseteq [id : 1..drawn, app : Apps \cup {NoApp}]
    /\ granted \subseteq [from : 1..drawn, to : 1..drawn]
    /\ removed \subseteq 1..drawn /\ dead \subseteq 1..drawn

(* Once the grace UPDATE of a request has matched, its row leads to the    *)
(* chosen successor until it is deleted.                                   *)
Settled ==
    /\ \A g \in granted :
         g.from \notin removed =>
             g.from \in DOMAIN tokens /\ tokens[g.from].next = g.to
    /\ \A h \in Handlers :
         (call[h].pc = "join" /\ "grace" \notin call[h].todo
            /\ call[h].id \notin removed) =>
             /\ call[h].id \in DOMAIN tokens
             /\ tokens[call[h].id].next = call[h].next

(* However many requests present one token at once, and whichever of their *)
(* statements fail, all that succeed are given the same successor as long  *)
(* as its row is there (the WHERE of the grace UPDATE and the retry on     *)
(* ConcurrentRefresh).                                                     *)
SameSuccessor ==
    \A g1, g2 \in granted :
        g1.from = g2.from /\ g1.from \notin removed => g1.to = g2.to

(* A token in its grace period never outlives its successor, so whatever   *)
(* it leads to is still valid, also when it is presented again and again.  *)
SuccessorOutlives ==
    \A i \in DOMAIN tokens :
        tokens[i].next \in DOMAIN tokens =>
            tokens[i].expires <= tokens[tokens[i].next].expires

(* A session that is revoked as a whole while none of its requests is in   *)
(* flight is gone: no token a client holds of it is ever stored again,     *)
(* although a token in its grace period can store its successor anew.      *)
RevokedSessionIsGone == dead \cap DOMAIN tokens = {}

(* The bound on ids keeps a request from the successor it is to draw. *)
OutOfIds(h) ==
    /\ call[h].pc = "tidy"
    /\ call[h].row.next = NoId /\ Shortened(call[h]) > call[h].now
    /\ drawn = MaxIds

(* A request that has been accepted returns: the loser of a race, which    *)
(* starts again on ConcurrentRefresh, finds the winner's successor or no   *)
(* row, and does not lose for ever.  Only the bound on ids excuses it, and *)
(* only where it has to draw one.                                          *)
RotationReturns ==
    \A h \in Handlers : []<>(call[h].pc = "idle" \/ OutOfIds(h))
=============================================================================
