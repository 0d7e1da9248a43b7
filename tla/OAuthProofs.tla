----------------------------- MODULE OAuthProofs -----------------------------
(***************************************************************************)
(* However many requests reach the consent pages and the token endpoint at *)
(* once, and whichever of them fail or are dropped, consent steps of one   *)
(* request never overlap, a code a client holds stays good until it is     *)
(* exchanged, codes and refresh tokens are spent once, and a revoked row   *)
(* stays gone.                                                             *)
(*                                                                         *)
(* The consent part rests on the nonce: a step that is under way has put a *)
(* nonce in the row that no client has been given (Nonced), so no other    *)
(* step can start, and what it read of the request still holds when it     *)
(* writes (Unwritten).  The token part rests on the unique keys: what a    *)
(* rotation read is either still the row's refresh token or is recorded as *)
(* used for that row (Rotating).                                           *)
(***************************************************************************)
EXTENDS OAuth, FiniteSetTheorems, TLAPS

(* The phases a step of each kind may have before it.                      *)
Left(kind) ==
    CASE kind \in {"request", "select"} -> {<<"data", "page">>, <<"page">>}
      [] kind = "create_account" -> {<<"data", "sign_up", "page">>, <<"sign_up", "page">>, <<"page">>}
      [] kind = "sign_in" -> {<<"data", "sign_in", "page">>, <<"sign_in", "page">>, <<"page">>}
      [] kind = "accept" -> {<<"data", "accept">>, <<"accept">>}
      [] kind = "reject" -> {<<"data", "reject">>, <<"reject">>}

RequestRow(m, t) ==
    [st : {"never", "live", "gone"}, device : Devices \cup {NoDevice}, did : BOOLEAN,
     code : 0..m, until : 0..(t + Window)]

TokenRow(m) == [id : 0..m, refresh : 0..m, code : 0..m]

(* The tables, and what clients were given.                                *)
Tables ==
    /\ nonces \in Nat /\ minted \in 0..MaxMinted /\ now \in Nat
    /\ request \in [Requests -> RequestRow(minted, now)]
    /\ \A q \in Requests : (request[q].code # 0) = request[q].did
    /\ \A q \in Requests : request[q].st # "live" => request[q].code = 0
    /\ consent \in [Requests -> [state : 0..nonces, until : 0..(now + Window)]]
    /\ revealed \in [Requests -> SUBSET (1..nonces)]
    /\ signedIn \subseteq devices
    /\ token \in [Keys -> TokenRow(minted)]
    /\ used \subseteq [refresh : 1..minted, pk : Keys]
    /\ codes \subseteq 1..minted /\ refreshes \subseteq 1..minted
    /\ consumed \subseteq 1..minted /\ revoked \subseteq 1..minted
    /\ grants \subseteq (1..minted) \X (1..minted)
    /\ rotations \subseteq (1..minted) \X (1..minted)

(* What a handler remembers, when n nonces and m codes have been drawn.    *)
CallOK(r, n, m, t) ==
    /\ r.pc \in {"idle", "read", "write", "authenticate", "answer", "grant", "by_code",
                 "lookup", "rotate", "rotate_write", "delete"}
    /\ r.pc \in {"read", "write", "authenticate"} =>
         /\ r.q \in Requests /\ r.kind \in Kinds /\ r.device \in Devices
         /\ r.fresh \in 1..n /\ r.phases \in Left(r.kind)
    /\ r.pc = "authenticate" => Head(r.phases) = "sign_in"
    /\ r.pc = "write" =>
         /\ r.data \in RequestRow(m, t) /\ r.data.st = "live"
         /\ r.data.code = 0 /\ r.data.did = FALSE
         /\ r = [pc |-> "write", q |-> r.q, kind |-> r.kind, device |-> r.device,
                 fresh |-> r.fresh, phases |-> r.phases, data |-> r.data]
    /\ r.pc = "answer" =>
         /\ r.q \in Requests /\ r.kind \in Kinds
         /\ IF r.kind = "accept" THEN r.code \in 1..m ELSE r.fresh \in 1..n
    /\ r.pc \in {"grant", "by_code"} => r.code \in 1..m
    /\ r.pc = "lookup" => r.r \in 1..m /\ r.pks \subseteq Keys
    /\ r.pc \in {"rotate", "delete"} => r.id \in 1..m
    /\ r.pc = "rotate_write" => r.pk \in Keys /\ r.refresh \in 1..m

Calls == DOMAIN req = Handlers /\ \A h \in Handlers : CallOK(req[h], nonces, minted, now)

(* The nonce of a step under way is known to nobody else.                  *)
Nonced == \A h \in Handlers, q \in Requests :
              InStep(h, q) => consent[q].state \notin revealed[q] \cup {0}

Alone == \A g, h \in Handlers, q \in Requests : InStep(g, q) /\ InStep(h, q) => g = h

(* A request that is about to be written has no code yet.                  *)
Unwritten == \A h \in Handlers : req[h].pc = "write" => request[req[h].q].code = 0

(* A code that is on its way to the client is as good as one it holds.     *)
Answered == \A h \in Handlers : req[h].pc = "answer" /\ req[h].kind = "accept"
                => req[h].code \in consumed \/ Holder(req[h].code) # {}

Unspent == \A q \in Requests : request[q].code \notin consumed

ConsentPart == Nonced /\ Alone /\ Unwritten /\ Answered /\ CodeSurvives /\ Unspent

(* A code that is being exchanged is exchanged by one handler, and has not *)
(* been before.                                                            *)
Granting ==
    /\ \A g \in grants : g[1] \in consumed
    /\ \A h \in Handlers : req[h].pc = "grant" =>
         /\ req[h].code \in consumed
         /\ \A g \in grants : g[1] # req[h].code
         /\ \A g \in Handlers : req[g].pc = "grant" /\ req[g].code = req[h].code => g = h

(* Token rows in use have been numbered, and share no refresh token.       *)
Live ==
    /\ \A k \in Keys : token[k] # NoToken => k <= minted /\ token[k].id # 0 /\ token[k].refresh # 0
                                              /\ token[k].code # 0
    /\ \A j, k \in Keys : token[j].refresh = token[k].refresh /\ token[j].refresh # 0 => j = k

(* Used and rotated tokens are no row's current one.                       *)
Past ==
    /\ \A u \in used, k \in Keys : token[k].refresh # u.refresh
    /\ \A a \in rotations, k \in Keys : token[k].refresh # a[1]

(* What a rotation has read is current, or recorded as used for its row.   *)
Rotating ==
    \A h \in Handlers : req[h].pc = "rotate_write" =>
        LET pk == req[h].pk IN
        \/ token[pk] = NoToken
        \/ token[pk].refresh = req[h].refresh
        \/ [refresh |-> req[h].refresh, pk |-> pk] \in used

(* A rotation is of a row that was there once.                             *)
Started == \A h \in Handlers : req[h].pc = "rotate_write" => req[h].pk <= minted

TokenPart == Granting /\ Live /\ Past /\ Rotating /\ Started /\ SpentOnce /\ RevokedIsGone

Inv == Tables /\ Calls /\ ConsentPart /\ TokenPart

Steps == {"read", "write", "authenticate", "answer"}

-----------------------------------------------------------------------------
(* The phases of a step run out, and accept comes last of its own.         *)
LEMMA TailFacts ==
    /\ Tail(<<"page">>) = <<>> /\ Tail(<<"accept">>) = <<>> /\ Tail(<<"reject">>) = <<>>
    /\ Tail(<<"data", "page">>) = <<"page">>
    /\ Tail(<<"data", "accept">>) = <<"accept">>
    /\ Tail(<<"data", "reject">>) = <<"reject">>
    /\ Tail(<<"sign_up", "page">>) = <<"page">>
    /\ Tail(<<"sign_in", "page">>) = <<"page">>
    /\ Tail(<<"data", "sign_up", "page">>) = <<"sign_up", "page">>
    /\ Tail(<<"data", "sign_in", "page">>) = <<"sign_in", "page">>
OBVIOUS

LEMMA PhaseFacts ==
    ASSUME NEW kind \in Kinds
    PROVE  /\ Phases(kind) \in Left(kind)
           /\ \A s \in Left(kind) :
                /\ Tail(s) = <<>> \/ Tail(s) \in Left(kind)
                /\ Head(s) = "accept" => kind = "accept"
                /\ kind = "accept" /\ Tail(s) = <<>> => Head(s) = "accept"
<1>1. CASE kind = "request"
  <2>1. /\ Left(kind) = {<<"data", "page">>, <<"page">>}
        /\ Phases(kind) = <<"data", "page">>
    BY <1>1 DEF Left, Phases
  <2>2. \A s \in Left(kind) : Head(s) # "accept"
    BY <2>1
  <2> QED
    BY <1>1, <2>1, <2>2, TailFacts
<1>2. CASE kind = "select"
  <2>1. /\ Left(kind) = {<<"data", "page">>, <<"page">>}
        /\ Phases(kind) = <<"data", "page">>
    BY <1>2 DEF Left, Phases, SelectAccount
  <2>2. \A s \in Left(kind) : Head(s) # "accept"
    BY <2>1
  <2> QED
    BY <1>2, <2>1, <2>2, TailFacts
<1>3. CASE kind = "create_account"
  <2>1. /\ Left(kind) = {<<"data", "sign_up", "page">>, <<"sign_up", "page">>, <<"page">>}
        /\ Phases(kind) = <<"data", "sign_up", "page">>
    BY <1>3 DEF Left, Phases, CreateAccount
  <2>2. \A s \in Left(kind) : Head(s) # "accept"
    BY <2>1
  <2> QED
    BY <1>3, <2>1, <2>2, TailFacts
<1>4. CASE kind = "sign_in"
  <2>1. /\ Left(kind) = {<<"data", "sign_in", "page">>, <<"sign_in", "page">>, <<"page">>}
        /\ Phases(kind) = <<"data", "sign_in", "page">>
    BY <1>4 DEF Left, Phases
  <2>2. \A s \in Left(kind) : Head(s) # "accept"
    BY <2>1
  <2> QED
    BY <1>4, <2>1, <2>2, TailFacts
<1>5. CASE kind = "accept"
  <2>1. /\ Left(kind) = {<<"data", "accept">>, <<"accept">>}
        /\ Phases(kind) = <<"data", "accept">>
    BY <1>5 DEF Left, Phases
  <2>2. <<"accept">> # <<>> /\ Head(<<"accept">>) = "accept"
    OBVIOUS
  <2> QED
    BY <1>5, <2>1, <2>2, TailFacts
<1>6. CASE kind = "reject"
  <2>1. /\ Left(kind) = {<<"data", "reject">>, <<"reject">>}
        /\ Phases(kind) = <<"data", "reject">>
    BY <1>6 DEF Left, Phases
  <2>2. \A s \in Left(kind) : Head(s) # "accept"
    BY <2>1
  <2> QED
    BY <1>6, <2>1, <2>2, TailFacts
<1> QED
  BY <1>1, <1>2, <1>3, <1>4, <1>5, <1>6 DEF Kinds

(* Drawing more nonces and codes, and time, keep the types.                *)
LEMMA RowMonotone ==
    ASSUME NEW m \in Nat, NEW m2 \in Nat, m <= m2, NEW t \in Nat, NEW t2 \in Nat, t <= t2
    PROVE  /\ 0..m \subseteq 0..m2 /\ 1..m \subseteq 1..m2
           /\ 0..(t + Window) \subseteq 0..(t2 + Window)
           /\ RequestRow(m, t) \subseteq RequestRow(m2, t2)
           /\ TokenRow(m) \subseteq TokenRow(m2)
<1>1. 0..m \subseteq 0..m2 /\ 1..m \subseteq 1..m2
  OBVIOUS
<1>2. 0..(t + Window) \subseteq 0..(t2 + Window)
  BY OAuthAssumption
<1>3. RequestRow(m, t) \subseteq RequestRow(m2, t2)
  BY <1>1, <1>2 DEF RequestRow
<1>4. TokenRow(m) \subseteq TokenRow(m2)
  BY <1>1 DEF TokenRow
<1> QED
  BY <1>1, <1>2, <1>3, <1>4

LEMMA CallMonotone ==
    ASSUME NEW n \in Nat, NEW n2 \in Nat, n <= n2, NEW m \in Nat, NEW m2 \in Nat, m <= m2,
           NEW t \in Nat, NEW t2 \in Nat, t <= t2, NEW r, CallOK(r, n, m, t)
    PROVE  CallOK(r, n2, m2, t2)
<1>1. /\ 1..m \subseteq 1..m2 /\ 1..n \subseteq 1..n2
      /\ RequestRow(m, t) \subseteq RequestRow(m2, t2)
  BY RowMonotone
<1> QED
  BY <1>1 DEF CallOK

(* Numbers drawn and the clock do not go back.                             *)
Forward == /\ nonces' \in Nat /\ nonces <= nonces'
           /\ minted' \in 0..MaxMinted /\ minted <= minted'
           /\ now' \in Nat /\ now <= now'

(* The rows and what was given away keep their types.                      *)
LEMMA TablesForward ==
    ASSUME Tables, Forward
    PROVE  /\ request \in [Requests -> RequestRow(minted', now')]
           /\ consent \in [Requests -> [state : 0..nonces', until : 0..(now' + Window)]]
           /\ revealed \in [Requests -> SUBSET (1..nonces')]
           /\ token \in [Keys -> TokenRow(minted')]
           /\ used \subseteq [refresh : 1..minted', pk : Keys]
           /\ codes \subseteq 1..minted' /\ refreshes \subseteq 1..minted'
           /\ consumed \subseteq 1..minted' /\ revoked \subseteq 1..minted'
           /\ grants \subseteq (1..minted') \X (1..minted')
           /\ rotations \subseteq (1..minted') \X (1..minted')
<1>1. /\ nonces \in Nat /\ minted \in Nat /\ now \in Nat
      /\ nonces' \in Nat /\ minted' \in Nat /\ now' \in Nat
      /\ nonces <= nonces' /\ minted <= minted' /\ now <= now'
  BY OAuthAssumption DEF Tables, Forward
<1>2. /\ 1..minted \subseteq 1..minted'
      /\ 0..(now + Window) \subseteq 0..(now' + Window)
      /\ RequestRow(minted, now) \subseteq RequestRow(minted', now')
      /\ TokenRow(minted) \subseteq TokenRow(minted')
  BY <1>1, RowMonotone
<1>3. 0..nonces \subseteq 0..nonces' /\ 1..nonces \subseteq 1..nonces'
  BY <1>1
<1>4. request \in [Requests -> RequestRow(minted', now')] /\ token \in [Keys -> TokenRow(minted')]
  BY <1>2 DEF Tables
<1>5. consent \in [Requests -> [state : 0..nonces', until : 0..(now' + Window)]]
  BY <1>2, <1>3 DEF Tables
<1>6. revealed \in [Requests -> SUBSET (1..nonces')]
  BY <1>3 DEF Tables
<1>7. used \subseteq [refresh : 1..minted', pk : Keys]
  BY <1>2 DEF Tables
<1>8. /\ grants \subseteq (1..minted') \X (1..minted')
      /\ rotations \subseteq (1..minted') \X (1..minted')
  BY <1>2 DEF Tables
<1> QED
  BY <1>2, <1>4, <1>5, <1>6, <1>7, <1>8 DEF Tables

(* One handler goes on to r.                                               *)
LEMMA CallsStep ==
    ASSUME Inv, Forward, NEW h \in Handlers, NEW r, CallOK(r, nonces', minted', now'),
           req' = [req EXCEPT ![h] = r]
    PROVE  Calls' /\ req'[h] = r /\ \A g \in Handlers : g # h => req'[g] = req[g]
<1>1. /\ req'[h] = r /\ DOMAIN req' = Handlers
      /\ \A g \in Handlers : g # h => req'[g] = req[g]
  BY DEF Inv, Calls
<1>2. /\ nonces \in Nat /\ minted \in Nat /\ now \in Nat
      /\ nonces' \in Nat /\ minted' \in Nat /\ now' \in Nat
      /\ nonces <= nonces' /\ minted <= minted' /\ now <= now'
  BY OAuthAssumption DEF Inv, Tables, Forward
<1>3. ASSUME NEW g \in Handlers, g # h PROVE CallOK(req[g], nonces', minted', now')
  <2>1. CallOK(req[g], nonces, minted, now)
    BY DEF Inv, Calls
  <2> QED
    BY <1>2, <2>1, CallMonotone
<1> QED
  BY <1>1, <1>3 DEF Calls

(* Nobody goes on, and numbers may be drawn.                               *)
LEMMA CallsStay ==
    ASSUME Inv, Forward, req' = req
    PROVE  Calls'
<1>1. /\ nonces \in Nat /\ minted \in Nat /\ now \in Nat
      /\ nonces' \in Nat /\ minted' \in Nat /\ now' \in Nat
      /\ nonces <= nonces' /\ minted <= minted' /\ now <= now'
  BY OAuthAssumption DEF Inv, Tables, Forward
<1>2. ASSUME NEW g \in Handlers PROVE CallOK(req[g], nonces', minted', now')
  <2>1. CallOK(req[g], nonces, minted, now)
    BY DEF Inv, Calls
  <2> QED
    BY <1>1, <2>1, CallMonotone
<1> QED
  BY <1>2 DEF Inv, Calls

LEMMA IdleOK == \A n, m, t : CallOK(Idle, n, m, t)
BY DEF CallOK, Idle

-----------------------------------------------------------------------------
(* Handlers that are not in a consent step leave that part alone.          *)
LEMMA ConsentKept ==
    ASSUME Inv, \A g \in Handlers : req'[g] = req[g] \/ req'[g].pc \notin Steps,
           UNCHANGED <<request, consent, revealed, codes, consumed>>
    PROVE  ConsentPart'
<1>1. \A g \in Handlers, q \in Requests : InStep(g, q)' => InStep(g, q)
  BY DEF InStep, Steps
<1>2. Nonced' /\ Alone'
  BY <1>1 DEF Inv, ConsentPart, Nonced, Alone
<1>3. Unwritten'
  BY DEF Inv, ConsentPart, Unwritten, Steps
<1>4. \A c : Holder(c)' = Holder(c)
  BY DEF Holder
<1>5. Answered' /\ CodeSurvives' /\ Unspent'
  BY <1>4 DEF Inv, ConsentPart, Answered, CodeSurvives, Unspent, Steps
<1> QED
  BY <1>2, <1>3, <1>5 DEF ConsentPart

(* A consent step goes on: of the requests it changes its own, which has   *)
(* no code another client holds.                                           *)
LEMMA ConsentStep ==
    ASSUME Inv, NEW h \in Handlers, NEW q \in Requests, InStep(h, q),
           NEW r, r.pc \in Steps, r.q = q,
           req'[h] = r, \A g \in Handlers : g # h => req'[g] = req[g],
           request' = request \/ request[q].code = 0,
           \A k \in Requests : k # q => request'[k] = request[k],
           request'[q].code \notin consumed,
           r.pc = "write" => request'[q].code = 0,
           r.pc = "answer" /\ r.kind = "accept" => Holder(r.code)' # {},
           UNCHANGED <<consent, revealed, codes, consumed>>
    PROVE  ConsentPart'
<1>1. \A g \in Handlers, k \in Requests : InStep(g, k)' => InStep(g, k)
  BY DEF InStep, Steps
<1>2. Nonced' /\ Alone'
  BY <1>1 DEF Inv, ConsentPart, Nonced, Alone
<1>3. Unwritten'
  <2> SUFFICES ASSUME NEW g \in Handlers, req'[g].pc = "write"
               PROVE  request'[req'[g].q].code = 0
    BY DEF Unwritten
  <2>1. CASE g = h
    BY <2>1
  <2>2. CASE g # h
    <3>1. req'[g] = req[g] /\ request[req[g].q].code = 0 /\ req[g].q \in Requests
      BY <2>2 DEF Inv, ConsentPart, Unwritten, Calls, CallOK
    <3>2. InStep(g, req[g].q)
      BY <3>1 DEF InStep
    <3>3. req[g].q # q
      BY <2>2, <3>2 DEF Inv, ConsentPart, Alone
    <3> QED
      BY <3>1, <3>3
  <2> QED
    BY <2>1, <2>2
<1>4. \A c \in 1..minted : Holder(c) # {} => Holder(c)' # {}
  BY OAuthAssumption DEF Holder, Inv, Tables
<1>5. Answered'
  <2> SUFFICES ASSUME NEW g \in Handlers, req'[g].pc = "answer", req'[g].kind = "accept"
               PROVE  req'[g].code \in consumed \/ Holder(req[g].code)' # {}
    BY DEF Answered
  <2>1. CASE g = h
    BY <2>1
  <2>2. CASE g # h
    BY <1>4, <2>2 DEF Inv, ConsentPart, Answered, Calls, CallOK
  <2> QED
    BY <2>1, <2>2
<1>6. CodeSurvives' /\ Unspent'
  <2>1. \A k \in Requests : request'[k].code \notin consumed
    BY DEF Inv, ConsentPart, Unspent
  <2>2. \A c \in codes \ consumed : Holder(c)' # {}
    BY <1>4 DEF Inv, Tables, ConsentPart, CodeSurvives
  <2> QED
    BY <2>1, <2>2 DEF CodeSurvives, Unspent
<1> QED
  BY <1>2, <1>3, <1>5, <1>6 DEF ConsentPart

(* Handlers that neither exchange nor rotate leave the tokens alone.       *)
LEMMA TokenKept ==
    ASSUME Inv, Forward,
           \A g \in Handlers : req'[g] = req[g] \/ req'[g].pc \notin {"grant", "rotate_write"},
           UNCHANGED <<token, used, consumed, grants, rotations, revoked>>
    PROVE  TokenPart'
<1>1. Granting' /\ Rotating'
  BY DEF Inv, TokenPart, Granting, Rotating
<1>2. Live'
  BY DEF Inv, TokenPart, Live, Forward, Tables, Keys
<1>3. Past' /\ SpentOnce' /\ RevokedIsGone'
  BY DEF Inv, TokenPart, Past, SpentOnce, CodeSpentOnce, RefreshSpentOnce, RevokedIsGone
<1>4. Started'
  BY DEF Inv, TokenPart, Started, Forward, Tables, Calls, CallOK, Keys
<1> QED
  BY <1>1, <1>2, <1>3, <1>4 DEF TokenPart

-----------------------------------------------------------------------------
(* The first state.                                                        *)
LEMMA InitInv == Init => Inv
<1> SUFFICES ASSUME Init PROVE Inv
  OBVIOUS
<1>1. NoRequest \in RequestRow(0, 0) /\ NoRequest.code = 0 /\ NoRequest.did = FALSE
  BY OAuthAssumption DEF NoRequest, RequestRow
<1>2. NoConsent \in [state : 0..0, until : 0..(0 + Window)] /\ NoToken \in TokenRow(0)
  BY OAuthAssumption DEF NoConsent, NoToken, TokenRow
<1>3. Tables
  <2>1. /\ request \in [Requests -> RequestRow(0, 0)]
        /\ \A q \in Requests : (request[q].code # 0) = request[q].did
        /\ \A q \in Requests : request[q].code = 0
    BY <1>1 DEF Init
  <2>2. /\ consent \in [Requests -> [state : 0..0, until : 0..(0 + Window)]]
        /\ revealed \in [Requests -> SUBSET (1..0)]
        /\ token \in [Keys -> TokenRow(0)]
    BY <1>2 DEF Init
  <2>3. 0 \in Nat /\ 0 \in 0..MaxMinted
    BY OAuthAssumption
  <2> QED
    BY <2>1, <2>2, <2>3 DEF Init, Tables
<1>4. Calls
  BY IdleOK DEF Init, Calls
<1>5. ConsentPart
  BY DEF Init, ConsentPart, Nonced, Alone, InStep, Unwritten, Answered, CodeSurvives,
         Unspent, Idle
<1>6. Live
  BY DEF Init, Live, NoToken
<1>7. TokenPart
  BY <1>6 DEF Init, TokenPart, Granting, Past, Rotating, SpentOnce, CodeSpentOnce,
              RefreshSpentOnce, RevokedIsGone, Started, Idle
<1> QED
  BY <1>3, <1>4, <1>5, <1>7 DEF Inv

(* What the handlers do not draw stays.                                    *)
LEMMA StandStill ==
    ASSUME Inv, UNCHANGED <<nonces, minted, now>>
    PROVE  Forward
BY OAuthAssumption DEF Inv, Tables, Forward

(* A handler goes on to something that is neither a consent step nor an    *)
(* exchange or a rotation: it ends, looks up, or will delete.              *)
LEMMA LeaveInv ==
    ASSUME Inv, NEW h \in Handlers, NEW r, CallOK(r, nonces, minted, now),
           r.pc \notin Steps, r.pc \notin {"grant", "rotate_write"},
           req' = [req EXCEPT ![h] = r],
           UNCHANGED <<rows, given, nonces, minted, now, history>>
    PROVE  Inv'
<1>1. Forward /\ CallOK(r, nonces', minted', now')
  BY StandStill
<1>2. Calls' /\ req'[h] = r /\ \A g \in Handlers : g # h => req'[g] = req[g]
  BY <1>1, CallsStep
<1>3. Tables'
  BY DEF Inv, Tables, rows, given, history
<1>4. ConsentPart'
  BY <1>2, ConsentKept DEF rows, given, history
<1>5. TokenPart'
  BY <1>1, <1>2, TokenKept DEF rows, given, history
<1> QED
  BY <1>2, <1>3, <1>4, <1>5 DEF Inv

LEMMA DoneInv ==
    ASSUME Inv, NEW h \in Handlers, Done(h),
           UNCHANGED <<rows, given, nonces, minted, now, history>>
    PROVE  Inv'
<1>1. /\ CallOK(Idle, nonces, minted, now)
      /\ Idle.pc \notin Steps /\ Idle.pc \notin {"grant", "rotate_write"}
  BY IdleOK DEF Idle, Steps
<1> QED
  BY <1>1, LeaveInv DEF Done

(* A consent step goes on, and may write its request.                      *)
LEMMA StepInv ==
    ASSUME Inv, Forward, NEW h \in Handlers, NEW q \in Requests, InStep(h, q),
           NEW r, CallOK(r, nonces', minted', now'), r.pc \in Steps, r.q = q,
           req' = [req EXCEPT ![h] = r],
           request' \in [Requests -> RequestRow(minted', now')],
           (request'[q].code # 0) = request'[q].did,
           request'[q].st # "live" => request'[q].code = 0,
           request' = request \/ request[q].code = 0,
           \A k \in Requests : k # q => request'[k] = request[k],
           request'[q].code \notin consumed,
           r.pc = "write" => request'[q].code = 0,
           r.pc = "answer" /\ r.kind = "accept" => Holder(r.code)' # {},
           signedIn' \subseteq devices',
           UNCHANGED <<consent, token, used, given, history>>
    PROVE  Inv'
<1>1. Calls' /\ req'[h] = r /\ \A g \in Handlers : g # h => req'[g] = req[g]
  BY CallsStep
<1>2. Tables'
  <2>1. \A k \in Requests : /\ (request'[k].code # 0) = request'[k].did
                            /\ request'[k].st # "live" => request'[k].code = 0
    BY DEF Inv, Tables
  <2> QED
    BY <2>1, TablesForward DEF Inv, Tables, Forward, given, history
<1>3. ConsentPart'
  BY <1>1, ConsentStep DEF given, history
<1>4. TokenPart'
  BY <1>1, TokenKept DEF Steps, history
<1> QED
  BY <1>1, <1>2, <1>3, <1>4 DEF Inv

(* A step ends a phase that is not accept.                                 *)
LEMMA AdvanceTo ==
    ASSUME Inv, NEW h \in Handlers, req[h].pc \in {"read", "write", "authenticate"},
           Phase(h) # "accept", Advance(h)
    PROVE  \E r : /\ req' = [req EXCEPT ![h] = r]
                  /\ CallOK(r, nonces, minted, now)
                  /\ r.pc \in {"read", "answer"} /\ r.q = req[h].q
                  /\ ~(r.pc = "answer" /\ r.kind = "accept")
<1>1. /\ req[h].q \in Requests /\ req[h].kind \in Kinds /\ req[h].device \in Devices
      /\ req[h].fresh \in 1..nonces /\ req[h].phases \in Left(req[h].kind)
  BY DEF Inv, Calls, CallOK
<1>2. /\ Tail(req[h].phases) = <<>> \/ Tail(req[h].phases) \in Left(req[h].kind)
      /\ req[h].kind = "accept" => Tail(req[h].phases) # <<>>
  BY <1>1, PhaseFacts DEF Phase
<1> DEFINE r == [pc |-> IF Tail(req[h].phases) = <<>> THEN "answer" ELSE "read",
                 q |-> req[h].q, kind |-> req[h].kind, device |-> req[h].device,
                 fresh |-> req[h].fresh, phases |-> Tail(req[h].phases)]
<1>3. req' = [req EXCEPT ![h] = r]
  BY DEF Advance, Inv, Calls
<1>4. CallOK(r, nonces, minted, now)
  BY <1>1, <1>2 DEF CallOK
<1>5. r.pc \in {"read", "answer"} /\ r.q = req[h].q /\ ~(r.pc = "answer" /\ r.kind = "accept")
  BY <1>2
<1> QED
  BY <1>3, <1>4, <1>5

-----------------------------------------------------------------------------
(* The consent steps, one lemma for each.                                  *)
LEMMA PushRequestInv ==
    ASSUME Inv, NEW q \in Requests, PushRequest(q)
    PROVE  Inv'
<1>1. /\ request[q].st = "never" /\ request' = Created(q) /\ req' = req
      /\ UNCHANGED <<consent, devices, signedIn, token, used, given, req, bounds, history>>
  BY DEF PushRequest
<1>2. Forward /\ Calls'
  BY <1>1, StandStill, CallsStay DEF bounds
<1>3. request[q] \in RequestRow(minted, now) /\ now + Window \in 0..(now + Window)
  BY OAuthAssumption DEF Inv, Tables
<1>4. /\ [request[q] EXCEPT !.st = "live", !.until = now + Window] \in RequestRow(minted, now)
      /\ [request[q] EXCEPT !.st = "live", !.until = now + Window].code = request[q].code
      /\ [request[q] EXCEPT !.st = "live", !.until = now + Window].did = request[q].did
      /\ [request[q] EXCEPT !.st = "live", !.until = now + Window].st = "live"
  BY <1>3 DEF RequestRow
<1>5. /\ request' \in [Requests -> RequestRow(minted, now)]
      /\ \A k \in Requests : request'[k].code = request[k].code /\ request'[k].did = request[k].did
      /\ \A k \in Requests : k # q => request'[k] = request[k]
      /\ request'[q].st = "live"
  BY <1>1, <1>4 DEF Created, Inv, Tables
<1>6. Tables'
  BY <1>1, <1>5 DEF Inv, Tables, given, bounds, history
<1>7. \A c : Holder(c) # {} => Holder(c)' # {}
  BY <1>5 DEF Holder
<1>8. Nonced' /\ Alone' /\ Unspent'
  BY <1>1, <1>5 DEF Inv, ConsentPart, Nonced, Alone, Unspent, InStep, given, history
<1>9. Unwritten'
  BY <1>1, <1>5 DEF Inv, ConsentPart, Unwritten, Calls, CallOK
<1>10. Answered' /\ CodeSurvives'
  BY <1>1, <1>7 DEF Inv, ConsentPart, Answered, CodeSurvives, given, history
<1>11. TokenPart'
  BY <1>1, <1>2, TokenKept DEF history
<1> QED
  BY <1>2, <1>6, <1>8, <1>9, <1>10, <1>11 DEF Inv, ConsentPart

LEMMA AuthorizeInv ==
    ASSUME Inv, NEW q \in Requests, Authorize(q)
    PROVE  Inv'
<1>1. /\ consent[q] = NoConsent /\ nonces' = nonces + 1
      /\ consent' = [consent EXCEPT ![q] = [state |-> nonces', until |-> now + Window]]
      /\ revealed' = [revealed EXCEPT ![q] = @ \cup {nonces'}]
      /\ UNCHANGED <<request, devices, signedIn, token, used, codes, refreshes, req, minted, now,
                     faults, history>>
  BY DEF Authorize
<1>2. Forward
  BY <1>1, OAuthAssumption DEF Inv, Tables, Forward
<1>3. Calls'
  BY <1>1, <1>2, CallsStay
<1>4. Tables'
  <2>1. /\ consent \in [Requests -> [state : 0..nonces', until : 0..(now' + Window)]]
        /\ revealed \in [Requests -> SUBSET (1..nonces')]
    BY <1>2, TablesForward DEF Inv
  <2>2. /\ nonces' \in 1..nonces' /\ nonces' \in 0..nonces' /\ nonces' \in Nat
        /\ now + Window \in 0..(now' + Window)
    BY <1>1, OAuthAssumption DEF Inv, Tables
  <2>3. /\ consent' \in [Requests -> [state : 0..nonces', until : 0..(now' + Window)]]
        /\ revealed' \in [Requests -> SUBSET (1..nonces')]
    BY <1>1, <2>1, <2>2
  <2> QED
    BY <1>1, <2>2, <2>3 DEF Inv, Tables, history
<1>5. \A h \in Handlers : ~InStep(h, q)
  BY <1>1 DEF Inv, ConsentPart, Nonced, NoConsent
<1>6. \A h \in Handlers, k \in Requests : InStep(h, k)' = InStep(h, k)
  BY <1>1 DEF InStep
<1>7. \A k \in Requests : k # q => consent'[k] = consent[k] /\ revealed'[k] = revealed[k]
  BY <1>1 DEF Inv, Tables
<1>8. Nonced' /\ Alone'
  BY <1>5, <1>6, <1>7 DEF Inv, ConsentPart, Nonced, Alone
<1>9. Unwritten' /\ Answered' /\ CodeSurvives' /\ Unspent'
  BY <1>1 DEF Inv, ConsentPart, Unwritten, Answered, CodeSurvives, Unspent, Holder, history
<1>10. TokenPart'
  BY <1>1, <1>2, TokenKept DEF history
<1> QED
  BY <1>3, <1>4, <1>8, <1>9, <1>10 DEF Inv, ConsentPart

LEMMA StartStepInv ==
    ASSUME Inv, NEW h \in Handlers, NEW q \in Requests, NEW kind \in Kinds, NEW d \in Devices,
           StartStep(h, q, kind, d)
    PROVE  Inv'
<1> DEFINE r == [pc |-> "read", q |-> q, kind |-> kind, device |-> d,
                 fresh |-> nonces', phases |-> Phases(kind)]
<1>1. /\ req[h] = Idle /\ nonces' = nonces + 1
      /\ \E n \in revealed[q] : consent[q].state = n
      /\ consent' = [consent EXCEPT ![q] = [state |-> nonces', until |-> now + Window]]
      /\ req' = [req EXCEPT ![h] = r]
      /\ UNCHANGED <<request, devices, signedIn, token, used, given, minted, now, faults, history>>
  BY DEF StartStep, Matches
<1>2. Forward
  BY <1>1, OAuthAssumption DEF Inv, Tables, Forward
<1>3. CallOK(r, nonces', minted', now') /\ r.pc = "read" /\ r.q = q
  BY <1>1, PhaseFacts DEF CallOK, Inv, Tables
<1> HIDE DEF r
<1>4. Calls' /\ req'[h] = r /\ \A g \in Handlers : g # h => req'[g] = req[g]
  BY <1>1, <1>2, <1>3, CallsStep
<1>5. Tables'
  <2>1. /\ consent \in [Requests -> [state : 0..nonces', until : 0..(now' + Window)]]
        /\ revealed \in [Requests -> SUBSET (1..nonces')]
    BY <1>2, TablesForward DEF Inv
  <2>2. /\ nonces' \in 0..nonces' /\ nonces' \in Nat
        /\ now + Window \in 0..(now' + Window)
    BY <1>1, OAuthAssumption DEF Inv, Tables
  <2>3. /\ consent' \in [Requests -> [state : 0..nonces', until : 0..(now' + Window)]]
        /\ revealed' \in [Requests -> SUBSET (1..nonces')]
    BY <1>1, <2>1, <2>2 DEF given
  <2> QED
    BY <1>1, <2>2, <2>3 DEF Inv, Tables, given, history
<1>6. \A g \in Handlers : ~InStep(g, q)
  BY <1>1 DEF Inv, ConsentPart, Nonced
<1>7. \A g \in Handlers, k \in Requests : InStep(g, k)' => (g = h /\ k = q) \/ InStep(g, k)
  BY <1>3, <1>4 DEF InStep
<1>8. /\ \A k \in Requests : k # q => consent'[k] = consent[k]
      /\ consent'[q].state = nonces' /\ revealed' = revealed
      /\ nonces' # 0 /\ nonces' \notin revealed[q]
  BY <1>1 DEF Inv, Tables, given
<1>9. Nonced' /\ Alone'
  BY <1>6, <1>7, <1>8 DEF Inv, ConsentPart, Nonced, Alone
<1>10. Unwritten' /\ Answered' /\ CodeSurvives' /\ Unspent'
  BY <1>1, <1>3, <1>4
  DEF Inv, ConsentPart, Unwritten, Answered, CodeSurvives, Unspent, Holder, given, history
<1>11. TokenPart'
  BY <1>1, <1>2, <1>3, <1>4, TokenKept DEF history
<1> QED
  BY <1>4, <1>5, <1>9, <1>10, <1>11 DEF Inv, ConsentPart

LEMMA ReadRequestInv ==
    ASSUME Inv, NEW h \in Handlers, ReadRequest(h)
    PROVE  Inv'
<1>1. req[h].pc = "read" /\ UNCHANGED <<rows, given, bounds, history>>
  BY DEF ReadRequest
<1> DEFINE q == req[h].q
           data == [request[q] EXCEPT !.device = req[h].device, !.until = now + Window]
           r == [pc |-> "write", q |-> q, kind |-> req[h].kind, device |-> req[h].device,
                 fresh |-> req[h].fresh, phases |-> req[h].phases, data |-> data]
<1>2. CASE ~Admits(h)
  BY <1>1, <1>2, DoneInv DEF ReadRequest, bounds
<1>3. CASE Admits(h)
  <2>1. /\ q \in Requests /\ req[h].kind \in Kinds /\ req[h].device \in Devices
        /\ req[h].fresh \in 1..nonces /\ req[h].phases \in Left(req[h].kind)
        /\ InStep(h, q)
    BY <1>1 DEF Inv, Calls, CallOK, InStep
  <2>2. req' = [req EXCEPT ![h] = r]
    BY <1>3 DEF ReadRequest, Inv, Calls
  <2>3. /\ request[q].st = "live" /\ request[q].code = 0 /\ request[q].did = FALSE
        /\ request[q] \in RequestRow(minted, now)
    BY <1>3, <2>1 DEF Admits, Active, Inv, Tables, RequestRow
  <2>4. /\ data \in RequestRow(minted, now) /\ data.st = "live"
        /\ data.code = 0 /\ data.did = FALSE
    <3>1. now + Window \in 0..(now + Window)
      BY OAuthAssumption DEF Inv, Tables
    <3> QED
      BY <2>1, <2>3, <3>1 DEF RequestRow
  <2> HIDE DEF data
  <2>5. CallOK(r, nonces', minted', now') /\ r.pc = "write" /\ r.q = q
    BY <1>1, <2>1, <2>4 DEF CallOK, bounds
  <2>6. Forward
    BY <1>1, StandStill DEF bounds
  <2>7. /\ request' = request /\ signedIn' \subseteq devices'
        /\ request' \in [Requests -> RequestRow(minted', now')]
        /\ (request'[q].code # 0) = request'[q].did
        /\ request'[q].st # "live" => request'[q].code = 0
        /\ request'[q].code \notin consumed
    BY <1>1, <2>1 DEF rows, bounds, Inv, Tables, ConsentPart, Unspent
  <2> HIDE DEF r, q
  <2> QED
    BY <1>1, <2>1, <2>2, <2>3, <2>5, <2>6, <2>7, StepInv DEF Steps, rows
<1> QED
  BY <1>2, <1>3

(* What the step knows when it writes.                                     *)
LEMMA WriteFacts ==
    ASSUME Inv, NEW h \in Handlers, req[h].pc = "write"
    PROVE  /\ req[h].q \in Requests /\ InStep(h, req[h].q)
           /\ request[req[h].q].code = 0
           /\ req[h].data \in RequestRow(minted, now)
           /\ req[h].data.code = 0 /\ req[h].data.did = FALSE
           /\ 0 \notin consumed
BY DEF Inv, Calls, CallOK, ConsentPart, Unwritten, InStep, Tables

LEMMA UpdateRequestInv ==
    ASSUME Inv, NEW h \in Handlers, UpdateRequest(h)
    PROVE  Inv'
<1> DEFINE q == req[h].q
<1>1. /\ req[h].pc = "write" /\ Phase(h) \in {"data", "page", "sign_in"}
      /\ UNCHANGED <<consent, devices, signedIn, token, used, given, bounds, history>>
  BY DEF UpdateRequest
<1>2. /\ q \in Requests /\ InStep(h, q) /\ request[q].code = 0
      /\ req[h].data \in RequestRow(minted, now)
      /\ req[h].data.code = 0 /\ req[h].data.did = FALSE /\ 0 \notin consumed
  BY <1>1, WriteFacts
<1>3. CASE request[q].st # "live"
  BY <1>1, <1>3, DoneInv DEF UpdateRequest, rows, bounds
<1>4. CASE request[q].st = "live"
  <2>1. request' = [request EXCEPT ![q] = req[h].data]
    BY <1>4 DEF UpdateRequest
  <2>2. \E r : /\ req' = [req EXCEPT ![h] = r] /\ CallOK(r, nonces, minted, now)
               /\ r.pc \in {"read", "answer", "authenticate"} /\ r.q = q
               /\ ~(r.pc = "answer" /\ r.kind = "accept")
    <3>1. CASE Phase(h) = "sign_in"
      <4> DEFINE r == [pc |-> "authenticate", q |-> q, kind |-> req[h].kind,
                       device |-> req[h].device, fresh |-> req[h].fresh,
                       phases |-> req[h].phases, data |-> req[h].data]
      <4>1. CallOK(req[h], nonces, minted, now)
        BY DEF Inv, Calls
      <4>2. [req[h] EXCEPT !.pc = "authenticate"] = r
        BY <1>1, <4>1 DEF CallOK
      <4>3. req' = [req EXCEPT ![h] = r]
        BY <1>4, <3>1, <4>2 DEF UpdateRequest, Go
      <4>4. CallOK(r, nonces, minted, now)
        BY <1>1, <3>1, <4>1 DEF CallOK, Phase
      <4>5. r.pc = "authenticate" /\ r.q = q
        OBVIOUS
      <4> HIDE DEF r
      <4> QED
        BY <4>3, <4>4, <4>5
    <3>2. CASE Phase(h) # "sign_in"
      <4>1. Advance(h) /\ Phase(h) # "accept"
        BY <1>1, <1>4, <3>2 DEF UpdateRequest
      <4> QED
        BY <1>1, <4>1, AdvanceTo
    <3> QED
      BY <3>1, <3>2
  <2>3. PICK r : /\ req' = [req EXCEPT ![h] = r] /\ CallOK(r, nonces, minted, now)
                 /\ r.pc \in {"read", "answer", "authenticate"} /\ r.q = q
                 /\ ~(r.pc = "answer" /\ r.kind = "accept")
    BY <2>2
  <2>4. Forward /\ CallOK(r, nonces', minted', now')
    BY <1>1, <2>3, StandStill DEF bounds
  <2>5. /\ request' \in [Requests -> RequestRow(minted', now')]
        /\ request'[q].code = 0 /\ request'[q].did = FALSE
        /\ \A k \in Requests : k # q => request'[k] = request[k]
        /\ signedIn' \subseteq devices'
    BY <1>1, <1>2, <2>1 DEF Inv, Tables, bounds
  <2> HIDE DEF q
  <2> QED
    BY <1>1, <1>2, <2>3, <2>4, <2>5, StepInv DEF Steps
<1> QED
  BY <1>3, <1>4

(* A step that only goes on, and may sign the account in on its device.    *)
LEMMA AdvanceInv ==
    ASSUME Inv, NEW h \in Handlers, req[h].pc \in {"read", "authenticate"},
           Phase(h) # "accept", Advance(h), signedIn' \subseteq devices',
           UNCHANGED <<request, consent, token, used, given, bounds, history>>
    PROVE  Inv'
<1> DEFINE q == req[h].q
<1>1. PICK r : /\ req' = [req EXCEPT ![h] = r] /\ CallOK(r, nonces, minted, now)
               /\ r.pc \in {"read", "answer"} /\ r.q = q
               /\ ~(r.pc = "answer" /\ r.kind = "accept")
  BY AdvanceTo
<1>2. q \in Requests /\ InStep(h, q)
  BY DEF Inv, Calls, CallOK, InStep
<1>3. Forward /\ CallOK(r, nonces', minted', now')
  BY <1>1, StandStill DEF bounds
<1>4. /\ request' \in [Requests -> RequestRow(minted', now')]
      /\ (request'[q].code # 0) = request'[q].did
      /\ request'[q].st # "live" => request'[q].code = 0
      /\ request'[q].code \notin consumed
  BY <1>2 DEF bounds, Inv, Tables, ConsentPart, Unspent
<1> HIDE DEF q
<1> QED
  BY <1>1, <1>2, <1>3, <1>4, StepInv DEF Steps

LEMMA SignUpInv ==
    ASSUME Inv, NEW h \in Handlers, SignUp(h)
    PROVE  Inv'
<1>1. /\ req[h].pc = "read" /\ Phase(h) # "accept"
      /\ UNCHANGED <<rows, given, bounds, history>>
  BY DEF SignUp
<1>2. CASE Advance(h)
  BY <1>1, <1>2, AdvanceInv DEF rows, Inv, Tables
<1>3. CASE Done(h)
  BY <1>1, <1>3, DoneInv DEF bounds
<1> QED
  BY <1>2, <1>3 DEF SignUp

(* The password is checked in the phase that the update was part of.       *)
LEMMA SignInInv ==
    ASSUME Inv, NEW h \in Handlers, SignIn(h)
    PROVE  Inv'
<1>1. /\ req[h].pc = "authenticate" /\ Advance(h)
      /\ UNCHANGED <<request, consent, devices, token, used, given, bounds, history>>
  BY DEF SignIn
<1>2. signedIn' \subseteq devices'
  BY <1>1 DEF SignIn, UpsertDeviceAccount, DeviceId, Inv, Tables
<1>3. Phase(h) # "accept"
  BY <1>1 DEF Phase, Inv, Calls, CallOK
<1> QED
  BY <1>1, <1>2, <1>3, AdvanceInv

LEMMA RejectRequestInv ==
    ASSUME Inv, NEW h \in Handlers, RejectRequest(h)
    PROVE  Inv'
<1> DEFINE q == req[h].q
<1>1. /\ req[h].pc = "write" /\ Phase(h) # "accept"
      /\ UNCHANGED <<consent, devices, signedIn, token, used, given, bounds, history>>
  BY DEF RejectRequest
<1>2. q \in Requests /\ InStep(h, q) /\ request[q].code = 0 /\ 0 \notin consumed
  BY <1>1, WriteFacts
<1>3. CASE request[q].st # "live"
  BY <1>1, <1>3, DoneInv DEF RejectRequest, rows, bounds
<1>4. CASE request[q].st = "live"
  <2>1. request' = Erased(q) /\ Advance(h)
    BY <1>4 DEF RejectRequest
  <2>2. PICK r : /\ req' = [req EXCEPT ![h] = r] /\ CallOK(r, nonces, minted, now)
                 /\ r.pc \in {"read", "answer"} /\ r.q = q
                 /\ ~(r.pc = "answer" /\ r.kind = "accept")
    BY <1>1, <2>1, AdvanceTo
  <2>3. Forward /\ CallOK(r, nonces', minted', now')
    BY <1>1, <2>2, StandStill DEF bounds
  <2>4. /\ [NoRequest EXCEPT !.st = "gone"] \in RequestRow(minted, now)
        /\ [NoRequest EXCEPT !.st = "gone"].code = 0
        /\ [NoRequest EXCEPT !.st = "gone"].did = FALSE
    <3>1. 0 \in 0..minted /\ 0 \in 0..(now + Window)
      BY OAuthAssumption DEF Inv, Tables
    <3> QED
      BY <3>1 DEF NoRequest, RequestRow
  <2>5. /\ request' \in [Requests -> RequestRow(minted', now')]
        /\ request'[q].code = 0 /\ request'[q].did = FALSE
        /\ \A k \in Requests : k # q => request'[k] = request[k]
        /\ signedIn' \subseteq devices'
    BY <1>1, <1>2, <2>1, <2>4 DEF Erased, Inv, Tables, bounds
  <2> HIDE DEF q
  <2> QED
    BY <1>1, <1>2, <2>2, <2>3, <2>5, StepInv DEF Steps
<1> QED
  BY <1>3, <1>4

LEMMA AcceptRequestInv ==
    ASSUME Inv, NEW h \in Handlers, AcceptRequest(h)
    PROVE  Inv'
<1> DEFINE q == req[h].q
<1>1. /\ req[h].pc = "write" /\ Phase(h) = "accept"
      /\ UNCHANGED <<consent, devices, signedIn, token, used, given, nonces, now, faults, history>>
  BY DEF AcceptRequest
<1>2. /\ q \in Requests /\ InStep(h, q) /\ request[q].code = 0
      /\ req[h].data \in RequestRow(minted, now)
  BY <1>1, WriteFacts
<1>3. CASE request[q].st # "live"
  BY <1>1, <1>3, DoneInv DEF AcceptRequest, rows
<1>4. CASE request[q].st = "live"
  <2>1. /\ minted < MaxMinted /\ minted' = minted + 1
        /\ request' = [request EXCEPT ![q] = [req[h].data EXCEPT !.did = TRUE, !.code = minted']]
        /\ req' = [req EXCEPT ![h] = [pc |-> "answer", q |-> q, kind |-> req[h].kind,
                                      code |-> minted']]
    BY <1>4 DEF AcceptRequest, Mint, Inv, Calls
  <2>2. /\ Forward /\ minted' \in 1..minted' /\ minted' # 0 /\ minted' \notin consumed
    BY <1>1, <2>1, OAuthAssumption DEF Inv, Tables, Forward
  <2>3. req[h].kind = "accept" /\ req[h].kind \in Kinds
    <3>1. req[h].kind \in Kinds /\ req[h].phases \in Left(req[h].kind)
      BY <1>1 DEF Inv, Calls, CallOK
    <3> QED
      BY <1>1, <3>1, PhaseFacts DEF Phase
  <2> PICK r : r = [pc |-> "answer", q |-> q, kind |-> req[h].kind, code |-> minted']
    OBVIOUS
  <2>4. CallOK(r, nonces', minted', now')
    BY <1>2, <2>2, <2>3 DEF CallOK
  <2> DEFINE row == [req[h].data EXCEPT !.did = TRUE, !.code = minted']
  <2>5. /\ RequestRow(minted, now) \subseteq RequestRow(minted', now')
    BY <1>1, <2>2, RowMonotone, OAuthAssumption DEF Forward, Inv, Tables
  <2>6. row \in RequestRow(minted', now') /\ row.code = minted' /\ row.did = TRUE
    <3>1. req[h].data \in RequestRow(minted', now') /\ minted' \in 0..minted'
      BY <1>2, <2>2, <2>5
    <3> QED
      BY <3>1 DEF RequestRow
  <2>7. row.st = "live"
    <3>1. req[h].data.st = "live"
      BY <1>1 DEF Inv, Calls, CallOK
    <3> QED
      BY <1>2, <3>1 DEF RequestRow
  <2> HIDE DEF row
  <2>8. /\ request' \in [Requests -> RequestRow(minted', now')]
        /\ request'[q] = row
        /\ \A k \in Requests : k # q => request'[k] = request[k]
        /\ signedIn' \subseteq devices'
    BY <1>1, <1>2, <2>1, <2>5, <2>6 DEF Inv, Tables, row
  <2>9. Holder(r.code)' # {}
    <3>1. q \in {k \in Requests : request'[k].st = "live" /\ request'[k].code = minted'}
      BY <1>2, <2>6, <2>7, <2>8
    <3> QED
      BY <3>1 DEF Holder
  <2>10. r.pc = "answer" /\ r.q = q /\ req' = [req EXCEPT ![h] = r]
    BY <2>1
  <2> HIDE DEF q
  <2> QED
    BY <1>1, <1>2, <2>2, <2>4, <2>6, <2>7, <2>8, <2>9, <2>10, StepInv DEF Steps
<1> QED
  BY <1>3, <1>4

LEMMA AnswerPageInv ==
    ASSUME Inv, NEW h \in Handlers, AnswerPage(h)
    PROVE  Inv'
<1> DEFINE q == req[h].q
<1>1. /\ req[h].pc = "answer" /\ req' = [req EXCEPT ![h] = Idle]
      /\ revealed' = [revealed EXCEPT ![q] = @ \cup {req[h].fresh}]
      /\ UNCHANGED <<rows, codes, refreshes, bounds, history>>
  BY DEF AnswerPage, Done
<1>2. q \in Requests /\ req[h].fresh \in 1..nonces /\ InStep(h, q)
  BY <1>1 DEF AnswerPage, Inv, Calls, CallOK, InStep
<1>3. Forward /\ CallOK(Idle, nonces', minted', now')
  BY <1>1, StandStill, IdleOK DEF bounds
<1>4. Calls' /\ req'[h] = Idle /\ \A g \in Handlers : g # h => req'[g] = req[g]
  BY <1>1, <1>3, CallsStep
<1>5. /\ revealed' \in [Requests -> SUBSET (1..nonces)]
      /\ \A k \in Requests : k # q => revealed'[k] = revealed[k]
  BY <1>1, <1>2 DEF Inv, Tables
<1>6. Tables'
  BY <1>1, <1>5 DEF Inv, Tables, rows, bounds, history
<1>7. \A g \in Handlers, k \in Requests : InStep(g, k)' => InStep(g, k) /\ k # q
  BY <1>2, <1>4 DEF InStep, Idle, Inv, ConsentPart, Alone
<1>8. Nonced' /\ Alone'
  BY <1>1, <1>5, <1>7 DEF Inv, ConsentPart, Nonced, Alone, rows
<1>9. Unwritten' /\ Answered' /\ CodeSurvives' /\ Unspent'
  BY <1>1, <1>4
  DEF Inv, ConsentPart, Unwritten, Answered, CodeSurvives, Unspent, Holder, Idle, rows, history
<1>10. TokenPart'
  BY <1>1, <1>3, <1>4, TokenKept DEF rows, history, Idle
<1> QED
  BY <1>4, <1>6, <1>8, <1>9, <1>10 DEF Inv, ConsentPart

LEMMA AnswerRedirectInv ==
    ASSUME Inv, NEW h \in Handlers, AnswerRedirect(h)
    PROVE  Inv'
<1> DEFINE q == req[h].q
<1>1. /\ req[h].pc = "answer" /\ req' = [req EXCEPT ![h] = Idle]
      /\ consent' = [consent EXCEPT ![q] = NoConsent] \/ consent' = consent
      /\ codes' = IF req[h].kind = "accept" THEN codes \cup {req[h].code} ELSE codes
      /\ UNCHANGED <<request, devices, signedIn, token, used, revealed, refreshes, nonces, minted,
                     now, history>>
  BY DEF AnswerRedirect, Done
<1>2. /\ q \in Requests /\ InStep(h, q)
      /\ req[h].kind = "accept" => /\ req[h].code \in 1..minted
                                   /\ req[h].code \in consumed \/ Holder(req[h].code) # {}
  BY <1>1 DEF Inv, Calls, CallOK, InStep, ConsentPart, Answered
<1>3. Forward /\ CallOK(Idle, nonces', minted', now')
  BY <1>1, StandStill, IdleOK
<1>4. Calls' /\ req'[h] = Idle /\ \A g \in Handlers : g # h => req'[g] = req[g]
  BY <1>1, <1>3, CallsStep
<1>5. /\ consent' \in [Requests -> [state : 0..nonces, until : 0..(now + Window)]]
      /\ \A k \in Requests : k # q => consent'[k] = consent[k]
  <2>1. NoConsent \in [state : 0..nonces, until : 0..(now + Window)]
    BY OAuthAssumption DEF NoConsent, Inv, Tables
  <2> QED
    BY <1>1, <1>2, <2>1 DEF Inv, Tables
<1>6. Tables'
  BY <1>1, <1>2, <1>5 DEF Inv, Tables, history
<1>7. \A g \in Handlers, k \in Requests : InStep(g, k)' => InStep(g, k) /\ k # q
  BY <1>2, <1>4 DEF InStep, Idle, Inv, ConsentPart, Alone
<1>8. Nonced' /\ Alone'
  BY <1>1, <1>5, <1>7 DEF Inv, ConsentPart, Nonced, Alone
<1>9. \A c : Holder(c)' = Holder(c)
  BY <1>1 DEF Holder
<1>10. Unwritten' /\ Answered' /\ CodeSurvives' /\ Unspent'
  BY <1>1, <1>2, <1>4, <1>9
  DEF Inv, ConsentPart, Unwritten, Answered, CodeSurvives, Unspent, Idle, history
<1>11. TokenPart'
  BY <1>1, <1>3, <1>4, TokenKept DEF history, Idle
<1> QED
  BY <1>4, <1>6, <1>8, <1>10, <1>11 DEF Inv, ConsentPart

-----------------------------------------------------------------------------
(* The token endpoint.                                                     *)
LEMMA ConsumeCodeInv ==
    ASSUME Inv, NEW h \in Handlers, NEW c \in codes, ConsumeCode(h, c)
    PROVE  Inv'
<1> DEFINE r == [pc |-> IF Holder(c) # {} THEN "grant" ELSE "by_code", code |-> c]
<1>1. /\ request' = Taken(c)
      /\ consumed' = IF Holder(c) # {} THEN consumed \cup {c} ELSE consumed
      /\ req' = [req EXCEPT ![h] = r]
      /\ UNCHANGED <<consent, devices, signedIn, token, used, given, bounds, grants, rotations,
                     revoked>>
  BY DEF ConsumeCode
<1>2. c \in 1..minted /\ minted \in Nat /\ c # 0
  <2>1. codes \subseteq 1..minted /\ minted \in Nat
    BY OAuthAssumption DEF Inv, Tables
  <2> QED
    BY <2>1
<1>3. Forward /\ CallOK(r, nonces', minted', now')
  BY <1>1, <1>2, StandStill DEF bounds, CallOK
<1>4. /\ r.code = c /\ r.pc \notin Steps /\ r.pc # "rotate_write"
      /\ r.pc = "grant" <=> Holder(c) # {}
  BY DEF Steps
<1> HIDE DEF r
<1>5. Calls' /\ req'[h] = r /\ \A g \in Handlers : g # h => req'[g] = req[g]
  BY <1>1, <1>3, CallsStep
<1> DEFINE gone == [NoRequest EXCEPT !.st = "gone"]
<1>6. gone \in RequestRow(minted, now) /\ gone.code = 0 /\ gone.did = FALSE /\ gone.st = "gone"
  <2>1. 0 \in 0..minted /\ 0 \in 0..(now + Window)
    BY OAuthAssumption DEF Inv, Tables
  <2> QED
    BY <2>1 DEF NoRequest, RequestRow
<1>7. \A k \in Requests : request'[k] = IF k \in Holder(c) THEN gone ELSE request[k]
  BY <1>1 DEF Taken
<1> HIDE DEF gone
<1>8. request' \in [Requests -> RequestRow(minted, now)]
  BY <1>1, <1>6, <1>7 DEF Taken, Inv, Tables, gone
<1>9. Tables'
  <2>1. \A k \in Requests : /\ (request'[k].code # 0) = request'[k].did
                            /\ request'[k].st # "live" => request'[k].code = 0
    BY <1>6, <1>7 DEF Inv, Tables
  <2>2. consumed' \subseteq 1..minted
    BY <1>1, <1>2 DEF Inv, Tables
  <2> QED
    BY <1>1, <1>8, <2>1, <2>2 DEF Inv, Tables, given, bounds
<1>10. /\ \A d \in 1..minted : d # c /\ Holder(d) # {} => Holder(d)' # {}
       /\ Holder(c) # {} => c \in consumed'
       /\ consumed \subseteq consumed'
  BY <1>1, <1>7 DEF Holder
<1>11. Nonced' /\ Alone' /\ Unwritten'
  <2>1. \A g \in Handlers, k \in Requests : InStep(g, k)' => InStep(g, k)
    BY <1>4, <1>5 DEF InStep, Steps
  <2>2. Nonced' /\ Alone'
    BY <1>1, <2>1 DEF Inv, ConsentPart, Nonced, Alone, given
  <2>3. Unwritten'
    BY <1>4, <1>5, <1>6, <1>7 DEF Inv, ConsentPart, Unwritten, Calls, CallOK, Steps
  <2> QED
    BY <2>2, <2>3
<1>12. Answered' /\ CodeSurvives'
  <2>1. \A g \in Handlers : req'[g].pc = "answer" => req'[g] = req[g]
    BY <1>4, <1>5 DEF Steps
  <2>2. Answered'
    BY <1>10, <2>1 DEF Inv, ConsentPart, Answered, Calls, CallOK
  <2>3. CodeSurvives'
    BY <1>1, <1>10 DEF Inv, Tables, ConsentPart, CodeSurvives, given
  <2> QED
    BY <2>2, <2>3
<1>13. Unspent'
  BY <1>1, <1>2, <1>6, <1>7 DEF Inv, Tables, ConsentPart, Unspent, Holder
<1>14. Granting'
  <2>1. Holder(c) # {} => c \notin consumed
    BY DEF Inv, ConsentPart, Unspent, Holder
  <2> QED
    BY <1>1, <1>4, <1>5, <1>10, <2>1 DEF Inv, TokenPart, Granting
<1>15. Live' /\ Past' /\ Rotating' /\ SpentOnce' /\ RevokedIsGone'
  BY <1>1, <1>4, <1>5
  DEF Inv, TokenPart, Live, Past, Rotating, SpentOnce, CodeSpentOnce, RefreshSpentOnce,
      RevokedIsGone, bounds
<1>16. Started'
  BY <1>1, <1>4, <1>5 DEF Inv, TokenPart, Started, bounds
<1> QED
  BY <1>5, <1>9, <1>11, <1>12, <1>13, <1>14, <1>15, <1>16 DEF Inv, ConsentPart, TokenPart

LEMMA CreateTokenInv ==
    ASSUME Inv, NEW h \in Handlers, CreateToken(h)
    PROVE  Inv'
<1> DEFINE row == [id |-> minted', refresh |-> minted', code |-> req[h].code]
<1>1. /\ req[h].pc = "grant" /\ req' = [req EXCEPT ![h] = Idle]
      /\ minted < MaxMinted /\ minted' = minted + 1
      /\ token' = [token EXCEPT ![minted'] = row]
      /\ refreshes' = refreshes \cup {minted'}
      /\ grants' = grants \cup {<<req[h].code, minted'>>}
      /\ UNCHANGED <<request, consent, devices, signedIn, used, revealed, codes, nonces, now, faults,
                     consumed, rotations, revoked>>
  BY DEF CreateToken, Done, Mint
<1>2. Forward /\ CallOK(Idle, nonces', minted', now')
  BY <1>1, OAuthAssumption, IdleOK DEF Inv, Tables, Forward
<1>3. Calls' /\ req'[h] = Idle /\ \A g \in Handlers : g # h => req'[g] = req[g]
  BY <1>1, <1>2, CallsStep
<1>4. /\ minted \in Nat /\ minted' \in Keys /\ minted' \in 1..minted' /\ minted' # 0
      /\ minted' \notin 1..minted /\ req[h].code \in 1..minted
      /\ 1..minted \subseteq 1..minted'
      /\ 0..minted \subseteq 0..minted' /\ minted' \notin 0..minted
  <2>1. minted \in Nat /\ MaxMinted \in Nat
    BY OAuthAssumption DEF Inv, Tables
  <2>2. req[h].code \in 1..minted
    BY <1>1 DEF Inv, Calls, CallOK
  <2> QED
    BY <1>1, <2>1, <2>2 DEF Keys
<1>5. row \in TokenRow(minted') /\ row.refresh = minted' /\ row.id # 0 /\ row.code # 0
  BY <1>4 DEF TokenRow
<1> HIDE DEF row
<1>6. /\ token'[minted'] = row /\ \A k \in Keys : k # minted' => token'[k] = token[k]
      /\ token' \in [Keys -> TokenRow(minted')]
  BY <1>1, <1>2, <1>4, <1>5, TablesForward DEF Inv, Tables
<1>7. Tables'
  <2>1. /\ refreshes' \subseteq 1..minted'
        /\ grants' \subseteq (1..minted') \X (1..minted')
    BY <1>1, <1>2, <1>4, TablesForward DEF Inv
  <2> QED
    BY <1>1, <1>2, <1>6, <2>1, TablesForward DEF Inv, Tables, Forward
<1>8. ConsentPart'
  BY <1>1, <1>3, ConsentKept DEF Idle, Steps
<1>9. \A k \in Keys : token[k].refresh \in 0..minted
  BY DEF Inv, Tables, TokenRow
<1>10. Granting' /\ CodeSpentOnce'
  BY <1>1, <1>3 DEF Inv, TokenPart, Granting, SpentOnce, CodeSpentOnce, Idle
<1>11. Live'
  <2>1. \A k \in Keys : token'[k] # NoToken =>
            k <= minted' /\ token'[k].id # 0 /\ token'[k].refresh # 0 /\ token'[k].code # 0
    <3> SUFFICES ASSUME NEW k \in Keys, token'[k] # NoToken
                 PROVE  k <= minted' /\ token'[k].id # 0 /\ token'[k].refresh # 0
                        /\ token'[k].code # 0
      OBVIOUS
    <3>1. CASE k = minted'
      BY <1>4, <1>5, <1>6, <3>1
    <3>2. CASE k # minted'
      <4>1. k <= minted /\ token[k].id # 0 /\ token[k].refresh # 0 /\ token[k].code # 0
        BY <1>6, <3>2 DEF Inv, TokenPart, Live
      <4> QED
        BY <1>1, <1>4, <1>6, <3>2, <4>1 DEF Keys
    <3> QED
      BY <3>1, <3>2
  <2>2. \A j, k \in Keys : token'[j].refresh = token'[k].refresh /\ token'[j].refresh # 0 => j = k
    BY <1>4, <1>5, <1>6, <1>9 DEF Inv, TokenPart, Live
  <2> QED
    BY <2>1, <2>2 DEF Live
<1>12. Past'
  <2>1. \A u \in used : u.refresh \in 1..minted
    BY DEF Inv, Tables
  <2>2. \A a \in rotations : a[1] \in 1..minted
    BY DEF Inv, Tables
  <2> QED
    BY <1>1, <1>4, <1>5, <1>6, <2>1, <2>2 DEF Inv, TokenPart, Past
<1>13. Rotating'
  <2> SUFFICES ASSUME NEW g \in Handlers, req'[g].pc = "rotate_write"
               PROVE  LET pk == req'[g].pk IN
                      \/ token'[pk] = NoToken
                      \/ token'[pk].refresh = req'[g].refresh
                      \/ [refresh |-> req'[g].refresh, pk |-> pk] \in used'
    BY DEF Rotating
  <2>1. g # h /\ req'[g] = req[g] /\ req[g].pc = "rotate_write" /\ req[g].pk \in Keys
    BY <1>3 DEF Idle, Inv, Calls, CallOK
  <2>2. req[g].pk # minted'
    BY <1>1, <1>4, <2>1 DEF Inv, TokenPart, Started
  <2> QED
    BY <1>1, <1>6, <2>1, <2>2 DEF Inv, TokenPart, Rotating
<1>14. RefreshSpentOnce' /\ RevokedIsGone'
  BY <1>1, <1>4, <1>6
  DEF Inv, Tables, TokenPart, SpentOnce, RefreshSpentOnce, RevokedIsGone, Keys
<1>15. Started'
  BY <1>1, <1>3, <1>4 DEF Inv, TokenPart, Started, Idle, Calls, CallOK, Keys
<1> QED
  BY <1>3, <1>7, <1>8, <1>10, <1>11, <1>12, <1>13, <1>14, <1>15 DEF Inv, TokenPart, SpentOnce

LEMMA RotateReadInv ==
    ASSUME Inv, NEW h \in Handlers, RotateRead(h)
    PROVE  Inv'
<1>1. req[h].pc = "rotate" /\ UNCHANGED <<rows, given, bounds, history>>
  BY DEF RotateRead
<1>2. CASE Done(h)
  BY <1>1, <1>2, DoneInv DEF bounds
<1>3. ASSUME NEW i \in Rows(req[h].id),
             req' = [req EXCEPT ![h] = [pc |-> "rotate_write", pk |-> i,
                                        refresh |-> token[i].refresh]]
      PROVE  Inv'
  <2> DEFINE r == [pc |-> "rotate_write", pk |-> i, refresh |-> token[i].refresh]
  <2>1. i \in Keys /\ token[i] # NoToken
    BY DEF Rows
  <2>2. token[i].refresh \in 1..minted /\ i <= minted
    BY <2>1, OAuthAssumption DEF Inv, Tables, TokenRow, TokenPart, Live
  <2>3. Forward /\ CallOK(r, nonces', minted', now')
    BY <1>1, <2>1, <2>2, StandStill DEF bounds, CallOK
  <2>4. r.pc = "rotate_write" /\ r.pk = i /\ r.refresh = token[i].refresh
    OBVIOUS
  <2> HIDE DEF r
  <2>5. Calls' /\ req'[h] = r /\ \A g \in Handlers : g # h => req'[g] = req[g]
    BY <1>3, <2>3, CallsStep DEF r
  <2>6. Tables'
    BY <1>1 DEF Inv, Tables, rows, given, bounds, history
  <2>7. ConsentPart'
    BY <1>1, <2>4, <2>5, ConsentKept DEF Steps, rows, given, history
  <2>8. Granting' /\ Rotating' /\ Started'
    BY <1>1, <2>2, <2>4, <2>5
    DEF Inv, TokenPart, Granting, Rotating, Started, rows, bounds, history
  <2>9. Live' /\ Past' /\ SpentOnce' /\ RevokedIsGone'
    BY <1>1 DEF Inv, TokenPart, Live, Past, SpentOnce, CodeSpentOnce, RefreshSpentOnce,
                RevokedIsGone, rows, bounds, history
  <2> QED
    BY <2>5, <2>6, <2>7, <2>8, <2>9 DEF Inv, TokenPart
<1> QED
  BY <1>2, <1>3 DEF RotateRead

(* The write succeeds only while what was read is still current.           *)
LEMMA RotateWriteInv ==
    ASSUME Inv, NEW h \in Handlers, RotateWrite(h)
    PROVE  Inv'
<1> DEFINE pk == req[h].pk
           r == req[h].refresh
<1>1. /\ req[h].pc = "rotate_write" /\ req' = [req EXCEPT ![h] = Idle]
      /\ UNCHANGED <<request, consent, devices, signedIn, revealed, codes, nonces, now, faults,
                     consumed, grants, revoked>>
  BY DEF RotateWrite, Done
<1>2. CASE UNCHANGED <<used, token, refreshes, rotations, minted>>
  BY <1>1, <1>2, DoneInv DEF Done, rows, given, history
<1>3. CASE /\ RowThere(pk) /\ Mint
           /\ used' \in Recorded(pk, r)
           /\ token' = [token EXCEPT ![pk].id = minted', ![pk].refresh = minted']
           /\ refreshes' = refreshes \cup {minted'}
           /\ rotations' = rotations \cup {<<r, minted'>>}
  <2>1. /\ minted < MaxMinted /\ minted' = minted + 1
        /\ token[pk] # NoToken /\ \A u \in used : u.refresh # r
        /\ used' = used \cup {[refresh |-> r, pk |-> pk]}
    BY <1>3 DEF Mint, Recorded, RowThere
  <2>2. Forward /\ CallOK(Idle, nonces', minted', now')
    BY <1>1, <2>1, OAuthAssumption, IdleOK DEF Inv, Tables, Forward
  <2>3. Calls' /\ req'[h] = Idle /\ \A g \in Handlers : g # h => req'[g] = req[g]
    BY <1>1, <2>2, CallsStep
  <2>4. /\ minted \in Nat /\ minted' \in 1..minted' /\ minted' # 0
        /\ minted' \notin 1..minted /\ r \in 1..minted /\ pk \in Keys /\ pk <= minted
        /\ 1..minted \subseteq 1..minted' /\ minted' \notin 0..minted /\ r # 0
    <3>1. minted \in Nat
      BY OAuthAssumption DEF Inv, Tables
    <3>2. r \in 1..minted /\ pk \in Keys /\ pk <= minted
      BY <1>1 DEF Inv, Calls, CallOK, TokenPart, Started
    <3> QED
      BY <2>1, <3>1, <3>2
  <2>5. token[pk].refresh = r
    <3>1. [refresh |-> r, pk |-> pk] \notin used
      BY <2>1
    <3> QED
      BY <1>1, <2>1, <3>1 DEF Inv, TokenPart, Rotating
  <2> DEFINE row == [token[pk] EXCEPT !.id = minted', !.refresh = minted']
  <2>6. /\ row \in TokenRow(minted') /\ row.refresh = minted' /\ row.id = minted'
        /\ row.code = token[pk].code
    <3>1. token[pk] \in TokenRow(minted') /\ minted' \in 0..minted'
      BY <2>2, <2>4, TablesForward DEF Inv
    <3> QED
      BY <3>1 DEF TokenRow
  <2>7. /\ token'[pk] = row /\ \A k \in Keys : k # pk => token'[k] = token[k]
        /\ token' \in [Keys -> TokenRow(minted')]
    <3>1. token \in [Keys -> TokenRow(minted')]
      BY <2>2, TablesForward DEF Inv
    <3>2. token' = [token EXCEPT ![pk] = row]
      BY <1>3, <2>4, <3>1
    <3> HIDE DEF row
    <3> QED
      BY <2>4, <2>6, <3>1, <3>2
  <2> HIDE DEF row, pk, r
  <2>8. Tables'
    <3>1. /\ refreshes' \subseteq 1..minted'
          /\ rotations' \subseteq (1..minted') \X (1..minted')
          /\ used' \subseteq [refresh : 1..minted', pk : Keys]
      BY <1>3, <2>1, <2>2, <2>4, TablesForward DEF Inv
    <3> QED
      BY <1>1, <2>2, <2>7, <3>1, TablesForward DEF Inv, Tables, Forward
  <2>9. ConsentPart'
    BY <1>1, <2>3, ConsentKept DEF Idle, Steps
  <2>10. \A k \in Keys : token[k].refresh \in 0..minted
    BY DEF Inv, Tables, TokenRow
  <2>11. \A k \in Keys : k # pk => token[k].refresh # r
    BY <2>4, <2>5 DEF Inv, TokenPart, Live
  <2>12. Granting' /\ CodeSpentOnce'
    BY <1>1, <2>3 DEF Inv, TokenPart, Granting, SpentOnce, CodeSpentOnce, Idle
  <2>13. Live'
    <3>1. \A k \in Keys : token'[k] # NoToken =>
              k <= minted' /\ token'[k].id # 0 /\ token'[k].refresh # 0 /\ token'[k].code # 0
      <4> SUFFICES ASSUME NEW k \in Keys, token'[k] # NoToken
                   PROVE  k <= minted' /\ token'[k].id # 0 /\ token'[k].refresh # 0
                          /\ token'[k].code # 0
        OBVIOUS
      <4>1. token[k] # NoToken
        BY <2>1, <2>7
      <4>2. k <= minted /\ token[k].id # 0 /\ token[k].refresh # 0 /\ token[k].code # 0
        BY <4>1 DEF Inv, TokenPart, Live
      <4>3. k <= minted'
        BY <2>1, <2>4, <4>2 DEF Keys
      <4> QED
        BY <2>4, <2>6, <2>7, <4>2, <4>3
    <3>2. \A j, k \in Keys : token'[j].refresh = token'[k].refresh /\ token'[j].refresh # 0 => j = k
      BY <2>4, <2>6, <2>7, <2>10 DEF Inv, TokenPart, Live
    <3> QED
      BY <3>1, <3>2 DEF Live
  <2>14. Past'
    <3>1. \A u \in used' : u.refresh \in 1..minted /\ (u \in used \/ u.refresh = r)
      BY <2>1, <2>4 DEF Inv, Tables
    <3>2. \A a \in rotations' : a[1] \in 1..minted /\ (a \in rotations \/ a[1] = r)
      BY <1>3, <2>4 DEF Inv, Tables, r
    <3> QED
      BY <2>4, <2>6, <2>7, <2>11, <3>1, <3>2 DEF Inv, TokenPart, Past
  <2>15. Rotating'
    <3> SUFFICES ASSUME NEW g \in Handlers, req'[g].pc = "rotate_write"
                 PROVE  LET p == req'[g].pk IN
                        \/ token'[p] = NoToken
                        \/ token'[p].refresh = req'[g].refresh
                        \/ [refresh |-> req'[g].refresh, pk |-> p] \in used'
      BY DEF Rotating
    <3>1. g # h /\ req'[g] = req[g] /\ req[g].pc = "rotate_write" /\ req[g].pk \in Keys
      BY <2>3 DEF Idle, Inv, Calls, CallOK
    <3>2. \/ token[req[g].pk] = NoToken
          \/ token[req[g].pk].refresh = req[g].refresh
          \/ [refresh |-> req[g].refresh, pk |-> req[g].pk] \in used
      BY <3>1 DEF Inv, TokenPart, Rotating
    <3>3. CASE req[g].pk # pk
      BY <2>1, <2>7, <3>1, <3>2, <3>3
    <3>4. CASE req[g].pk = pk
      BY <2>1, <2>5, <3>1, <3>2, <3>4
    <3> QED
      BY <3>3, <3>4
  <2>16. RefreshSpentOnce'
    <3>1. \A a \in rotations : a[1] # r
      BY <2>4, <2>5 DEF Inv, TokenPart, Past
    <3>2. rotations' = rotations \cup {<<r, minted'>>}
      BY <1>3 DEF r
    <3> QED
      BY <3>1, <3>2 DEF Inv, TokenPart, SpentOnce, RefreshSpentOnce
  <2>17. RevokedIsGone' /\ Started'
    <3>1. RevokedIsGone'
      <4> SUFFICES ASSUME NEW k \in revoked PROVE token'[k] = NoToken
        BY <1>1 DEF RevokedIsGone
      <4>1. token[k] = NoToken /\ k # pk /\ k \in Keys
        BY <2>1, OAuthAssumption DEF Inv, TokenPart, RevokedIsGone, Tables, Keys
      <4> QED
        BY <2>7, <4>1
    <3>2. Started'
      BY <2>1, <2>3, <2>4 DEF Inv, TokenPart, Started, Idle, Calls, CallOK, Keys
    <3> QED
      BY <3>1, <3>2
  <2> QED
    BY <2>3, <2>8, <2>9, <2>12, <2>13, <2>14, <2>15, <2>16, <2>17 DEF Inv, TokenPart, SpentOnce
<1> QED
  BY <1>2, <1>3 DEF RotateWrite

LEMMA DeleteTokenInv ==
    ASSUME Inv, NEW h \in Handlers, DeleteToken(h)
    PROVE  Inv'
<1> DEFINE gone == Rows(req[h].id)
<1>1. /\ req' = [req EXCEPT ![h] = Idle]
      /\ token' = [i \in Keys |-> IF i \in gone THEN NoToken ELSE token[i]]
      /\ used' = {u \in used : u.pk \notin gone}
      /\ revoked' = revoked \cup gone
      /\ UNCHANGED <<request, consent, devices, signedIn, given, bounds, consumed, grants, rotations>>
  BY DEF DeleteToken, Done
<1>2. Forward /\ CallOK(Idle, nonces', minted', now')
  BY <1>1, StandStill, IdleOK DEF bounds
<1>3. Calls' /\ req'[h] = Idle /\ \A g \in Handlers : g # h => req'[g] = req[g]
  BY <1>1, <1>2, CallsStep
<1>4. gone \subseteq 1..minted /\ gone \subseteq Keys
  BY OAuthAssumption DEF Rows, Keys, Inv, Tables, TokenPart, Live
<1>5. NoToken \in TokenRow(minted) /\ NoToken.refresh = 0 /\ minted \in Nat
  BY OAuthAssumption DEF NoToken, TokenRow, Inv, Tables
<1> HIDE DEF gone
<1>6. /\ \A i \in Keys : token'[i] = IF i \in gone THEN NoToken ELSE token[i]
      /\ token' \in [Keys -> TokenRow(minted)]
  BY <1>1, <1>5 DEF Inv, Tables
<1>7. Tables'
  BY <1>1, <1>4, <1>6 DEF Inv, Tables, given, bounds
<1>8. ConsentPart'
  BY <1>1, <1>3, ConsentKept DEF Idle, Steps, given
<1>9. Granting' /\ SpentOnce' /\ Started'
  BY <1>1, <1>3 DEF Inv, TokenPart, Granting, SpentOnce, CodeSpentOnce, RefreshSpentOnce,
                    Started, Idle, bounds
<1>10. Live'
  BY <1>1, <1>5, <1>6 DEF Inv, TokenPart, Live, bounds
<1>11. Past'
  <2>1. \A u \in used : u.refresh # 0
    BY DEF Inv, Tables
  <2>2. \A a \in rotations : a[1] # 0
    BY DEF Inv, Tables
  <2> QED
    BY <1>1, <1>5, <1>6, <2>1, <2>2 DEF Inv, TokenPart, Past
<1>12. Rotating'
  <2> SUFFICES ASSUME NEW g \in Handlers, req'[g].pc = "rotate_write"
               PROVE  LET p == req'[g].pk IN
                      \/ token'[p] = NoToken
                      \/ token'[p].refresh = req'[g].refresh
                      \/ [refresh |-> req'[g].refresh, pk |-> p] \in used'
    BY DEF Rotating
  <2>1. g # h /\ req'[g] = req[g] /\ req[g].pc = "rotate_write" /\ req[g].pk \in Keys
    BY <1>3 DEF Idle, Inv, Calls, CallOK
  <2>2. \/ token[req[g].pk] = NoToken
        \/ token[req[g].pk].refresh = req[g].refresh
        \/ [refresh |-> req[g].refresh, pk |-> req[g].pk] \in used
    BY <2>1 DEF Inv, TokenPart, Rotating
  <2> QED
    BY <1>1, <1>6, <2>1, <2>2
<1>13. RevokedIsGone'
  BY <1>1, <1>4, <1>6, OAuthAssumption DEF Inv, TokenPart, RevokedIsGone, Tables, Keys
<1> QED
  BY <1>3, <1>7, <1>8, <1>9, <1>10, <1>11, <1>12, <1>13 DEF Inv, TokenPart

(* The look-ups change nothing but what the handler knows.                 *)
LEMMA LookupInv ==
    ASSUME Inv, NEW h \in Handlers,
           \/ FindTokenByCode(h) \/ LookupToken(h)
           \/ \E r \in refreshes : Refresh(h, r) \/ Revoke(h, r)
    PROVE  Inv'
<1>1. \A i \in Keys : token[i].code \in 0..minted
                      /\ (token[i].code # 0 \/ token[i].refresh # 0 => token[i].id \in 1..minted)
  <2> SUFFICES ASSUME NEW i \in Keys
               PROVE  token[i].code \in 0..minted
                      /\ (token[i].code # 0 \/ token[i].refresh # 0 => token[i].id \in 1..minted)
    OBVIOUS
  <2>1. token[i].code \in 0..minted /\ token[i].id \in 0..minted /\ minted \in Nat
    BY OAuthAssumption DEF Inv, Tables, TokenRow
  <2>2. token[i].code # 0 \/ token[i].refresh # 0 => token[i].id # 0
    BY DEF Inv, TokenPart, Live, NoToken
  <2> QED
    BY <2>1, <2>2
<1>2. \A i \in Keys : token[i].id \in 1..minted =>
         LET d == [pc |-> "delete", id |-> token[i].id]
             t == [pc |-> "rotate", id |-> token[i].id]
         IN  /\ CallOK(d, nonces, minted, now) /\ d.pc \notin Steps
             /\ CallOK(t, nonces, minted, now) /\ t.pc \notin Steps
             /\ {d.pc, t.pc} \cap {"grant", "rotate_write"} = {}
  BY DEF CallOK, Steps
<1>3. CASE FindTokenByCode(h)
  <2>1. req[h].code \in 1..minted /\ UNCHANGED <<rows, given, bounds, history>>
    BY <1>3 DEF FindTokenByCode, Inv, Calls, CallOK
  <2>2. CASE Done(h)
    BY <2>1, <2>2, DoneInv DEF bounds
  <2>3. ASSUME NEW i \in Keys, token[i].code = req[h].code,
               req' = [req EXCEPT ![h] = [pc |-> "delete", id |-> token[i].id]]
        PROVE  Inv'
    <3> DEFINE d == [pc |-> "delete", id |-> token[i].id]
    <3>1. token[i].id \in 1..minted
      BY <1>1, <2>1, <2>3
    <3>2. /\ CallOK(d, nonces, minted, now) /\ d.pc \notin Steps
          /\ d.pc \notin {"grant", "rotate_write"}
      BY <1>2, <3>1
    <3> HIDE DEF d
    <3> QED
      BY <2>1, <2>3, <3>2, LeaveInv DEF d, bounds
  <2> QED
    BY <1>3, <2>2, <2>3 DEF FindTokenByCode
<1>4. CASE LookupToken(h)
  <2>1. req[h].pc = "lookup" /\ UNCHANGED <<rows, given, bounds, history>>
    BY <1>4 DEF LookupToken
  <2>2. CASE Done(h)
    BY <2>1, <2>2, DoneInv DEF bounds
  <2>3. ASSUME NEW i \in Found(h), NEW pc \in {"rotate", "delete"},
               req' = [req EXCEPT ![h] = [pc |-> pc, id |-> token[i].id]]
        PROVE  Inv'
    <3>1. req[h].r \in 1..minted /\ req[h].pks \subseteq Keys
      BY <2>1 DEF Inv, Calls, CallOK
    <3>2. i \in Keys /\ token[i].refresh # 0
      BY <3>1 DEF Found, Inv, TokenPart, Live
    <3>3. token[i].id \in 1..minted
      BY <1>1, <3>2
    <3> PICK d : d = [pc |-> pc, id |-> token[i].id]
      OBVIOUS
    <3>4. /\ CallOK(d, nonces, minted, now) /\ d.pc \notin Steps
          /\ d.pc \notin {"grant", "rotate_write"}
      BY <1>2, <2>3, <3>2, <3>3
    <3> QED
      BY <2>1, <2>3, <3>4, LeaveInv DEF bounds
  <2> QED
    BY <1>4, <2>2, <2>3 DEF LookupToken
<1>5. ASSUME NEW r \in refreshes, NEW grant, LookupUsed(h, r, grant) PROVE Inv'
  <2> DEFINE pks == {u.pk : u \in {v \in used : v.refresh = r}}
             d == [pc |-> "lookup", r |-> r, grant |-> grant, pks |-> pks]
  <2>1. req' = [req EXCEPT ![h] = d] /\ UNCHANGED <<rows, given, bounds, history>>
    BY <1>5 DEF LookupUsed
  <2>2. r \in 1..minted /\ pks \subseteq Keys
    BY DEF Inv, Tables
  <2> HIDE DEF pks
  <2>3. /\ CallOK(d, nonces, minted, now) /\ d.pc \notin Steps
        /\ d.pc \notin {"grant", "rotate_write"}
    BY <2>2 DEF CallOK, Steps
  <2> HIDE DEF d
  <2> QED
    BY <2>1, <2>3, LeaveInv DEF bounds
<1> QED
  BY <1>3, <1>4, <1>5 DEF Refresh, Revoke

-----------------------------------------------------------------------------
LEMMA NextInv == Inv /\ [Next]_vars => Inv'
<1> SUFFICES ASSUME Inv, [Next]_vars PROVE Inv'
  OBVIOUS
<1>1. CASE Tick
  <2>1. /\ now' = now + 1
        /\ UNCHANGED <<rows, given, req, nonces, minted, faults, history>>
    BY <1>1 DEF Tick
  <2>2. Forward
    BY <2>1, OAuthAssumption DEF Inv, Tables, Forward
  <2>3. Calls'
    BY <2>1, <2>2, CallsStay
  <2>4. Tables'
    BY <2>1, <2>2, TablesForward DEF Inv, Tables, Forward, rows, given, history
  <2>5. ConsentPart'
    BY <2>1, ConsentKept DEF rows, given, history
  <2>6. TokenPart'
    BY <2>1, <2>2, TokenKept DEF rows, history
  <2> QED
    BY <2>3, <2>4, <2>5, <2>6 DEF Inv
<1>2. ASSUME NEW q \in Requests, PushRequest(q) \/ Authorize(q) PROVE Inv'
  BY <1>2, PushRequestInv, AuthorizeInv
<1>3. CASE UNCHANGED vars \/ \E d \in Devices : EnsureDevice(d)
  <2>1. /\ UNCHANGED <<request, consent, token, used, given, req, bounds, history>>
        /\ signedIn' = signedIn /\ devices \subseteq devices'
    BY <1>3 DEF vars, rows, EnsureDevice, CreateDevice
  <2>2. Forward
    BY <2>1, StandStill DEF bounds
  <2>3. Calls'
    BY <2>1, <2>2, CallsStay
  <2>4. Tables'
    BY <2>1 DEF Inv, Tables, given, bounds, history
  <2>5. ConsentPart'
    BY <2>1, ConsentKept DEF given, history
  <2>6. TokenPart'
    BY <2>1, <2>2, TokenKept DEF history
  <2> QED
    BY <2>3, <2>4, <2>5, <2>6 DEF Inv
<1>4. ASSUME NEW h \in Handlers, Fail(h) PROVE Inv'
  BY <1>4, DoneInv DEF Fail
<1>5. ASSUME NEW h \in Handlers, Consent(h) PROVE Inv'
  BY <1>5, StartStepInv, ReadRequestInv, UpdateRequestInv, SignUpInv, SignInInv,
     AcceptRequestInv, RejectRequestInv, AnswerPageInv, AnswerRedirectInv DEF Consent
<1>6. ASSUME NEW h \in Handlers, Tokens(h) PROVE Inv'
  BY <1>6, ConsumeCodeInv, CreateTokenInv, LookupInv, RotateReadInv, RotateWriteInv,
     DeleteTokenInv DEF Tokens
<1> QED
  BY <1>1, <1>2, <1>3, <1>4, <1>5, <1>6 DEF Next

(* The invariant holds for any number of handlers, requests and devices.   *)
THEOREM Invariance == Spec => []Inv
<1>1. Init => Inv
  BY InitInv
<1>2. Inv /\ [Next]_vars => Inv'
  BY NextInv
<1> QED
  BY <1>1, <1>2, PTL DEF Spec

(* The nonce that consent_state::rotate swaps in one UPDATE lets one       *)
(* consent step at a time through, and the rows keep their shape: a        *)
(* request has its code exactly when it has its account, and no refresh    *)
(* token is both current and used.                                         *)
THEOREM StepsOneByOne == Spec => []ConsentConsistent
<1>1. Inv => ConsentConsistent
  <2> SUFFICES ASSUME Inv PROVE ConsentConsistent
    OBVIOUS
  <2>1. TypeOK
    <3>1. \A q \in Requests :
            /\ request[q].device \in Devices \cup {NoDevice}
            /\ request[q].code \in 0..minted /\ request[q].until \in 0..(now + Window)
            /\ (request[q].code # 0) = request[q].did
      BY DEF Inv, Tables, RequestRow
    <3>2. \A q \in Requests :
            /\ consent[q] \in [state: 0..nonces, until: 0..(now + Window)]
            /\ revealed[q] \subseteq 1..nonces
      BY DEF Inv, Tables
    <3>3. \A k \in Keys : {token[k].id, token[k].refresh, token[k].code} \subseteq 0..minted
      BY DEF Inv, Tables, TokenRow
    <3>4. /\ signedIn \subseteq devices
          /\ \A u \in used : \A k \in Keys : token[k].refresh # u.refresh
      BY DEF Inv, Tables, TokenPart, Past
    <3> QED
      BY <3>1, <3>2, <3>3, <3>4 DEF TypeOK
  <2>2. ASSUME NEW q \in Requests
        PROVE  Cardinality({h \in Handlers : InStep(h, q)}) <= 1
    <3> DEFINE S == {h \in Handlers : InStep(h, q)}
    <3>1. CASE S = {}
      BY <3>1, FS_EmptySet
    <3>2. ASSUME NEW h \in S PROVE Cardinality(S) <= 1
      <4>1. S = {h}
        BY <3>2 DEF Inv, ConsentPart, Alone
      <4>2. Cardinality({h}) = 1
        BY FS_Singleton
      <4> HIDE DEF S
      <4> QED
        BY <4>1, <4>2
    <3> QED
      BY <3>1, <3>2
  <2> QED
    BY <2>1, <2>2 DEF ConsentConsistent, StepsSerialize
<1> QED
  BY <1>1, Invariance, PTL

(* A code that a client was given can be exchanged until it is: no consent *)
(* step writes or deletes a request that has its code.                     *)
THEOREM CodeKept == Spec => []CodeSurvives
<1>1. Inv => CodeSurvives
  BY DEF Inv, ConsentPart
<1> QED
  BY <1>1, Invariance, PTL

(* The DELETE ... RETURNING of a code and the unique used_refresh_token    *)
(* let a code and a refresh token be spent once each.                      *)
THEOREM Once == Spec => []SpentOnce
<1>1. Inv => SpentOnce
  BY DEF Inv, TokenPart
<1> QED
  BY <1>1, Invariance, PTL

(* A revoked token row does not come back by a rotation that had read it.  *)
THEOREM Revoked == Spec => []RevokedIsGone
<1>1. Inv => RevokedIsGone
  BY DEF Inv, TokenPart
<1> QED
  BY <1>1, Invariance, PTL
=============================================================================
