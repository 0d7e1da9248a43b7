--------------------------- MODULE SessionsProofs ---------------------------
(***************************************************************************)
(* However many requests present one refresh token at once, all that       *)
(* succeed lead to the same successor while the row of the token is there. *)
(* The invariant behind it is Settled: the UPDATE that starts the grace    *)
(* period fixes the successor, and nothing but a DELETE undoes it.         *)
(*                                                                         *)
(* A token never outlives its successor, and what is revoked stays gone.   *)
(* These need what is said of an id by all who have heard of it, the rows  *)
(* of the table, the JWTs and the requests under way with what they have   *)
(* read: that they name one app password for it (OneApp), and that every   *)
(* expiry a predecessor has or may yet be given is within every expiry the *)
(* id itself has or may yet be given (Bounded).                            *)
(***************************************************************************)
EXTENDS Sessions, TLAPS

Inv == TypeOK /\ Settled

-----------------------------------------------------------------------------
(* Drawing more ids keeps the types. *)
LEMMA Monotone ==
    ASSUME NEW m \in Nat, NEW n \in Nat, m <= n
    PROVE  /\ Row(m) \subseteq Row(n)
           /\ CallState(m) \subseteq CallState(n)
<1>1. 0..m \subseteq 0..n /\ 1..m \subseteq 1..n
  OBVIOUS
<1>2. Row(m) \subseteq Row(n)
  BY <1>1 DEF Row
<1>3. CallState(m) \subseteq CallState(n)
  BY <1>1, <1>2 DEF CallState
<1> QED
  BY <1>2, <1>3

(* What the parts of a request are. *)
LEMMA CallParts ==
    ASSUME NEW n \in Nat, NEW c \in CallState(n)
    PROVE  /\ c.pc = "get" => c.id \in 1..n
           /\ c.pc = "tidy" => c.id \in 1..n /\ c.row \in Row(n) /\ c.now \in Nat
           /\ c.pc = "join" => /\ c.id \in 1..n /\ c.next \in 1..n
                               /\ c.app \in Apps \cup {NoApp}
                               /\ c.expires \in Nat /\ c.exp \in Nat
                               /\ c.todo \in SUBSET {"grace", "store"}
                               /\ c = [pc |-> "join", id |-> c.id, next |-> c.next,
                                       app |-> c.app, expires |-> c.expires,
                                       exp |-> c.exp, todo |-> c.todo]
BY DEF CallState

(* The first state. *)
LEMMA InitInv == Init => Inv
<1> SUFFICES ASSUME Init PROVE Inv
  OBVIOUS
<1>1. Idle \in CallState(0)
  BY DEF Idle, CallState
<1>2. TypeOK
  BY <1>1, SessionsAssumption DEF Init, TypeOK
<1>3. Settled
  BY DEF Init, Settled, Idle
<1> QED
  BY <1>2, <1>3 DEF Inv

-----------------------------------------------------------------------------
(* Rows are deleted and remembered as removed: what is left is settled. *)
LEMMA DeletionKeeps ==
    ASSUME Inv, NEW S \in SUBSET DOMAIN tokens,
           tokens' = Without(S), removed' = removed \cup S
    PROVE  /\ DOMAIN tokens' = DOMAIN tokens \ S
           /\ DOMAIN tokens' \subseteq 1..drawn
           /\ tokens' \in [DOMAIN tokens' -> Row(drawn)]
           /\ removed' \subseteq 1..drawn
           /\ \A i, n : (i \notin removed => i \in DOMAIN tokens /\ tokens[i].next = n)
                   => (i \notin removed' => i \in DOMAIN tokens' /\ tokens'[i].next = n)
BY DEF Inv, TypeOK, Without

(* A row is added, unless there is one of that id already. *)
LEMMA InsertionKeeps ==
    ASSUME Inv, NEW n \in Nat, drawn <= n, NEW id \in 1..n, NEW row \in Row(n),
           tokens' = With(id, row), removed' = removed
    PROVE  /\ DOMAIN tokens' \subseteq 1..n
           /\ tokens' \in [DOMAIN tokens' -> Row(n)]
           /\ \A i, k : (i \notin removed => i \in DOMAIN tokens /\ tokens[i].next = k)
                   => (i \notin removed' => i \in DOMAIN tokens' /\ tokens'[i].next = k)
<1>1. Row(drawn) \subseteq Row(n) /\ 1..drawn \subseteq 1..n
  BY Monotone DEF Inv, TypeOK
<1> QED
  BY <1>1 DEF Inv, TypeOK, With

(* Opening a session. *)
LEMMA CreateSessionInv ==
    ASSUME Inv, NEW app \in Apps \cup {NoApp}, CreateSession(app)
    PROVE  Inv'
<1>1. PICK id \in 1..MaxIds :
         /\ Draw(id)
         /\ tokens' = With(id, [app |-> app, expires |-> clock + Lifetime, next |-> NoId])
         /\ issued' = issued \cup {[id |-> id, app |-> app]}
  BY DEF CreateSession
<1>2. /\ drawn \in Nat /\ drawn' \in 0..MaxIds /\ drawn' = drawn + 1 /\ id = drawn'
  BY <1>1, SessionsAssumption DEF Draw, Inv, TypeOK
<1>3. [app |-> app, expires |-> clock + Lifetime, next |-> NoId] \in Row(drawn')
  BY <1>2, SessionsAssumption DEF Row, NoId, Inv, TypeOK
<1>4. UNCHANGED <<clock, call, granted, removed, dead, faults>>
  BY DEF CreateSession
<1>5. /\ DOMAIN tokens' \subseteq 1..drawn'
      /\ tokens' \in [DOMAIN tokens' -> Row(drawn')]
      /\ \A i, k : (i \notin removed => i \in DOMAIN tokens /\ tokens[i].next = k)
              => (i \notin removed' => i \in DOMAIN tokens' /\ tokens'[i].next = k)
  BY <1>1, <1>2, <1>3, <1>4, InsertionKeeps
<1>6. CallState(drawn) \subseteq CallState(drawn') /\ 1..drawn \subseteq 1..drawn'
  BY <1>2, Monotone
<1>7. TypeOK'
  BY <1>1, <1>2, <1>4, <1>5, <1>6 DEF Inv, TypeOK
<1>8. Settled'
  BY <1>4, <1>5 DEF Inv, Settled
<1> QED
  BY <1>7, <1>8 DEF Inv

(* Accepting a request, looking up its token, giving up, starting again:   *)
(* the request changes, and is not past its UPDATE.                        *)
LEMMA RequestInv ==
    ASSUME Inv, NEW h \in Handlers, NEW c \in CallState(drawn), c.pc # "join",
           call' = [call EXCEPT ![h] = c],
           UNCHANGED <<clock, tokens, drawn, issued, granted, removed, dead>>,
           faults' \in Nat
    PROVE  Inv'
<1>1. TypeOK'
  BY DEF Inv, TypeOK
<1>2. Settled'
  BY DEF Inv, TypeOK, Settled
<1> QED
  BY <1>1, <1>2 DEF Inv

LEMMA IdleType == \A n \in Nat : Idle \in CallState(n) /\ Idle.pc # "join"
BY DEF Idle, CallState

LEMMA EarlyStepsInv ==
    ASSUME Inv, NEW h \in Handlers,
           \/ RefreshSession(h) \/ GetToken(h) \/ ConcurrentRefresh(h)
           \/ RequestFails(h)
    PROVE  Inv'
<1>1. drawn \in Nat /\ faults \in Nat /\ call[h] \in CallState(drawn)
  BY DEF Inv, TypeOK
<1>2. \A id \in 1..drawn : /\ [pc |-> "get", id |-> id] \in CallState(drawn)
                           /\ [pc |-> "get", id |-> id].pc # "join"
  BY DEF CallState
<1>3. CASE RefreshSession(h)
  <2>1. PICK jwt \in issued : call' = [call EXCEPT ![h] = [pc |-> "get", id |-> jwt.id]]
    BY <1>3 DEF RefreshSession
  <2>2. jwt.id \in 1..drawn
    BY <2>1 DEF Inv, TypeOK
  <2> DEFINE c == [pc |-> "get", id |-> jwt.id]
  <2>3. c \in CallState(drawn) /\ c.pc # "join"
    BY <1>2, <2>2
  <2> HIDE DEF c
  <2>4. call' = [call EXCEPT ![h] = c]
    BY <2>1 DEF c
  <2> QED
    BY <1>1, <1>3, <2>3, <2>4, RequestInv DEF RefreshSession
<1>4. CASE GetToken(h)
  <2> DEFINE id == call[h].id
             c == IF id \in DOMAIN tokens
                  THEN [pc |-> "tidy", id |-> id, row |-> tokens[id], now |-> clock]
                  ELSE Idle
  <2>1. id \in 1..drawn
    BY <1>1, <1>4, CallParts DEF GetToken
  <2>2. id \in DOMAIN tokens => tokens[id] \in Row(drawn) /\ clock \in Nat
    BY DEF Inv, TypeOK
  <2>3. c \in CallState(drawn) /\ c.pc # "join"
    <3>1. CASE id \in DOMAIN tokens
      BY <2>1, <2>2, <3>1 DEF CallState
    <3>2. CASE id \notin DOMAIN tokens
      BY <1>1, <3>2, IdleType
    <3> QED
      BY <3>1, <3>2
  <2>4. call' = [call EXCEPT ![h] = c]
    BY <1>4 DEF GetToken
  <2> HIDE DEF c
  <2> QED
    BY <1>1, <1>4, <2>3, <2>4, RequestInv DEF GetToken
<1>5. CASE ConcurrentRefresh(h)
  <2> DEFINE c == [pc |-> "get", id |-> call[h].id]
  <2>1. c \in CallState(drawn) /\ c.pc # "join"
    BY <1>1, <1>2, <1>5, CallParts DEF ConcurrentRefresh
  <2>2. call' = [call EXCEPT ![h] = c]
    BY <1>5 DEF ConcurrentRefresh
  <2> HIDE DEF c
  <2> QED
    BY <1>1, <1>5, <2>1, <2>2, RequestInv DEF ConcurrentRefresh
<1>6. CASE RequestFails(h)
  <2>1. Idle \in CallState(drawn) /\ Idle.pc # "join"
    BY <1>1, IdleType
  <2>2. faults' \in Nat
    BY <1>1, <1>6 DEF RequestFails, Fault
  <2>3. /\ call' = [call EXCEPT ![h] = Idle]
        /\ UNCHANGED <<clock, tokens, drawn, issued, granted, removed, dead>>
    BY <1>6 DEF RequestFails
  <2> QED
    BY <2>1, <2>2, <2>3, RequestInv
<1> QED
  BY <1>3, <1>4, <1>5, <1>6

(* Time passes. *)
LEMMA TickInv == ASSUME Inv, Tick PROVE Inv'
<1>1. clock' \in Nat
  BY DEF Tick, Inv, TypeOK
<1>2. TypeOK'
  BY <1>1 DEF Tick, Inv, TypeOK
<1>3. Settled'
  BY DEF Tick, Inv, Settled
<1> QED
  BY <1>2, <1>3 DEF Inv

(* Deleting sessions: the rows that stay lead where they led. *)
LEMMA RevocationInv ==
    ASSUME Inv, NEW S \in SUBSET DOMAIN tokens,
           tokens' = Without(S), removed' = removed \cup S,
           UNCHANGED <<clock, drawn, call, issued, granted, faults>>,
           dead' \subseteq 1..drawn
    PROVE  Inv'
<1>1. /\ DOMAIN tokens' \subseteq 1..drawn
      /\ tokens' \in [DOMAIN tokens' -> Row(drawn)]
      /\ removed' \subseteq 1..drawn
      /\ \A i, n : (i \notin removed => i \in DOMAIN tokens /\ tokens[i].next = n)
              => (i \notin removed' => i \in DOMAIN tokens' /\ tokens'[i].next = n)
  BY DeletionKeeps
<1>2. TypeOK'
  BY <1>1 DEF Inv, TypeOK
<1>3. Settled'
  BY <1>1 DEF Inv, Settled
<1> QED
  BY <1>2, <1>3 DEF Inv

LEMMA RevocationsInv ==
    ASSUME Inv,
           DeleteSession \/ (\E app \in Apps : RevokeAppPassword(app)) \/ RevokeAll
    PROVE  Inv'
<1>1. /\ dead \subseteq 1..drawn
      /\ \A jwt \in issued : jwt.id \in 1..drawn
  BY DEF Inv, TypeOK
<1>2. CASE DeleteSession
  <2>1. PICK jwt \in issued : /\ jwt.id \in DOMAIN tokens
                              /\ tokens' = Without({jwt.id})
                              /\ removed' = removed \cup {jwt.id}
    BY <1>2 DEF DeleteSession
  <2>2. {jwt.id} \in SUBSET DOMAIN tokens
    BY <2>1
  <2>3. UNCHANGED <<clock, drawn, call, issued, granted, faults>> /\ dead' \subseteq 1..drawn
    BY <1>1, <1>2 DEF DeleteSession
  <2> QED
    BY <2>1, <2>2, <2>3, RevocationInv
<1>3. ASSUME NEW app \in Apps, RevokeAppPassword(app) PROVE Inv'
  <2> DEFINE rows == {i \in DOMAIN tokens : tokens[i].app = app}
             ids == {jwt.id : jwt \in {j \in issued : j.app = app}}
  <2>1. rows \in SUBSET DOMAIN tokens
    OBVIOUS
  <2>2. tokens' = Without(rows) /\ removed' = removed \cup rows
    BY <1>3 DEF RevokeAppPassword
  <2>3. ids \subseteq 1..drawn
    BY <1>1
  <2>4. Bury(ids) /\ UNCHANGED <<clock, drawn, call, issued, granted, faults>>
    BY <1>3 DEF RevokeAppPassword
  <2> HIDE DEF rows, ids
  <2>5. dead' \subseteq 1..drawn
    BY <1>1, <2>3, <2>4 DEF Bury
  <2> QED
    BY <2>1, <2>2, <2>4, <2>5, RevocationInv
<1>4. CASE RevokeAll
  <2> DEFINE ids == {jwt.id : jwt \in issued}
  <2>1. tokens' = Without(DOMAIN tokens)
    BY <1>4 DEF RevokeAll, Without
  <2>2. ids \subseteq 1..drawn
    BY <1>1
  <2>3. /\ removed' = removed \cup DOMAIN tokens
        /\ Bury(ids) /\ UNCHANGED <<clock, drawn, call, issued, granted, faults>>
    BY <1>4 DEF RevokeAll
  <2> HIDE DEF ids
  <2>4. dead' \subseteq 1..drawn
    BY <1>1, <2>2, <2>3 DEF Bury
  <2>5. DOMAIN tokens \in SUBSET DOMAIN tokens
    OBVIOUS
  <2> QED
    BY <2>1, <2>3, <2>4, <2>5, RevocationInv
<1> QED
  BY <1>2, <1>3, <1>4

(* Tidying: expired rows go, and the request turns to the join or gives    *)
(* up; in the join it still has its UPDATE to do.                          *)
LEMMA TidyStep ==
    ASSUME Inv, NEW h \in Handlers, NEW S \in SUBSET DOMAIN tokens,
           tokens' = Without(S), removed' = removed \cup S,
           drawn' \in 0..MaxIds, drawn <= drawn',
           NEW c \in CallState(drawn'), c.pc = "join" => "grace" \in c.todo,
           call' = [call EXCEPT ![h] = c],
           UNCHANGED <<clock, issued, granted, dead, faults>>
    PROVE  Inv'
<1>1. drawn \in Nat /\ drawn' \in Nat
  BY SessionsAssumption DEF Inv, TypeOK
<1>2. /\ Row(drawn) \subseteq Row(drawn') /\ CallState(drawn) \subseteq CallState(drawn')
      /\ 1..drawn \subseteq 1..drawn'
  BY <1>1, Monotone
<1>3. /\ DOMAIN tokens' \subseteq 1..drawn
      /\ tokens' \in [DOMAIN tokens' -> Row(drawn)]
      /\ removed' \subseteq 1..drawn
      /\ \A i, n : (i \notin removed => i \in DOMAIN tokens /\ tokens[i].next = n)
              => (i \notin removed' => i \in DOMAIN tokens' /\ tokens'[i].next = n)
  BY DeletionKeeps
<1>4. TypeOK'
  <2>1. call' \in [Handlers -> CallState(drawn')]
    BY <1>2 DEF Inv, TypeOK
  <2>2. tokens' \in [DOMAIN tokens' -> Row(drawn')] /\ DOMAIN tokens' \subseteq 1..drawn'
    BY <1>2, <1>3
  <2> QED
    BY <1>2, <1>3, <2>1, <2>2 DEF Inv, TypeOK
<1>5. Settled'
  <2>1. \A k \in Handlers \ {h} : call'[k] = call[k]
    BY DEF Inv, TypeOK
  <2>2. call'[h] = c
    BY DEF Inv, TypeOK
  <2>3. \A g \in granted' : g.from \notin removed' =>
            g.from \in DOMAIN tokens' /\ tokens'[g.from].next = g.to
    BY <1>3 DEF Inv, Settled
  <2>4. ASSUME NEW k \in Handlers,
               call'[k].pc = "join" /\ "grace" \notin call'[k].todo /\ call'[k].id \notin removed'
        PROVE  call'[k].id \in DOMAIN tokens' /\ tokens'[call'[k].id].next = call'[k].next
    <3>1. k # h
      BY <2>2, <2>4
    <3>2. call'[k] = call[k]
      BY <2>1, <3>1
    <3>3. call[k].id \notin removed =>
              call[k].id \in DOMAIN tokens /\ tokens[call[k].id].next = call[k].next
      BY <2>4, <3>2 DEF Inv, Settled
    <3> QED
      BY <1>3, <2>4, <3>2, <3>3
  <2> QED
    BY <2>3, <2>4 DEF Settled
<1> QED
  BY <1>4, <1>5 DEF Inv

LEMMA TidyInv == ASSUME Inv, NEW h \in Handlers, Tidy(h) PROVE Inv'
<1> DEFINE c == call[h]
           old == {i \in DOMAIN tokens : tokens[i].expires <= c.now}
           join(next) == [pc |-> "join", id |-> c.id, next |-> next, app |-> c.row.app,
                          expires |-> Shortened(c), exp |-> clock + Lifetime,
                          todo |-> {"grace", "store"}]
<1>1. /\ c.pc = "tidy" /\ tokens' = Without(old) /\ removed' = removed \cup old
      /\ UNCHANGED <<clock, issued, granted, dead, faults>>
  BY DEF Tidy
<1>2. drawn \in Nat /\ drawn <= MaxIds /\ c \in CallState(drawn) /\ clock \in Nat
  BY SessionsAssumption DEF Inv, TypeOK
<1>3. /\ c.id \in 1..drawn /\ c.now \in Nat
      /\ c.row.app \in Apps \cup {NoApp} /\ c.row.expires \in Nat /\ c.row.next \in 0..drawn
  BY <1>1, <1>2, CallParts DEF Row
<1>4. Shortened(c) \in Nat /\ clock + Lifetime \in Nat
  BY <1>2, <1>3, SessionsAssumption DEF Shortened
<1>5. ASSUME NEW n \in Nat, drawn <= n, NEW next \in 1..n
      PROVE  join(next) \in CallState(n) /\ (join(next).pc = "join" => "grace" \in join(next).todo)
  <2>1. c.id \in 1..n
    BY <1>2, <1>3, <1>5
  <2> DEFINE app == c.row.app
             expires == Shortened(c)
             exp == clock + Lifetime
  <2>2. app \in Apps \cup {NoApp} /\ expires \in Nat /\ exp \in Nat
    BY <1>3, <1>4
  <2> HIDE DEF app, expires, exp
  <2>3. [pc |-> "join", id |-> c.id, next |-> next, app |-> app, expires |-> expires,
         exp |-> exp, todo |-> {"grace", "store"}] \in CallState(n)
    BY <1>5, <2>1, <2>2 DEF CallState
  <2> QED
    BY <2>3 DEF app, expires, exp
<1>6. old \in SUBSET DOMAIN tokens
  OBVIOUS
<1>7. \/ /\ call' = [call EXCEPT ![h] = Idle]
         /\ drawn' = drawn
      \/ /\ c.row.next # NoId
         /\ call' = [call EXCEPT ![h] = join(c.row.next)]
         /\ drawn' = drawn
      \/ \E id \in 1..MaxIds : Draw(id) /\ call' = [call EXCEPT ![h] = join(id)]
  BY DEF Tidy
<1>8. /\ Idle \in CallState(drawn)
      /\ Idle.pc = "join" => "grace" \in Idle.todo
  BY <1>2, IdleType
<1> HIDE DEF c, old, join
<1>9. CASE call' = [call EXCEPT ![h] = Idle] /\ drawn' = drawn
  <2>1. drawn' \in 0..MaxIds /\ drawn <= drawn' /\ Idle \in CallState(drawn')
    BY <1>2, <1>8, <1>9, SessionsAssumption
  <2> QED
    BY <1>1, <1>6, <1>8, <1>9, <2>1, TidyStep
<1>10. CASE c.row.next # NoId /\ call' = [call EXCEPT ![h] = join(c.row.next)] /\ drawn' = drawn
  <2> DEFINE d == join(c.row.next)
  <2>1. c.row.next \in 1..drawn
    BY <1>2, <1>3, <1>10 DEF NoId
  <2>2. d \in CallState(drawn') /\ (d.pc = "join" => "grace" \in d.todo)
    BY <1>2, <1>5, <1>10, <2>1
  <2>3. drawn' \in 0..MaxIds /\ drawn <= drawn' /\ call' = [call EXCEPT ![h] = d]
    BY <1>2, <1>10, SessionsAssumption
  <2> HIDE DEF d
  <2> QED
    BY <1>1, <1>6, <2>2, <2>3, TidyStep
<1>11. ASSUME NEW id \in 1..MaxIds, Draw(id), call' = [call EXCEPT ![h] = join(id)]
       PROVE  Inv'
  <2> DEFINE d == join(id)
  <2>1. drawn' \in 0..MaxIds /\ drawn' \in Nat /\ drawn <= drawn' /\ id \in 1..drawn'
    BY <1>2, <1>11, SessionsAssumption DEF Draw
  <2>2. d \in CallState(drawn') /\ (d.pc = "join" => "grace" \in d.todo)
    BY <1>5, <2>1
  <2>3. call' = [call EXCEPT ![h] = d]
    BY <1>11
  <2> HIDE DEF d
  <2> QED
    BY <1>1, <1>6, <2>1, <2>2, <2>3, TidyStep
<1> QED
  BY <1>7, <1>9, <1>10, <1>11

-----------------------------------------------------------------------------
(* A half of the join is done.  What was settled stays so, and a request   *)
(* whose UPDATE is done finds its row leading to its successor.            *)
LEMMA JoinedInv ==
    ASSUME Inv, NEW h \in Handlers, NEW part \in {"grace", "store"},
           call[h].pc = "join", part \in call[h].todo, Joined(h, part),
           UNCHANGED <<clock, drawn, removed, dead, faults>>,
           DOMAIN tokens' \subseteq 1..drawn,
           tokens' \in [DOMAIN tokens' -> Row(drawn)],
           \A i : \A n \in 1..drawn :
               (i \notin removed => i \in DOMAIN tokens /\ tokens[i].next = n)
                 => (i \notin removed => i \in DOMAIN tokens' /\ tokens'[i].next = n),
           "grace" \notin call[h].todo \ {part} /\ call[h].id \notin removed
               => call[h].id \in DOMAIN tokens' /\ tokens'[call[h].id].next = call[h].next
    PROVE  Inv'
<1> DEFINE c == call[h]
<1>1. drawn \in Nat /\ c \in CallState(drawn)
  BY SessionsAssumption DEF Inv, TypeOK
<1>2. /\ c.id \in 1..drawn /\ c.next \in 1..drawn /\ c.app \in Apps \cup {NoApp}
      /\ c.expires \in Nat /\ c.exp \in Nat /\ c.todo \in SUBSET {"grace", "store"}
      /\ c = [pc |-> "join", id |-> c.id, next |-> c.next, app |-> c.app,
              expires |-> c.expires, exp |-> c.exp, todo |-> c.todo]
  BY <1>1, CallParts
<1>3. /\ \A g \in granted : g.to \in 1..drawn
      /\ \A k \in Handlers : call[k].pc = "join" => call[k].next \in 1..drawn
  BY <1>1, CallParts DEF Inv, TypeOK
<1>4. CASE c.todo # {part}
  <2> DEFINE d == [pc |-> "join", id |-> c.id, next |-> c.next, app |-> c.app,
                   expires |-> c.expires, exp |-> c.exp, todo |-> c.todo \ {part}]
  <2>1. d \in CallState(drawn)
    BY <1>2 DEF CallState
  <2>2. call' = [call EXCEPT ![h] = d] /\ UNCHANGED <<issued, granted>>
    <3>1. call' = [call EXCEPT ![h].todo = c.todo \ {part}] /\ UNCHANGED <<issued, granted>>
      BY <1>4 DEF Joined
    <3>2. [c EXCEPT !.todo = c.todo \ {part}] = d
      BY <1>2
    <3> QED
      BY <3>1, <3>2 DEF Inv, TypeOK
  <2>3. d.pc = "join" /\ d.id = c.id /\ d.next = c.next /\ d.todo = c.todo \ {part}
    OBVIOUS
  <2> HIDE DEF d
  <2>4. TypeOK'
    BY <2>1, <2>2 DEF Inv, TypeOK
  <2>5. /\ call'[h] = d
        /\ \A k \in Handlers \ {h} : call'[k] = call[k]
    BY <2>2 DEF Inv, TypeOK
  <2>6. Settled'
    BY <1>3, <2>2, <2>3, <2>5 DEF Inv, Settled
  <2> QED
    BY <2>4, <2>6 DEF Inv
<1>5. CASE c.todo = {part}
  <2> DEFINE jwt == [id |-> c.next, app |-> c.app]
             new == [from |-> c.id, to |-> c.next]
  <2>1. /\ call' = [call EXCEPT ![h] = Idle]
        /\ issued' = issued \cup {jwt} /\ granted' = granted \cup {new}
    BY <1>5 DEF Joined
  <2>2. jwt \in [id : 1..drawn, app : Apps \cup {NoApp}] /\ new \in [from : 1..drawn, to : 1..drawn]
    BY <1>2
  <2>3. new.from = c.id /\ new.to = c.next
    OBVIOUS
  <2>4. Idle \in CallState(drawn) /\ Idle.pc # "join"
    BY <1>1, IdleType
  <2> HIDE DEF jwt, new
  <2>5. TypeOK'
    BY <2>1, <2>2, <2>4 DEF Inv, TypeOK
  <2>6. /\ call'[h] = Idle
        /\ \A k \in Handlers \ {h} : call'[k] = call[k]
    BY <2>1 DEF Inv, TypeOK
  <2>7. c.id \notin removed => c.id \in DOMAIN tokens' /\ tokens'[c.id].next = c.next
    BY <1>5
  <2>8. Settled'
    BY <1>3, <2>1, <2>3, <2>4, <2>6, <2>7 DEF Inv, Settled
  <2> QED
    BY <2>5, <2>8 DEF Inv
<1> QED
  BY <1>4, <1>5

(* The UPDATE matches only a row that leads nowhere or to its successor. *)
LEMMA AddGracePeriodInv == ASSUME Inv, NEW h \in Handlers, AddGracePeriod(h) PROVE Inv'
<1> DEFINE c == call[h]
           row == [app |-> tokens[c.id].app, expires |-> c.expires, next |-> c.next]
<1>1. /\ c.pc = "join" /\ "grace" \in c.todo /\ c.id \in DOMAIN tokens
      /\ tokens[c.id].next \in {NoId, c.next}
      /\ tokens' = [tokens EXCEPT ![c.id] = row]
      /\ Joined(h, "grace") /\ UNCHANGED <<clock, drawn, removed, dead, faults>>
  BY DEF AddGracePeriod, Matches
<1>2. drawn \in Nat /\ c \in CallState(drawn)
  BY SessionsAssumption DEF Inv, TypeOK
<1>3. c.next \in 1..drawn /\ c.expires \in Nat
  BY <1>1, <1>2, CallParts
<1>4. tokens[c.id].app \in Apps \cup {NoApp}
  BY <1>1 DEF Inv, TypeOK, Row
<1>5. row \in Row(drawn) /\ row.next = c.next
  BY <1>2, <1>3, <1>4 DEF Row
<1> HIDE DEF row
<1>6. /\ DOMAIN tokens' = DOMAIN tokens
      /\ tokens'[c.id] = row
      /\ \A i \in DOMAIN tokens \ {c.id} : tokens'[i] = tokens[i]
      /\ tokens' \in [DOMAIN tokens' -> Row(drawn)]
  BY <1>1, <1>5 DEF Inv, TypeOK
<1>7. ASSUME NEW i, NEW n \in 1..drawn,
             i \notin removed => i \in DOMAIN tokens /\ tokens[i].next = n
      PROVE  i \notin removed => i \in DOMAIN tokens' /\ tokens'[i].next = n
  BY <1>1, <1>5, <1>6, <1>7 DEF NoId
<1>8. DOMAIN tokens' \subseteq 1..drawn
  BY <1>6 DEF Inv, TypeOK
<1> QED
  BY <1>1, <1>5, <1>6, <1>7, <1>8, JoinedInv

(* The INSERT leaves the rows that are there alone. *)
LEMMA StoreTokenInv == ASSUME Inv, NEW h \in Handlers, StoreToken(h) PROVE Inv'
<1> DEFINE c == call[h]
           row == [app |-> c.app, expires |-> c.exp, next |-> NoId]
<1>1. /\ c.pc = "join" /\ "store" \in c.todo
      /\ tokens' = With(c.next, row)
      /\ Joined(h, "store") /\ UNCHANGED <<clock, drawn, removed, dead, faults>>
  BY DEF StoreToken
<1>2. drawn \in Nat /\ c \in CallState(drawn)
  BY SessionsAssumption DEF Inv, TypeOK
<1>3. c.id \in 1..drawn /\ c.next \in 1..drawn /\ c.app \in Apps \cup {NoApp} /\ c.exp \in Nat
  BY <1>1, <1>2, CallParts
<1>4. row \in Row(drawn)
  BY <1>2, <1>3 DEF Row, NoId
<1> HIDE DEF row
<1>5. /\ DOMAIN tokens' \subseteq 1..drawn
      /\ tokens' \in [DOMAIN tokens' -> Row(drawn)]
      /\ \A i, k : (i \notin removed => i \in DOMAIN tokens /\ tokens[i].next = k)
              => (i \notin removed => i \in DOMAIN tokens' /\ tokens'[i].next = k)
  BY <1>1, <1>2, <1>3, <1>4, InsertionKeeps
<1>6. "grace" \notin c.todo \ {"store"} /\ c.id \notin removed
        => c.id \in DOMAIN tokens' /\ tokens'[c.id].next = c.next
  BY <1>1, <1>5 DEF Inv, Settled
<1> QED
  BY <1>1, <1>5, <1>6, JoinedInv

-----------------------------------------------------------------------------
(* Every step keeps the invariant. *)
LEMMA NextInv == ASSUME Inv, [Next]_vars PROVE Inv'
<1>1. CASE UNCHANGED vars
  BY <1>1 DEF vars, Inv, TypeOK, Settled
<1>2. CASE Next
  BY <1>2, TickInv, CreateSessionInv, EarlyStepsInv, TidyInv, AddGracePeriodInv,
     StoreTokenInv, RevocationsInv DEF Next, Rotate
<1> QED
  BY <1>1, <1>2

LEMMA Invariance == Spec => []Inv
BY InitInv, NextInv, PTL DEF Spec

(* TypeOK holds for any number of requests, ids and faults. *)
THEOREM TypeCorrect == Spec => []TypeOK
<1>1. Inv => TypeOK
  BY DEF Inv
<1> QED
  BY <1>1, Invariance, PTL

(* The successor of a refresh token is one and the same for every request  *)
(* that presents it, as long as rotate_refresh_token finds its row.        *)
THEOREM OneSuccessor == Spec => []SameSuccessor
<1>1. Inv => SameSuccessor
  BY DEF Inv, Settled, SameSuccessor
<1> QED
  BY <1>1, Invariance, PTL

-----------------------------------------------------------------------------
(* The app password that somebody takes id i to be of is a.                *)
RowNames(k, row, i, a) == row.app = a /\ (i = k \/ i = row.next)

CallNames(c, i, a) ==
    \/ c.pc = "tidy" /\ c.row.app = a /\ (i = c.id \/ i = c.row.next)
    \/ c.pc = "join" /\ c.app = a /\ (i = c.id \/ i = c.next)

Names(i, a) ==
    \/ \E k \in DOMAIN tokens : RowNames(k, tokens[k], i, a)
    \/ \E jwt \in issued : jwt.id = i /\ jwt.app = a
    \/ \E h \in Handlers : CallNames(call[h], i, a)

(* Everybody agrees on the app password of an id.                          *)
OneApp == \A i \in 1..drawn : \A a, b : Names(i, a) /\ Names(i, b) => a = b

(* A token that leads to n expires at u, or will when a request goes on.   *)
CallUpper(c, n, u) ==
    \/ c.pc = "tidy" /\ c.row.next = n /\ u = c.row.expires
    \/ c.pc = "join" /\ c.next = n /\ u = c.expires

Upper(n, u) ==
    \/ \E k \in DOMAIN tokens : tokens[k].next = n /\ u = tokens[k].expires
    \/ \E h \in Handlers : CallUpper(call[h], n, u)

(* The token n expires at l, or will when a request goes on.               *)
CallLower(c, n, l) ==
    \/ c.pc = "tidy" /\ c.id = n /\ l = Shortened(c)
    \/ c.pc = "join" /\ c.id = n /\ l = c.expires
    \/ c.pc = "join" /\ c.next = n /\ l = c.exp

Lower(n, l) ==
    \/ n \in DOMAIN tokens /\ l = tokens[n].expires
    \/ \E h \in Handlers : CallLower(call[h], n, l)

(* No predecessor of n outlives n, and none has more than its grace left.  *)
Bounded ==
    \A n \in 1..drawn :
        \A u \in Nat : Upper(n, u) => /\ u <= clock + Grace
                                      /\ \A l \in Nat : Lower(n, l) => u <= l

Recent == \A h \in Handlers : call[h].pc = "tidy" => call[h].now <= clock

(* Nobody is about to store an id that is gone for good.                   *)
RowLives(k, row) == k \notin dead /\ row.next \notin dead

CallLives(c) ==
    /\ c.pc = "tidy" => c.row.next \notin dead
    /\ c.pc = "join" => c.next \notin dead

Buried ==
    /\ \A k \in DOMAIN tokens : RowLives(k, tokens[k])
    /\ \A h \in Handlers : CallLives(call[h])

More == OneApp /\ Bounded /\ Recent /\ Buried

(* A row, a request and a JWT that say nothing new about ids drawn before. *)
RowFollows(k, row) ==
    /\ \A i \in 1..drawn : \A a : RowNames(k, row, i, a) => Names(i, a)
    /\ row.next \in 1..drawn =>
           \E v \in Nat : Upper(row.next, v) /\ row.expires <= v
    /\ k \in 1..drawn => \E m \in Nat : Lower(k, m) /\ m <= row.expires

CallFollows(c) ==
    /\ \A i \in 1..drawn : \A a : CallNames(c, i, a) => Names(i, a)
    /\ \A n \in 1..drawn : \A u \in Nat :
           CallUpper(c, n, u) => \E v \in Nat : Upper(n, v) /\ u <= v
    /\ \A n \in 1..drawn : \A l \in Nat :
           CallLower(c, n, l) => \/ clock + Grace <= l
                                 \/ \E m \in Nat : Lower(n, m) /\ m <= l

JwtFollows(jwt) == jwt.id \in 1..drawn => Names(jwt.id, jwt.app)

(* Whatever is said of n is consistent: one app password, and bounds on    *)
(* the expiry of its predecessors and of itself that are in order.         *)
Consistent(n) ==
    /\ \A a, b : Names(n, a) /\ Names(n, b) => a = b
    /\ \A u \in Nat : Upper(n, u) => /\ u <= clock + Grace
                                     /\ \A l \in Nat : Lower(n, l) => u <= l

(* What is there follows from what is there. *)
LEMMA Reflexive ==
    ASSUME Inv
    PROVE  /\ \A k \in DOMAIN tokens : RowFollows(k, tokens[k])
           /\ \A h \in Handlers : CallFollows(call[h])
           /\ \A jwt \in issued : JwtFollows(jwt)
           /\ CallFollows(Idle)
<1>1. \A k \in DOMAIN tokens : tokens[k].expires \in Nat
  BY DEF Inv, TypeOK, Row
<1>2. ASSUME NEW k \in DOMAIN tokens PROVE RowFollows(k, tokens[k])
  <2>1. \A i \in 1..drawn : \A a : RowNames(k, tokens[k], i, a) => Names(i, a)
    BY DEF Names
  <2>2. tokens[k].expires \in Nat /\ tokens[k].expires <= tokens[k].expires
    BY <1>1
  <2>3. Upper(tokens[k].next, tokens[k].expires) /\ Lower(k, tokens[k].expires)
    BY DEF Upper, Lower
  <2> QED
    BY <2>1, <2>2, <2>3 DEF RowFollows
<1>3. ASSUME NEW h \in Handlers PROVE CallFollows(call[h])
  <2>1. \A i \in 1..drawn : \A a : CallNames(call[h], i, a) => Names(i, a)
    BY DEF Names
  <2>2. \A n, u : CallUpper(call[h], n, u) => Upper(n, u)
    BY DEF Upper
  <2>3. \A n, l : CallLower(call[h], n, l) => Lower(n, l)
    BY DEF Lower
  <2>4. \A x \in Nat : x <= x
    OBVIOUS
  <2> QED
    BY <2>1, <2>2, <2>3, <2>4 DEF CallFollows
<1>4. \A jwt \in issued : JwtFollows(jwt)
  BY DEF JwtFollows, Names
<1>5. CallFollows(Idle)
  BY DEF CallFollows, CallNames, CallUpper, CallLower, Idle
<1> QED
  BY <1>2, <1>3, <1>4, <1>5

(* A step that says nothing new about the ids drawn before, and nothing    *)
(* contradictory about a new one.                                          *)
LEMMA Follows ==
    ASSUME Inv, Inv', More, drawn <= drawn', clock <= clock',
           \A k \in DOMAIN tokens' : RowFollows(k, tokens'[k]),
           \A h \in Handlers : CallFollows(call'[h]),
           \A jwt \in issued' : JwtFollows(jwt),
           \A n \in (1..drawn') \ (1..drawn) : Consistent(n)'
    PROVE  OneApp' /\ Bounded'
<1>1. drawn \in Nat /\ drawn' \in Nat /\ clock \in Nat /\ clock' \in Nat /\ Grace \in Nat
  BY SessionsAssumption DEF Inv, TypeOK
<1>2. ASSUME NEW i \in 1..drawn, NEW a, Names(i, a)' PROVE Names(i, a)
  <2>1. CASE \E k \in DOMAIN tokens' : RowNames(k, tokens'[k], i, a)
    BY <2>1 DEF RowFollows
  <2>2. CASE \E jwt \in issued' : jwt.id = i /\ jwt.app = a
    BY <2>2 DEF JwtFollows
  <2>3. CASE \E h \in Handlers : CallNames(call'[h], i, a)
    BY <2>3 DEF CallFollows
  <2> QED
    BY <1>2, <2>1, <2>2, <2>3 DEF Names, RowNames, CallNames
<1>3. ASSUME NEW n \in 1..drawn, NEW u \in Nat, Upper(n, u)'
      PROVE  \E v \in Nat : Upper(n, v) /\ u <= v
  <2>1. CASE \E k \in DOMAIN tokens' : tokens'[k].next = n /\ u = tokens'[k].expires
    BY <2>1 DEF RowFollows
  <2>2. CASE \E h \in Handlers : CallUpper(call'[h], n, u)
    BY <2>2 DEF CallFollows
  <2> QED
    BY <1>3, <2>1, <2>2 DEF Upper, CallUpper
<1>4. ASSUME NEW n \in 1..drawn, NEW l \in Nat, Lower(n, l)'
      PROVE  clock + Grace <= l \/ \E m \in Nat : Lower(n, m) /\ m <= l
  <2>1. CASE n \in DOMAIN tokens' /\ l = tokens'[n].expires
    BY <2>1 DEF RowFollows
  <2>2. CASE \E h \in Handlers : CallLower(call'[h], n, l)
    BY <2>2 DEF CallFollows
  <2> QED
    BY <1>4, <2>1, <2>2 DEF Lower, CallLower, Shortened
<1>5. OneApp'
  <2> SUFFICES ASSUME NEW i \in 1..drawn', NEW a, NEW b, Names(i, a)', Names(i, b)'
               PROVE  a = b
    BY DEF OneApp
  <2>1. CASE i \in 1..drawn
    BY <1>2, <2>1 DEF More, OneApp
  <2>2. CASE i \notin 1..drawn
    BY <2>2 DEF Consistent
  <2> QED
    BY <2>1, <2>2
<1>6. Bounded'
  <2> SUFFICES ASSUME NEW n \in 1..drawn', NEW u \in Nat, Upper(n, u)'
               PROVE  /\ u <= clock' + Grace
                      /\ \A l \in Nat : Lower(n, l)' => u <= l
    BY DEF Bounded
  <2>1. CASE n \in 1..drawn
    <3>1. PICK v \in Nat : Upper(n, v) /\ u <= v
      BY <1>3, <2>1
    <3>2. v <= clock + Grace /\ \A m \in Nat : Lower(n, m) => v <= m
      BY <2>1, <3>1 DEF More, Bounded
    <3>3. u <= clock + Grace /\ u <= clock' + Grace
      <4>1. \A x, y, g, w, z \in Nat :
              x <= y /\ w <= z /\ z <= x + g => w <= x + g /\ w <= y + g
        OBVIOUS
      <4> QED
        BY <1>1, <3>1, <3>2, <4>1
    <3>4. ASSUME NEW l \in Nat, Lower(n, l)' PROVE u <= l
      <4>1. CASE clock + Grace <= l
        BY <1>1, <3>3, <4>1
      <4>2. CASE \E m \in Nat : Lower(n, m) /\ m <= l
        BY <1>1, <3>1, <3>2, <4>2
      <4> QED
        BY <1>4, <2>1, <3>4, <4>1, <4>2
    <3> QED
      BY <3>3, <3>4
  <2>2. CASE n \notin 1..drawn
    BY <2>2 DEF Consistent
  <2> QED
    BY <2>1, <2>2
<1> QED
  BY <1>5, <1>6

(* Nobody has heard of an id that has not been drawn. *)
LEMMA Unheard ==
    ASSUME Inv, NEW n \in Nat \ (0..drawn)
    PROVE  /\ \A k \in DOMAIN tokens : k # n /\ tokens[k].next # n
           /\ \A jwt \in issued : jwt.id # n
           /\ \A h \in Handlers : \A x : /\ ~CallNames(call[h], n, x)
                                         /\ ~CallUpper(call[h], n, x)
                                         /\ ~CallLower(call[h], n, x)
<1>1. drawn \in Nat /\ n \notin 0..drawn /\ n \notin 1..drawn
  BY SessionsAssumption DEF Inv, TypeOK
<1>2. \A k \in DOMAIN tokens : k # n /\ tokens[k].next # n
  BY <1>1 DEF Inv, TypeOK, Row
<1>3. \A jwt \in issued : jwt.id # n
  BY <1>1 DEF Inv, TypeOK
<1>4. ASSUME NEW h \in Handlers, NEW x
      PROVE  ~CallNames(call[h], n, x) /\ ~CallUpper(call[h], n, x) /\ ~CallLower(call[h], n, x)
  <2>1. call[h] \in CallState(drawn)
    BY DEF Inv, TypeOK
  <2>2. /\ call[h].pc = "tidy" => call[h].id # n /\ call[h].row.next # n
        /\ call[h].pc = "join" => call[h].id # n /\ call[h].next # n
    BY <1>1, <2>1, CallParts DEF Row
  <2> QED
    BY <2>2 DEF CallNames, CallUpper, CallLower
<1> QED
  BY <1>2, <1>3, <1>4

(* The first state. *)
LEMMA InitMore == Init => More
<1> SUFFICES ASSUME Init PROVE More
  OBVIOUS
<1>1. /\ drawn = 0 /\ DOMAIN tokens = {} /\ issued = {}
      /\ \A h \in Handlers : call[h].pc = "idle"
  BY DEF Init, Idle
<1>2. OneApp /\ Bounded
  BY <1>1 DEF OneApp, Bounded
<1>3. Recent /\ Buried
  BY <1>1 DEF Recent, Buried, CallLives
<1> QED
  BY <1>2, <1>3 DEF More

(* The clock only makes the bounds wider. *)
LEMMA TickMore == ASSUME Inv, Inv', More, Tick PROVE More'
<1>1. /\ UNCHANGED <<tokens, drawn, call, issued, dead>>
      /\ clock \in Nat /\ clock' = clock + 1 /\ drawn \in Nat
  BY SessionsAssumption DEF Tick, Inv, TypeOK
<1>2. clock <= clock' /\ drawn <= drawn' /\ (1..drawn') \ (1..drawn) = {}
  BY <1>1
<1>3. OneApp' /\ Bounded'
  BY <1>1, <1>2, Reflexive, Follows
<1>4. Recent'
  <2>1. \A h \in Handlers : call[h].pc = "tidy" => call[h].now \in Nat
    BY <1>1, CallParts DEF Inv, TypeOK
  <2> QED
    BY <1>1, <1>2, <2>1 DEF More, Recent
<1>5. Buried'
  BY <1>1 DEF More, Buried, RowLives, CallLives
<1> QED
  BY <1>3, <1>4, <1>5 DEF More

(* A new session is of a new id. *)
LEMMA CreateSessionMore ==
    ASSUME Inv, Inv', More, NEW app \in Apps \cup {NoApp}, CreateSession(app)
    PROVE  More'
<1>1. PICK id \in 1..MaxIds :
         /\ Draw(id)
         /\ tokens' = With(id, [app |-> app, expires |-> clock + Lifetime, next |-> NoId])
         /\ issued' = issued \cup {[id |-> id, app |-> app]}
  BY DEF CreateSession
<1>2. drawn \in Nat /\ drawn' = drawn + 1 /\ id = drawn + 1
  BY <1>1, SessionsAssumption DEF Draw, Inv, TypeOK
<1>3. UNCHANGED <<clock, call, dead>>
  BY DEF CreateSession
<1>4. /\ id \in Nat \ (0..drawn) /\ id # NoId /\ id \notin 1..drawn /\ NoId \notin 1..drawn
      /\ drawn <= drawn' /\ (1..drawn') \ (1..drawn) = {id}
  BY <1>2 DEF NoId
<1>5. clock <= clock'
  BY <1>3 DEF Inv, TypeOK
<1> DEFINE row == [app |-> app, expires |-> clock + Lifetime, next |-> NoId]
<1>6. row.app = app /\ row.next = NoId
  OBVIOUS
<1>7. /\ DOMAIN tokens' = DOMAIN tokens \cup {id}
      /\ tokens'[id] = row
      /\ \A k \in DOMAIN tokens : tokens'[k] = tokens[k] /\ k # id
  BY <1>1, <1>4, Unheard DEF With
<1> HIDE DEF row
<1>8. RowFollows(id, row)
  BY <1>4, <1>6 DEF RowFollows, RowNames
<1>9. \A k \in DOMAIN tokens' : RowFollows(k, tokens'[k])
  BY <1>7, <1>8, Reflexive
<1>10. \A jwt \in issued' : JwtFollows(jwt)
  BY <1>1, <1>4, Reflexive DEF JwtFollows
<1>11. \A a : Names(id, a)' => a = app
  <2> SUFFICES ASSUME NEW a, Names(id, a)' PROVE a = app
    OBVIOUS
  <2>1. CASE \E k \in DOMAIN tokens' : RowNames(k, tokens'[k], id, a)
    BY <1>4, <1>6, <1>7, <2>1, Unheard DEF RowNames
  <2>2. CASE \E jwt \in issued' : jwt.id = id /\ jwt.app = a
    BY <1>1, <1>4, <2>2, Unheard
  <2>3. CASE \E h \in Handlers : CallNames(call[h], id, a)
    BY <1>4, <2>3, Unheard
  <2> QED
    BY <1>3, <2>1, <2>2, <2>3 DEF Names, RowNames, CallNames
<1>12. \A u : ~Upper(id, u)'
  <2> SUFFICES ASSUME NEW u, Upper(id, u)' PROVE FALSE
    OBVIOUS
  <2>1. CASE \E k \in DOMAIN tokens' : tokens'[k].next = id
    BY <1>4, <1>6, <1>7, <2>1, Unheard
  <2>2. CASE \E h \in Handlers : CallUpper(call[h], id, u)
    BY <1>4, <2>2, Unheard
  <2> QED
    BY <1>3, <2>1, <2>2 DEF Upper, CallUpper
<1>13. Consistent(id)'
  BY <1>11, <1>12 DEF Consistent
<1>14. OneApp' /\ Bounded'
  BY <1>3, <1>4, <1>5, <1>9, <1>10, <1>13, Reflexive, Follows
<1>15. Recent'
  BY <1>3 DEF More, Recent
<1>16. Buried'
  <2>1. id \notin dead /\ NoId \notin dead
    BY <1>4 DEF Inv, TypeOK
  <2> QED
    BY <1>3, <1>6, <1>7, <2>1 DEF More, Buried, RowLives, CallLives
<1> QED
  BY <1>14, <1>15, <1>16 DEF More

(* A request goes on and nothing else changes. *)
LEMMA RequestMore ==
    ASSUME Inv, Inv', More, NEW h \in Handlers, NEW c,
           CallFollows(c), CallLives(c), c.pc = "tidy" => c.now <= clock,
           call' = [call EXCEPT ![h] = c],
           UNCHANGED <<clock, tokens, drawn, issued, dead>>
    PROVE  More'
<1>1. \A k \in Handlers : call'[k] = IF k = h THEN c ELSE call[k]
  BY DEF Inv, TypeOK
<1>2. drawn <= drawn' /\ clock <= clock' /\ (1..drawn') \ (1..drawn) = {}
  BY SessionsAssumption DEF Inv, TypeOK
<1>3. \A k \in Handlers : CallFollows(call'[k])
  BY <1>1, Reflexive
<1>4. OneApp' /\ Bounded'
  BY <1>2, <1>3, Reflexive, Follows
<1>5. Recent'
  BY <1>1 DEF More, Recent
<1>6. Buried'
  BY <1>1 DEF More, Buried, RowLives, CallLives
<1> QED
  BY <1>4, <1>5, <1>6 DEF More

(* A request that has read nothing yet says nothing. *)
LEMMA Silent ==
    ASSUME NEW c, c.pc \notin {"tidy", "join"}
    PROVE  CallFollows(c) /\ CallLives(c)
BY DEF CallFollows, CallLives, CallNames, CallUpper, CallLower

LEMMA EarlyStepsMore ==
    ASSUME Inv, Inv', More, NEW h \in Handlers,
           \/ RefreshSession(h) \/ GetToken(h) \/ ConcurrentRefresh(h)
           \/ RequestFails(h)
    PROVE  More'
<1>1. ASSUME NEW c, c.pc \notin {"tidy", "join"}, call' = [call EXCEPT ![h] = c],
             UNCHANGED <<clock, tokens, drawn, issued, dead>>
      PROVE  More'
  BY <1>1, Silent, RequestMore
<1>2. \A id : [pc |-> "get", id |-> id].pc = "get"
  OBVIOUS
<1>3. Idle.pc = "idle"
  BY DEF Idle
<1>4. CASE RefreshSession(h)
  BY <1>1, <1>2, <1>4 DEF RefreshSession
<1>5. CASE ConcurrentRefresh(h)
  BY <1>1, <1>2, <1>5 DEF ConcurrentRefresh
<1>6. CASE RequestFails(h)
  BY <1>1, <1>3, <1>6 DEF RequestFails
<1>7. CASE GetToken(h)
  <2> DEFINE id == call[h].id
  <2>1. CASE id \notin DOMAIN tokens
    BY <1>1, <1>3, <1>7, <2>1 DEF GetToken
  <2>2. CASE id \in DOMAIN tokens
    <3>1. PICK c : c = [pc |-> "tidy", id |-> id, row |-> tokens[id], now |-> clock]
      OBVIOUS
    <3>2. /\ call' = [call EXCEPT ![h] = c]
          /\ UNCHANGED <<clock, tokens, drawn, issued, dead>>
      BY <1>7, <2>2, <3>1 DEF GetToken
    <3>3. /\ c.pc = "tidy" /\ c.id = id /\ c.row = tokens[id] /\ c.now = clock
          /\ clock \in Nat /\ tokens[id].expires \in Nat /\ Grace \in Nat
      BY <2>2, <3>1, SessionsAssumption DEF Inv, TypeOK, Row
    <3>4. \A i \in 1..drawn : \A a : CallNames(c, i, a) => Names(i, a)
      BY <2>2, <3>3 DEF CallNames, Names, RowNames
    <3>5. \A n, u : CallUpper(c, n, u) => Upper(n, u)
      BY <2>2, <3>3 DEF CallUpper, Upper
    <3>6. ASSUME NEW n \in 1..drawn, NEW l \in Nat, CallLower(c, n, l)
          PROVE  clock + Grace <= l \/ \E m \in Nat : Lower(n, m) /\ m <= l
      <4>1. n = id /\ l = Shortened(c)
        BY <3>3, <3>6 DEF CallLower
      <4>2. l = clock + Grace \/ l = tokens[id].expires
        BY <3>3, <4>1 DEF Shortened
      <4>3. Lower(n, tokens[id].expires)
        BY <2>2, <4>1 DEF Lower
      <4> QED
        BY <3>3, <4>2, <4>3
    <3>7. CallFollows(c)
      <4>1. \A x \in Nat : x <= x
        OBVIOUS
      <4> QED
        BY <3>4, <3>5, <3>6, <4>1 DEF CallFollows
    <3>8. CallLives(c) /\ c.now <= clock
      BY <2>2, <3>3 DEF CallLives, More, Buried, RowLives
    <3> QED
      BY <3>2, <3>7, <3>8, RequestMore
  <2> QED
    BY <2>1, <2>2
<1> QED
  BY <1>4, <1>5, <1>6, <1>7

(* Sessions are deleted: less is said. *)
LEMMA RevocationMore ==
    ASSUME Inv, Inv', More, NEW S \in SUBSET DOMAIN tokens, tokens' = Without(S),
           UNCHANGED <<clock, drawn, call, issued>>, Buried'
    PROVE  More'
<1>1. drawn <= drawn' /\ clock <= clock' /\ (1..drawn') \ (1..drawn) = {}
  BY SessionsAssumption DEF Inv, TypeOK
<1>2. \A k \in DOMAIN tokens' : RowFollows(k, tokens'[k])
  BY Reflexive DEF Without
<1>3. OneApp' /\ Bounded'
  BY <1>1, <1>2, Reflexive, Follows
<1>4. Recent'
  BY DEF More, Recent
<1> QED
  BY <1>3, <1>4 DEF More

(* Revoking the sessions of an app password leaves no row that leads to    *)
(* one of them, since such a row would be of the same app password.        *)
LEMMA RevocationsMore ==
    ASSUME Inv, Inv', More,
           DeleteSession \/ (\E app \in Apps : RevokeAppPassword(app)) \/ RevokeAll
    PROVE  More'
<1>1. CASE DeleteSession
  <2>1. PICK jwt \in issued : jwt.id \in DOMAIN tokens /\ tokens' = Without({jwt.id})
    BY <1>1 DEF DeleteSession
  <2>2. UNCHANGED <<clock, drawn, call, issued, dead>>
    BY <1>1 DEF DeleteSession
  <2>3. Buried'
    BY <2>1, <2>2 DEF More, Buried, RowLives, CallLives, Without
  <2>4. {jwt.id} \in SUBSET DOMAIN tokens
    BY <2>1
  <2> QED
    BY <2>1, <2>2, <2>3, <2>4, RevocationMore
<1>2. ASSUME NEW app \in Apps, RevokeAppPassword(app) PROVE More'
  <2> DEFINE rows == {i \in DOMAIN tokens : tokens[i].app = app}
             ids == {jwt.id : jwt \in {j \in issued : j.app = app}}
  <2>1. /\ rows \in SUBSET DOMAIN tokens /\ tokens' = Without(rows) /\ Bury(ids)
        /\ UNCHANGED <<clock, drawn, call, issued>>
    BY <1>2 DEF RevokeAppPassword
  <2>2. /\ DOMAIN tokens' = DOMAIN tokens \ rows
        /\ \A k \in DOMAIN tokens' : tokens'[k] = tokens[k] /\ tokens[k].app # app
    BY <2>1 DEF Without
  <2>3. CASE ~Quiet
    <3>1. dead' = dead
      BY <2>1, <2>3 DEF Bury
    <3> HIDE DEF rows, ids
    <3>2. Buried'
      BY <2>1, <2>2, <3>1 DEF More, Buried, RowLives, CallLives
    <3> QED
      BY <2>1, <3>2, RevocationMore
  <2>4. CASE Quiet
    <3>1. dead' = dead \cup ids
      BY <2>1, <2>4 DEF Bury
    <3>2. \A i \in ids : i \in 1..drawn /\ Names(i, app)
      BY DEF Names, Inv, TypeOK
    <3> HIDE DEF rows, ids
    <3>3. ASSUME NEW k \in DOMAIN tokens' PROVE RowLives(k, tokens[k])'
      <4>1. /\ k \in DOMAIN tokens /\ tokens'[k] = tokens[k] /\ tokens[k].app # app
        BY <2>2
      <4>2. Names(k, tokens[k].app) /\ Names(tokens[k].next, tokens[k].app)
        BY <4>1 DEF Names, RowNames
      <4>3. k \notin ids /\ tokens[k].next \notin ids
        BY <3>2, <4>1, <4>2 DEF More, OneApp
      <4> QED
        BY <3>1, <4>1, <4>3 DEF RowLives, More, Buried
    <3>4. ASSUME NEW h \in Handlers PROVE CallLives(call[h])'
      BY <2>1, <2>4 DEF Quiet, CallLives, Idle
    <3>5. Buried'
      BY <3>3, <3>4 DEF Buried
    <3> QED
      BY <2>1, <3>5, RevocationMore
  <2> QED
    BY <2>3, <2>4
<1>3. CASE RevokeAll
  <2> DEFINE ids == {jwt.id : jwt \in issued}
  <2>1. /\ tokens' = Without(DOMAIN tokens) /\ DOMAIN tokens' = {}
        /\ DOMAIN tokens \in SUBSET DOMAIN tokens
    BY <1>3 DEF RevokeAll, Without
  <2>2. Bury(ids) /\ UNCHANGED <<clock, drawn, call, issued>>
    BY <1>3 DEF RevokeAll
  <2> HIDE DEF ids
  <2>3. ASSUME NEW h \in Handlers PROVE CallLives(call[h])'
    <3>1. CASE Quiet
      BY <2>2, <3>1 DEF Quiet, CallLives, Idle
    <3>2. CASE ~Quiet
      BY <2>2, <3>2 DEF Bury, CallLives, More, Buried
    <3> QED
      BY <3>1, <3>2
  <2>4. Buried'
    BY <2>1, <2>3 DEF Buried
  <2> QED
    BY <2>1, <2>2, <2>4, RevocationMore
<1> QED
  BY <1>1, <1>2, <1>3

(* Turning to the join: the chosen successor is the one the row leads to,  *)
(* or a new id.                                                            *)
LEMMA TidyMore == ASSUME Inv, Inv', More, NEW h \in Handlers, Tidy(h) PROVE More'
<1> DEFINE c == call[h]
           old == {i \in DOMAIN tokens : tokens[i].expires <= c.now}
           join(next) == [pc |-> "join", id |-> c.id, next |-> next, app |-> c.row.app,
                          expires |-> Shortened(c), exp |-> clock + Lifetime,
                          todo |-> {"grace", "store"}]
<1>1. /\ c.pc = "tidy" /\ tokens' = Without(old) /\ old \in SUBSET DOMAIN tokens
      /\ UNCHANGED <<clock, issued, dead>>
  BY DEF Tidy
<1>2. drawn \in Nat /\ c \in CallState(drawn) /\ clock \in Nat /\ Grace \in Nat
      /\ Lifetime \in Nat /\ Grace <= Lifetime
  BY SessionsAssumption DEF Inv, TypeOK
<1>3. /\ c.id \in 1..drawn /\ c.now \in Nat
      /\ c.row.app \in Apps \cup {NoApp} /\ c.row.expires \in Nat /\ c.row.next \in 0..drawn
  BY <1>1, <1>2, CallParts DEF Row
<1>4. c.now <= clock
  BY <1>1 DEF More, Recent
<1>5. /\ Shortened(c) \in Nat /\ clock + Lifetime \in Nat
      /\ Shortened(c) <= c.row.expires /\ Shortened(c) <= clock + Grace
      /\ clock + Grace <= clock + Lifetime
  BY <1>2, <1>3, <1>4, SessionsAssumption DEF Shortened
<1>6. \/ call' = [call EXCEPT ![h] = Idle] /\ drawn' = drawn
      \/ /\ c.row.next # NoId
         /\ call' = [call EXCEPT ![h] = join(c.row.next)] /\ drawn' = drawn
      \/ \E id \in 1..MaxIds : Draw(id) /\ call' = [call EXCEPT ![h] = join(id)]
  BY DEF Tidy
<1>7. \A next : LET d == join(next)
                IN  /\ d.pc = "join" /\ d.id = c.id /\ d.next = next /\ d.app = c.row.app
                    /\ d.expires = Shortened(c) /\ d.exp = clock + Lifetime
  OBVIOUS
<1> HIDE DEF c, old, join
<1>8. \A k \in DOMAIN tokens' : k \in DOMAIN tokens /\ tokens'[k] = tokens[k]
  BY <1>1 DEF Without
<1>9. /\ \A k \in DOMAIN tokens' : RowFollows(k, tokens'[k]) /\ RowLives(k, tokens[k])'
      /\ \A jwt \in issued' : JwtFollows(jwt)
      /\ clock <= clock'
  BY <1>1, <1>2, <1>8, Reflexive DEF RowLives, More, Buried
<1>10. ASSUME NEW d, call' = [call EXCEPT ![h] = d], drawn <= drawn',
              d.pc # "tidy", CallFollows(d), CallLives(d),
              \A n \in (1..drawn') \ (1..drawn) : Consistent(n)'
       PROVE  More'
  <2>1. \A k \in Handlers : call'[k] = IF k = h THEN d ELSE call[k]
    BY <1>10 DEF Inv, TypeOK
  <2>2. \A k \in Handlers : CallFollows(call'[k])
    BY <1>10, <2>1, Reflexive
  <2>3. OneApp' /\ Bounded'
    BY <1>9, <1>10, <2>2, Follows
  <2>4. Recent'
    BY <1>1, <1>10, <2>1 DEF More, Recent
  <2>5. Buried'
    BY <1>1, <1>9, <1>10, <2>1 DEF More, Buried, CallLives
  <2> QED
    BY <2>3, <2>4, <2>5 DEF More
<1>11. CASE call' = [call EXCEPT ![h] = Idle] /\ drawn' = drawn
  <2>1. Idle.pc \notin {"tidy", "join"}
    BY DEF Idle
  <2>2. drawn <= drawn' /\ (1..drawn') \ (1..drawn) = {}
    BY <1>2, <1>11
  <2> QED
    BY <1>10, <1>11, <2>1, <2>2, Silent
<1>12. ASSUME NEW next \in Nat, next = c.row.next \/ next \notin 1..drawn
       PROVE  CallFollows(join(next))
  <2>1. PICK d : d = join(next)
    OBVIOUS
  <2>2. /\ d.pc = "join" /\ d.id = c.id /\ d.next = next /\ d.app = c.row.app
        /\ d.expires = Shortened(c) /\ d.exp = clock + Lifetime
    BY <1>7, <2>1
  <2>3. \A i \in 1..drawn : \A a : CallNames(d, i, a) => CallNames(c, i, a)
    BY <1>1, <1>12, <2>2 DEF CallNames
  <2>4. \A i \in 1..drawn : \A a : CallNames(d, i, a) => Names(i, a)
    BY <2>3 DEF Names, c
  <2>5. ASSUME NEW n \in 1..drawn, NEW u \in Nat, CallUpper(d, n, u)
        PROVE  \E v \in Nat : Upper(n, v) /\ u <= v
    <3>1. n = c.row.next /\ u = Shortened(c)
      BY <1>12, <2>2, <2>5 DEF CallUpper
    <3>2. CallUpper(c, n, c.row.expires)
      BY <1>1, <3>1 DEF CallUpper
    <3>3. Upper(n, c.row.expires)
      BY <3>2 DEF Upper, c
    <3> QED
      BY <1>3, <1>5, <3>1, <3>3
  <2>6. ASSUME NEW n \in 1..drawn, NEW l \in Nat, CallLower(d, n, l)
        PROVE  clock + Grace <= l \/ \E m \in Nat : Lower(n, m) /\ m <= l
    <3>1. \/ n = c.id /\ l = Shortened(c)
          \/ l = clock + Lifetime
      BY <2>2, <2>6 DEF CallLower
    <3>2. CASE n = c.id /\ l = Shortened(c)
      <4>1. CallLower(c, n, l)
        BY <1>1, <3>2 DEF CallLower
      <4>2. Lower(n, l) /\ l <= l
        BY <4>1 DEF Lower, c
      <4> QED
        BY <4>2
    <3> QED
      BY <1>5, <3>1, <3>2
  <2> QED
    BY <2>1, <2>4, <2>5, <2>6 DEF CallFollows
<1>13. CASE c.row.next # NoId /\ call' = [call EXCEPT ![h] = join(c.row.next)] /\ drawn' = drawn
  <2>1. drawn <= drawn' /\ (1..drawn') \ (1..drawn) = {} /\ c.row.next \in Nat
    BY <1>2, <1>3, <1>13
  <2>2. CallFollows(join(c.row.next)) /\ join(c.row.next).pc # "tidy"
    BY <1>7, <1>12, <2>1
  <2>3. c.row.next \notin dead
    BY <1>1 DEF More, Buried, CallLives, c
  <2>4. CallLives(join(c.row.next))
    BY <1>7, <2>3 DEF CallLives
  <2> QED
    BY <1>10, <1>13, <2>1, <2>2, <2>4
<1>14. ASSUME NEW id \in 1..MaxIds, Draw(id), call' = [call EXCEPT ![h] = join(id)]
       PROVE  More'
  <2>1. PICK d : d = join(id)
    OBVIOUS
  <2>2. /\ d.pc = "join" /\ d.id = c.id /\ d.next = id /\ d.app = c.row.app
        /\ d.expires = Shortened(c) /\ d.exp = clock + Lifetime
    BY <1>7, <2>1
  <2>3. drawn' = drawn + 1 /\ id = drawn + 1
    BY <1>14 DEF Draw
  <2>4. /\ id \in Nat \ (0..drawn) /\ id \in Nat /\ id \notin 1..drawn /\ drawn <= drawn'
        /\ (1..drawn') \ (1..drawn) = {id} /\ id # c.id
    BY <1>2, <1>3, <2>3
  <2>5. CallFollows(d) /\ CallLives(d)
    <3>1. id \notin dead
      BY <2>4 DEF Inv, TypeOK
    <3> QED
      BY <1>12, <2>1, <2>2, <2>4, <3>1 DEF CallLives
  <2>6. \A k \in Handlers : call'[k] = IF k = h THEN d ELSE call[k]
    BY <1>14, <2>1 DEF Inv, TypeOK
  <2>7. \A a : Names(id, a)' => a = c.row.app
    <3> SUFFICES ASSUME NEW a, Names(id, a)' PROVE a = c.row.app
      OBVIOUS
    <3>1. CASE \E k \in DOMAIN tokens' : RowNames(k, tokens'[k], id, a)
      BY <1>8, <2>4, <3>1, Unheard DEF RowNames
    <3>2. CASE \E jwt \in issued' : jwt.id = id
      BY <1>1, <2>4, <3>2, Unheard
    <3>3. CASE \E k \in Handlers : CallNames(call'[k], id, a)
      <4>1. CallNames(d, id, a)
        BY <2>4, <2>6, <3>3, Unheard
      <4> QED
        BY <2>2, <4>1 DEF CallNames
    <3> QED
      BY <3>1, <3>2, <3>3 DEF Names, RowNames, CallNames
  <2>8. \A u : Upper(id, u)' => u = Shortened(c)
    <3> SUFFICES ASSUME NEW u, Upper(id, u)' PROVE u = Shortened(c)
      OBVIOUS
    <3>1. CASE \E k \in DOMAIN tokens' : tokens'[k].next = id
      BY <1>8, <2>4, <3>1, Unheard
    <3>2. CASE \E k \in Handlers : CallUpper(call'[k], id, u)
      <4>1. CallUpper(d, id, u)
        BY <2>4, <2>6, <3>2, Unheard
      <4> QED
        BY <2>2, <4>1 DEF CallUpper
    <3> QED
      BY <3>1, <3>2 DEF Upper, CallUpper
  <2>9. \A l : Lower(id, l)' => l = clock + Lifetime
    <3> SUFFICES ASSUME NEW l, Lower(id, l)' PROVE l = clock + Lifetime
      OBVIOUS
    <3>1. CASE id \in DOMAIN tokens'
      BY <1>8, <2>4, <3>1, Unheard
    <3>2. CASE \E k \in Handlers : CallLower(call'[k], id, l)
      <4>1. CallLower(d, id, l)
        BY <2>4, <2>6, <3>2, Unheard
      <4> QED
        BY <2>2, <2>4, <4>1 DEF CallLower
    <3> QED
      BY <3>1, <3>2 DEF Lower, CallLower, Shortened
  <2>10. Consistent(id)'
    <3>1. \A a, b : Names(id, a)' /\ Names(id, b)' => a = b
      BY <2>7
    <3>2. ASSUME NEW u \in Nat, Upper(id, u)'
          PROVE  u <= clock' + Grace /\ \A l \in Nat : Lower(id, l)' => u <= l
      <4>1. u = Shortened(c) /\ clock' = clock
        BY <1>1, <2>8, <3>2
      <4>2. \A l \in Nat : Lower(id, l)' => l = clock + Lifetime
        BY <2>9
      <4> QED
        BY <1>2, <1>5, <4>1, <4>2
    <3> QED
      BY <3>1, <3>2 DEF Consistent
  <2> QED
    BY <1>10, <1>14, <2>1, <2>2, <2>4, <2>5, <2>10
<1> QED
  BY <1>6, <1>11, <1>13, <1>14

(* A half of the join is done, and the rows it leaves say nothing new. *)
LEMMA JoinedMore ==
    ASSUME Inv, Inv', More, NEW h \in Handlers, NEW part \in {"grace", "store"},
           call[h].pc = "join", Joined(h, part), UNCHANGED <<clock, drawn, dead>>,
           \A k \in DOMAIN tokens' : RowFollows(k, tokens'[k]) /\ RowLives(k, tokens'[k])
    PROVE  More'
<1> DEFINE c == call[h]
<1>1. drawn <= drawn' /\ clock <= clock' /\ (1..drawn') \ (1..drawn) = {}
  BY SessionsAssumption DEF Inv, TypeOK
<1>2. ASSUME NEW d, \/ d.pc = "idle"
                    \/ /\ d.pc = "join" /\ d.id = c.id /\ d.next = c.next /\ d.app = c.app
                       /\ d.expires = c.expires /\ d.exp = c.exp,
             call' = [call EXCEPT ![h] = d], \A jwt \in issued' : JwtFollows(jwt)
      PROVE  More'
  <2>1. \A k \in Handlers : call'[k] = IF k = h THEN d ELSE call[k]
    BY <1>2 DEF Inv, TypeOK
  <2>2. CallFollows(d) /\ CallLives(d) /\ d.pc # "tidy"
    <3>1. CASE d.pc = "idle"
      BY <3>1, Silent
    <3>2. CASE d.pc # "idle"
      <4>1. CallFollows(c) /\ CallLives(c)
        BY Reflexive DEF More, Buried
      <4>2. /\ \A i, a : CallNames(d, i, a) => CallNames(c, i, a)
            /\ \A n, u : CallUpper(d, n, u) => CallUpper(c, n, u)
            /\ \A n, l : CallLower(d, n, l) => CallLower(c, n, l)
        BY <1>2, <3>2 DEF CallNames, CallUpper, CallLower
      <4>3. CallFollows(d)
        BY <4>1, <4>2 DEF CallFollows
      <4> QED
        BY <1>2, <3>2, <4>1, <4>3 DEF CallLives
    <3> QED
      BY <3>1, <3>2
  <2>3. \A k \in Handlers : CallFollows(call'[k])
    BY <2>1, <2>2, Reflexive
  <2>4. OneApp' /\ Bounded'
    BY <1>1, <1>2, <2>3, Follows
  <2>5. Recent'
    BY <2>1, <2>2 DEF More, Recent
  <2>6. Buried'
    BY <2>1, <2>2 DEF More, Buried, RowLives, CallLives
  <2> QED
    BY <2>4, <2>5, <2>6 DEF More
<1>3. CASE c.todo # {part}
  <2>1. PICK d : d = [c EXCEPT !.todo = c.todo \ {part}]
    OBVIOUS
  <2>2. call' = [call EXCEPT ![h] = d] /\ issued' = issued
    BY <1>3, <2>1 DEF Joined, Inv, TypeOK
  <2>3. /\ d.pc = "join" /\ d.id = c.id /\ d.next = c.next /\ d.app = c.app
        /\ d.expires = c.expires /\ d.exp = c.exp
    <3>1. c = [pc |-> "join", id |-> c.id, next |-> c.next, app |-> c.app,
               expires |-> c.expires, exp |-> c.exp, todo |-> c.todo]
      BY SessionsAssumption, CallParts DEF Inv, TypeOK
    <3> QED
      BY <2>1, <3>1
  <2> QED
    BY <1>2, <2>2, <2>3, Reflexive
<1>4. CASE c.todo = {part}
  <2>1. /\ call' = [call EXCEPT ![h] = Idle]
        /\ issued' = issued \cup {[id |-> c.next, app |-> c.app]}
    BY <1>4 DEF Joined
  <2>2. Names(c.next, c.app)
    BY DEF Names, CallNames
  <2>3. \A jwt \in issued' : JwtFollows(jwt)
    BY <2>1, <2>2, Reflexive DEF JwtFollows
  <2>4. Idle.pc = "idle"
    BY DEF Idle
  <2> QED
    BY <1>2, <2>1, <2>3, <2>4
<1> QED
  BY <1>3, <1>4

(* The UPDATE writes what the request has announced. *)
LEMMA AddGracePeriodMore ==
    ASSUME Inv, Inv', More, NEW h \in Handlers, AddGracePeriod(h) PROVE More'
<1> DEFINE c == call[h]
<1>1. PICK row : row = [app |-> tokens[c.id].app, expires |-> c.expires, next |-> c.next]
  OBVIOUS
<1>2. /\ c.pc = "join" /\ c.id \in DOMAIN tokens
      /\ tokens' = [tokens EXCEPT ![c.id] = row]
      /\ Joined(h, "grace") /\ UNCHANGED <<clock, drawn, dead>>
  BY <1>1 DEF AddGracePeriod, Matches
<1>3. row.app = tokens[c.id].app /\ row.expires = c.expires /\ row.next = c.next
  BY <1>1
<1>4. c.id \in 1..drawn /\ c.next \in 1..drawn /\ c.expires \in Nat
  BY <1>2, SessionsAssumption, CallParts DEF Inv, TypeOK
<1>5. row.app = c.app
  <2>1. Names(c.id, row.app)
    BY <1>2, <1>3 DEF Names, RowNames
  <2>2. Names(c.id, c.app)
    BY <1>2 DEF Names, CallNames
  <2> QED
    BY <1>4, <2>1, <2>2 DEF More, OneApp
<1>6. RowFollows(c.id, row)
  <2>1. ASSUME NEW i \in 1..drawn, NEW a, RowNames(c.id, row, i, a) PROVE Names(i, a)
    <3>1. CallNames(c, i, a)
      BY <1>2, <1>3, <1>5, <2>1 DEF RowNames, CallNames
    <3> QED
      BY <3>1 DEF Names
  <2>2. Upper(c.next, c.expires) /\ Lower(c.id, c.expires)
    <3>1. CallUpper(c, c.next, c.expires) /\ CallLower(c, c.id, c.expires)
      BY <1>2 DEF CallUpper, CallLower
    <3> QED
      BY <3>1 DEF Upper, Lower
  <2>3. row.expires <= c.expires /\ c.expires <= row.expires
    BY <1>3, <1>4
  <2> QED
    BY <1>3, <1>4, <2>1, <2>2, <2>3 DEF RowFollows
<1>7. RowLives(c.id, row)
  BY <1>2, <1>3 DEF More, Buried, RowLives, CallLives
<1>8. \A k \in DOMAIN tokens' :
         k \in DOMAIN tokens /\ tokens'[k] = IF k = c.id THEN row ELSE tokens[k]
  BY <1>2 DEF Inv, TypeOK
<1>9. \A k \in DOMAIN tokens' : RowFollows(k, tokens'[k]) /\ RowLives(k, tokens'[k])
  BY <1>6, <1>7, <1>8, Reflexive DEF More, Buried
<1> QED
  BY <1>2, <1>9, JoinedMore

(* And so does the INSERT. *)
LEMMA StoreTokenMore ==
    ASSUME Inv, Inv', More, NEW h \in Handlers, StoreToken(h) PROVE More'
<1> DEFINE c == call[h]
<1>1. PICK row : row = [app |-> c.app, expires |-> c.exp, next |-> NoId]
  OBVIOUS
<1>2. /\ c.pc = "join" /\ tokens' = With(c.next, row)
      /\ Joined(h, "store") /\ UNCHANGED <<clock, drawn, dead>>
  BY <1>1 DEF StoreToken
<1>3. row.app = c.app /\ row.expires = c.exp /\ row.next = NoId
  BY <1>1
<1>4. c.next \in 1..drawn /\ c.exp \in Nat /\ NoId \notin 1..drawn
  BY <1>2, SessionsAssumption, CallParts DEF Inv, TypeOK, NoId
<1>5. RowFollows(c.next, row)
  <2>1. ASSUME NEW i \in 1..drawn, NEW a, RowNames(c.next, row, i, a) PROVE Names(i, a)
    <3>1. CallNames(c, i, a)
      BY <1>2, <1>3, <1>4, <2>1 DEF RowNames, CallNames
    <3> QED
      BY <3>1 DEF Names
  <2>2. Lower(c.next, c.exp)
    <3>1. CallLower(c, c.next, c.exp)
      BY <1>2 DEF CallLower
    <3> QED
      BY <3>1 DEF Lower
  <2>3. c.exp <= row.expires
    BY <1>3, <1>4
  <2> QED
    BY <1>3, <1>4, <2>1, <2>2, <2>3 DEF RowFollows
<1>6. RowLives(c.next, row)
  <2>1. c.next \notin dead
    BY <1>2 DEF More, Buried, CallLives
  <2>2. NoId \notin dead
    BY <1>4 DEF Inv, TypeOK
  <2> QED
    BY <1>3, <2>1, <2>2 DEF RowLives
<1>7. \A k \in DOMAIN tokens' : \/ k \in DOMAIN tokens /\ tokens'[k] = tokens[k]
                                \/ k = c.next /\ tokens'[k] = row
  BY <1>2 DEF With
<1>8. \A k \in DOMAIN tokens' : RowFollows(k, tokens'[k]) /\ RowLives(k, tokens'[k])
  BY <1>5, <1>6, <1>7, Reflexive DEF More, Buried
<1> QED
  BY <1>2, <1>8, JoinedMore

LEMMA NextMore == ASSUME Inv, More, [Next]_vars PROVE More'
<1>1. Inv'
  BY NextInv
<1>2. CASE UNCHANGED vars
  <2>1. /\ UNCHANGED <<clock, tokens, drawn, call, issued, dead>>
        /\ drawn <= drawn' /\ clock <= clock' /\ (1..drawn') \ (1..drawn) = {}
    BY <1>2, SessionsAssumption DEF vars, Inv, TypeOK
  <2>2. OneApp' /\ Bounded'
    BY <1>1, <2>1, Reflexive, Follows
  <2> QED
    BY <2>1, <2>2 DEF More, Recent, Buried, RowLives, CallLives
<1>3. CASE Next
  BY <1>1, <1>3, TickMore, CreateSessionMore, EarlyStepsMore, TidyMore,
     AddGracePeriodMore, StoreTokenMore, RevocationsMore DEF Next, Rotate
<1> QED
  BY <1>2, <1>3

LEMMA MoreInvariance == Spec => [](Inv /\ More)
BY InitInv, InitMore, NextInv, NextMore, PTL DEF Spec

(* A refresh token in its grace period is never valid for longer than the  *)
(* token it leads to, in whatever order and however often the statements   *)
(* of rotate_refresh_token store and shorten either.                       *)
THEOREM Outlived == Spec => []SuccessorOutlives
<1>1. Inv /\ More => SuccessorOutlives
  <2> SUFFICES ASSUME Inv, More, NEW i \in DOMAIN tokens, tokens[i].next \in DOMAIN tokens
               PROVE  tokens[i].expires <= tokens[tokens[i].next].expires
    BY DEF SuccessorOutlives
  <2> DEFINE n == tokens[i].next
  <2>1. n \in 1..drawn /\ tokens[i].expires \in Nat /\ tokens[n].expires \in Nat
    BY DEF Inv, TypeOK, Row
  <2>2. Upper(n, tokens[i].expires) /\ Lower(n, tokens[n].expires)
    BY DEF Upper, Lower
  <2> QED
    BY <2>1, <2>2 DEF More, Bounded
<1> QED
  BY <1>1, MoreInvariance, PTL

(* When the sessions of an app password or of the account are revoked and  *)
(* no refresh is under way, no token handed out for them comes back, even  *)
(* though a rotation stores a successor that has been deleted once more.   *)
THEOREM GoneForGood == Spec => []RevokedSessionIsGone
<1>1. More => RevokedSessionIsGone
  BY DEF More, Buried, RowLives, RevokedSessionIsGone
<1> QED
  BY <1>1, MoreInvariance, PTL
=============================================================================
