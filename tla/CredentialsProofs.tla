------------------------- MODULE CredentialsProofs -------------------------
(***************************************************************************)
(* Theorems about the credentials of an account, for every number of       *)
(* parallel requests, every threshold and length of the lock: wrong        *)
(* passwords are bounded, an address counts as confirmed only if it was    *)
(* proved, and a reset of the password is final.                           *)
(*                                                                         *)
(* The argument has four independent parts.  Guesses: while the account is *)
(* not locked, each of them is in the counter, about to be, or has failed  *)
(* (Counted); past the threshold, whoever guessed is still on its way to   *)
(* lock the account (Pending); once it is locked, only those that had      *)
(* passed the check may still guess (Barred).  Addresses: a token that is  *)
(* still good was mailed to the address of the account, or the statement   *)
(* that deletes it is about to run (Good).  Sessions: one opened by a      *)
(* former password is about to be revoked (Leaving).  Tokens: one that has *)
(* carried out a reset is not in the table (Gone).                         *)
(***************************************************************************)
EXTENDS Credentials, FiniteSetTheorems, TLAPS

-----------------------------------------------------------------------------
(* The shape of the state, with the unbounded numbers. *)

Tried == [kind : {"account", "app"}, n : Nat]
Letter == [purpose : Purposes, id : Nat, to : Nat]

Attempting == {"verify", "count", "recount", "lock"}
Passed == {"clear", "recheck", "open"}
Asking == {"token", "mail"}

LoginReq == [pc : Attempting \cup Passed, tried : Tried, for : {"session", "page"}]
TokenReq == [pc : Asking, purpose : Purposes, to : Nat, id : Nat]
CheckReq == [pc : {"check_confirm", "check_update"}, m : Letter]
ConfirmReq == [pc : {"confirm"}, m : Letter, left : SUBSET {"token", "account"}]
UpdateReq == [pc : {"set_email"}, left : SUBSET {"token", "account"}]
CheckResetReq == [pc : {"check_reset"}, id : Nat]
ResetReq == [pc : {"set_password"}, id : Nat, left : SUBSET {"password", "token", "sessions"}]
RevokeReq == [pc : {"revoke_app"}, left : SUBSET {"row", "sessions"}]

RequestState == {Idle} \cup LoginReq \cup TokenReq \cup CheckReq \cup ConfirmReq \cup UpdateReq
                  \cup CheckResetReq \cup ResetReq \cup RevokeReq

Types ==
    /\ {password, app, address, fails, lockedUntil, now, requests, faults, guesses} \subseteq Nat
    /\ app <= requests /\ requests <= MaxRequests /\ now <= MaxNow
    /\ lockedUntil <= now + LockFor
    /\ confirmed \in BOOLEAN
    /\ token \in [Purposes -> [id : Nat, at : Nat]]
    /\ \A p \in Purposes : token[p].id <= requests /\ token[p].at <= now
    /\ mail \subseteq Letter /\ \A m \in mail : m.id \in 1..requests
    /\ sessions \subseteq [scope : {"access", "app_pass"}, n : Nat]
    /\ req \in [Handlers -> RequestState]

-----------------------------------------------------------------------------
(* The numbers of a request. *)

(* A request that has yet to raise the password's number, that of the      *)
(* address or the count of failed logins.                                  *)
Owes(r) ==
    \/ r.pc \in {"verify", "count", "check_update", "check_reset"}
    \/ r.pc = "set_email" /\ "account" \in r.left
    \/ r.pc = "set_password" /\ "password" \in r.left

Owing == {h \in Handlers : Owes(req[h])}

(* Each request raises one of the three at most once. *)
Numbered == password + address + fails + Cardinality(Owing) <= requests

(* What was typed and found right. *)
Typing ==
    \A h \in Handlers :
        /\ req[h].pc = "verify" /\ req[h].tried.kind = "app" => req[h].tried.n \in 1..requests
        /\ req[h].pc \in Passed => /\ req[h].tried.n <= requests
                                   /\ req[h].tried.kind = "app" => req[h].tried.n # 0

(* A token that has not been mailed is known to one request. *)
Fresh ==
    \A h \in Handlers : req[h].pc \in Asking =>
        /\ req[h].id \in 1..requests
        /\ \A m \in mail : m.id # req[h].id
        /\ \A g \in Handlers : req[g].pc \in Asking /\ req[g].id = req[h].id => g = h

(* What was presented had been mailed. *)
Mailed ==
    /\ \A h \in Handlers : req[h].pc \in {"check_confirm", "confirm"} =>
                             req[h].m \in mail /\ req[h].m.purpose = "confirm_email"
    /\ \A h \in Handlers : req[h].pc \in {"check_reset", "set_password"} =>
                             \E m \in mail : m.id = req[h].id
    /\ \A i \in finished : \E m \in mail : m.id = i

Numbers == Numbered /\ Typing /\ Fresh /\ Mailed

-----------------------------------------------------------------------------
(* Guesses. *)

At(S) == {h \in Handlers : req[h].pc \in S}

Counted == guesses <= fails + Cardinality(At({"count"})) + faults

Pending == fails >= Threshold /\ ~IsAccountLocked
             => guesses <= Threshold - 1 + Cardinality(At({"count", "recount", "lock"})) + faults

Barred == IsAccountLocked
            => guesses + Cardinality(At({"verify"})) <= Threshold - 1 + Cardinality(Handlers) + faults

Guessing == Counted /\ Pending /\ Barred

-----------------------------------------------------------------------------
(* Addresses. *)

(* A change of address, of which one statement has run. *)
Begun(r) == r.pc = "set_email" /\ r.left # {"token", "account"}

(* The address is new and the tokens mailed to the former one are not yet  *)
(* deleted.                                                                *)
Replacing == \E h \in Handlers : req[h].pc = "set_email" /\ "token" \in req[h].left
                                   /\ "account" \notin req[h].left

Good == \A m \in mail : m.purpose = "confirm_email" /\ token["confirm_email"].id = m.id
                          => m.to = address \/ Replacing

Addressed ==
    /\ \A h \in Handlers : req[h].pc \in Asking => req[h].to = address
    /\ \A h \in Handlers : req[h].pc = "confirm" => req[h].m.to = address
    /\ \A h \in Handlers : Begun(req[h]) => ~Busy(Asking \cup {"confirm"})
    /\ \A h \in Handlers : req[h].pc = "set_email" /\ "token" \notin req[h].left
                             => token["confirm_email"].id = 0
    /\ confirmed => address \in proved

Proving == overtaken \/ (Good /\ Addressed)

-----------------------------------------------------------------------------
(* Sessions. *)

(* The credential has changed and its sessions are not yet revoked. *)
Changing(pc, first) ==
    \E h \in Handlers : req[h].pc = pc /\ "sessions" \in req[h].left /\ first \notin req[h].left

Leaving ==
    /\ \A s \in sessions : s.scope = "access" =>
                             s.n = password \/ Changing("set_password", "password")
    /\ \A s \in sessions : s.scope = "app_pass" =>
                             s.n # 0 /\ (s.n = app \/ Changing("revoke_app", "row"))
    /\ \A h \in Handlers : req[h].pc = "set_password" /\ "sessions" \notin req[h].left
                             => sessions = {}
    /\ \A h \in Handlers : req[h].pc = "revoke_app" /\ "sessions" \notin req[h].left
                             => \A s \in sessions : s.scope = "access"

LoggingOut ==
    /\ \A s \in sessions : s.n <= requests
    /\ straddled \/ partial \/ Leaving

-----------------------------------------------------------------------------
(* Reset tokens. *)

Gone ==
    /\ \A h \in Handlers : req[h].pc = "set_password" /\ "token" \notin req[h].left
                             => token["reset_password"].id # req[h].id
    /\ \A i \in finished : token["reset_password"].id # i
    /\ reused = FALSE

Inv == Types /\ Numbers /\ Guessing /\ Proving /\ LoggingOut /\ Gone
-----------------------------------------------------------------------------
(* The requests. *)

(* The record of a request fits what the request is at. *)
LEMMA ReqParts ==
    ASSUME NEW r \in RequestState
    PROVE  /\ r.pc = "idle" => r = Idle
           /\ r.pc \in Attempting \cup Passed => r \in LoginReq
           /\ r.pc \in Asking => r \in TokenReq
           /\ r.pc \in {"check_confirm", "check_update"} => r \in CheckReq
           /\ r.pc = "confirm" => r \in ConfirmReq
           /\ r.pc = "set_email" => r \in UpdateReq
           /\ r.pc = "check_reset" => r \in CheckResetReq
           /\ r.pc = "set_password" => r \in ResetReq
           /\ r.pc = "revoke_app" => r \in RevokeReq
BY DEF RequestState, Idle, LoginReq, TokenReq, CheckReq, ConfirmReq, UpdateReq, CheckResetReq,
       ResetReq, RevokeReq, Attempting, Passed, Asking

(* Only request h moves. *)
Only(h) == /\ req' \in [Handlers -> RequestState]
           /\ \A g \in Handlers : g # h => req'[g] = req[g]

(* A request is put in the place of the one of h.                          *)
LEMMA Becomes ==
    ASSUME Types, NEW h \in Handlers, NEW r \in RequestState, req' = [req EXCEPT ![h] = r]
    PROVE  Only(h) /\ req'[h] = r
BY DEF Types, Only

(* The request of h ends.                                                  *)
LEMMA Ends ==
    ASSUME Types, NEW h \in Handlers, Done(h)
    PROVE  Only(h) /\ req'[h] = Idle /\ req'[h].pc = "idle"
<1>1. Idle \in RequestState /\ Idle.pc = "idle"
  BY DEF RequestState, Idle
<1> QED
  BY <1>1, Becomes DEF Done

(* A login goes on: what was typed stays.                                  *)
LEMMA LoginGoes ==
    ASSUME Types, NEW h \in Handlers, req[h].pc \in Attempting \cup Passed,
           NEW pc \in Attempting \cup Passed, Go(h, pc)
    PROVE  /\ Only(h) /\ req'[h].pc = pc /\ req'[h].tried = req[h].tried
           /\ req'[h].for = req[h].for
<1>1. req[h] \in LoginReq
  BY ReqParts DEF Types
<1>2. PICK r : r = [req[h] EXCEPT !.pc = pc]
  OBVIOUS
<1>3. r \in LoginReq /\ r.pc = pc /\ r.tried = req[h].tried /\ r.for = req[h].for
  BY <1>1, <1>2 DEF LoginReq
<1>4. req' = [req EXCEPT ![h] = r]
  BY <1>2 DEF Go
<1>5. r \in RequestState
  BY <1>3 DEF RequestState
<1> QED
  BY <1>3, <1>4, <1>5, Becomes

(* A request for a token goes on: purpose, address and id stay.            *)
LEMMA TokenGoes ==
    ASSUME Types, NEW h \in Handlers, req[h].pc \in Asking, NEW pc \in Asking, Go(h, pc)
    PROVE  /\ Only(h) /\ req'[h].pc = pc /\ req'[h].purpose = req[h].purpose
           /\ req'[h].to = req[h].to /\ req'[h].id = req[h].id
<1>1. req[h] \in TokenReq
  BY ReqParts DEF Types
<1>2. PICK r : r = [req[h] EXCEPT !.pc = pc]
  OBVIOUS
<1>3. /\ r \in TokenReq /\ r.pc = pc /\ r.purpose = req[h].purpose /\ r.to = req[h].to
      /\ r.id = req[h].id
  BY <1>1, <1>2 DEF TokenReq
<1>4. req' = [req EXCEPT ![h] = r]
  BY <1>2 DEF Go
<1>5. r \in RequestState
  BY <1>3 DEF RequestState
<1> QED
  BY <1>3, <1>4, <1>5, Becomes

Joining == {"confirm", "set_email", "set_password", "revoke_app"}

(* A joined statement is done, and the request with its last. *)
LEMMA Joins ==
    ASSUME Types, NEW h \in Handlers, req[h].pc \in Joining, NEW s, Joined(h, s)
    PROVE  /\ Only(h)
           /\ \/ req[h].left = {s} /\ req'[h].pc = "idle"
              \/ /\ req[h].left # {s} /\ req'[h].pc = req[h].pc
                 /\ req'[h].left = req[h].left \ {s}
                 /\ req[h].pc = "confirm" => req'[h].m = req[h].m
                 /\ req[h].pc = "set_password" => req'[h].id = req[h].id
<1>1. CASE req[h].left = {s}
  <2>1. Done(h)
    BY <1>1 DEF Joined, Done
  <2> QED
    BY <1>1, <2>1, Ends
<1>2. CASE req[h].left # {s}
  <2>1. PICK r : r = [req[h] EXCEPT !.left = req[h].left \ {s}]
    OBVIOUS
  <2>2. req[h] \in ConfirmReq \cup UpdateReq \cup ResetReq \cup RevokeReq
    BY ReqParts DEF Types, Joining
  <2>3. /\ r \in ConfirmReq \cup UpdateReq \cup ResetReq \cup RevokeReq
        /\ r.pc = req[h].pc /\ r.left = req[h].left \ {s}
        /\ req[h].pc = "confirm" => r.m = req[h].m
        /\ req[h].pc = "set_password" => r.id = req[h].id
    <3>1. CASE req[h] \in ConfirmReq
      BY <2>1, <3>1 DEF ConfirmReq
    <3>2. CASE req[h] \in UpdateReq
      BY <2>1, <3>2 DEF UpdateReq
    <3>3. CASE req[h] \in ResetReq
      BY <2>1, <3>3 DEF ResetReq
    <3>4. CASE req[h] \in RevokeReq
      BY <2>1, <3>4 DEF RevokeReq
    <3> QED
      BY <2>2, <3>1, <3>2, <3>3, <3>4
  <2>4. req' = [req EXCEPT ![h] = r]
    BY <1>2, <2>1 DEF Joined
  <2>5. r \in RequestState
    BY <2>3 DEF RequestState
  <2> QED
    BY <1>2, <2>3, <2>4, <2>5, Becomes
<1> QED
  BY <1>1, <1>2

(* A set that one element may leave or join. *)
LEMMA OneMoves ==
    ASSUME NEW H, IsFiniteSet(H), NEW A \in SUBSET H, NEW B \in SUBSET H, NEW h,
           A \ {h} = B \ {h}
    PROVE  /\ Cardinality(A) \in Nat /\ Cardinality(B) \in Nat
           /\ (h \in A <=> h \in B) => Cardinality(A) = Cardinality(B)
           /\ h \in A /\ h \notin B => Cardinality(A) = Cardinality(B) + 1
           /\ h \notin A /\ h \in B => Cardinality(B) = Cardinality(A) + 1
<1>1. IsFiniteSet(A) /\ IsFiniteSet(B)
  BY FS_Subset
<1>2. Cardinality(A) \in Nat /\ Cardinality(B) \in Nat
  BY <1>1, FS_CardinalityType
<1>3. (h \in A <=> h \in B) => A = B
  OBVIOUS
<1>4. ASSUME h \in A, h \notin B
      PROVE  Cardinality(A) = Cardinality(B) + 1
  <2>1. A = B \cup {h}
    BY <1>4
  <2> QED
    BY <1>1, <1>4, <2>1, FS_AddElement
<1>5. ASSUME h \notin A, h \in B
      PROVE  Cardinality(B) = Cardinality(A) + 1
  <2>1. B = A \cup {h}
    BY <1>5
  <2> QED
    BY <1>1, <1>5, <2>1, FS_AddElement
<1> QED
  BY <1>2, <1>3, <1>4, <1>5

(* A step of h changes the number of owing requests by one at most.        *)
LEMMA OwingMoves ==
    ASSUME NEW h \in Handlers, Only(h)
    PROVE  /\ Cardinality(Owing) \in Nat /\ Cardinality(Owing)' \in Nat
           /\ (Owes(req[h]) <=> Owes(req[h])') => Cardinality(Owing)' = Cardinality(Owing)
           /\ Owes(req[h]) /\ ~Owes(req[h])' => Cardinality(Owing) = Cardinality(Owing)' + 1
           /\ ~Owes(req[h]) /\ Owes(req[h])' => Cardinality(Owing)' = Cardinality(Owing) + 1
<1>1. PICK A, B : /\ A = {g \in Handlers : Owes(req[g])}
                  /\ B = {g \in Handlers : Owes(req[g])'}
  OBVIOUS
<1>2. A = Owing /\ B = Owing'
  BY <1>1 DEF Owing
<1>3. \A g \in Handlers : g # h => (Owes(req[g]) <=> Owes(req[g])')
  BY DEF Only, Owes
<1>4. /\ A \in SUBSET Handlers /\ B \in SUBSET Handlers /\ A \ {h} = B \ {h}
      /\ h \in A <=> Owes(req[h])
      /\ h \in B <=> Owes(req[h])'
  BY <1>1, <1>3
<1>5. IsFiniteSet(Handlers)
  BY CredentialsAssumption
<1>6. /\ Cardinality(A) \in Nat /\ Cardinality(B) \in Nat
      /\ (h \in A <=> h \in B) => Cardinality(A) = Cardinality(B)
      /\ h \in A /\ h \notin B => Cardinality(A) = Cardinality(B) + 1
      /\ h \notin A /\ h \in B => Cardinality(B) = Cardinality(A) + 1
  BY <1>4, <1>5, OneMoves
<1>7. Cardinality(Owing) = Cardinality(A) /\ Cardinality(Owing)' = Cardinality(B)
  BY <1>2
<1> QED
  BY <1>4, <1>6, <1>7

(* It changes the number of requests at a place by one at most.            *)
LEMMA AtMoves ==
    ASSUME NEW CONSTANT S, NEW h \in Handlers, Only(h)
    PROVE  /\ Cardinality(At(S)) \in Nat /\ Cardinality(At(S))' \in Nat
           /\ (req[h].pc \in S <=> req'[h].pc \in S) => Cardinality(At(S))' = Cardinality(At(S))
           /\ req[h].pc \in S /\ req'[h].pc \notin S
                => Cardinality(At(S)) = Cardinality(At(S))' + 1
           /\ req[h].pc \notin S /\ req'[h].pc \in S
                => Cardinality(At(S))' = Cardinality(At(S)) + 1
<1>1. PICK A, B : /\ A = {g \in Handlers : req[g].pc \in S}
                  /\ B = {g \in Handlers : req'[g].pc \in S}
  OBVIOUS
<1>2. A = At(S) /\ B = At(S)'
  BY <1>1 DEF At
<1>3. /\ A \in SUBSET Handlers /\ B \in SUBSET Handlers /\ A \ {h} = B \ {h}
      /\ h \in A <=> req[h].pc \in S
      /\ h \in B <=> req'[h].pc \in S
  BY <1>1 DEF Only
<1>4. IsFiniteSet(Handlers)
  BY CredentialsAssumption
<1>5. /\ Cardinality(A) \in Nat /\ Cardinality(B) \in Nat
      /\ (h \in A <=> h \in B) => Cardinality(A) = Cardinality(B)
      /\ h \in A /\ h \notin B => Cardinality(A) = Cardinality(B) + 1
      /\ h \notin A /\ h \in B => Cardinality(B) = Cardinality(A) + 1
  BY <1>3, <1>4, OneMoves
<1>6. Cardinality(At(S)) = Cardinality(A) /\ Cardinality(At(S))' = Cardinality(B)
  BY <1>2
<1> QED
  BY <1>3, <1>5, <1>6

-----------------------------------------------------------------------------
(* What a step leaves alone. *)

LEMMA NumberedKept ==
    ASSUME Types, Types', Numbered, NEW h \in Handlers, Only(h), requests <= requests',
           \/ /\ password' + address' + fails' <= password + address + fails
              /\ ~Owes(req[h])' \/ Owes(req[h]) \/ requests' = requests + 1
           \/ /\ password' + address' + fails' <= password + address + fails + 1
              /\ Owes(req[h]) /\ ~Owes(req[h])'
    PROVE  Numbered'
<1>1. /\ {password, address, fails, requests} \subseteq Nat
      /\ {password', address', fails', requests'} \subseteq Nat
  BY DEF Types
<1>2. PICK a, b : a = Cardinality(Owing) /\ b = Cardinality(Owing)'
  OBVIOUS
<1>3. /\ a \in Nat /\ b \in Nat
      /\ (Owes(req[h]) <=> Owes(req[h])') => b = a
      /\ Owes(req[h]) /\ ~Owes(req[h])' => a = b + 1
      /\ ~Owes(req[h]) /\ Owes(req[h])' => b = a + 1
  BY <1>2, OwingMoves
<1>4. password + address + fails + a <= requests
  BY <1>2 DEF Numbered
<1>5. password' + address' + fails' + b <= requests'
  BY <1>1, <1>3, <1>4
<1> QED
  BY <1>2, <1>5 DEF Numbered

(* Typing stands when h is, or becomes, no login.                          *)
LEMMA TypingKept ==
    ASSUME Types, Types', Typing, NEW h \in Handlers, Only(h), requests <= requests',
           req'[h].pc \notin {"verify"} \cup Passed \/ req'[h] = req[h]
    PROVE  Typing'
<1>1. requests \in Nat /\ requests' \in Nat /\ 1..requests \subseteq 1..requests'
  BY DEF Types
<1> SUFFICES ASSUME NEW g \in Handlers
             PROVE  /\ req'[g].pc = "verify" /\ req'[g].tried.kind = "app"
                         => req'[g].tried.n \in 1..requests'
                    /\ req'[g].pc \in Passed => /\ req'[g].tried.n <= requests'
                                                /\ req'[g].tried.kind = "app"
                                                     => req'[g].tried.n # 0
  BY DEF Typing
<1>2. CASE req'[g] = req[g]
  <2>1. req[g].pc \in Passed => req[g].tried.n <= requests /\ req[g].tried.n \in Nat
    BY ReqParts DEF Typing, Types, LoginReq, Tried
  <2>2. req[g].pc \in Passed => req[g].tried.n <= requests'
    BY <1>1, <2>1
  <2> QED
    BY <1>1, <1>2, <2>2 DEF Typing
<1>3. CASE req'[g].pc \notin {"verify"} \cup Passed
  BY <1>3
<1> QED
  BY <1>2, <1>3 DEF Only

(* Fresh stands when h holds no token that is not mailed.                  *)
LEMMA FreshKept ==
    ASSUME Types, Types', Fresh, NEW h \in Handlers, Only(h), requests <= requests',
           mail' = mail, req'[h].pc \notin Asking
    PROVE  Fresh'
<1>1. requests \in Nat /\ requests' \in Nat /\ 1..requests \subseteq 1..requests'
  BY DEF Types
<1> QED
  BY <1>1 DEF Fresh, Only

(* Mailed stands when h presents nothing.                                  *)
LEMMA MailedKept ==
    ASSUME Mailed, NEW h \in Handlers, Only(h), mail \subseteq mail', finished' = finished,
           req'[h].pc \notin {"check_confirm", "confirm", "check_reset", "set_password"}
    PROVE  Mailed'
BY DEF Mailed, Only

(* A step outside these parts. *)
LEMMA NumbersKept ==
    ASSUME Types, Types', Numbers, NEW h \in Handlers, Only(h), Numbered',
           requests <= requests', mail' = mail, finished' = finished,
           req'[h].pc \notin {"verify"} \cup Passed \cup Asking
                \cup {"check_confirm", "confirm", "check_reset", "set_password"}
    PROVE  Numbers'
BY TypingKept, FreshKept, MailedKept DEF Numbers

(* Guessing stands when h is no login before its check.                    *)
LEMMA GuessingKept ==
    ASSUME Types, Guessing, NEW h \in Handlers, Only(h), UNCHANGED <<lockout, now, guesses>>,
           faults' \in Nat, faults <= faults',
           req[h].pc \notin Attempting, req'[h].pc \notin Attempting
    PROVE  Guessing'
<1>1. /\ At({"count"})' = At({"count"}) /\ At({"verify"})' = At({"verify"})
      /\ At({"count", "recount", "lock"})' = At({"count", "recount", "lock"})
  BY DEF At, Only, Attempting
<1>2. /\ Cardinality(At({"count"})) \in Nat /\ Cardinality(At({"verify"})) \in Nat
      /\ Cardinality(At({"count", "recount", "lock"})) \in Nat /\ Cardinality(Handlers) \in Nat
  BY AtMoves, FS_CardinalityType, CredentialsAssumption
<1>3. /\ {guesses, fails, lockedUntil, now, faults} \subseteq Nat /\ Threshold \in Nat \ {0}
      /\ UNCHANGED <<fails, lockedUntil, now, guesses>>
  BY CredentialsAssumption DEF Types, lockout
<1>4. Counted'
  BY <1>1, <1>2, <1>3 DEF Guessing, Counted
<1>5. Pending'
  BY <1>1, <1>2, <1>3 DEF Guessing, Pending, IsAccountLocked
<1>6. Barred'
  BY <1>1, <1>2, <1>3 DEF Guessing, Barred, IsAccountLocked
<1> QED
  BY <1>4, <1>5, <1>6 DEF Guessing

(* Proving stands when h asks and confirms nothing and at most begins a   *)
(* change of address.                                                     *)
LEMMA ProvingKept ==
    ASSUME Proving, NEW h \in Handlers, Only(h),
           UNCHANGED <<address, confirmed, token, mail, proved>>, overtaken => overtaken',
           req[h].pc \notin Asking \cup {"confirm", "set_email"},
           \/ req'[h].pc \notin Asking \cup {"confirm", "set_email"}
           \/ req'[h].pc = "set_email" /\ req'[h].left = {"token", "account"}
    PROVE  Proving'
<1>1. CASE overtaken
  BY <1>1 DEF Proving
<1>2. CASE Good /\ Addressed
  <2>1. Good'
    <3>1. Replacing => Replacing'
      BY DEF Replacing, Only
    <3> QED
      BY <1>2, <3>1 DEF Good
  <2>2. Addressed'
    <3>1. \A g \in Handlers :
            \/ req'[g] = req[g]
            \/ req'[g].pc \notin Asking \cup {"confirm", "set_email"}
            \/ req'[g].pc = "set_email" /\ req'[g].left = {"token", "account"}
      BY DEF Only
    <3>2. "set_email" \notin Asking /\ "confirm" \notin Asking
      BY DEF Asking
    <3>3. \A g \in Handlers : Begun(req[g])' => Begun(req[g])
      BY <3>1 DEF Begun
    <3>4. Busy(Asking \cup {"confirm"})' => Busy(Asking \cup {"confirm"})
      BY <3>1, <3>2 DEF Busy
    <3>5. \A g \in Handlers : req'[g].pc \in Asking \cup {"confirm"} => req'[g] = req[g]
      BY <3>1, <3>2
    <3>6. \A g \in Handlers : req'[g].pc = "set_email" /\ "token" \notin req'[g].left
                                => req'[g] = req[g]
      BY <3>1
    <3> QED
      BY <1>2, <3>3, <3>4, <3>5, <3>6 DEF Addressed
  <2> QED
    BY <2>1, <2>2 DEF Proving
<1> QED
  BY <1>1, <1>2 DEF Proving

(* LoggingOut stands when h at most begins a reset or a revocation.        *)
LEMMA LoggingOutKept ==
    ASSUME Types, LoggingOut, NEW h \in Handlers, Only(h), UNCHANGED <<password, app, sessions>>,
           straddled => straddled', partial => partial',
           requests' \in Nat, requests <= requests',
           req[h].pc \notin {"set_password", "revoke_app"},
           req'[h].pc = "set_password" => {"sessions", "password"} \subseteq req'[h].left,
           req'[h].pc = "revoke_app" => {"sessions", "row"} \subseteq req'[h].left
    PROVE  LoggingOut'
<1>1. \A s \in sessions' : s.n <= requests'
  BY DEF LoggingOut, Types
<1>2. ASSUME Leaving
      PROVE  Leaving'
  <2>1. /\ Changing("set_password", "password") => Changing("set_password", "password")'
        /\ Changing("revoke_app", "row") => Changing("revoke_app", "row")'
    BY DEF Changing, Only
  <2> QED
    BY <1>2, <2>1 DEF Leaving, Only
<1> QED
  BY <1>1, <1>2 DEF LoggingOut

(* Gone stands when no token changes.                                      *)
LEMMA GoneKept ==
    ASSUME Gone, NEW h \in Handlers, Only(h), UNCHANGED <<token, finished, reused>>,
           req'[h].pc = "set_password" => "token" \in req'[h].left
    PROVE  Gone'
BY DEF Gone, Only

(* Between these places only the numbers and the guesses move.             *)
Plain == {"idle"} \cup Attempting \cup Passed \cup {"check_confirm", "check_update", "check_reset"}

(* A step between them needs to be looked at for those two parts only.     *)
LEMMA PlainStep ==
    ASSUME Inv, Types', NEW h \in Handlers, Only(h), Numbers', Guessing',
           req[h].pc \in Plain, req'[h].pc \in Plain,
           UNCHANGED <<account, mailed, sessions, proved, overtaken, straddled, partial,
                       finished, reused>>, requests <= requests'
    PROVE  Inv'
<1>1. Plain \cap (Asking \cup Joining) = {}
  BY DEF Plain, Asking, Joining, Attempting, Passed
<1>2. /\ req[h].pc \notin Asking \cup Joining /\ req'[h].pc \notin Asking \cup Joining
      /\ UNCHANGED <<address, confirmed, token, mail, password, app>>
  BY <1>1 DEF account, mailed
<1>3. Proving'
  BY <1>2, ProvingKept DEF Inv, Joining
<1>4. LoggingOut'
  <2>1. requests' \in Nat
    BY DEF Types
  <2> QED
    BY <1>2, <2>1, LoggingOutKept DEF Inv, Joining
<1>5. Gone'
  BY <1>2, GoneKept DEF Inv, Joining
<1> QED
  BY <1>3, <1>4, <1>5 DEF Inv

-----------------------------------------------------------------------------
(* The login. *)

One(b) == IF b THEN 1 ELSE 0

(* The counts that Guessing speaks of, before and after a step of h. *)
LEMMA Counts ==
    ASSUME NEW h \in Handlers, Only(h)
    PROVE  \E v, c, p, v1, c1, p1, n \in Nat :
             /\ Cardinality(At({"verify"})) = v /\ Cardinality(At({"verify"}))' = v1
             /\ Cardinality(At({"count"})) = c /\ Cardinality(At({"count"}))' = c1
             /\ Cardinality(At({"count", "recount", "lock"})) = p
             /\ Cardinality(At({"count", "recount", "lock"}))' = p1
             /\ Cardinality(Handlers) = n
             /\ c <= p /\ v + p <= n
             /\ v1 + One(req[h].pc = "verify") = v + One(req'[h].pc = "verify")
             /\ c1 + One(req[h].pc = "count") = c + One(req'[h].pc = "count")
             /\ p1 + One(req[h].pc \in {"count", "recount", "lock"})
                  = p + One(req'[h].pc \in {"count", "recount", "lock"})
<1>1. PICK v, v1 : v = Cardinality(At({"verify"})) /\ v1 = Cardinality(At({"verify"}))'
  OBVIOUS
<1>2. PICK c, c1 : c = Cardinality(At({"count"})) /\ c1 = Cardinality(At({"count"}))'
  OBVIOUS
<1>3. PICK p, p1 : /\ p = Cardinality(At({"count", "recount", "lock"}))
                   /\ p1 = Cardinality(At({"count", "recount", "lock"}))'
  OBVIOUS
<1>4. PICK n : n = Cardinality(Handlers)
  OBVIOUS
<1>5. v \in Nat /\ v1 \in Nat /\ v1 + One(req[h].pc = "verify") = v + One(req'[h].pc = "verify")
  <2>1. /\ Cardinality(At({"verify"})) \in Nat /\ Cardinality(At({"verify"}))' \in Nat
        /\ (req[h].pc \in {"verify"} <=> req'[h].pc \in {"verify"})
             => Cardinality(At({"verify"}))' = Cardinality(At({"verify"}))
        /\ req[h].pc \in {"verify"} /\ req'[h].pc \notin {"verify"}
             => Cardinality(At({"verify"})) = Cardinality(At({"verify"}))' + 1
        /\ req[h].pc \notin {"verify"} /\ req'[h].pc \in {"verify"}
             => Cardinality(At({"verify"}))' = Cardinality(At({"verify"})) + 1
    BY AtMoves
  <2> QED
    BY <1>1, <2>1 DEF One
<1>6. c \in Nat /\ c1 \in Nat /\ c1 + One(req[h].pc = "count") = c + One(req'[h].pc = "count")
  <2>1. /\ Cardinality(At({"count"})) \in Nat /\ Cardinality(At({"count"}))' \in Nat
        /\ (req[h].pc \in {"count"} <=> req'[h].pc \in {"count"})
             => Cardinality(At({"count"}))' = Cardinality(At({"count"}))
        /\ req[h].pc \in {"count"} /\ req'[h].pc \notin {"count"}
             => Cardinality(At({"count"})) = Cardinality(At({"count"}))' + 1
        /\ req[h].pc \notin {"count"} /\ req'[h].pc \in {"count"}
             => Cardinality(At({"count"}))' = Cardinality(At({"count"})) + 1
    BY AtMoves
  <2> QED
    BY <1>2, <2>1 DEF One
<1>7. /\ p \in Nat /\ p1 \in Nat
      /\ p1 + One(req[h].pc \in {"count", "recount", "lock"})
           = p + One(req'[h].pc \in {"count", "recount", "lock"})
  <2>1. /\ Cardinality(At({"count", "recount", "lock"})) \in Nat
        /\ Cardinality(At({"count", "recount", "lock"}))' \in Nat
        /\ (req[h].pc \in {"count", "recount", "lock"}
              <=> req'[h].pc \in {"count", "recount", "lock"})
             => Cardinality(At({"count", "recount", "lock"}))'
                  = Cardinality(At({"count", "recount", "lock"}))
        /\ req[h].pc \in {"count", "recount", "lock"}
             /\ req'[h].pc \notin {"count", "recount", "lock"}
             => Cardinality(At({"count", "recount", "lock"}))
                  = Cardinality(At({"count", "recount", "lock"}))' + 1
        /\ req[h].pc \notin {"count", "recount", "lock"}
             /\ req'[h].pc \in {"count", "recount", "lock"}
             => Cardinality(At({"count", "recount", "lock"}))'
                  = Cardinality(At({"count", "recount", "lock"})) + 1
    BY AtMoves
  <2> QED
    BY <1>3, <2>1 DEF One
<1>8. IsFiniteSet(Handlers) /\ n \in Nat
  BY <1>4, CredentialsAssumption, FS_CardinalityType
<1>9. c <= p
  <2>1. At({"count"}) \subseteq At({"count", "recount", "lock"})
    BY DEF At
  <2>2. IsFiniteSet(At({"count", "recount", "lock"}))
    BY <1>8, FS_Subset DEF At
  <2> QED
    BY <1>2, <1>3, <2>1, <2>2, FS_Subset
<1>10. v + p <= n
  <2>1. PICK V, P : V = At({"verify"}) /\ P = At({"count", "recount", "lock"})
    OBVIOUS
  <2>2. V \subseteq Handlers /\ P \subseteq Handlers /\ V \cap P = {}
    BY <2>1 DEF At
  <2>3. IsFiniteSet(V) /\ IsFiniteSet(P)
    BY <1>8, <2>2, FS_Subset
  <2>4. Cardinality(V \cup P) = Cardinality(V) + Cardinality(P) - Cardinality(V \cap P)
    BY <2>3, FS_Union
  <2>5. Cardinality(V \cap P) = 0
    BY <2>2, FS_EmptySet
  <2>6. Cardinality(V \cup P) <= Cardinality(Handlers)
    <3>1. V \cup P \subseteq Handlers
      BY <2>2
    <3> QED
      BY <1>8, <3>1, FS_Subset
  <2>7. Cardinality(V) = v /\ Cardinality(P) = p
    BY <1>1, <1>3, <2>1
  <2> QED
    BY <1>4, <1>5, <1>7, <1>8, <2>4, <2>5, <2>6, <2>7
<1>11. /\ v \in Nat /\ c \in Nat /\ p \in Nat /\ v1 \in Nat /\ c1 \in Nat /\ p1 \in Nat
       /\ n \in Nat
  BY <1>5, <1>6, <1>7, <1>8
<1> USE <1>11
<1> WITNESS v \in Nat, c \in Nat, p \in Nat, v1 \in Nat, c1 \in Nat, p1 \in Nat, n \in Nat
<1> QED
  BY <1>1, <1>2, <1>3, <1>4, <1>5, <1>6, <1>7, <1>9, <1>10

(* How the numbers may move for the bound on guesses to stand. *)
LEMMA GuessingMoves ==
    ASSUME Types, Types', Guessing, NEW h \in Handlers, Only(h), now' = now,
           req[h].pc \in Plain, req'[h].pc \in Plain,
           \* nothing is guessed
           \/ /\ UNCHANGED <<lockout, guesses>> /\ faults <= faults'
              /\ req'[h].pc = "verify" => ~IsAccountLocked
              /\ req'[h].pc = "verify" => req[h].pc = "idle"
              /\ \/ req[h].pc \in {"recount"} /\ (fails < Threshold \/ req'[h].pc = "lock")
                 \/ /\ req[h].pc \notin Attempting
                    /\ req'[h].pc \in {"idle", "verify", "clear", "recheck", "open"}
                 \/ req[h].pc \in {"verify"} /\ req'[h].pc \notin {"count"} \cup {"verify"}
                 \/ req[h].pc \in Attempting /\ faults' = faults + 1 /\ req'[h].pc = "idle"
           \* a guess
           \/ /\ UNCHANGED <<lockout, faults>> /\ guesses' = guesses + 1
              /\ req[h].pc = "verify" /\ req'[h].pc = "count"
    PROVE  Guessing'
<1>1. PICK v, c, p, v1, c1, p1, n \in Nat :
             /\ Cardinality(At({"verify"})) = v /\ Cardinality(At({"verify"}))' = v1
             /\ Cardinality(At({"count"})) = c /\ Cardinality(At({"count"}))' = c1
             /\ Cardinality(At({"count", "recount", "lock"})) = p
             /\ Cardinality(At({"count", "recount", "lock"}))' = p1
             /\ Cardinality(Handlers) = n
             /\ c <= p /\ v + p <= n
             /\ v1 + One(req[h].pc = "verify") = v + One(req'[h].pc = "verify")
             /\ c1 + One(req[h].pc = "count") = c + One(req'[h].pc = "count")
             /\ p1 + One(req[h].pc \in {"count", "recount", "lock"})
                  = p + One(req'[h].pc \in {"count", "recount", "lock"})
  BY Counts
<1>2. /\ {guesses, fails, lockedUntil, now, faults} \subseteq Nat
      /\ {guesses', fails', lockedUntil', faults'} \subseteq Nat
      /\ Threshold \in Nat \ {0}
  BY CredentialsAssumption DEF Types
<1>3. Counted'
  BY <1>1, <1>2 DEF Guessing, Counted, lockout, One, Attempting
<1>4. Pending'
  BY <1>1, <1>2 DEF Guessing, Pending, IsAccountLocked, lockout, One, Attempting
<1>5. Barred'
  BY <1>1, <1>2 DEF Guessing, Barred, IsAccountLocked, lockout, One, Attempting
<1> QED
  BY <1>3, <1>4, <1>5 DEF Guessing

(* A login is typed. *)
LEMMA BeginInv ==
    ASSUME Inv, NEW h \in Handlers, NEW for \in {"session", "page"}, Begin(h, for)
    PROVE  Inv'
<1>1. PICK t \in Typed :
         req' = [req EXCEPT ![h] =
                   IF IsAccountLocked THEN Idle ELSE [pc |-> "verify", tried |-> t, for |-> for]]
  BY DEF Begin
<1>2. PICK r : r = IF IsAccountLocked THEN Idle ELSE [pc |-> "verify", tried |-> t, for |-> for]
  OBVIOUS
<1>3. t \in Tried /\ (t.kind = "app" => t.n = app /\ app # 0)
  BY CredentialsAssumption DEF Typed, Wrong, Tried, Inv, Types
<1>4. r \in RequestState /\ r.pc \in {"idle", "verify"}
  BY <1>2, <1>3 DEF RequestState, LoginReq, Attempting, Idle
<1>5. Only(h) /\ req'[h] = r
  BY <1>1, <1>2, <1>4, Becomes DEF Inv
<1>6. req[h].pc = "idle" /\ requests' = requests + 1 /\ requests < MaxRequests
  BY DEF Begin, Accept, Idle
<1>7. Types'
  BY <1>5, <1>6, CredentialsAssumption DEF Begin, Inv, Types, Only, account, lockout, mailed, history
<1>8. Numbers'
  <2>1. Numbered'
    <3>1. password' + address' + fails' <= password + address + fails
      BY DEF Begin, account, lockout, Inv, Types
    <3>2. requests <= requests'
      BY <1>6 DEF Inv, Types
    <3> QED
      BY <1>5, <1>6, <1>7, <3>1, <3>2, NumberedKept DEF Inv, Numbers
  <2>2. Typing'
    <3>1. /\ requests \in Nat /\ app \in Nat /\ app <= requests
          /\ "verify" \notin Passed
      BY DEF Inv, Types, Passed
    <3> SUFFICES ASSUME NEW g \in Handlers
                 PROVE  /\ req'[g].pc = "verify" /\ req'[g].tried.kind = "app"
                             => req'[g].tried.n \in 1..requests'
                        /\ req'[g].pc \in Passed => /\ req'[g].tried.n <= requests'
                                                    /\ req'[g].tried.kind = "app"
                                                         => req'[g].tried.n # 0
      BY DEF Typing
    <3>2. CASE g = h /\ r.pc = "verify"
      <4>1. req'[g].tried = t
        BY <1>2, <1>5, <3>2 DEF Idle
      <4> QED
        BY <1>3, <1>5, <1>6, <3>1, <3>2, <4>1
    <3>3. CASE g = h /\ r.pc = "idle"
      BY <1>5, <3>3 DEF Passed
    <3>4. CASE g # h
      <4>1. req[g].pc \in Passed => req[g].tried.n <= requests /\ req[g].tried.n \in Nat
        BY ReqParts DEF Inv, Numbers, Typing, Types, LoginReq, Tried
      <4>2. req'[g] = req[g]
        BY <1>5, <3>4 DEF Only
      <4> QED
        BY <1>6, <3>1, <4>1, <4>2 DEF Inv, Numbers, Typing
    <3> QED
      BY <1>4, <3>2, <3>3, <3>4
  <2>3. Fresh' /\ Mailed'
    <3>1. /\ req'[h].pc \notin Asking \cup {"check_confirm", "confirm", "check_reset", "set_password"}
          /\ mail' = mail /\ finished' = finished /\ mail \subseteq mail'
          /\ requests <= requests'
      BY <1>4, <1>5, <1>6 DEF Asking, Begin, mailed, history, Inv, Types
    <3> QED
      BY <1>5, <1>7, <3>1, FreshKept, MailedKept DEF Inv, Numbers
  <2> QED
    BY <2>1, <2>2, <2>3 DEF Numbers
<1>9. Guessing'
  <2>1. r.pc = "verify" => ~IsAccountLocked
    BY <1>2 DEF Idle
  <2>2. /\ UNCHANGED <<lockout, guesses>> /\ faults <= faults' /\ now' = now
        /\ req[h].pc \notin Attempting /\ {req[h].pc, req'[h].pc} \subseteq Plain
        /\ req'[h].pc \in {"idle", "verify"}
    BY <1>4, <1>5, <1>6 DEF Begin, history, Inv, Types, Attempting, Plain
  <2> QED
    BY <1>5, <1>6, <1>7, <2>1, <2>2, GuessingMoves DEF Inv
<1> QED
  <2>1. /\ req[h].pc \in Plain /\ req'[h].pc \in Plain /\ requests <= requests'
        /\ UNCHANGED <<account, mailed, sessions, proved, overtaken, straddled, partial,
                       finished, reused>>
    BY <1>4, <1>5, <1>6 DEF Begin, history, Inv, Types, Attempting, Plain
  <2> QED
    BY <1>5, <1>7, <1>8, <1>9, <2>1, PlainStep

(* The shape of the state after a step of a login.                         *)
LEMMA LoginTypes ==
    ASSUME Types, NEW h \in Handlers, Only(h),
           {fails', lockedUntil', faults', guesses'} \subseteq Nat,
           lockedUntil' <= now + LockFor,
           UNCHANGED <<account, mailed, sessions, now, requests>>
    PROVE  Types'
BY DEF Types, Only, account, mailed

(* The steps of a login that leave the account alone. *)
LEMMA LoginStep ==
    ASSUME Inv, NEW h \in Handlers, Only(h), req[h].pc \in Attempting \cup Passed,
           req'[h].pc \in {"idle"} \cup Attempting \cup Passed, Numbered', Guessing',
           \/ req'[h].pc \in {"idle", "count", "recount", "lock"}
           \/ /\ req[h].pc \in Passed \/ Correct(req[h])
              /\ req'[h].tried = req[h].tried /\ req'[h].pc \in Passed,
           Types', UNCHANGED <<account, mailed, sessions, requests, proved, overtaken, straddled, partial,
                       finished, reused>>
    PROVE  Inv'
<1>1. Types'
  OBVIOUS
<1>2. Typing'
  <2>1. CASE req'[h].pc \in {"idle", "count", "recount", "lock"}
    <3>1. req'[h].pc \notin {"verify"} \cup Passed
      BY <2>1 DEF Passed
    <3> QED
      BY <1>1, <3>1, TypingKept DEF Inv, Numbers, Types
  <2>2. CASE /\ req[h].pc \in Passed \/ Correct(req[h])
             /\ req'[h].tried = req[h].tried /\ req'[h].pc \in Passed
    <3>1. req[h].tried.n <= requests /\ (req[h].tried.kind = "app" => req[h].tried.n # 0)
      <4>1. CASE req[h].pc \in Passed
        BY <4>1 DEF Inv, Numbers, Typing
      <4>2. CASE req[h].tried = [kind |-> "account", n |-> password]
        <5>1. /\ {password, address, fails, requests} \subseteq Nat
              /\ Cardinality(Owing) \in Nat
              /\ password + address + fails + Cardinality(Owing) <= requests
          BY OwingMoves DEF Inv, Numbers, Numbered, Types
        <5>2. password <= requests
          BY <5>1
        <5> QED
          BY <4>2, <5>2
      <4>3. CASE app # 0 /\ req[h].tried = [kind |-> "app", n |-> app]
        BY <4>3 DEF Inv, Types
      <4> QED
        BY <2>2, <4>1, <4>2, <4>3 DEF Correct
    <3>2. "verify" \notin Passed
      BY DEF Passed
    <3> QED
      BY <2>2, <3>1, <3>2 DEF Inv, Numbers, Typing, Only
  <2> QED
    BY <2>1, <2>2
<1>3. Fresh' /\ Mailed'
  <2>1. /\ req'[h].pc \notin Asking \cup {"check_confirm", "confirm", "check_reset", "set_password"}
        /\ mail' = mail /\ finished' = finished /\ mail \subseteq mail'
        /\ requests <= requests'
    BY DEF Asking, Attempting, Passed, mailed, Inv, Types
  <2> QED
    BY <1>1, <2>1, FreshKept, MailedKept DEF Inv, Numbers
<1>4. req[h].pc \in Plain /\ req'[h].pc \in Plain /\ requests <= requests'
  BY DEF Plain, Inv, Types
<1> QED
  BY <1>1, <1>2, <1>3, <1>4, PlainStep DEF Numbers

(* A wrong password is a guess and stays counted as one on its way.        *)
LEMMA VerifyPasswordInv ==
    ASSUME Inv, NEW h \in Handlers, VerifyPassword(h)
    PROVE  Inv'
<1>1. /\ {fails, lockedUntil, now, guesses, faults, password, address} \subseteq Nat
      /\ lockedUntil <= now + LockFor
  BY DEF Inv, Types
<1>2. /\ req[h].pc = "verify" /\ "verify" \in Attempting /\ "count" \in Attempting \ Passed
      /\ "clear" \in Passed \ Attempting /\ "idle" \notin Attempting \cup Passed
  BY DEF VerifyPassword, Attempting, Passed
<1>3. UNCHANGED <<account, lockout, mailed, sessions, now, requests, proved, overtaken, straddled,
                  partial, finished, reused, fails, lockedUntil, password, address>>
  BY DEF VerifyPassword, account, lockout
<1>4. /\ Only(h) /\ {guesses', faults'} \subseteq Nat
      /\ \/ /\ Correct(req[h]) /\ faults' = faults /\ guesses' = guesses
            /\ req'[h].pc = "clear" /\ req'[h].tried = req[h].tried
         \/ faults' = faults /\ guesses' = guesses + 1 /\ req'[h].pc = "count"
         \/ faults' = faults + 1 /\ guesses' = guesses /\ req'[h].pc = "idle"
  <2>1. CASE Works /\ Correct(req[h]) /\ Go(h, "clear") /\ guesses' = guesses
    BY <1>1, <1>2, <2>1, LoginGoes DEF Inv, Works
  <2>2. CASE Works /\ Go(h, "count") /\ guesses' = guesses + 1
    BY <1>1, <1>2, <2>2, LoginGoes DEF Inv, Works
  <2>3. CASE Fault /\ Done(h) /\ UNCHANGED guesses
    BY <1>1, <1>2, <2>3, Ends DEF Inv, Fault
  <2> QED
    BY <2>1, <2>2, <2>3 DEF VerifyPassword
<1>5. Types'
  BY <1>1, <1>3, <1>4, LoginTypes DEF Inv
<1>6. Numbered'
  <2>1. ~Owes(req[h])' \/ Owes(req[h])
    BY <1>2 DEF Owes
  <2>2. /\ password' + address' + fails' <= password + address + fails
        /\ requests <= requests'
    BY <1>1, <1>3 DEF Inv, Types
  <2> QED
    BY <1>4, <1>5, <2>1, <2>2, NumberedKept DEF Inv, Numbers
<1>7. Guessing'
  <2>1. req[h].pc \in Plain /\ req'[h].pc \in Plain
    BY <1>2, <1>4 DEF Plain
  <2> QED
    BY <1>1, <1>2, <1>3, <1>4, <1>5, <2>1, GuessingMoves DEF Inv
<1> QED
  BY <1>2, <1>3, <1>4, <1>5, <1>6, <1>7, LoginStep

(* The guess is in the counter; at the threshold every other one is pending. *)
LEMMA IncrementInv ==
    ASSUME Inv, NEW h \in Handlers, IncrementFailedLogins(h)
    PROVE  Inv'
<1>1. /\ {fails, lockedUntil, now, guesses, faults, password, address} \subseteq Nat
      /\ lockedUntil <= now + LockFor
  BY DEF Inv, Types
<1>2. /\ req[h].pc = "count" /\ {"count", "recount"} \subseteq Attempting
  BY DEF IncrementFailedLogins, Attempting
<1>3. UNCHANGED <<account, lockedUntil, mailed, sessions, now, requests, guesses, proved, overtaken,
                  straddled, partial, finished, reused, password, address>>
  BY DEF IncrementFailedLogins, account, history
<1>4. /\ Only(h) /\ {fails', faults'} \subseteq Nat
      /\ \/ fails' = fails + 1 /\ faults' = faults /\ req'[h].pc = "recount"
         \/ fails' = fails /\ faults' = faults + 1 /\ req'[h].pc = "idle"
  <2>1. CASE Works /\ fails' = fails + 1 /\ Go(h, "recount")
    BY <1>1, <1>2, <2>1, LoginGoes DEF Inv, Works
  <2>2. CASE Fault /\ Done(h) /\ UNCHANGED fails
    BY <1>1, <1>2, <2>2, Ends DEF Inv, Fault
  <2> QED
    BY <2>1, <2>2 DEF IncrementFailedLogins
<1>5. Types'
  BY <1>1, <1>3, <1>4, LoginTypes DEF Inv
<1>6. Numbered'
  <2>1. Owes(req[h]) /\ ~Owes(req[h])'
    BY <1>2, <1>4 DEF Owes
  <2>2. /\ password' + address' + fails' <= password + address + fails + 1
        /\ requests <= requests'
    BY <1>1, <1>3, <1>4 DEF Inv, Types
  <2> QED
    BY <1>4, <1>5, <2>1, <2>2, NumberedKept DEF Inv, Numbers
<1>7. Guessing'
  <2>1. PICK v, c, p, v1, c1, p1, n \in Nat :
             /\ Cardinality(At({"verify"})) = v /\ Cardinality(At({"verify"}))' = v1
             /\ Cardinality(At({"count"})) = c /\ Cardinality(At({"count"}))' = c1
             /\ Cardinality(At({"count", "recount", "lock"})) = p
             /\ Cardinality(At({"count", "recount", "lock"}))' = p1
             /\ Cardinality(Handlers) = n
             /\ c <= p /\ v + p <= n
             /\ v1 + One(req[h].pc = "verify") = v + One(req'[h].pc = "verify")
             /\ c1 + One(req[h].pc = "count") = c + One(req'[h].pc = "count")
             /\ p1 + One(req[h].pc \in {"count", "recount", "lock"})
                  = p + One(req'[h].pc \in {"count", "recount", "lock"})
    BY <1>4, Counts
  <2>2. Threshold \in Nat \ {0}
    BY CredentialsAssumption
  <2>3. Counted'
    BY <1>1, <1>2, <1>3, <1>4, <2>1 DEF Inv, Guessing, Counted, One
  <2>4. Pending'
    BY <1>1, <1>2, <1>3, <1>4, <2>1, <2>2
       DEF Inv, Guessing, Counted, Pending, IsAccountLocked, One
  <2>5. Barred'
    BY <1>1, <1>2, <1>3, <1>4, <2>1, <2>2 DEF Inv, Guessing, Barred, IsAccountLocked, One
  <2> QED
    BY <2>3, <2>4, <2>5 DEF Guessing
<1> QED
  BY <1>2, <1>3, <1>4, <1>5, <1>6, <1>7, LoginStep

(* A login leaves without locking only below the threshold.                *)
LEMMA ReadFailedLoginsInv ==
    ASSUME Inv, NEW h \in Handlers, ReadFailedLogins(h)
    PROVE  Inv'
<1>1. /\ {fails, lockedUntil, now, guesses, faults, password, address} \subseteq Nat
      /\ lockedUntil <= now + LockFor
  BY DEF Inv, Types
<1>2. /\ req[h].pc = "recount" /\ {"recount", "lock"} \subseteq Attempting
  BY DEF ReadFailedLogins, Attempting
<1>3. UNCHANGED <<account, lockout, mailed, sessions, now, requests, faults, guesses, proved, overtaken,
                  straddled, partial, finished, reused, password, address, fails, lockedUntil>>
  BY DEF ReadFailedLogins, account, lockout, history
<1>4. Only(h) /\ (req'[h].pc = "lock" \/ (req'[h].pc = "idle" /\ fails < Threshold))
  <2>1. CASE Go(h, "lock")
    BY <1>2, <2>1, LoginGoes DEF Inv
  <2>2. CASE ~Reached(fails) /\ Done(h)
    BY <1>1, <2>2, Ends, CredentialsAssumption DEF Inv, Reached
  <2> QED
    BY <2>1, <2>2 DEF ReadFailedLogins
<1>5. Types'
  BY <1>1, <1>3, <1>4, LoginTypes DEF Inv
<1>6. Numbered'
  <2>1. ~Owes(req[h])'
    BY <1>4 DEF Owes
  <2>2. /\ password' + address' + fails' <= password + address + fails
        /\ requests <= requests'
    BY <1>1, <1>3, <1>4 DEF Inv, Types
  <2> QED
    BY <1>4, <1>5, <2>1, <2>2, NumberedKept DEF Inv, Numbers
<1>7. Guessing'
  <2>1. req[h].pc \in Plain /\ req'[h].pc \in Plain
    BY <1>2, <1>4 DEF Plain, Attempting
  <2>2. faults <= faults'
    BY <1>1, <1>3
  <2> QED
    BY <1>2, <1>3, <1>4, <1>5, <2>1, <2>2, GuessingMoves DEF Inv
<1> QED
  BY <1>2, <1>3, <1>4, <1>5, <1>6, <1>7, LoginStep

(* The lock bars further logins; those past it are among the handlers.     *)
LEMMA LockAccountInv ==
    ASSUME Inv, NEW h \in Handlers, LockAccount(h)
    PROVE  Inv'
<1>1. /\ {fails, lockedUntil, now, guesses, faults, password, address} \subseteq Nat
      /\ lockedUntil <= now + LockFor /\ LockFor \in Nat \ {0} /\ Threshold \in Nat \ {0}
  BY CredentialsAssumption DEF Inv, Types
<1>2. req[h].pc = "lock" /\ "lock" \in Attempting
  BY DEF LockAccount, Attempting
<1>3. UNCHANGED <<account, fails, mailed, sessions, now, requests, guesses, proved, overtaken,
                  straddled, partial, finished, reused, password, address>>
  BY DEF LockAccount, account, history
<1>4. /\ Only(h) /\ req'[h].pc = "idle"
      /\ \/ faults' = faults /\ lockedUntil' = now + LockFor
         \/ faults' = faults + 1 /\ lockedUntil' = lockedUntil
  BY Ends DEF LockAccount, Inv, Works, Fault, Deadline
<1>5. Types'
  <2>1. {fails', lockedUntil', faults', guesses'} \subseteq Nat /\ lockedUntil' <= now + LockFor
    BY <1>1, <1>3, <1>4
  <2> QED
    BY <1>3, <1>4, <2>1, LoginTypes DEF Inv
<1>6. Numbered'
  <2>1. ~Owes(req[h])'
    BY <1>4 DEF Owes
  <2>2. /\ password' + address' + fails' <= password + address + fails
        /\ requests <= requests'
    BY <1>1, <1>3, <1>4 DEF Inv, Types
  <2> QED
    BY <1>4, <1>5, <2>1, <2>2, NumberedKept DEF Inv, Numbers
<1>7. Guessing'
  <2>1. PICK v, c, p, v1, c1, p1, n \in Nat :
             /\ Cardinality(At({"verify"})) = v /\ Cardinality(At({"verify"}))' = v1
             /\ Cardinality(At({"count"})) = c /\ Cardinality(At({"count"}))' = c1
             /\ Cardinality(At({"count", "recount", "lock"})) = p
             /\ Cardinality(At({"count", "recount", "lock"}))' = p1
             /\ Cardinality(Handlers) = n
             /\ c <= p /\ v + p <= n
             /\ v1 + One(req[h].pc = "verify") = v + One(req'[h].pc = "verify")
             /\ c1 + One(req[h].pc = "count") = c + One(req'[h].pc = "count")
             /\ p1 + One(req[h].pc \in {"count", "recount", "lock"})
                  = p + One(req'[h].pc \in {"count", "recount", "lock"})
    BY <1>4, Counts
  <2>2. Counted'
    BY <1>1, <1>2, <1>3, <1>4, <2>1 DEF Inv, Guessing, Counted, One
  <2>3. Pending'
    BY <1>1, <1>2, <1>3, <1>4, <2>1 DEF Inv, Guessing, Pending, IsAccountLocked, One
  <2>4. Barred'
    BY <1>1, <1>2, <1>3, <1>4, <2>1
       DEF Inv, Guessing, Counted, Pending, Barred, IsAccountLocked, One
  <2> QED
    BY <2>2, <2>3, <2>4 DEF Guessing
<1> QED
  BY <1>2, <1>3, <1>4, <1>5, <1>6, <1>7, LoginStep

(* The right password clears the guesses with the counter.                 *)
LEMMA ClearFailedLoginsInv ==
    ASSUME Inv, NEW h \in Handlers, ClearFailedLogins(h)
    PROVE  Inv'
<1>1. /\ {fails, lockedUntil, now, guesses, faults, password, address} \subseteq Nat
      /\ lockedUntil <= now + LockFor /\ LockFor \in Nat \ {0} /\ Threshold \in Nat \ {0}
  BY CredentialsAssumption DEF Inv, Types
<1>2. /\ req[h].pc = "clear" /\ {"clear", "recheck"} \subseteq Passed
      /\ {"idle", "clear", "recheck"} \cap Attempting = {}
  BY DEF ClearFailedLogins, Passed, Attempting
<1>3. UNCHANGED <<account, mailed, sessions, now, requests, proved, overtaken,
                  straddled, partial, finished, reused, password, address>>
  BY DEF ClearFailedLogins, account
<1>4. /\ Only(h)
      /\ req'[h].pc = "idle" \/ (req'[h].pc = "recheck" /\ req'[h].tried = req[h].tried)
      /\ \/ fails' = 0 /\ lockedUntil' = 0 /\ guesses' = 0 /\ faults' = faults
         \/ UNCHANGED <<fails, lockedUntil, guesses>> /\ faults' = faults + 1
  <2>1. CASE Go(h, "recheck") /\ Works /\ fails' = 0 /\ lockedUntil' = 0 /\ guesses' = 0
    BY <1>2, <2>1, LoginGoes DEF Inv, Works
  <2>2. CASE Done(h) /\ Works /\ fails' = 0 /\ lockedUntil' = 0 /\ guesses' = 0
    BY <2>2, Ends DEF Inv, Works
  <2>3. CASE Fault /\ Done(h) /\ UNCHANGED <<lockout, guesses>>
    BY <2>3, Ends DEF Inv, Fault, lockout
  <2> QED
    BY <2>1, <2>2, <2>3 DEF ClearFailedLogins
<1>5. Types'
  <2>1. {fails', lockedUntil', faults', guesses'} \subseteq Nat /\ lockedUntil' <= now + LockFor
    BY <1>1, <1>3, <1>4
  <2> QED
    BY <1>3, <1>4, <2>1, LoginTypes DEF Inv
<1>6. Numbered'
  <2>1. ~Owes(req[h])'
    BY <1>4 DEF Owes
  <2>2. /\ password' + address' + fails' <= password + address + fails
        /\ requests <= requests'
    BY <1>1, <1>3, <1>4 DEF Inv, Types
  <2> QED
    BY <1>4, <1>5, <2>1, <2>2, NumberedKept DEF Inv, Numbers
<1>7. Guessing'
  <2>1. CASE fails' = 0 /\ lockedUntil' = 0 /\ guesses' = 0
    <3>1. Cardinality(At({"count"}))' \in Nat /\ faults' \in Nat /\ now' \in Nat
      BY <1>1, <1>3, <1>4, AtMoves
    <3> QED
      BY <1>1, <2>1, <3>1 DEF Guessing, Counted, Pending, Barred, IsAccountLocked
  <2>2. CASE UNCHANGED <<fails, lockedUntil, guesses>> /\ faults' = faults + 1
    <3>1. UNCHANGED <<lockout, now, guesses>> /\ faults' \in Nat /\ faults <= faults'
      BY <1>1, <1>3, <2>2 DEF lockout
    <3> QED
      BY <1>2, <1>4, <3>1, GuessingKept DEF Inv
  <2> QED
    BY <1>4, <2>1, <2>2
<1> QED
  BY <1>2, <1>3, <1>4, <1>5, <1>6, <1>7, LoginStep

(* The lock is looked at again.                                            *)
LEMMA RecheckLockInv ==
    ASSUME Inv, NEW h \in Handlers, RecheckLock(h)
    PROVE  Inv'
<1>1. /\ {fails, lockedUntil, now, guesses, faults, password, address} \subseteq Nat
      /\ lockedUntil <= now + LockFor
  BY DEF Inv, Types
<1>2. /\ req[h].pc = "recheck" /\ {"recheck", "open"} \subseteq Passed
      /\ {"idle", "recheck", "open"} \cap Attempting = {}
  BY DEF RecheckLock, Passed, Attempting
<1>3. UNCHANGED <<account, lockout, mailed, sessions, now, requests, faults, guesses, proved, overtaken,
                  straddled, partial, finished, reused, password, address, fails, lockedUntil>>
  BY DEF RecheckLock, account, lockout, history
<1>4. /\ Only(h)
      /\ req'[h].pc = "idle" \/ (req'[h].pc = "open" /\ req'[h].tried = req[h].tried)
  BY <1>2, LoginGoes, Ends DEF RecheckLock, Inv
<1>5. Types'
  BY <1>1, <1>3, <1>4, LoginTypes DEF Inv
<1>6. Numbered'
  <2>1. ~Owes(req[h])'
    BY <1>4 DEF Owes
  <2>2. /\ password' + address' + fails' <= password + address + fails
        /\ requests <= requests'
    BY <1>1, <1>3, <1>4 DEF Inv, Types
  <2> QED
    BY <1>4, <1>5, <2>1, <2>2, NumberedKept DEF Inv, Numbers
<1>7. Guessing'
  <2>1. faults' \in Nat /\ faults <= faults'
    BY <1>1, <1>3
  <2> QED
    BY <1>2, <1>3, <1>4, <2>1, GuessingKept DEF Inv
<1> QED
  BY <1>2, <1>3, <1>4, <1>5, <1>6, <1>7, LoginStep

(* A session is opened: one of a former password only beside a reset. *)
LEMMA OpenSessionInv ==
    ASSUME Inv, NEW h \in Handlers, OpenSession(h)
    PROVE  Inv'
<1>1. /\ {fails, lockedUntil, now, guesses, faults, password, address, requests} \subseteq Nat
      /\ lockedUntil <= now + LockFor
  BY DEF Inv, Types
<1>2. /\ req[h].pc = "open" /\ "open" \in Passed
      /\ {"idle", "open"} \cap (Attempting \cup Asking) = {}
  BY DEF OpenSession, Passed, Attempting, Asking
<1>3. UNCHANGED <<account, lockout, mailed, now, requests, guesses, proved, overtaken, partial,
                  finished, reused, password, app, address, fails, lockedUntil, token, mail,
                  confirmed>>
  BY DEF OpenSession, account, lockout, mailed
<1>4. Only(h) /\ req'[h].pc = "idle"
  BY Ends DEF OpenSession, Inv
<1>5. PICK t : t = req[h].tried
  OBVIOUS
<1>6. t \in Tried /\ t.n <= requests /\ (t.kind = "app" => t.n # 0)
  BY <1>2, <1>5, ReqParts DEF Inv, Types, Numbers, Typing, LoginReq
<1>7. \/ /\ sessions' = sessions \cup {CreateTokens(t)} /\ faults' = faults
         /\ straddled' = (straddled \/ ~Current(t) \/ Resetting)
      \/ sessions' = sessions /\ straddled' = straddled /\ faults' = faults + 1
  BY <1>5 DEF OpenSession, Works, Fault
<1>8. Types'
  <2>1. CreateTokens(t) \in [scope : {"access", "app_pass"}, n : Nat]
    BY <1>6 DEF CreateTokens, Tried
  <2>2. sessions' \subseteq [scope : {"access", "app_pass"}, n : Nat]
    BY <1>7, <2>1 DEF Inv, Types
  <2>3. faults' \in Nat
    BY <1>1, <1>7
  <2> QED
    BY <1>3, <1>4, <2>2, <2>3 DEF Inv, Types, Only
<1>9. Numbers'
  <2>1. ~Owes(req[h])'
    BY <1>4 DEF Owes
  <2>2. /\ password' + address' + fails' <= password + address + fails
        /\ requests <= requests'
    BY <1>1, <1>3
  <2>3. Numbered'
    BY <1>4, <1>8, <2>1, <2>2, NumberedKept DEF Inv, Numbers
  <2>4. req'[h].pc \notin {"verify"} \cup Passed \cup Asking
                \cup {"check_confirm", "confirm", "check_reset", "set_password"}
    BY <1>4 DEF Passed, Asking
  <2> QED
    BY <1>3, <1>4, <1>8, <2>2, <2>3, <2>4, NumbersKept DEF Inv
<1>10. Guessing'
  <2>1. faults' \in Nat /\ faults <= faults'
    BY <1>1, <1>7
  <2> QED
    BY <1>2, <1>3, <1>4, <2>1, GuessingKept DEF Inv
<1>11. Proving'
  BY <1>2, <1>3, <1>4, ProvingKept DEF Inv
<1>12. LoggingOut'
  <2>1. CASE sessions' = sessions /\ straddled' = straddled
    BY <1>1, <1>2, <1>3, <1>4, <2>1, LoggingOutKept DEF Inv
  <2>2. CASE /\ sessions' = sessions \cup {CreateTokens(t)}
             /\ straddled' = (straddled \/ ~Current(t) \/ Resetting)
    <3>1. \A s \in sessions' : s.n <= requests'
      BY <1>3, <1>6, <2>2 DEF Inv, LoggingOut, CreateTokens
    <3>2. ASSUME ~straddled, ~partial, Current(t), ~Resetting
          PROVE  Leaving'
      <4>1. Leaving
        BY <3>2 DEF Inv, LoggingOut
      <4>2. \A g \in Handlers : /\ req'[g].pc # "set_password" /\ req'[g].pc # "revoke_app"
                                /\ req[g].pc # "set_password" /\ req[g].pc # "revoke_app"
        BY <1>4, <3>2 DEF Resetting, Busy, Only
      <4>3. /\ ~Changing("set_password", "password") /\ ~Changing("revoke_app", "row")
        BY <4>2 DEF Changing
      <4>4. /\ \A s \in sessions : s.scope = "access" => s.n = password
            /\ \A s \in sessions : s.scope = "app_pass" => s.n # 0 /\ s.n = app
        BY <4>1, <4>3 DEF Leaving
      <4>5. /\ CreateTokens(t).scope = "access" => CreateTokens(t).n = password
            /\ CreateTokens(t).scope = "app_pass" => CreateTokens(t).n # 0 /\ CreateTokens(t).n = app
        BY <1>6, <3>2 DEF Current, CreateTokens, Tried
      <4> QED
        BY <1>3, <2>2, <4>2, <4>4, <4>5 DEF Leaving
    <3> QED
      BY <1>3, <2>2, <3>1, <3>2 DEF LoggingOut
  <2> QED
    BY <1>7, <2>1, <2>2
<1>13. Gone'
  BY <1>3, <1>4, GoneKept DEF Inv
<1> QED
  BY <1>8, <1>9, <1>10, <1>11, <1>12, <1>13 DEF Inv

-----------------------------------------------------------------------------
(* The mailed tokens. *)

(* A request ends early. *)
LEMMA GivesUpInv ==
    ASSUME Inv, NEW h \in Handlers, Done(h), req[h].pc \notin Attempting,
           UNCHANGED <<account, lockout, mailed, sessions, now, requests, guesses, proved,
                       finished, reused>>,
           faults' \in Nat, faults <= faults',
           straddled => straddled', partial => partial',
           overtaken \/ req[h].pc = "set_email" => overtaken',
           req[h].pc \in {"set_password", "revoke_app"} => partial'
    PROVE  Inv'
<1>1. {password, address, fails, requests} \subseteq Nat
  BY DEF Inv, Types
<1>2. UNCHANGED <<password, app, address, fails, lockedUntil, token, mail, confirmed>>
  BY DEF account, lockout, mailed
<1>3. Only(h) /\ req'[h].pc = "idle" /\ "idle" \notin Attempting \cup Passed \cup Asking \cup Joining
  BY Ends DEF Inv, Attempting, Passed, Asking, Joining
<1>4. Types'
  BY <1>2, <1>3 DEF Inv, Types, Only
<1>5. Numbers'
  <2>1. ~Owes(req[h])'
    BY <1>3 DEF Owes
  <2>2. /\ password' + address' + fails' <= password + address + fails
        /\ requests <= requests'
    BY <1>1, <1>2
  <2>3. Numbered'
    BY <1>3, <1>4, <2>1, <2>2, NumberedKept DEF Inv, Numbers
  <2> QED
    BY <1>2, <1>3, <1>4, <2>2, <2>3, NumbersKept DEF Inv
<1>6. Guessing'
  BY <1>3, GuessingKept DEF Inv
<1>7. Proving'
  <2>1. ASSUME Good, Addressed, req[h].pc # "set_email"
        PROVE  Good' /\ Addressed'
    <3>1. Replacing => Replacing'
      BY <1>3, <2>1 DEF Replacing, Only
    <3>2. Good'
      BY <1>2, <2>1, <3>1 DEF Good
    <3>3. \A g \in Handlers : req'[g] = req[g] \/ (g = h /\ req'[g].pc = "idle")
      BY <1>3 DEF Only
    <3>4. Busy(Asking \cup {"confirm"})' => Busy(Asking \cup {"confirm"})
      BY <1>3, <3>3 DEF Busy
    <3>5. Addressed'
      BY <1>2, <1>3, <2>1, <3>3, <3>4 DEF Addressed, Begun
    <3> QED
      BY <3>2, <3>5
  <2> QED
    BY <2>1 DEF Inv, Proving
<1>8. LoggingOut'
  <2>1. CASE req[h].pc \in {"set_password", "revoke_app"}
    BY <1>1, <1>2, <2>1 DEF Inv, LoggingOut
  <2>2. CASE req[h].pc \notin {"set_password", "revoke_app"}
    <3>1. requests' \in Nat /\ requests <= requests'
      BY <1>1, <1>2
    <3> QED
      BY <1>2, <1>3, <2>2, <3>1, LoggingOutKept DEF Inv
  <2> QED
    BY <2>1, <2>2
<1>9. Gone'
  BY <1>2, <1>3, GoneKept DEF Inv
<1> QED
  BY <1>4, <1>5, <1>6, <1>7, <1>8, <1>9 DEF Inv

(* A new token is asked for the address the account has.                   *)
LEMMA RequestTokenInv ==
    ASSUME Inv, NEW h \in Handlers, NEW p \in Purposes, RequestToken(h, p)
    PROVE  Inv'
<1>1. /\ {fails, lockedUntil, now, guesses, faults, password, address, requests, MaxRequests} \subseteq Nat
      /\ lockedUntil <= now + LockFor
  BY CredentialsAssumption DEF Inv, Types
<1>2. /\ req[h].pc = "idle" /\ requests' = requests + 1 /\ requests < MaxRequests
      /\ {"idle", "token"} \cap (Attempting \cup Passed \cup Joining) = {} /\ "token" \in Asking
      /\ "idle" \notin Asking
      /\ "token" \notin {"check_confirm", "confirm", "check_reset", "set_password"}
  BY DEF RequestToken, Idle, Accept, Passed, Attempting, Asking, Joining
<1>3. UNCHANGED <<account, lockout, mailed, sessions, now, faults, guesses, proved, straddled,
                  partial, finished, reused, password, app, address, fails, lockedUntil, token,
                  mail, confirmed>>
  BY DEF RequestToken, account, lockout, mailed
<1>4. PICK r : r = [pc |-> "token", purpose |-> p, to |-> address, id |-> requests + 1]
  OBVIOUS
<1>5. r \in TokenReq /\ r.pc = "token" /\ r.to = address /\ r.id = requests + 1
  BY <1>1, <1>4 DEF TokenReq, Asking
<1>6. Only(h) /\ req'[h] = r
  <2>1. r \in RequestState
    BY <1>5 DEF RequestState
  <2>2. req' = [req EXCEPT ![h] = r]
    BY <1>4 DEF RequestToken, RandomToken
  <2> QED
    BY <2>1, <2>2, Becomes DEF Inv
<1>7. Types'
  BY <1>1, <1>2, <1>3, <1>6 DEF Inv, Types, Only
<1>8. Numbers'
  <2>1. ~Owes(req[h])'
    BY <1>5, <1>6 DEF Owes
  <2>2. /\ password' + address' + fails' <= password + address + fails
        /\ requests <= requests'
    BY <1>1, <1>2, <1>3
  <2>3. Numbered'
    BY <1>6, <1>7, <2>1, <2>2, NumberedKept DEF Inv, Numbers
  <2>4. Typing'
    BY <1>2, <1>5, <1>6, <1>7, <2>2, TypingKept DEF Inv, Numbers
  <2>5. Mailed'
    BY <1>2, <1>3, <1>5, <1>6, MailedKept DEF Inv, Numbers
  <2>6. Fresh'
    <3>1. /\ \A m \in mail : m.id \in 1..requests
          /\ \A g \in Handlers : req[g].pc \in Asking => req[g].id \in 1..requests
      BY DEF Inv, Types, Numbers, Fresh
    <3>2. requests + 1 \notin 1..requests
      BY <1>1
    <3>3. /\ r.id \in 1..requests' /\ \A m \in mail' : m.id # r.id
          /\ \A g \in Handlers : g # h /\ req'[g].pc \in Asking => req'[g].id # r.id
      BY <1>1, <1>2, <1>3, <1>5, <1>6, <3>1, <3>2 DEF Only
    <3>4. \A g \in Handlers : g # h => req'[g] = req[g]
      BY <1>6 DEF Only
    <3>5. 1..requests \subseteq 1..requests'
      BY <1>1, <1>2
    <3> QED
      BY <1>3, <1>6, <3>3, <3>4, <3>5 DEF Inv, Numbers, Fresh
  <2> QED
    BY <2>3, <2>4, <2>5, <2>6 DEF Numbers
<1>9. Guessing'
  BY <1>1, <1>2, <1>3, <1>5, <1>6, GuessingKept DEF Inv
<1>10. Proving'
  <2>1. overtaken' = (overtaken \/ Busy({"set_email"}))
    BY DEF RequestToken
  <2>2. ASSUME Good, Addressed, ~Busy({"set_email"})
        PROVE  Good' /\ Addressed'
    <3>1. \A g \in Handlers : req[g].pc # "set_email" /\ req'[g].pc # "set_email"
      BY <1>5, <1>6, <2>2 DEF Busy, Only
    <3>2. ~Replacing
      BY <3>1 DEF Replacing
    <3>3. Good'
      BY <1>3, <2>2, <3>2 DEF Good
    <3>4. Addressed'
      BY <1>3, <1>5, <1>6, <2>2, <3>1 DEF Addressed, Only, Begun
    <3> QED
      BY <3>3, <3>4
  <2> QED
    BY <2>1, <2>2 DEF Inv, Proving
<1>11. LoggingOut'
  BY <1>1, <1>2, <1>3, <1>5, <1>6, LoggingOutKept DEF Inv, Joining
<1>12. Gone'
  BY <1>3, <1>5, <1>6, GoneKept DEF Inv
<1> QED
  BY <1>7, <1>8, <1>9, <1>10, <1>11, <1>12 DEF Inv

(* The row of a purpose is replaced by a token that is in no mailbox yet.  *)
LEMMA CreateEmailTokenInv ==
    ASSUME Inv, NEW h \in Handlers, CreateEmailToken(h)
    PROVE  Inv'
<1>1. /\ {fails, lockedUntil, now, guesses, faults, password, address, requests} \subseteq Nat
      /\ lockedUntil <= now + LockFor
  BY DEF Inv, Types
<1>2. /\ req[h].pc = "token" /\ {"token", "mail"} \subseteq Asking
      /\ {"idle", "token", "mail"} \cap (Attempting \cup Passed \cup Joining) = {}
      /\ "idle" \notin Asking
  BY DEF CreateEmailToken, Passed, Attempting, Asking, Joining
<1>3. UNCHANGED <<account, lockout, mail, sessions, now, requests, guesses, proved, overtaken,
                  straddled, partial, finished, reused, password, app, address, fails, lockedUntil,
                  confirmed>>
  BY DEF CreateEmailToken, account, lockout, history
<1>4. req[h] \in TokenReq /\ req[h].id \in 1..requests /\ \A m \in mail : m.id # req[h].id
  BY <1>2, ReqParts DEF Inv, Types, Numbers, Fresh
<1>5. CASE Fault /\ Done(h) /\ UNCHANGED token
  <2>1. faults' \in Nat /\ faults <= faults'
    BY <1>1, <1>3, <1>5 DEF Fault, Inv, Types
  <2> QED
    BY <1>2, <1>3, <1>5, <2>1, GivesUpInv DEF Joining, mailed
<1>6. CASE /\ Works /\ Go(h, "mail")
           /\ token' = [token EXCEPT ![req[h].purpose] = [id |-> req[h].id, at |-> now]]
  <2>1. /\ Only(h) /\ req'[h].pc = "mail" /\ req'[h].to = req[h].to /\ req'[h].id = req[h].id
        /\ faults' = faults
    BY <1>2, <1>6, TokenGoes DEF Inv, Works
  <2>2. PICK e : e = [id |-> req[h].id, at |-> now]
    OBVIOUS
  <2>3. e \in [id : Nat, at : Nat] /\ e.id = req[h].id /\ e.at = now
    BY <1>1, <1>4, <2>2
  <2>4. /\ token' \in [Purposes -> [id : Nat, at : Nat]]
        /\ \A p \in Purposes : token'[p] = IF p = req[h].purpose THEN e ELSE token[p]
    BY <1>4, <1>6, <2>2, <2>3 DEF Inv, Types, TokenReq
  <2>5. Types'
    BY <1>1, <1>3, <1>4, <2>1, <2>3, <2>4 DEF Inv, Types, Only
  <2>6. Numbers'
    <3>1. ~Owes(req[h])'
      BY <2>1 DEF Owes
    <3>2. /\ password' + address' + fails' <= password + address + fails
          /\ requests <= requests'
      BY <1>1, <1>3
    <3>3. Numbered'
      BY <2>1, <2>5, <3>1, <3>2, NumberedKept DEF Inv, Numbers
    <3>4. Typing'
      BY <1>2, <2>1, <2>5, <3>2, TypingKept DEF Inv, Numbers
    <3>5. Mailed'
      BY <1>3, <2>1, MailedKept DEF Inv, Numbers
    <3>6. Fresh'
      <4>1. \A g \in Handlers : /\ req'[g].pc \in Asking <=> req[g].pc \in Asking
                                /\ req'[g].pc \in Asking => req'[g].id = req[g].id
        BY <1>2, <2>1 DEF Only
      <4> QED
        BY <1>3, <4>1 DEF Inv, Numbers, Fresh
    <3> QED
      BY <3>3, <3>4, <3>5, <3>6 DEF Numbers
  <2>7. Guessing'
    BY <1>1, <1>2, <1>3, <2>1, GuessingKept DEF Inv
  <2>8. Proving'
    <3>1. ASSUME Good, Addressed
          PROVE  Good' /\ Addressed'
      <4>1. Replacing => Replacing'
        BY <1>2, <2>1 DEF Replacing, Only
      <4>2. "confirm_email" \in Purposes
        BY DEF Purposes
      <4>3. Good'
        BY <1>3, <1>4, <2>3, <2>4, <3>1, <4>1, <4>2 DEF Good
      <4>4. Busy(Asking \cup {"confirm"})
        BY <1>2 DEF Busy
      <4>5. \A g \in Handlers : ~Begun(req[g])
        BY <3>1, <4>4 DEF Addressed
      <4>6. \A g \in Handlers : req'[g] = req[g] \/ (g = h /\ req'[g].pc = "mail")
        BY <2>1 DEF Only
      <4>7. \A g \in Handlers : ~Begun(req[g])' /\ ~(req'[g].pc = "set_email" /\ "token" \notin req'[g].left)
        BY <1>2, <4>5, <4>6 DEF Begun
      <4>8. Addressed'
        BY <1>2, <1>3, <2>1, <3>1, <4>6, <4>7 DEF Addressed
      <4> QED
        BY <4>3, <4>8
    <3> QED
      BY <1>3, <3>1 DEF Inv, Proving
  <2>9. LoggingOut'
    BY <1>1, <1>2, <1>3, <2>1, LoggingOutKept DEF Inv
  <2>10. Gone'
    <3>1. /\ \A g \in Handlers : req[g].pc = "set_password" => req[g].id # req[h].id
          /\ \A i \in finished : i # req[h].id
      BY <1>4 DEF Inv, Numbers, Mailed
    <3>2. "reset_password" \in Purposes
      BY DEF Purposes
    <3>3. \A g \in Handlers : req'[g].pc = "set_password" => req'[g] = req[g]
      BY <2>1 DEF Only
    <3> QED
      BY <1>3, <2>3, <2>4, <3>1, <3>2, <3>3 DEF Inv, Gone
  <2> QED
    BY <2>5, <2>6, <2>7, <2>8, <2>9, <2>10 DEF Inv
<1> QED
  BY <1>5, <1>6 DEF CreateEmailToken

(* The token arrives at the address that was read.                         *)
LEMMA SendMailInv ==
    ASSUME Inv, NEW h \in Handlers, SendMail(h)
    PROVE  Inv'
<1>1. /\ {fails, lockedUntil, now, guesses, faults, password, address, requests} \subseteq Nat
      /\ lockedUntil <= now + LockFor
  BY DEF Inv, Types
<1>2. /\ req[h].pc = "mail" /\ "mail" \in Asking
      /\ {"idle", "mail"} \cap (Attempting \cup Passed \cup Joining) = {}
      /\ "idle" \notin Asking
  BY DEF SendMail, Passed, Attempting, Asking, Joining
<1>3. UNCHANGED <<account, lockout, token, sessions, now, requests, guesses, proved, overtaken,
                  straddled, partial, finished, reused, password, app, address, fails, lockedUntil,
                  confirmed>>
  BY DEF SendMail, account, lockout, history
<1>4. req[h] \in TokenReq /\ req[h].id \in 1..requests
  BY <1>2, ReqParts DEF Inv, Types, Numbers, Fresh
<1>5. CASE Fault /\ UNCHANGED mail
  <2>1. faults' \in Nat /\ faults <= faults'
    BY <1>1, <1>5 DEF Fault
  <2> QED
    BY <1>2, <1>3, <1>5, <2>1, GivesUpInv DEF Joining, mailed, SendMail
<1>6. CASE Works /\ mail' = mail \cup {[purpose |-> req[h].purpose, id |-> req[h].id,
                                        to |-> req[h].to]}
  <2>1. Only(h) /\ req'[h].pc = "idle" /\ faults' = faults
    BY <1>6, Ends DEF Inv, Works, SendMail
  <2>2. PICK e : e = [purpose |-> req[h].purpose, id |-> req[h].id, to |-> req[h].to]
    OBVIOUS
  <2>3. /\ e \in Letter /\ e.id = req[h].id /\ e.to = req[h].to
        /\ mail' = mail \cup {e}
    BY <1>1, <1>4, <1>6, <2>2 DEF Letter, TokenReq
  <2>4. Types'
    BY <1>1, <1>3, <1>4, <2>1, <2>3 DEF Inv, Types, Only
  <2>5. Numbers'
    <3>1. ~Owes(req[h])'
      BY <2>1 DEF Owes
    <3>2. /\ password' + address' + fails' <= password + address + fails
          /\ requests <= requests'
      BY <1>1, <1>3
    <3>3. Numbered'
      BY <2>1, <2>4, <3>1, <3>2, NumberedKept DEF Inv, Numbers
    <3>4. Typing'
      BY <1>2, <2>1, <2>4, <3>2, TypingKept DEF Inv, Numbers
    <3>5. Mailed'
      BY <1>3, <2>1, <2>3, MailedKept DEF Inv, Numbers
    <3>6. Fresh'
      BY <1>2, <1>3, <2>1, <2>3 DEF Inv, Numbers, Fresh, Only
    <3> QED
      BY <3>3, <3>4, <3>5, <3>6 DEF Numbers
  <2>6. Guessing'
    BY <1>1, <1>2, <1>3, <2>1, GuessingKept DEF Inv
  <2>7. Proving'
    <3>1. ASSUME Good, Addressed
          PROVE  Good' /\ Addressed'
      <4>1. Replacing => Replacing'
        BY <1>2, <2>1 DEF Replacing, Only
      <4>2. req[h].to = address
        BY <1>2, <3>1 DEF Addressed
      <4>3. Good'
        BY <1>3, <2>3, <3>1, <4>1, <4>2 DEF Good
      <4>4. \A g \in Handlers : req'[g] = req[g] \/ (g = h /\ req'[g].pc = "idle")
        BY <2>1 DEF Only
      <4>5. Busy(Asking \cup {"confirm"})' => Busy(Asking \cup {"confirm"})
        BY <1>2, <4>4 DEF Busy
      <4>6. Addressed'
        BY <1>2, <1>3, <3>1, <4>4, <4>5 DEF Addressed, Begun
      <4> QED
        BY <4>3, <4>6
    <3> QED
      BY <1>3, <3>1 DEF Inv, Proving
  <2>8. LoggingOut'
    BY <1>1, <1>2, <1>3, <2>1, LoggingOutKept DEF Inv
  <2>9. Gone'
    BY <1>3, <2>1, GoneKept DEF Inv
  <2> QED
    BY <2>4, <2>5, <2>6, <2>7, <2>8, <2>9 DEF Inv
<1> QED
  BY <1>5, <1>6 DEF SendMail

(* A mailed token is presented.                                            *)
LEMMA ConfirmEmailInv ==
    ASSUME Inv, NEW h \in Handlers, ConfirmEmail(h)
    PROVE  Inv'
<1>1. {fails, lockedUntil, now, guesses, faults, password, address, requests, MaxRequests} \subseteq Nat
  BY CredentialsAssumption DEF Inv, Types
<1>2. /\ req[h].pc = "idle" /\ requests' = requests + 1 /\ requests < MaxRequests
      /\ {"idle", "check_confirm"} \cap (Attempting \cup Passed \cup Joining \cup Asking) = {}
  BY DEF ConfirmEmail, Idle, Accept, Passed, Attempting, Asking, Joining
<1>3. UNCHANGED <<account, lockout, mailed, sessions, now, faults, history, guesses, proved, overtaken,
                  straddled, partial, finished, reused, password, app, address, fails, lockedUntil,
                  token, mail, confirmed>>
  BY DEF ConfirmEmail, account, lockout, mailed, history
<1>4. PICK m \in mail : /\ m.purpose = "confirm_email"
                        /\ req' = [req EXCEPT ![h] = [pc |-> "check_confirm", m |-> m]]
  BY DEF ConfirmEmail
<1>5. PICK r : r = [pc |-> "check_confirm", m |-> m]
  OBVIOUS
<1>6. r \in CheckReq /\ r.pc = "check_confirm" /\ r.m = m
  BY <1>5 DEF CheckReq, Inv, Types
<1>7. Only(h) /\ req'[h] = r
  <2>1. r \in RequestState
    BY <1>6 DEF RequestState
  <2> QED
    BY <1>4, <1>5, <2>1, Becomes DEF Inv
<1>8. Types'
  BY <1>1, <1>2, <1>3, <1>7 DEF Inv, Types, Only
<1>9. Numbers'
  <2>1. ~Owes(req[h])'
    BY <1>6, <1>7 DEF Owes
  <2>2. /\ password' + address' + fails' <= password + address + fails
        /\ requests <= requests'
    BY <1>1, <1>2, <1>3
  <2>3. Numbered'
    BY <1>7, <1>8, <2>1, <2>2, NumberedKept DEF Inv, Numbers
  <2>4. Typing'
    BY <1>2, <1>6, <1>7, <1>8, <2>2, TypingKept DEF Inv, Numbers
  <2>5. Fresh'
    BY <1>2, <1>3, <1>6, <1>7, <1>8, <2>2, FreshKept DEF Inv, Numbers
  <2>6. Mailed'
    BY <1>3, <1>4, <1>6, <1>7 DEF Inv, Numbers, Mailed, Only
  <2> QED
    BY <2>3, <2>4, <2>5, <2>6 DEF Numbers
<1>10. Guessing'
  BY <1>1, <1>2, <1>3, <1>6, <1>7, GuessingKept DEF Inv
<1> QED
  <2>1. req[h].pc \in Plain /\ req'[h].pc \in Plain /\ requests <= requests'
    BY <1>1, <1>2, <1>6, <1>7 DEF Plain
  <2> QED
    BY <1>3, <1>7, <1>8, <1>9, <1>10, <2>1, PlainStep

(* A token that passes the check was mailed to the address. *)
LEMMA CheckConfirmInv ==
    ASSUME Inv, NEW h \in Handlers, CheckConfirm(h)
    PROVE  Inv'
<1>1. {fails, lockedUntil, now, guesses, faults, password, address, requests} \subseteq Nat
  BY DEF Inv, Types
<1>2. /\ req[h].pc = "check_confirm"
      /\ {"check_confirm", "confirm"} \cap (Attempting \cup Passed \cup Asking) = {}
      /\ "check_confirm" \notin Joining
  BY DEF CheckConfirm, Passed, Attempting, Asking, Joining
<1>3. UNCHANGED <<account, lockout, mailed, sessions, now, requests, faults, guesses, proved,
                  straddled, partial, finished, reused, password, app, address, fails, lockedUntil,
                  token, mail, confirmed>>
  BY DEF CheckConfirm, account, lockout, mailed
<1>4. overtaken' = (overtaken \/ Busy({"set_email"}))
  BY DEF CheckConfirm
<1>5. CASE Done(h)
  <2>1. faults' \in Nat /\ faults <= faults'
    BY <1>1, <1>3, <1>4
  <2> QED
    BY <1>2, <1>3, <1>4, <1>5, <2>1, GivesUpInv DEF Joining
<1>6. CASE /\ ValidToken("confirm_email", req[h].m.id)
           /\ req' = [req EXCEPT ![h] = [pc |-> "confirm", m |-> req[h].m,
                                         left |-> {"token", "account"}]]
  <2>1. PICK r : r = [pc |-> "confirm", m |-> req[h].m, left |-> {"token", "account"}]
    OBVIOUS
  <2>2. r \in ConfirmReq /\ r.pc = "confirm" /\ r.m = req[h].m
    BY <1>2, <2>1, ReqParts DEF ConfirmReq, CheckReq, Inv, Types
  <2>3. Only(h) /\ req'[h] = r
    <3>1. r \in RequestState
      BY <2>2 DEF RequestState
    <3> QED
      BY <1>6, <2>1, <3>1, Becomes DEF Inv
  <2>4. Types'
    BY <1>1, <1>3, <2>3 DEF Inv, Types, Only
  <2>5. Numbers'
    <3>1. ~Owes(req[h])'
      BY <2>2, <2>3 DEF Owes
    <3>2. /\ password' + address' + fails' <= password + address + fails
          /\ requests <= requests'
      BY <1>1, <1>3
    <3>3. Numbered'
      BY <2>3, <2>4, <3>1, <3>2, NumberedKept DEF Inv, Numbers
    <3>4. Typing'
      BY <1>2, <2>2, <2>3, <2>4, <3>2, TypingKept DEF Inv, Numbers
    <3>5. Fresh'
      BY <1>2, <1>3, <2>2, <2>3, <2>4, <3>2, FreshKept DEF Inv, Numbers
    <3>6. Mailed'
      BY <1>2, <1>3, <2>2, <2>3 DEF Inv, Numbers, Mailed, Only
    <3> QED
      BY <3>3, <3>4, <3>5, <3>6 DEF Numbers
  <2>6. Guessing'
    BY <1>1, <1>2, <1>3, <2>2, <2>3, GuessingKept DEF Inv
  <2>7. Proving'
    <3>1. ASSUME Good, Addressed, ~Busy({"set_email"})
          PROVE  Good' /\ Addressed'
      <4>1. \A g \in Handlers : req[g].pc # "set_email" /\ req'[g].pc # "set_email"
        BY <2>2, <2>3, <3>1 DEF Busy, Only
      <4>2. ~Replacing
        BY <4>1 DEF Replacing
      <4>3. Good'
        BY <1>3, <3>1, <4>2 DEF Good
      <4>4. req[h].m \in mail /\ req[h].m.purpose = "confirm_email"
        BY <1>2 DEF Inv, Numbers, Mailed
      <4>5. req[h].m.to = address
        BY <1>6, <3>1, <4>2, <4>4 DEF Good, ValidToken
      <4>6. Addressed'
        BY <1>2, <1>3, <2>2, <2>3, <3>1, <4>1, <4>5 DEF Addressed, Only, Begun
      <4> QED
        BY <4>3, <4>6
    <3> QED
      BY <1>4, <3>1 DEF Inv, Proving
  <2>8. LoggingOut'
    BY <1>1, <1>2, <1>3, <2>2, <2>3, LoggingOutKept DEF Inv
  <2>9. Gone'
    BY <1>3, <2>2, <2>3, GoneKept DEF Inv
  <2> QED
    BY <2>4, <2>5, <2>6, <2>7, <2>8, <2>9 DEF Inv
<1> QED
  BY <1>5, <1>6 DEF CheckConfirm

(* No change of address is half done while a confirmation is stored.       *)
LEMMA SetConfirmedInv ==
    ASSUME Inv, NEW h \in Handlers, SetConfirmed(h)
    PROVE  Inv'
<1>1. {fails, lockedUntil, now, guesses, faults, password, address, requests} \subseteq Nat
  BY DEF Inv, Types
<1>2. /\ req[h].pc = "confirm" /\ "confirm" \in Joining
      /\ {"idle", "confirm"} \cap (Attempting \cup Passed \cup Asking) = {}
  BY DEF SetConfirmed, Passed, Attempting, Asking, Joining
<1>3. UNCHANGED <<lockout, sessions, now, requests, guesses, overtaken, straddled, partial, finished,
                  reused, password, app, address, fails, lockedUntil, mail>>
  BY DEF SetConfirmed, lockout
<1>4. CASE Fault /\ Done(h) /\ UNCHANGED <<confirmed, token, proved>>
  <2>1. faults' \in Nat /\ faults <= faults'
    BY <1>1, <1>4 DEF Fault
  <2> QED
    BY <1>2, <1>3, <1>4, <2>1, GivesUpInv DEF account, mailed
<1>5. ASSUME NEW s \in {"token", "account"}, Works, Joined(h, s),
             \/ s = "token" /\ token' = DeleteEmailToken("confirm_email") /\ UNCHANGED <<confirmed, proved>>
             \/ /\ s = "account" /\ UNCHANGED token /\ confirmed' = TRUE
                /\ proved' = proved \cup {req[h].m.to}
      PROVE  Inv'
  <2>1. /\ Only(h)
        /\ \/ req'[h].pc = "idle"
           \/ req'[h].pc = "confirm" /\ req'[h].m = req[h].m
    BY <1>2, <1>5, Joins DEF Inv
  <2>2. faults' = faults
    BY <1>5 DEF Works
  <2>3. /\ token' \in [Purposes -> [id : Nat, at : Nat]] /\ "confirm_email" \in Purposes
        /\ \A p \in Purposes : token'[p] = token[p] \/ (p = "confirm_email" /\ token'[p] = NoToken)
        /\ NoToken.id = 0 /\ NoToken.at = 0
    BY <1>5 DEF DeleteEmailToken, NoToken, Inv, Types, Purposes
  <2>4. Types'
    <3>1. \A p \in Purposes : token'[p].id <= requests' /\ token'[p].at <= now'
      BY <1>1, <1>3, <2>3 DEF Inv, Types
    <3> QED
      BY <1>1, <1>3, <1>5, <2>1, <2>2, <2>3, <3>1 DEF Inv, Types, Only
  <2>5. Numbers'
    <3>1. ~Owes(req[h])'
      BY <2>1 DEF Owes
    <3>2. /\ password' + address' + fails' <= password + address + fails
          /\ requests <= requests'
      BY <1>1, <1>3
    <3>3. Numbered'
      BY <2>1, <2>4, <3>1, <3>2, NumberedKept DEF Inv, Numbers
    <3>4. Typing'
      BY <1>2, <2>1, <2>4, <3>2, TypingKept DEF Inv, Numbers
    <3>5. Fresh'
      BY <1>2, <1>3, <2>1, <2>4, <3>2, FreshKept DEF Inv, Numbers
    <3>6. Mailed'
      BY <1>2, <1>3, <2>1 DEF Inv, Numbers, Mailed, Only
    <3> QED
      BY <3>3, <3>4, <3>5, <3>6 DEF Numbers
  <2>6. Guessing'
    BY <1>1, <1>2, <1>3, <2>1, <2>2, GuessingKept DEF Inv
  <2>7. Proving'
    <3>1. ASSUME Good, Addressed
          PROVE  Good' /\ Addressed'
      <4>1. Replacing => Replacing'
        BY <1>2, <2>1 DEF Replacing, Only
      <4>2. \A m \in mail : m.id # 0
        BY <1>1 DEF Inv, Types
      <4>3. Good'
        BY <1>3, <2>3, <3>1, <4>1, <4>2 DEF Good
      <4>4. Busy(Asking \cup {"confirm"})
        BY <1>2 DEF Busy
      <4>5. \A g \in Handlers : ~Begun(req[g])
        BY <3>1, <4>4 DEF Addressed
      <4>6. \A g \in Handlers : ~Begun(req[g])' /\ ~(req'[g].pc = "set_email" /\ "token" \notin req'[g].left)
        BY <1>2, <2>1, <4>5 DEF Begun, Only
      <4>7. req[h].m.to = address
        BY <1>2, <3>1 DEF Addressed
      <4>8. confirmed' => address' \in proved'
        BY <1>3, <1>5, <3>1, <4>7 DEF Addressed
      <4>9. Addressed'
        BY <1>2, <1>3, <2>1, <3>1, <4>6, <4>7, <4>8 DEF Addressed, Only
      <4> QED
        BY <4>3, <4>9
    <3> QED
      BY <1>3, <3>1 DEF Inv, Proving
  <2>8. LoggingOut'
    BY <1>1, <1>2, <1>3, <2>1, LoggingOutKept DEF Inv
  <2>9. Gone'
    <3>1. token'["reset_password"] = token["reset_password"]
      BY <2>3 DEF Purposes
    <3>2. \A g \in Handlers : req'[g].pc = "set_password" => req'[g] = req[g]
      BY <2>1 DEF Only
    <3> QED
      BY <1>3, <3>1, <3>2 DEF Inv, Gone
  <2> QED
    BY <2>4, <2>5, <2>6, <2>7, <2>8, <2>9 DEF Inv
<1> QED
  BY <1>4, <1>5 DEF SetConfirmed, SetEmailConfirmedAt

-----------------------------------------------------------------------------
(* The change of address. *)

LEMMA UpdateEmailInv ==
    ASSUME Inv, NEW h \in Handlers, UpdateEmail(h)
    PROVE  Inv'
<1>1. {fails, lockedUntil, now, guesses, faults, password, address, requests, MaxRequests} \subseteq Nat
  BY CredentialsAssumption DEF Inv, Types
<1>2. /\ req[h].pc = "idle" /\ requests' = requests + 1 /\ requests < MaxRequests
      /\ {"idle", "check_update", "set_email"} \cap (Attempting \cup Passed \cup Asking) = {}
      /\ {"idle", "check_update"} \cap Joining = {}
  BY DEF UpdateEmail, Idle, Accept, Passed, Attempting, Asking, Joining
<1>3. UNCHANGED <<account, lockout, mailed, sessions, now, faults, guesses, proved, overtaken,
                  straddled, partial, finished, reused, password, app, address, fails, lockedUntil,
                  token, mail, confirmed>>
  BY DEF UpdateEmail, account, lockout, mailed, history
<1>4. PICK r \in RequestState :
         /\ req' = [req EXCEPT ![h] = r]
         /\ r.pc = "check_update" \/ (r.pc = "set_email" /\ r.left = {"token", "account"})
  <2>1. CASE req' = [req EXCEPT ![h] = [pc |-> "set_email", left |-> {"token", "account"}]]
    <3>1. PICK r : r = [pc |-> "set_email", left |-> {"token", "account"}]
      OBVIOUS
    <3>2. r \in RequestState
      BY <3>1 DEF UpdateReq, RequestState
    <3> QED
      BY <2>1, <3>1, <3>2
  <2>2. ASSUME NEW m \in mail, req' = [req EXCEPT ![h] = [pc |-> "check_update", m |-> m]]
        PROVE  \E r \in RequestState :
                 /\ req' = [req EXCEPT ![h] = r]
                 /\ r.pc = "check_update" \/ (r.pc = "set_email" /\ r.left = {"token", "account"})
    <3>1. PICK r : r = [pc |-> "check_update", m |-> m]
      OBVIOUS
    <3>2. r \in CheckReq
      BY <3>1 DEF CheckReq, Inv, Types
    <3>3. r \in RequestState
      BY <3>2 DEF RequestState
    <3> QED
      BY <2>2, <3>1, <3>3
  <2> QED
    BY <2>1, <2>2 DEF UpdateEmail
<1>5. Only(h) /\ req'[h] = r
  BY <1>4, Becomes DEF Inv
<1>6. Types'
  BY <1>1, <1>2, <1>3, <1>5 DEF Inv, Types, Only
<1>7. Numbers'
  <2>1. /\ password' + address' + fails' <= password + address + fails
        /\ requests <= requests'
    BY <1>1, <1>2, <1>3
  <2>2. Numbered'
    BY <1>2, <1>5, <1>6, <2>1, NumberedKept DEF Inv, Numbers
  <2> QED
    BY <1>2, <1>3, <1>4, <1>5, <1>6, <2>1, <2>2, NumbersKept DEF Inv
<1>8. Guessing'
  BY <1>1, <1>2, <1>3, <1>4, <1>5, GuessingKept DEF Inv
<1>9. Proving'
  BY <1>2, <1>3, <1>4, <1>5, ProvingKept DEF Inv, Joining
<1>10. LoggingOut'
  BY <1>1, <1>2, <1>3, <1>4, <1>5, LoggingOutKept DEF Inv
<1>11. Gone'
  BY <1>3, <1>4, <1>5, GoneKept DEF Inv
<1> QED
  BY <1>6, <1>7, <1>8, <1>9, <1>10, <1>11 DEF Inv

(* A change of address begins.                                             *)
LEMMA CheckUpdateInv ==
    ASSUME Inv, NEW h \in Handlers, CheckUpdate(h)
    PROVE  Inv'
<1>1. {fails, lockedUntil, now, guesses, faults, password, address, requests} \subseteq Nat
  BY DEF Inv, Types
<1>2. /\ req[h].pc = "check_update"
      /\ {"check_update", "set_email"} \cap (Attempting \cup Passed \cup Asking) = {}
      /\ "check_update" \notin Joining
  BY DEF CheckUpdate, Passed, Attempting, Asking, Joining
<1>3. UNCHANGED <<account, lockout, mailed, sessions, now, requests, faults, guesses, proved,
                  overtaken, straddled, partial, finished, reused, password, app, address, fails,
                  lockedUntil, token, mail, confirmed>>
  BY DEF CheckUpdate, account, lockout, mailed, history
<1>4. CASE Done(h)
  <2>1. faults' \in Nat /\ faults <= faults'
    BY <1>1, <1>3
  <2> QED
    BY <1>2, <1>3, <1>4, <2>1, GivesUpInv DEF Joining
<1>5. CASE req' = [req EXCEPT ![h] = [pc |-> "set_email", left |-> {"token", "account"}]]
  <2>1. PICK r : r = [pc |-> "set_email", left |-> {"token", "account"}]
    OBVIOUS
  <2>2. r \in UpdateReq /\ r.pc = "set_email" /\ r.left = {"token", "account"}
    BY <2>1 DEF UpdateReq
  <2>3. Only(h) /\ req'[h] = r
    <3>1. r \in RequestState
      BY <2>2 DEF RequestState
    <3> QED
      BY <1>5, <2>1, <3>1, Becomes DEF Inv
  <2>4. Types'
    BY <1>1, <1>3, <2>3 DEF Inv, Types, Only
  <2>5. Numbers'
    <3>1. Owes(req[h])
      BY <1>2 DEF Owes
    <3>2. /\ password' + address' + fails' <= password + address + fails
          /\ requests <= requests'
      BY <1>1, <1>3
    <3>3. Numbered'
      BY <2>3, <2>4, <3>1, <3>2, NumberedKept DEF Inv, Numbers
    <3> QED
      BY <1>2, <1>3, <2>2, <2>3, <2>4, <3>2, <3>3, NumbersKept DEF Inv
  <2>6. Guessing'
    BY <1>1, <1>2, <1>3, <2>2, <2>3, GuessingKept DEF Inv
  <2>7. Proving'
    BY <1>2, <1>3, <2>2, <2>3, ProvingKept DEF Inv, Joining
  <2>8. LoggingOut'
    BY <1>1, <1>2, <1>3, <2>2, <2>3, LoggingOutKept DEF Inv
  <2>9. Gone'
    BY <1>3, <2>2, <2>3, GoneKept DEF Inv
  <2> QED
    BY <2>4, <2>5, <2>6, <2>7, <2>8, <2>9 DEF Inv
<1> QED
  BY <1>4, <1>5 DEF CheckUpdate

(* The tokens mailed to the former address are gone with both statements.  *)
LEMMA SetEmailInv ==
    ASSUME Inv, NEW h \in Handlers, SetEmail(h)
    PROVE  Inv'
<1>1. {fails, lockedUntil, now, guesses, faults, password, address, requests} \subseteq Nat
  BY DEF Inv, Types
<1>2. /\ req[h].pc = "set_email" /\ "set_email" \in Joining
      /\ {"idle", "set_email"} \cap (Attempting \cup Passed \cup Asking) = {}
  BY DEF SetEmail, Passed, Attempting, Asking, Joining
<1>3. UNCHANGED <<lockout, sessions, now, requests, guesses, proved, straddled, partial, finished,
                  reused, password, app, fails, lockedUntil, mail>>
  BY DEF SetEmail, lockout
<1>4. overtaken' = (overtaken \/ Confirming \/ faults' > faults)
  BY DEF SetEmail
<1>5. CASE Fault /\ Done(h) /\ UNCHANGED <<address, confirmed, token>>
  <2>1. faults' \in Nat /\ faults <= faults' /\ faults' > faults
    BY <1>1, <1>5 DEF Fault
  <2> QED
    BY <1>2, <1>3, <1>4, <1>5, <2>1, GivesUpInv DEF account, mailed
<1>6. ASSUME NEW s \in {"token", "account"}, s \in req[h].left, Works, Joined(h, s),
             \/ s = "token" /\ token' = DeleteAllEmailTokens /\ UNCHANGED <<address, confirmed>>
             \/ s = "account" /\ UNCHANGED token /\ address' = address + 1 /\ confirmed' = FALSE
      PROVE  Inv'
  <2>1. /\ Only(h) /\ req[h].left \subseteq {"token", "account"}
        /\ \/ req[h].left = {s} /\ req'[h].pc = "idle"
           \/ /\ req[h].left # {s} /\ req'[h].pc = "set_email" /\ req'[h].left = req[h].left \ {s}
    BY <1>2, <1>6, Joins, ReqParts DEF Inv, Types, UpdateReq
  <2>2. faults' = faults
    BY <1>6 DEF Works
  <2>3. /\ token' \in [Purposes -> [id : Nat, at : Nat]]
        /\ {"confirm_email", "reset_password"} \subseteq Purposes
        /\ token' = token \/ (s = "token" /\ \A p \in Purposes : token'[p] = NoToken)
        /\ NoToken.id = 0 /\ NoToken.at = 0
    BY <1>6 DEF DeleteAllEmailTokens, NoToken, Inv, Types, Purposes
  <2>4. Types'
    <3>1. \A p \in Purposes : token'[p].id <= requests' /\ token'[p].at <= now'
      BY <1>1, <1>3, <2>3 DEF Inv, Types
    <3>2. address' \in Nat
      BY <1>1, <1>6
    <3>3. confirmed' \in BOOLEAN
      <4>1. confirmed' = confirmed \/ confirmed' = FALSE
        BY <1>6
      <4> QED
        BY <4>1 DEF Inv, Types
    <3> QED
      BY <1>1, <1>3, <2>1, <2>2, <2>3, <3>1, <3>2, <3>3 DEF Inv, Types, Only
  <2>5. Numbers'
    <3>1. \/ address' = address /\ (~Owes(req[h])' \/ Owes(req[h]))
          \/ address' = address + 1 /\ Owes(req[h]) /\ ~Owes(req[h])'
      BY <1>2, <1>6, <2>1 DEF Owes
    <3>2. requests <= requests'
      BY <1>1, <1>3
    <3>3. \/ /\ password' + address' + fails' <= password + address + fails
             /\ ~Owes(req[h])' \/ Owes(req[h])
          \/ /\ password' + address' + fails' <= password + address + fails + 1
             /\ Owes(req[h]) /\ ~Owes(req[h])'
      BY <1>1, <1>3, <3>1
    <3>4. Numbered'
      BY <2>1, <2>4, <3>2, <3>3, NumberedKept DEF Inv, Numbers
    <3> QED
      BY <1>2, <1>3, <2>1, <2>4, <3>2, <3>4, NumbersKept DEF Inv
  <2>6. Guessing'
    BY <1>1, <1>2, <1>3, <2>1, <2>2, GuessingKept DEF Inv
  <2>7. Proving'
    <3>1. ASSUME Good, Addressed, ~Confirming
          PROVE  Good' /\ Addressed'
      <4>1. \A g \in Handlers : /\ req[g].pc \notin Asking \cup {"confirm"}
                                /\ req'[g].pc \notin Asking \cup {"confirm"}
        BY <1>2, <2>1, <3>1 DEF Confirming, Busy, Asking, Only
      <4>2. \A m \in mail : m.id # 0
        BY <1>1 DEF Inv, Types
      <4>3. CASE s = "token"
        <5>1. token'["confirm_email"].id = 0
          BY <1>6, <2>3, <4>3 DEF DeleteAllEmailTokens
        <5>2. Good'
          BY <1>3, <4>2, <5>1 DEF Good
        <5>3. Addressed'
          BY <1>3, <1>6, <3>1, <4>1, <4>3, <5>1 DEF Addressed, Busy
        <5> QED
          BY <5>2, <5>3
      <4>4. CASE s = "account"
        <5>1. token["confirm_email"].id = 0 \/ Replacing'
          <6>1. CASE "token" \in req[h].left
            <7>1. req'[h].pc = "set_email" /\ req'[h].left = req[h].left \ {"account"}
              BY <2>1, <4>4, <6>1
            <7> QED
              BY <6>1, <7>1 DEF Replacing
          <6>2. CASE "token" \notin req[h].left
            BY <1>2, <3>1, <6>2 DEF Addressed
          <6> QED
            BY <6>1, <6>2
        <5>2. token' = token /\ confirmed' = FALSE
          BY <1>6, <4>4
        <5>3. Good'
          BY <1>3, <4>2, <5>1, <5>2 DEF Good
        <5>4. \A g \in Handlers : req'[g].pc = "set_email" /\ "token" \notin req'[g].left
                                    => token'["confirm_email"].id = 0
          <6> SUFFICES ASSUME NEW g \in Handlers, req'[g].pc = "set_email",
                              "token" \notin req'[g].left
                       PROVE  token["confirm_email"].id = 0
            BY <5>2
          <6>1. req[g].pc = "set_email" /\ "token" \notin req[g].left
            BY <1>2, <2>1, <4>4 DEF Only
          <6> QED
            BY <3>1, <6>1 DEF Addressed
        <5>5. Addressed'
          BY <4>1, <5>2, <5>4 DEF Addressed, Busy
        <5> QED
          BY <5>3, <5>5
      <4> QED
        BY <4>3, <4>4
    <3> QED
      BY <1>4, <3>1 DEF Inv, Proving
  <2>8. LoggingOut'
    BY <1>1, <1>2, <1>3, <2>1, LoggingOutKept DEF Inv
  <2>9. Gone'
    <3>1. \A g \in Handlers : req'[g].pc = "set_password" => req'[g] = req[g] /\ req[g].id # 0
      BY <1>1, <2>1 DEF Only, Inv, Types, Numbers, Mailed
    <3>2. \A i \in finished : i # 0
      BY <1>1 DEF Inv, Types, Numbers, Mailed
    <3> QED
      BY <1>3, <2>3, <3>1, <3>2 DEF Inv, Gone
  <2> QED
    BY <2>4, <2>5, <2>6, <2>7, <2>8, <2>9 DEF Inv
<1> QED
  BY <1>5, <1>6 DEF SetEmail, StoreEmail

-----------------------------------------------------------------------------
(* The reset of the password. *)

LEMMA ResetPasswordInv ==
    ASSUME Inv, NEW h \in Handlers, ResetPassword(h)
    PROVE  Inv'
<1>1. {fails, lockedUntil, now, guesses, faults, password, address, requests, MaxRequests} \subseteq Nat
  BY CredentialsAssumption DEF Inv, Types
<1>2. /\ req[h].pc = "idle" /\ requests' = requests + 1 /\ requests < MaxRequests
      /\ {"idle", "check_reset"} \cap (Attempting \cup Passed \cup Joining \cup Asking) = {}
  BY DEF ResetPassword, Idle, Accept, Passed, Attempting, Asking, Joining
<1>3. UNCHANGED <<account, lockout, mailed, sessions, now, faults, guesses, proved, overtaken,
                  straddled, partial, finished, reused, password, app, address, fails, lockedUntil,
                  token, mail, confirmed>>
  BY DEF ResetPassword, account, lockout, mailed, history
<1>4. PICK m \in mail : req' = [req EXCEPT ![h] = [pc |-> "check_reset", id |-> m.id]]
  BY DEF ResetPassword
<1>5. PICK r : r = [pc |-> "check_reset", id |-> m.id]
  OBVIOUS
<1>6. r \in CheckResetReq /\ r.pc = "check_reset" /\ r.id = m.id
  BY <1>5 DEF CheckResetReq, Letter, Inv, Types
<1>7. Only(h) /\ req'[h] = r
  <2>1. r \in RequestState
    BY <1>6 DEF RequestState
  <2> QED
    BY <1>4, <1>5, <2>1, Becomes DEF Inv
<1>8. Types'
  BY <1>1, <1>2, <1>3, <1>7 DEF Inv, Types, Only
<1>9. Numbers'
  <2>1. /\ password' + address' + fails' <= password + address + fails
        /\ requests <= requests'
    BY <1>1, <1>2, <1>3
  <2>2. Numbered'
    BY <1>2, <1>7, <1>8, <2>1, NumberedKept DEF Inv, Numbers
  <2>3. Typing'
    BY <1>2, <1>6, <1>7, <1>8, <2>1, TypingKept DEF Inv, Numbers
  <2>4. Fresh'
    BY <1>2, <1>3, <1>6, <1>7, <1>8, <2>1, FreshKept DEF Inv, Numbers
  <2>5. Mailed'
    BY <1>3, <1>6, <1>7 DEF Inv, Numbers, Mailed, Only
  <2> QED
    BY <2>2, <2>3, <2>4, <2>5 DEF Numbers
<1>10. Guessing'
  BY <1>1, <1>2, <1>3, <1>6, <1>7, GuessingKept DEF Inv
<1> QED
  <2>1. req[h].pc \in Plain /\ req'[h].pc \in Plain /\ requests <= requests'
    BY <1>1, <1>2, <1>6, <1>7 DEF Plain
  <2> QED
    BY <1>3, <1>7, <1>8, <1>9, <1>10, <2>1, PlainStep

(* The token of a finished reset is not in the table. *)
LEMMA CheckResetInv ==
    ASSUME Inv, NEW h \in Handlers, CheckReset(h)
    PROVE  Inv'
<1>1. {fails, lockedUntil, now, guesses, faults, password, address, requests} \subseteq Nat
  BY DEF Inv, Types
<1>2. /\ req[h].pc = "check_reset"
      /\ {"check_reset", "set_password"} \cap (Attempting \cup Passed \cup Asking) = {}
      /\ "check_reset" \notin Joining
  BY DEF CheckReset, Passed, Attempting, Asking, Joining
<1>3. UNCHANGED <<account, lockout, mailed, sessions, now, requests, faults, guesses, proved,
                  overtaken, straddled, partial, finished, password, app, address, fails,
                  lockedUntil, token, mail, confirmed>>
  BY DEF CheckReset, account, lockout, mailed
<1>4. reused' = reused
  <2>1. reused' = (reused \/ (ValidToken("reset_password", req[h].id) /\ req[h].id \in finished))
    BY DEF CheckReset
  <2>2. ~reused /\ ~(ValidToken("reset_password", req[h].id) /\ req[h].id \in finished)
    BY DEF Inv, Gone, ValidToken
  <2> QED
    BY <2>1, <2>2 DEF Inv, Gone
<1>5. CASE Done(h)
  <2>1. faults' \in Nat /\ faults <= faults'
    BY <1>1, <1>3
  <2> QED
    BY <1>2, <1>3, <1>4, <1>5, <2>1, GivesUpInv DEF Joining
<1>6. CASE req' = [req EXCEPT ![h] = [pc |-> "set_password", id |-> req[h].id,
                                      left |-> {"password", "token", "sessions"}]]
  <2>1. PICK r : r = [pc |-> "set_password", id |-> req[h].id,
                      left |-> {"password", "token", "sessions"}]
    OBVIOUS
  <2>2. /\ r \in ResetReq /\ r.pc = "set_password" /\ r.left = {"password", "token", "sessions"}
        /\ r.id = req[h].id
    BY <1>2, <2>1, ReqParts DEF ResetReq, CheckResetReq, Inv, Types
  <2>3. Only(h) /\ req'[h] = r
    <3>1. r \in RequestState
      BY <2>2 DEF RequestState
    <3> QED
      BY <1>6, <2>1, <3>1, Becomes DEF Inv
  <2>4. Types'
    BY <1>1, <1>3, <2>3 DEF Inv, Types, Only
  <2>5. Numbers'
    <3>1. Owes(req[h])
      BY <1>2 DEF Owes
    <3>2. /\ password' + address' + fails' <= password + address + fails
          /\ requests <= requests'
      BY <1>1, <1>3
    <3>3. Numbered'
      BY <2>3, <2>4, <3>1, <3>2, NumberedKept DEF Inv, Numbers
    <3>4. Typing'
      BY <1>2, <2>2, <2>3, <2>4, <3>2, TypingKept DEF Inv, Numbers
    <3>5. Fresh'
      BY <1>2, <1>3, <2>2, <2>3, <2>4, <3>2, FreshKept DEF Inv, Numbers
    <3>6. Mailed'
      BY <1>2, <1>3, <2>2, <2>3 DEF Inv, Numbers, Mailed, Only
    <3> QED
      BY <3>3, <3>4, <3>5, <3>6 DEF Numbers
  <2>6. Guessing'
    BY <1>1, <1>2, <1>3, <2>2, <2>3, GuessingKept DEF Inv
  <2>7. Proving'
    BY <1>2, <1>3, <2>2, <2>3, ProvingKept DEF Inv, Joining
  <2>8. LoggingOut'
    BY <1>1, <1>2, <1>3, <2>2, <2>3, LoggingOutKept DEF Inv
  <2>9. Gone'
    BY <1>3, <1>4, <2>2, <2>3, GoneKept DEF Inv
  <2> QED
    BY <2>4, <2>5, <2>6, <2>7, <2>8, <2>9 DEF Inv
<1> QED
  BY <1>5, <1>6 DEF CheckReset

(* Once both the password and the sessions are written, no session of a    *)
(* former password is left, and a request that ends has deleted its token. *)
LEMMA UpdateAccountPasswordInv ==
    ASSUME Inv, NEW h \in Handlers, UpdateAccountPassword(h)
    PROVE  Inv'
<1>1. {fails, lockedUntil, now, guesses, faults, password, address, requests} \subseteq Nat
  BY DEF Inv, Types
<1>2. /\ req[h].pc = "set_password" /\ "set_password" \in Joining
      /\ {"idle", "set_password"} \cap (Attempting \cup Passed \cup Asking) = {}
  BY DEF UpdateAccountPassword, Passed, Attempting, Asking, Joining
<1>3. /\ UNCHANGED <<lockout, mail, now, requests, guesses, proved, overtaken, reused, app, address,
                     confirmed, fails, lockedUntil>>
      /\ straddled => straddled'
  BY DEF UpdateAccountPassword, lockout
<1>4. finished' = IF faults' = faults /\ Cardinality(req[h].left) = 1
                  THEN finished \cup {req[h].id} ELSE finished
  BY DEF UpdateAccountPassword
<1>5. CASE Fault /\ Done(h) /\ partial' = TRUE /\ UNCHANGED <<password, token, sessions>>
  <2>1. faults' \in Nat /\ faults <= faults' /\ faults' # faults
    BY <1>1, <1>5 DEF Fault
  <2>2. finished' = finished
    BY <1>4, <2>1
  <2> QED
    BY <1>2, <1>3, <1>5, <2>1, <2>2, GivesUpInv DEF account, mailed
<1>6. ASSUME NEW s \in {"password", "token", "sessions"}, s \in req[h].left, Works, Joined(h, s),
             UNCHANGED partial,
             \/ s = "password" /\ password' = password + 1 /\ UNCHANGED <<token, sessions>>
             \/ /\ s = "token" /\ token' = DeleteEmailToken("reset_password")
                /\ UNCHANGED <<password, sessions>>
             \/ s = "sessions" /\ sessions' = {} /\ UNCHANGED <<password, token>>
      PROVE  Inv'
  <2>1. /\ Only(h) /\ req[h].left \subseteq {"password", "token", "sessions"}
        /\ \/ req[h].left = {s} /\ req'[h].pc = "idle"
           \/ /\ req[h].left # {s} /\ req'[h].pc = "set_password" /\ req'[h].id = req[h].id
              /\ req'[h].left = req[h].left \ {s}
    BY <1>2, <1>6, Joins, ReqParts DEF Inv, Types, ResetReq
  <2>2. faults' = faults
    BY <1>6 DEF Works
  <2>3. /\ token' \in [Purposes -> [id : Nat, at : Nat]]
        /\ {"confirm_email", "reset_password"} \subseteq Purposes
        /\ \A p \in Purposes : token'[p] = token[p] \/ (p = "reset_password" /\ token'[p] = NoToken)
        /\ s = "token" => token'["reset_password"] = NoToken
        /\ NoToken.id = 0 /\ NoToken.at = 0
    BY <1>6 DEF DeleteEmailToken, NoToken, Inv, Types, Purposes
  <2>4. Types'
    <3>1. \A p \in Purposes : token'[p].id <= requests' /\ token'[p].at <= now'
      BY <1>1, <1>3, <2>3 DEF Inv, Types
    <3>2. password' \in Nat /\ sessions' \subseteq sessions
      BY <1>1, <1>6
    <3> QED
      BY <1>1, <1>3, <2>1, <2>2, <2>3, <3>1, <3>2 DEF Inv, Types, Only
  <2>5. Numbers'
    <3>1. \/ password' = password /\ (~Owes(req[h])' \/ Owes(req[h]))
          \/ password' = password + 1 /\ Owes(req[h]) /\ ~Owes(req[h])'
      BY <1>2, <1>6, <2>1 DEF Owes
    <3>2. requests <= requests'
      BY <1>1, <1>3
    <3>3. \/ /\ password' + address' + fails' <= password + address + fails
             /\ ~Owes(req[h])' \/ Owes(req[h])
          \/ /\ password' + address' + fails' <= password + address + fails + 1
             /\ Owes(req[h]) /\ ~Owes(req[h])'
      BY <1>1, <1>3, <3>1
    <3>4. Numbered'
      BY <2>1, <2>4, <3>2, <3>3, NumberedKept DEF Inv, Numbers
    <3>5. Typing'
      BY <1>2, <2>1, <2>4, <3>2, TypingKept DEF Inv, Numbers
    <3>6. Fresh'
      BY <1>2, <1>3, <2>1, <2>4, <3>2, FreshKept DEF Inv, Numbers
    <3>7. Mailed'
      <4>1. /\ \A g \in Handlers : req'[g].pc \in {"check_reset", "set_password"} =>
                 req[g].pc \in {"check_reset", "set_password"} /\ req'[g].id = req[g].id
            /\ \A g \in Handlers : req'[g].pc \in {"check_confirm", "confirm"} => req'[g] = req[g]
        BY <1>2, <2>1 DEF Only
      <4>2. finished' \subseteq finished \cup {req[h].id}
        BY <1>4
      <4> QED
        BY <1>2, <1>3, <4>1, <4>2 DEF Inv, Numbers, Mailed
    <3> QED
      BY <3>4, <3>5, <3>6, <3>7 DEF Numbers
  <2>6. Guessing'
    BY <1>1, <1>2, <1>3, <2>1, <2>2, GuessingKept DEF Inv
  <2>7. Proving'
    <3>1. token'["confirm_email"] = token["confirm_email"]
      BY <2>3
    <3>2. ASSUME Good, Addressed
          PROVE  Good' /\ Addressed'
      <4>1. Replacing => Replacing'
        BY <1>2, <2>1 DEF Replacing, Only
      <4>2. Good'
        BY <1>3, <3>1, <3>2, <4>1 DEF Good
      <4>3. \A g \in Handlers : req'[g] = req[g] \/ (g = h /\ req'[g].pc \in {"idle", "set_password"})
        BY <2>1 DEF Only
      <4>4. Busy(Asking \cup {"confirm"})' => Busy(Asking \cup {"confirm"})
        BY <1>2, <4>3 DEF Busy
      <4>5. Addressed'
        BY <1>2, <1>3, <3>1, <3>2, <4>3, <4>4 DEF Addressed, Begun
      <4> QED
        BY <4>2, <4>5
    <3> QED
      BY <1>3, <3>2 DEF Inv, Proving
  <2>8. LoggingOut'
    <3>1. sessions' \subseteq sessions
      BY <1>6
    <3>2. \A x \in sessions' : x.n <= requests'
      BY <1>3, <3>1 DEF Inv, LoggingOut
    <3>3. ASSUME Leaving
          PROVE  Leaving'
      <4>1. CASE s = "sessions"
        BY <1>6, <4>1 DEF Leaving
      <4>2. CASE s # "sessions"
        <5>1. sessions' = sessions
          BY <1>6, <4>2
        <5>2. /\ Changing("set_password", "password") => Changing("set_password", "password")'
              /\ Changing("revoke_app", "row") => Changing("revoke_app", "row")'
          <6>1. "sessions" \in req[h].left => req[h].left # {s} /\ "sessions" \in req[h].left \ {s}
            BY <4>2
          <6> QED
            BY <1>2, <2>1, <6>1 DEF Changing, Only
        <5>3. ASSUME NEW x \in sessions
              PROVE  password' = password \/ Changing("set_password", "password")'
          <6>1. "sessions" \in req[h].left
            BY <1>2, <3>3, <5>3 DEF Leaving
          <6>2. CASE s = "password"
            <7>1. /\ req'[h].pc = "set_password" /\ "sessions" \in req'[h].left
                  /\ "password" \notin req'[h].left
              BY <2>1, <4>2, <6>1, <6>2
            <7> QED
              BY <7>1 DEF Changing
          <6>3. CASE s # "password"
            BY <1>6, <6>3
          <6> QED
            BY <6>2, <6>3
        <5>4. \A g \in Handlers :
                /\ req'[g].pc = "set_password" /\ "sessions" \notin req'[g].left
                     => req[g].pc = "set_password" /\ "sessions" \notin req[g].left
                /\ req'[g].pc = "revoke_app" => req'[g] = req[g]
          BY <1>2, <2>1, <4>2 DEF Only
        <5> QED
          BY <1>3, <3>3, <5>1, <5>2, <5>3, <5>4 DEF Leaving
      <4> QED
        BY <4>1, <4>2
    <3> QED
      BY <1>3, <1>6, <3>2, <3>3 DEF Inv, LoggingOut
  <2>9. Gone'
    <3>1. \A g \in Handlers : req[g].pc = "set_password" => req[g].id # 0
      BY <1>1 DEF Inv, Types, Numbers, Mailed
    <3>2. \A i \in finished : i # 0
      BY <1>1 DEF Inv, Types, Numbers, Mailed
    <3>3. \A g \in Handlers : req'[g].pc = "set_password"
                                => req[g].pc = "set_password" /\ req'[g].id = req[g].id
      BY <1>2, <2>1 DEF Only
    <3>4. CASE s = "token"
      <4>1. token'["reset_password"].id = 0
        BY <2>3, <3>4
      <4>2. \A i \in finished' : i # 0
        BY <1>2, <1>4, <3>1, <3>2
      <4> QED
        BY <1>3, <3>1, <3>3, <4>1, <4>2 DEF Inv, Gone
    <3>5. CASE s # "token"
      <4>1. token' = token
        BY <1>6, <3>5
      <4>2. \A g \in Handlers : req'[g].pc = "set_password" /\ "token" \notin req'[g].left
                                  => "token" \notin req[g].left
        BY <2>1, <3>5 DEF Only
      <4>3. ASSUME NEW i \in finished'
            PROVE  token["reset_password"].id # i
        <5>1. CASE i \in finished
          BY <5>1 DEF Inv, Gone
        <5>2. CASE Cardinality(req[h].left) = 1 /\ i = req[h].id
          <6>1. IsFiniteSet({"password", "token", "sessions"})
            <7>1. IsFiniteSet({"password"})
              BY FS_Singleton
            <7>2. IsFiniteSet({"password"} \cup {"token"})
              BY <7>1, FS_AddElement
            <7>3. IsFiniteSet(({"password"} \cup {"token"}) \cup {"sessions"})
              BY <7>2, FS_AddElement
            <7>4. {"password", "token", "sessions"} = ({"password"} \cup {"token"}) \cup {"sessions"}
              OBVIOUS
            <7> QED
              BY <7>3, <7>4
          <6>2. IsFiniteSet(req[h].left)
            BY <2>1, <6>1, FS_Subset
          <6>3. PICK x : req[h].left = {x}
            BY <5>2, <6>2, FS_Singleton
          <6>4. "token" \notin req[h].left
            BY <1>6, <3>5, <6>3
          <6> QED
            BY <1>2, <5>2, <6>4 DEF Inv, Gone
        <5> QED
          BY <1>4, <5>1, <5>2
      <4> QED
        BY <1>3, <3>3, <4>1, <4>2, <4>3 DEF Inv, Gone
    <3> QED
      BY <3>4, <3>5
  <2> QED
    BY <2>4, <2>5, <2>6, <2>7, <2>8, <2>9 DEF Inv
<1> QED
  BY <1>5, <1>6 DEF UpdateAccountPassword, StorePassword, RevokeSessions

-----------------------------------------------------------------------------
(* The app password. *)

(* A step in which no request moves. *)
LEMMA Stays ==
    ASSUME req' = req
    PROVE  /\ Cardinality(Owing)' = Cardinality(Owing) /\ Cardinality(Owing) \in Nat
           /\ Cardinality(At({"verify"}))' = Cardinality(At({"verify"}))
           /\ Cardinality(At({"count"}))' = Cardinality(At({"count"}))
           /\ Cardinality(At({"count", "recount", "lock"}))'
                = Cardinality(At({"count", "recount", "lock"}))
           /\ Cardinality(At({"verify"})) \in Nat /\ Cardinality(At({"count"})) \in Nat
           /\ Cardinality(At({"count", "recount", "lock"})) \in Nat
           /\ Cardinality(Handlers) \in Nat
           /\ Cardinality(At({"count", "recount", "lock"})) <= Cardinality(Handlers)
<1>1. \A S : At(S) \subseteq Handlers
  BY DEF At
<1>2. Owing \subseteq Handlers
  BY DEF Owing
<1>3. IsFiniteSet(Handlers)
  BY CredentialsAssumption
<1>4. /\ Cardinality(At({"verify"})) \in Nat /\ Cardinality(At({"count"})) \in Nat
      /\ Cardinality(At({"count", "recount", "lock"})) \in Nat
      /\ Cardinality(At({"count", "recount", "lock"})) <= Cardinality(Handlers)
      /\ Cardinality(Owing) \in Nat /\ Cardinality(Handlers) \in Nat
  BY <1>1, <1>2, <1>3, FS_Subset, FS_CardinalityType
<1>5. /\ At({"verify"})' = At({"verify"}) /\ At({"count"})' = At({"count"})
      /\ At({"count", "recount", "lock"})' = At({"count", "recount", "lock"}) /\ Owing' = Owing
  BY DEF At, Owing, Owes
<1> QED
  BY <1>4, <1>5

(* A new app password has a number no session has.                         *)
LEMMA CreateAppPasswordInv ==
    ASSUME Inv, CreateAppPassword
    PROVE  Inv'
<1>1. {fails, lockedUntil, now, guesses, faults, password, address, requests, MaxRequests} \subseteq Nat
  BY CredentialsAssumption DEF Inv, Types
<1>2. /\ requests' = requests + 1 /\ requests < MaxRequests /\ app = 0 /\ app' = requests + 1
      /\ UNCHANGED <<password, address, confirmed, lockout, mailed, sessions, req, now, faults,
                     history, guesses, proved, overtaken, straddled, partial, finished, reused, fails,
                     lockedUntil, token, mail>>
  BY DEF CreateAppPassword, Accept, lockout, mailed, history
<1>3. Types'
  BY <1>1, <1>2 DEF Inv, Types
<1>4. Numbers'
  <2>1. Numbered'
    BY <1>1, <1>2, Stays DEF Inv, Numbers, Numbered
  <2>2. Typing'
    <3>1. \A g \in Handlers : req[g].pc \in Passed => req[g].tried.n \in Nat
      BY ReqParts DEF Inv, Types, LoginReq, Tried
    <3> QED
      BY <1>1, <1>2, <3>1 DEF Inv, Numbers, Typing
  <2>3. Fresh' /\ Mailed'
    BY <1>1, <1>2 DEF Inv, Numbers, Fresh, Mailed
  <2> QED
    BY <2>1, <2>2, <2>3 DEF Numbers
<1>5. Guessing'
  BY <1>2, Stays DEF Inv, Guessing, Counted, Pending, Barred, IsAccountLocked
<1>6. Proving'
  BY <1>2 DEF Inv, Proving, Good, Addressed, Replacing, Begun, Busy
<1>7. LoggingOut'
  <2>1. \A s \in sessions' : s.n <= requests'
    BY <1>1, <1>2 DEF Inv, Types, LoggingOut
  <2>2. ASSUME Leaving
        PROVE  Leaving'
    BY <1>2, <2>2 DEF Leaving, Changing
  <2> QED
    BY <1>2, <2>1, <2>2 DEF Inv, LoggingOut
<1>8. Gone'
  BY <1>2 DEF Inv, Gone
<1> QED
  BY <1>3, <1>4, <1>5, <1>6, <1>7, <1>8 DEF Inv

(* A revocation begins.                                                    *)
LEMMA RevokeAppPasswordInv ==
    ASSUME Inv, NEW h \in Handlers, RevokeAppPassword(h)
    PROVE  Inv'
<1>1. {fails, lockedUntil, now, guesses, faults, password, address, requests, MaxRequests} \subseteq Nat
  BY CredentialsAssumption DEF Inv, Types
<1>2. /\ req[h].pc = "idle" /\ requests' = requests + 1 /\ requests < MaxRequests
      /\ {"idle", "revoke_app"} \cap (Attempting \cup Passed \cup Asking) = {}
  BY DEF RevokeAppPassword, Idle, Accept, Passed, Attempting, Asking
<1>3. UNCHANGED <<account, lockout, mailed, sessions, now, faults, guesses, proved, overtaken,
                  straddled, partial, finished, reused, password, app, address, fails, lockedUntil,
                  token, mail, confirmed>>
  BY DEF RevokeAppPassword, account, lockout, mailed, history
<1>4. PICK r : r = [pc |-> "revoke_app", left |-> {"row", "sessions"}]
  OBVIOUS
<1>5. r \in RevokeReq /\ r.pc = "revoke_app" /\ r.left = {"row", "sessions"}
  BY <1>4 DEF RevokeReq
<1>6. Only(h) /\ req'[h] = r
  <2>1. r \in RequestState
    BY <1>5 DEF RequestState
  <2> QED
    BY <1>4, <2>1, Becomes DEF Inv, RevokeAppPassword
<1>7. Types'
  BY <1>1, <1>2, <1>3, <1>6 DEF Inv, Types, Only
<1>8. Numbers'
  <2>1. /\ password' + address' + fails' <= password + address + fails
        /\ requests <= requests'
    BY <1>1, <1>2, <1>3
  <2>2. Numbered'
    BY <1>2, <1>6, <1>7, <2>1, NumberedKept DEF Inv, Numbers
  <2> QED
    BY <1>2, <1>3, <1>5, <1>6, <1>7, <2>1, <2>2, NumbersKept DEF Inv
<1>9. Guessing'
  BY <1>1, <1>2, <1>3, <1>5, <1>6, GuessingKept DEF Inv
<1>10. Proving'
  BY <1>2, <1>3, <1>5, <1>6, ProvingKept DEF Inv
<1>11. LoggingOut'
  BY <1>1, <1>2, <1>3, <1>5, <1>6, LoggingOutKept DEF Inv
<1>12. Gone'
  BY <1>3, <1>5, <1>6, GoneKept DEF Inv
<1> QED
  BY <1>7, <1>8, <1>9, <1>10, <1>11, <1>12 DEF Inv

(* The row and its sessions go in either order.                            *)
LEMMA DropAppPasswordInv ==
    ASSUME Inv, NEW h \in Handlers, DropAppPassword(h)
    PROVE  Inv'
<1>1. {fails, lockedUntil, now, guesses, faults, password, address, requests} \subseteq Nat
  BY DEF Inv, Types
<1>2. /\ req[h].pc = "revoke_app" /\ "revoke_app" \in Joining
      /\ {"idle", "revoke_app"} \cap (Attempting \cup Passed \cup Asking) = {}
  BY DEF DropAppPassword, Passed, Attempting, Asking, Joining
<1>3. /\ UNCHANGED <<lockout, mailed, now, requests, guesses, proved, overtaken, finished, reused,
                     password, address, confirmed, fails, lockedUntil, token, mail>>
      /\ straddled => straddled'
  BY DEF DropAppPassword, lockout, mailed
<1>4. CASE Fault /\ Done(h) /\ partial' = TRUE /\ UNCHANGED <<app, sessions>>
  <2>1. faults' \in Nat /\ faults <= faults'
    BY <1>1, <1>4 DEF Fault
  <2> QED
    BY <1>2, <1>3, <1>4, <2>1, GivesUpInv DEF account
<1>5. ASSUME NEW s \in {"row", "sessions"}, s \in req[h].left, Works, Joined(h, s),
             UNCHANGED partial,
             \/ s = "row" /\ app' = 0 /\ UNCHANGED sessions
             \/ s = "sessions" /\ sessions' = RevokeAppSessions /\ UNCHANGED app
      PROVE  Inv'
  <2>1. /\ Only(h) /\ req[h].left \subseteq {"row", "sessions"}
        /\ \/ req[h].left = {s} /\ req'[h].pc = "idle"
           \/ /\ req[h].left # {s} /\ req'[h].pc = "revoke_app"
              /\ req'[h].left = req[h].left \ {s}
    BY <1>2, <1>5, Joins, ReqParts DEF Inv, Types, RevokeReq
  <2>2. faults' = faults
    BY <1>5 DEF Works
  <2>3. Types'
    <3>1. app' \in Nat /\ app' <= requests /\ sessions' \subseteq sessions
      BY <1>1, <1>5 DEF RevokeAppSessions, Inv, Types
    <3> QED
      BY <1>1, <1>3, <2>1, <2>2, <3>1 DEF Inv, Types, Only
  <2>4. Numbers'
    <3>1. ~Owes(req[h])'
      BY <2>1 DEF Owes
    <3>2. /\ password' + address' + fails' <= password + address + fails
          /\ requests <= requests'
      BY <1>1, <1>3
    <3>3. Numbered'
      BY <2>1, <2>3, <3>1, <3>2, NumberedKept DEF Inv, Numbers
    <3> QED
      BY <1>2, <1>3, <2>1, <2>3, <3>2, <3>3, NumbersKept DEF Inv
  <2>5. Guessing'
    BY <1>1, <1>2, <1>3, <2>1, <2>2, GuessingKept DEF Inv
  <2>6. Proving'
    BY <1>2, <1>3, <2>1, ProvingKept DEF Inv
  <2>7. LoggingOut'
    <3>1. /\ sessions' \subseteq sessions /\ \A x \in sessions : x.scope \in {"access", "app_pass"}
          /\ s = "sessions" => \A x \in sessions' : x.scope = "access"
      BY <1>5 DEF RevokeAppSessions, Inv, Types
    <3>2. \A x \in sessions' : x.n <= requests'
      BY <1>3, <3>1 DEF Inv, LoggingOut
    <3>3. ASSUME Leaving
          PROVE  Leaving'
      <4>1. Changing("set_password", "password") => Changing("set_password", "password")'
        BY <1>2, <2>1 DEF Changing, Only
      <4>2. \A g \in Handlers : req'[g].pc = "set_password" => req'[g] = req[g]
        BY <2>1 DEF Only
      <4>3. CASE s = "sessions"
        BY <1>3, <3>1, <3>3, <4>1, <4>2, <4>3 DEF Leaving
      <4>4. CASE s = "row"
        <5>1. sessions' = sessions
          BY <1>5, <4>4
        <5>2. \A g \in Handlers : req'[g].pc = "revoke_app" /\ "sessions" \notin req'[g].left
                => req[g].pc = "revoke_app" /\ "sessions" \notin req[g].left
          BY <1>2, <2>1, <4>4 DEF Only
        <5>3. ASSUME NEW x \in sessions, x.scope = "app_pass"
              PROVE  Changing("revoke_app", "row")'
          <6>1. "sessions" \in req[h].left
            BY <1>2, <3>3, <5>3 DEF Leaving
          <6>2. /\ req'[h].pc = "revoke_app" /\ "sessions" \in req'[h].left
                /\ "row" \notin req'[h].left
            BY <2>1, <4>4, <6>1
          <6> QED
            BY <6>2 DEF Changing
        <5> QED
          BY <1>3, <3>3, <4>1, <4>2, <5>1, <5>2, <5>3 DEF Leaving
      <4> QED
        BY <4>3, <4>4
    <3> QED
      BY <1>3, <1>5, <3>2, <3>3 DEF Inv, LoggingOut
  <2>8. Gone'
    BY <1>3, <2>1, GoneKept DEF Inv
  <2> QED
    BY <2>3, <2>4, <2>5, <2>6, <2>7, <2>8 DEF Inv
<1> QED
  BY <1>4, <1>5 DEF DropAppPassword

-----------------------------------------------------------------------------
(* Time passes: with the lock ends the count of guesses. *)
LEMMA TickInv ==
    ASSUME Inv, Tick
    PROVE  Inv'
<1>1. {fails, lockedUntil, now, guesses, faults, Threshold, LockFor} \subseteq Nat /\ Threshold # 0
  BY CredentialsAssumption DEF Inv, Types
<1>2. /\ now' = now + 1 /\ now < MaxNow /\ MaxNow \in Nat
      /\ guesses' = IF IsAccountLocked /\ lockedUntil <= now' THEN 0 ELSE guesses
      /\ UNCHANGED <<account, lockout, mailed, sessions, req, requests, faults, proved, overtaken,
                     straddled, partial, finished, reused, password, app, address, confirmed, fails,
                     lockedUntil, token, mail>>
  BY CredentialsAssumption DEF Tick, account, lockout, mailed
<1>3. Types'
  BY <1>1, <1>2 DEF Inv, Types
<1>4. Numbers'
  BY <1>2, Stays DEF Inv, Numbers, Numbered, Typing, Fresh, Mailed
<1>5. Guessing'
  <2>1. PICK v, c, p, n : /\ v = Cardinality(At({"verify"})) /\ v = Cardinality(At({"verify"}))'
                          /\ c = Cardinality(At({"count"})) /\ c = Cardinality(At({"count"}))'
                          /\ p = Cardinality(At({"count", "recount", "lock"}))
                          /\ p = Cardinality(At({"count", "recount", "lock"}))'
                          /\ n = Cardinality(Handlers)
    BY <1>2, Stays
  <2>2. v \in Nat /\ c \in Nat /\ p \in Nat /\ n \in Nat
    BY <1>2, <2>1, Stays
  <2>3. Counted'
    BY <1>1, <1>2, <2>1, <2>2 DEF Inv, Guessing, Counted
  <2>4. Pending'
    BY <1>1, <1>2, <2>1, <2>2 DEF Inv, Guessing, Pending, IsAccountLocked
  <2>5. Barred'
    BY <1>1, <1>2, <2>1, <2>2 DEF Inv, Guessing, Barred, IsAccountLocked
  <2> QED
    BY <2>3, <2>4, <2>5 DEF Guessing
<1>6. Proving'
  BY <1>2 DEF Inv, Proving, Good, Addressed, Replacing, Begun, Busy
<1>7. LoggingOut'
  BY <1>2 DEF Inv, LoggingOut, Leaving, Changing
<1>8. Gone'
  BY <1>2 DEF Inv, Gone
<1> QED
  BY <1>3, <1>4, <1>5, <1>6, <1>7, <1>8 DEF Inv

(* The invariant holds at the start.                                       *)
LEMMA InitInv == Init => Inv
<1> SUFFICES ASSUME Init
             PROVE  Inv
  OBVIOUS
<1>1. \A h \in Handlers : req[h] = Idle /\ req[h].pc = "idle"
  BY DEF Init, Idle
<1>2. "idle" \notin Attempting \cup Passed \cup Asking \cup Joining
  BY DEF Attempting, Passed, Asking, Joining
<1>3. Types
  <2>1. req \in [Handlers -> RequestState]
    BY DEF Init, RequestState
  <2>2. token \in [Purposes -> [id : Nat, at : Nat]] /\ \A p \in Purposes : token[p] = NoToken
    BY DEF Init, NoToken
  <2>3. \A p \in Purposes : token[p].id = 0 /\ token[p].at = 0
    BY <2>2 DEF NoToken
  <2>4. /\ password = 0 /\ app = 0 /\ address = 0 /\ fails = 0 /\ lockedUntil = 0 /\ now = 0
        /\ requests = 0 /\ faults = 0 /\ guesses = 0 /\ mail = {} /\ sessions = {}
    BY DEF Init
  <2>5. MaxRequests \in Nat /\ MaxNow \in Nat /\ LockFor \in Nat
    BY CredentialsAssumption
  <2>6. {password, app, address, fails, lockedUntil, now, requests, faults, guesses} \subseteq Nat
    BY <2>4
  <2>7. /\ app <= requests /\ requests <= MaxRequests /\ now <= MaxNow
        /\ lockedUntil <= now + LockFor
    BY <2>4, <2>5
  <2>8. /\ \A p \in Purposes : token[p].id <= requests /\ token[p].at <= now
        /\ mail \subseteq Letter /\ \A m \in mail : m.id \in 1..requests
        /\ sessions \subseteq [scope : {"access", "app_pass"}, n : Nat]
    BY <2>3, <2>4
  <2>9. confirmed \in BOOLEAN
    BY DEF Init
  <2> QED
    BY <2>1, <2>2, <2>6, <2>7, <2>8, <2>9 DEF Types
<1>4. Numbers
  <2>1. Owing = {}
    BY <1>1 DEF Owing, Owes
  <2>2. Cardinality(Owing) = 0
    BY <2>1, FS_EmptySet
  <2>3. Numbered
    BY <2>2 DEF Init, Numbered
  <2> QED
    BY <1>1, <1>2, <2>3 DEF Init, Numbers, Typing, Fresh, Mailed
<1>5. Guessing
  <2>1. At({"count"}) = {}
    BY <1>1 DEF At
  <2>2. Cardinality(At({"count"})) = 0
    BY <2>1, FS_EmptySet
  <2> QED
    BY <2>2, CredentialsAssumption DEF Init, Guessing, Counted, Pending, Barred, IsAccountLocked
<1>6. Proving
  BY <1>1, <1>2 DEF Init, Proving, Good, Addressed, Begun
<1>7. LoggingOut
  BY <1>1 DEF Init, LoggingOut, Leaving
<1>8. Gone
  BY <1>1 DEF Init, Gone
<1> QED
  BY <1>3, <1>4, <1>5, <1>6, <1>7, <1>8 DEF Inv

(* Every step keeps the invariant.                                         *)
LEMMA NextInv == Inv /\ [Next]_vars => Inv'
<1> SUFFICES ASSUME Inv, [Next]_vars
             PROVE  Inv'
  OBVIOUS
<1>1. CASE UNCHANGED vars
  <2>1. Cardinality(Owing)' = Cardinality(Owing)
    BY <1>1, Stays DEF vars
  <2> QED
    BY <1>1, Stays
       DEF vars, account, lockout, mailed, history, Inv, Types, Numbers, Numbered, Typing, Fresh,
           Mailed, Guessing, Counted, Pending, Barred, IsAccountLocked, Proving, Good, Addressed,
           Replacing, Begun, Busy, LoggingOut, Leaving, Changing, Gone
<1>2. CASE Tick
  BY <1>2, TickInv
<1>3. CASE CreateAppPassword
  BY <1>3, CreateAppPasswordInv
<1>4. ASSUME NEW h \in Handlers, Login(h)
      PROVE  Inv'
  BY <1>4, BeginInv, VerifyPasswordInv, IncrementInv, ReadFailedLoginsInv, LockAccountInv,
     ClearFailedLoginsInv, RecheckLockInv, OpenSessionInv
     DEF Login, CreateSession, AuthenticateAccount
<1>5. ASSUME NEW h \in Handlers, Email(h)
      PROVE  Inv'
  <2>1. /\ RequestEmailConfirmation(h) => RequestToken(h, "confirm_email")
        /\ RequestEmailUpdate(h) => RequestToken(h, "update_email")
        /\ RequestPasswordReset(h) => RequestToken(h, "reset_password")
        /\ RequestAccountDelete(h) => RequestToken(h, "delete_account")
    BY DEF RequestEmailConfirmation, RequestEmailUpdate, RequestPasswordReset, RequestAccountDelete
  <2>2. \A p \in Purposes : RequestToken(h, p) => Inv'
    BY RequestTokenInv
  <2>3. Purposes = {"confirm_email", "update_email", "reset_password", "delete_account"}
    BY DEF Purposes
  <2> QED
    BY <1>5, <2>1, <2>2, <2>3, CreateEmailTokenInv, SendMailInv, ConfirmEmailInv, CheckConfirmInv,
       SetConfirmedInv, UpdateEmailInv, CheckUpdateInv, SetEmailInv, ResetPasswordInv,
       CheckResetInv, UpdateAccountPasswordInv
       DEF Email
<1>6. ASSUME NEW h \in Handlers, AppPassword(h)
      PROVE  Inv'
  BY <1>6, RevokeAppPasswordInv, DropAppPasswordInv DEF AppPassword
<1> QED
  BY <1>1, <1>2, <1>3, <1>4, <1>5, <1>6 DEF Next

-----------------------------------------------------------------------------
(* The inductive invariant holds in every state: guesses are accounted for, *)
(* good tokens belong to the address, the sessions of a former password are *)
(* about to be revoked, and spent reset tokens are gone.                    *)
THEOREM Invariance == Spec => []Inv
BY InitInv, NextInv, PTL DEF Spec

(* The rows keep their shape, and a lock never reaches further than its     *)
(* length.                                                                  *)
THEOREM Shape == Spec => []TypeOK
<1>1. Inv => TypeOK
  <2> SUFFICES ASSUME Inv
               PROVE  TypeOK
    OBVIOUS
  <2>1. /\ {password, app, address, fails, requests, now, lockedUntil} \subseteq Nat
        /\ {MaxRequests, MaxNow, LockFor} \subseteq Nat
        /\ requests <= MaxRequests /\ now <= MaxNow
    BY CredentialsAssumption DEF Inv, Types
  <2>2. PICK c : c = Cardinality(Owing)
    OBVIOUS
  <2>3. c \in Nat
    <3>1. Owing \subseteq Handlers
      BY DEF Owing
    <3> QED
      BY <2>2, <3>1, FS_Subset, FS_CardinalityType, CredentialsAssumption
  <2>4. password + address + fails + c <= requests
    BY <2>2 DEF Inv, Numbers, Numbered
  <2>5. {password, app, address} \subseteq 0..MaxRequests /\ fails \in 0..MaxRequests
    BY <2>1, <2>3, <2>4 DEF Inv, Types
  <2>6. lockedUntil \in 0..(now + LockFor) /\ confirmed \in BOOLEAN
    BY <2>1 DEF Inv, Types
  <2>7. token \in [Purposes -> [id : 0..MaxRequests, at : 0..MaxNow]]
    <3>1. \A p \in Purposes : token[p] \in [id : 0..MaxRequests, at : 0..MaxNow]
      BY <2>1 DEF Inv, Types
    <3> QED
      BY <3>1 DEF Inv, Types
  <2>8. sessions \subseteq [scope : {"access", "app_pass"}, n : 0..MaxRequests]
    BY <2>1 DEF Inv, Types, LoggingOut
  <2> QED
    BY <2>5, <2>6, <2>7, <2>8 DEF TypeOK
<1> QED
  BY <1>1, Invariance, PTL

(* However many requests try passwords at once, the wrong ones tried until  *)
(* the account is locked are at most the threshold allows, plus those that  *)
(* had passed the check of the lock, plus those whose bookkeeping failed.   *)
THEOREM GuessesAreBounded == Spec => []GuessesBounded
<1>1. Inv => GuessesBounded
  <2> SUFFICES ASSUME Inv
               PROVE  GuessesBounded
    OBVIOUS
  <2>1. /\ {guesses, fails, faults, lockedUntil, now} \subseteq Nat /\ Threshold \in Nat \ {0}
    BY CredentialsAssumption DEF Inv, Types
  <2>2. PICK v, c, p, n : /\ v = Cardinality(At({"verify"})) /\ c = Cardinality(At({"count"}))
                          /\ p = Cardinality(At({"count", "recount", "lock"}))
                          /\ n = Cardinality(Handlers)
    OBVIOUS
  <2>3. v \in Nat /\ c \in Nat /\ p \in Nat /\ n \in Nat /\ c <= n /\ p <= n
    <3>1. \A S : At(S) \subseteq Handlers
      BY DEF At
    <3> QED
      BY <2>2, <3>1, FS_Subset, FS_CardinalityType, CredentialsAssumption
  <2>4. CASE IsAccountLocked
    BY <2>1, <2>2, <2>3, <2>4 DEF Inv, Guessing, Barred, GuessesBounded
  <2>5. CASE ~IsAccountLocked /\ fails >= Threshold
    BY <2>1, <2>2, <2>3, <2>5 DEF Inv, Guessing, Pending, GuessesBounded
  <2>6. CASE fails < Threshold
    BY <2>1, <2>2, <2>3, <2>6 DEF Inv, Guessing, Counted, GuessesBounded
  <2> QED
    BY <2>1, <2>4, <2>5, <2>6
<1> QED
  BY <1>1, Invariance, PTL

(* An address counts as confirmed only when a token mailed to it came back, *)
(* unless a change of address met a confirmation or was cut short.          *)
THEOREM ConfirmedAddressIsProved == Spec => []ConfirmedIsProved
<1>1. Inv => ConfirmedIsProved
  BY DEF Inv, Proving, Addressed, ConfirmedIsProved
<1> QED
  BY <1>1, Invariance, PTL

(* A reset of the password logs out everybody who came in by the former one *)
(* and spends its token, whatever else is asked for in the meantime.        *)
THEOREM ResetFinal == Spec => []ResetIsFinal
<1>1. Inv => ResetIsFinal
  <2> SUFFICES ASSUME Inv
               PROVE  ResetIsFinal
    OBVIOUS
  <2>1. ASSUME Leaving, ~Resetting
        PROVE  \A s \in sessions : s.n = IF s.scope = "app_pass" THEN app ELSE password
    <3>1. ~Changing("set_password", "password") /\ ~Changing("revoke_app", "row")
      BY <2>1 DEF Resetting, Busy, Changing
    <3>2. \A s \in sessions : s.scope \in {"access", "app_pass"}
      BY DEF Inv, Types
    <3> QED
      BY <2>1, <3>1, <3>2 DEF Leaving
  <2>2. ResetLogsOut
    BY <2>1 DEF Inv, LoggingOut, ResetLogsOut
  <2> QED
    BY <2>2 DEF Inv, Gone, ResetTokenSpentOnce, ResetIsFinal
<1> QED
  BY <1>1, Invariance, PTL
=============================================================================
