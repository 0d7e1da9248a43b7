------------------------------ MODULE Accounts ------------------------------
(***************************************************************************)
(* The life of an account.  createAccount, called by a client or by the    *)
(* OAuth sign-up page, makes the actor's store, its rotation key and its   *)
(* repo, registers the DID in the PLC directory, inserts the rows of the   *)
(* account database one statement at a time and announces the account; no  *)
(* transaction spans these steps, a failure answers with a destroy of the  *)
(* store.  Then the account is deactivated, activated, taken down and      *)
(* deleted, and hands out invite codes, all by concurrent requests.        *)
(***************************************************************************)
EXTENDS Naturals, FiniteSets

CONSTANTS
    Handlers,       \* concurrent requests
    Minted,         \* dids this server mints, one per sign-up
    Imported,       \* dids that exist elsewhere and move here
    Handles, Emails,
    Local,          \* the handles with one label under a domain of this service
    Reserved,       \* the handles whose label is reserved, too short or too long
    Codes,          \* the invite codes that may be generated
    InviteRequired, \* PDS_INVITE_REQUIRED
    UnusedLimit,    \* unused routine invite codes an account may have (5)
    MaxRequests,    \* bound: requests accepted
    MaxFaults,      \* bound: failed statements and crashes
    MaxNow          \* bound: invite intervals that pass

Dids == Minted \cup Imported
Nothing == "none"

ASSUME AccountsAssumption ==
    /\ InviteRequired \in BOOLEAN
    /\ Minted \cap Imported = {}
    /\ {Nothing, "admin"} \cap Dids = {}
    /\ Nothing \notin Handles \cup Emails \cup Codes
    /\ IsFiniteSet(Codes)
    /\ Local \subseteq Handles /\ Reserved \subseteq Handles
    /\ {UnusedLimit, MaxRequests, MaxFaults, MaxNow} \subseteq Nat

VARIABLES
    actor,    \* actor[d]: the actor row
    email,    \* email[d]: the account row, by its address
    root,     \* dids with a repo_root row
    store,    \* store[d]: the actor's directory: none, made, with a repo
    keyFile,  \* dids with a rotation key of their own on file
    doc,      \* doc[d]: whose keys the DID document lists
    code,     \* code[c]: the invite_code row
    uses,     \* uses[c]: the dids of its invite_code_use rows
    feed,     \* feed[d]: the status of the last account event of d in the log
    req,      \* req[h]: the request h works on
    now, requests, faults,
    created,  \* history: dids whose createAccount was answered with success
    deleted,  \* history: dids whose deleteAccount was answered with success
    contested,\* history: dids two requests worked on at once
    raced,    \* history: codes two sign-ups had checked before either used it
    born      \* history: born[d]: when d first had an actor row

rows == <<actor, email, root>>
files == <<store, keyFile>>
invites == <<code, uses>>
counters == <<now, requests, faults>>
history == <<created, deleted, contested, raced, born>>
accountsVars == <<rows, files, doc, invites, feed, req, counters, history>>

NoRequest == [pc |-> "idle"]
NoActor == [handle |-> Nothing, off |-> FALSE, down |-> FALSE, at |-> 0]
NoCode == [avail |-> 0, off |-> FALSE, for |-> Nothing, by |-> Nothing]

AccountsInit ==
    /\ actor = [d \in Dids |-> NoActor]
    /\ email = [d \in Dids |-> Nothing]
    /\ root = {} /\ keyFile = {}
    /\ store = [d \in Dids |-> Nothing]
    /\ doc = [d \in Dids |-> IF d \in Minted THEN Nothing ELSE "foreign"]
    /\ code = [c \in Codes |-> NoCode]
    /\ uses = [c \in Codes |-> {}]
    /\ feed = [d \in Dids |-> Nothing]
    /\ req = [h \in Handlers |-> NoRequest]
    /\ now = 0 /\ requests = 0 /\ faults = 0
    /\ created = {} /\ deleted = {} /\ contested = {} /\ raced = {}
    /\ born = [d \in Dids |-> MaxNow + 1]

Go(h, pc) == req' = [req EXCEPT ![h].pc = pc]
Done(h) == req' = [req EXCEPT ![h] = NoRequest]
Fault == faults < MaxFaults /\ faults' = faults + 1
Works == UNCHANGED faults
Accept == requests < MaxRequests /\ requests' = requests + 1

HasActor(d) == actor[d].handle # Nothing
Busy(d) == \E h \in Handlers : req[h].pc # "idle" /\ req[h].did = d
Unminted(d) == doc[d] = Nothing /\ store[d] = Nothing /\ ~HasActor(d) /\ ~Busy(d)
Overlap(d) == contested' = IF Busy(d) THEN contested \cup {d} ELSE contested

-----------------------------------------------------------------------------
(***************************************************************************)
(* Reading accounts.  Without flags a deactivated or taken-down account is *)
(* not found.                                                              *)
(***************************************************************************)
Available(d, includeOff, includeDown) ==
    /\ HasActor(d)
    /\ includeDown \/ ~actor[d].down
    /\ includeOff \/ ~actor[d].off

GetAccount(n) == {d \in Dids : Available(d, FALSE, FALSE) /\ actor[d].handle = n}

GetAccountByEmail(e) == {d \in Dids : Available(d, FALSE, FALSE) /\ email[d] = e}

FormatAccountStatus(d) ==
    CASE ~HasActor(d) -> "deleted"
      [] HasActor(d) /\ actor[d].down -> "takendown"
      [] HasActor(d) /\ ~actor[d].down /\ actor[d].off -> "deactivated"
      [] OTHER -> "active"

(***************************************************************************)
(* createAccount.                                                          *)
(***************************************************************************)
WithinConstraints(n) == n \notin Reserved

\* normalize_and_validate_handle: a handle of another domain is refused,
\* whoever asks for it.
ValidHandle(n) == n \in Local /\ WithinConstraints(n)

\* The genesis operation lists the key that signs it and no other key of this
\* server.
CreateOp == "own"

\* A did is the hash of its genesis operation, signed with a key made for it:
\* nobody has used it before.
FormatDidAndPlcOp == {d \in Minted : Unminted(d)}

\* validate_inputs_for_local_pds.  A did is imported only by someone who is
\* not authenticated as that did: the comparison with the requester refuses
\* the one who is.
Validate(h) ==
    /\ req[h] = NoRequest /\ Accept
    /\ \E n \in Handles, e \in Emails, c \in Codes \cup {Nothing}, d \in Dids,
          authed \in BOOLEAN :
         /\ InviteRequired => c # Nothing
         /\ ValidHandle(n)
         /\ GetAccount(n) = {} /\ GetAccountByEmail(e) = {}
         /\ d \in FormatDidAndPlcOp \/ (d \in Imported /\ ~authed)
         /\ req' = [req EXCEPT ![h] =
              [pc |-> "exists", did |-> d, handle |-> n, email |-> e, code |-> c]]
         /\ Overlap(d) /\ deleted' = deleted \ {d}
    /\ UNCHANGED <<rows, files, doc, invites, feed, now, faults, created, raced, born>>

\* The sign-up page makes its own key and operation.
BuildDidAndPlcOp == {d \in Minted : Unminted(d)}

\* The sign-up page of OAuth: a did is always minted, and neither the handle,
\* nor the address, nor the need for an invite code is looked at.
RemoteCreateAccount(h) ==
    /\ req[h] = NoRequest /\ Accept
    /\ \E n \in Handles, e \in Emails, c \in Codes \cup {Nothing}, d \in BuildDidAndPlcOp :
         /\ req' = [req EXCEPT ![h] =
              [pc |-> "exists", did |-> d, handle |-> n, email |-> e, code |-> c]]
    /\ UNCHANGED <<rows, files, doc, invites, feed, now, faults, history>>

\* Mutation of Taken: an existing store is not noticed.
TakenNever(d) == FALSE

Taken(d) == store[d] # Nothing

\* ActorStore::create looks for the store first; a did that has one is refused
\* and nothing is destroyed.
CheckStore(h) ==
    /\ req[h].pc = "exists"
    /\ IF Taken(req[h].did) THEN Done(h)
       ELSE req' = [req EXCEPT ![h].pc = "make"]
    /\ UNCHANGED <<rows, files, doc, invites, feed, counters, history>>

MakeStore(h) ==
    LET d == req[h].did IN
    /\ req[h].pc = "make"
    /\ \/ /\ Works
          /\ store' = [store EXCEPT ![d] = IF @ = Nothing THEN "made" ELSE @]
          /\ Go(h, "key")
       \/ Fault /\ Done(h) /\ UNCHANGED store
    /\ UNCHANGED <<rows, keyFile, doc, invites, feed, now, requests, history>>

\* The rotation key.  For an imported did it is a convenience: a failure is
\* only logged.
StoreKey(h) ==
    LET d == req[h].did IN
    /\ req[h].pc = "key"
    /\ \/ Works /\ keyFile' = keyFile \cup {d} /\ Go(h, "repo")
       \/ Fault /\ UNCHANGED keyFile /\ Go(h, IF d \in Minted THEN "destroy" ELSE "repo")
    /\ UNCHANGED <<rows, store, doc, invites, feed, now, requests, history>>

CreateRepo(h) ==
    LET d == req[h].did IN
    /\ req[h].pc = "repo"
    /\ \/ /\ Works /\ store[d] = "made"
          /\ store' = [store EXCEPT ![d] = "repo"]
          /\ Go(h, IF d \in Minted THEN "plc" ELSE "invite")
       \/ Fault /\ Go(h, "destroy") /\ UNCHANGED store
       \/ store[d] # "made" /\ Works /\ Go(h, "destroy") /\ UNCHANGED store
    /\ UNCHANGED <<rows, keyFile, doc, invites, feed, now, requests, history>>

\* The directory after it has accepted the genesis operation of d.
Posted(d) == [doc EXCEPT ![d] = CreateOp]

\* The genesis operation is posted; the answer may be lost.
SendOperation(h) ==
    LET d == req[h].did IN
    /\ req[h].pc = "plc"
    /\ \/ Works /\ doc' = Posted(d) /\ Go(h, "invite")
       \/ Fault /\ doc' \in {doc, Posted(d)} /\ Go(h, "destroy")
    /\ UNCHANGED <<rows, files, invites, feed, now, requests, history>>

\* Mutation of EnsureAvailable: one use too many.
EnsureAvailableOneMore(c) ==
    /\ code[c] # NoCode /\ ~code[c].off
    /\ Cardinality(uses[c]) <= code[c].avail

\* ensure_invite_is_available: the code is there, not disabled and its uses are
\* fewer than it has.
EnsureAvailable(c) ==
    /\ code[c] # NoCode /\ ~code[c].off
    /\ Cardinality(uses[c]) < code[c].avail

EnsureInvite(h) ==
    LET c == req[h].code IN
    /\ req[h].pc = "invite"
    /\ \/ /\ Works /\ (c # Nothing => EnsureAvailable(c))
          /\ Go(h, "actor")
          /\ raced' = IF \E o \in Handlers \ {h} : req[o].pc \in {"actor", "account", "use"}
                                                   /\ req[o].code = c
                      THEN raced \cup {c} ELSE raced
       \/ c # Nothing /\ ~EnsureAvailable(c) /\ Works /\ Go(h, "destroy") /\ UNCHANGED raced
       \/ Fault /\ Go(h, "destroy") /\ UNCHANGED raced
    /\ UNCHANGED <<rows, files, doc, invites, feed, now, requests, created, deleted, contested,
                   born>>

\* register_actor: the did is the primary key, the handle has a unique index.
\* An imported account starts deactivated.
RegisterActor(h) ==
    LET d == req[h].did
        ok == ~HasActor(d) /\ \A o \in Dids : actor[o].handle # req[h].handle
    IN
    /\ req[h].pc = "actor"
    /\ \/ /\ ok /\ Works /\ Go(h, "account")
          /\ actor' = [actor EXCEPT ![d] = [handle |-> req[h].handle, off |-> d \in Imported,
                                            down |-> FALSE, at |-> now]]
          /\ born' = [born EXCEPT ![d] = IF @ > now THEN now ELSE @]
       \/ ~ok /\ Works /\ Go(h, "destroy") /\ UNCHANGED <<actor, born>>
       \/ Fault /\ Go(h, "destroy") /\ UNCHANGED <<actor, born>>
    /\ UNCHANGED <<email, root, files, doc, invites, feed, now, requests, created, deleted,
                   contested, raced>>

\* register_account: the same for the address.  The actor row stays behind
\* when this fails.
RegisterAccount(h) ==
    LET d == req[h].did
        ok == email[d] = Nothing /\ \A o \in Dids : email[o] # req[h].email
    IN
    /\ req[h].pc = "account"
    /\ \/ ok /\ Works /\ Go(h, "use") /\ email' = [email EXCEPT ![d] = req[h].email]
       \/ ~ok /\ Works /\ Go(h, "destroy") /\ UNCHANGED email
       \/ Fault /\ Go(h, "destroy") /\ UNCHANGED email
    /\ UNCHANGED <<actor, root, files, doc, invites, feed, now, requests, history>>

\* record_invite_use: (code, did) is the primary key.
RecordInviteUse(h) ==
    LET d == req[h].did
        c == req[h].code
    IN
    /\ req[h].pc = "use"
    /\ \/ c = Nothing /\ Works /\ Go(h, "root") /\ UNCHANGED uses
       \/ /\ c # Nothing /\ Works
          /\ Go(h, IF d \in uses[c] THEN "destroy" ELSE "root")
          /\ uses' = [uses EXCEPT ![c] = @ \cup {d}]
       \/ c # Nothing /\ Fault /\ Go(h, "destroy") /\ UNCHANGED uses
    /\ UNCHANGED <<rows, files, doc, code, feed, now, requests, history>>

\* store_refresh_token and update_root.
UpdateRoot(h) ==
    /\ req[h].pc = "root"
    /\ \/ Works /\ root' = root \cup {req[h].did} /\ Go(h, "events")
       \/ Fault /\ Go(h, "destroy") /\ UNCHANGED root
    /\ UNCHANGED <<actor, email, files, doc, invites, feed, now, requests, history>>

\* The identity, account, commit and sync events of a new account.
Announced(d) == [feed EXCEPT ![d] = "active"]

\* The events, unless the account starts deactivated; a failure is only
\* logged.  Then the root once more: when that fails the answer is an error,
\* and nothing is taken back.
AnnounceCreated(h) ==
    LET d == req[h].did
        sent == IF d \in Imported THEN feed ELSE Announced(d)
    IN
    /\ req[h].pc = "events"
    /\ \/ Works /\ feed' = sent /\ created' = created \cup {d}
       \/ Fault /\ UNCHANGED feed /\ created' = created \cup {d}
       \/ Fault /\ feed' = sent /\ UNCHANGED created
    /\ deleted' = deleted \ {d}
    /\ Done(h)
    /\ UNCHANGED <<rows, files, doc, invites, now, requests, contested, raced, born>>

Destroy(h) ==
    LET d == req[h].did IN
    /\ req[h].pc = "destroy"
    /\ Done(h)
    /\ \/ /\ Works
          /\ store' = [store EXCEPT ![d] = Nothing] /\ keyFile' = keyFile \ {d}
       \/ Fault /\ UNCHANGED files
    /\ UNCHANGED <<rows, doc, invites, feed, now, requests, history>>

-----------------------------------------------------------------------------
(***************************************************************************)
(* activateAccount.  The document must list a key of this server: the      *)
(* check is made without the actor store, so only the shared key counts.   *)
(***************************************************************************)
ValidDocument(d) == doc[d] = "shared"

StartActivate(h) ==
    /\ req[h] = NoRequest /\ Accept
    /\ \E d \in Dids :
         /\ HasActor(d)
         /\ req' = [req EXCEPT ![h] =
              IF ValidDocument(d) THEN [pc |-> "find", did |-> d] ELSE [pc |-> "refused", did |-> d]]
         /\ Overlap(d)
    /\ UNCHANGED <<rows, files, doc, invites, feed, now, faults, created, deleted, raced, born>>

Refuse(h) ==
    /\ req[h].pc = "refused" /\ Done(h)
    /\ UNCHANGED <<rows, files, doc, invites, feed, counters, history>>

FindInactive(h) ==
    /\ req[h].pc = "find"
    /\ IF Available(req[h].did, TRUE, FALSE) THEN Go(h, "activate") ELSE Done(h)
    /\ UNCHANGED <<rows, files, doc, invites, feed, counters, history>>

ActivateRow(h) ==
    LET d == req[h].did IN
    /\ req[h].pc = "activate"
    /\ \/ /\ Works /\ Go(h, "sync")
          /\ actor' = IF HasActor(d) THEN [actor EXCEPT ![d].off = FALSE] ELSE actor
       \/ Fault /\ Done(h) /\ UNCHANGED actor
    /\ UNCHANGED <<email, root, files, doc, invites, feed, now, requests, history>>

\* The sync event's data: reading the store fails when it is gone.
ReadSyncData(h) ==
    /\ req[h].pc = "sync"
    /\ IF store[req[h].did] = "repo" THEN Go(h, "status") ELSE Done(h)
    /\ UNCHANGED <<rows, files, doc, invites, feed, counters, history>>

ReadStatus(h) ==
    /\ req[h].pc = "status"
    /\ req' = [req EXCEPT ![h] =
         [pc |-> "announce", did |-> req[h].did, status |-> FormatAccountStatus(req[h].did)]]
    /\ UNCHANGED <<rows, files, doc, invites, feed, counters, history>>

AnnounceStatus(h) ==
    LET d == req[h].did IN
    /\ req[h].pc = "announce" /\ Done(h)
    /\ \/ Works /\ feed' = [feed EXCEPT ![d] = req[h].status]
       \/ Fault /\ UNCHANGED feed
    /\ UNCHANGED <<rows, files, doc, invites, now, requests, history>>

\* The rows once d is deactivated.
Deactivated(d) == [actor EXCEPT ![d].off = TRUE]

\* deactivateAccount: the row, and no event.
DeactivateAccount(d) ==
    /\ Accept /\ HasActor(d) /\ ~actor[d].off
    /\ actor' = Deactivated(d)
    /\ UNCHANGED <<email, root, files, doc, invites, feed, req, now, faults, history>>

\* update_account_takedown_status, applied and lifted.
TakedownAccount(d, applied) ==
    /\ Accept /\ HasActor(d) /\ actor[d].down # applied
    /\ actor' = [actor EXCEPT ![d].down = applied]
    /\ UNCHANGED <<email, root, files, doc, invites, feed, req, now, faults, history>>

\* update_handle: refused when any actor has the handle.
UpdateHandle(d, n) ==
    /\ Accept /\ HasActor(d)
    /\ \A o \in Dids : actor[o].handle # n
    /\ actor' = [actor EXCEPT ![d].handle = n]
    /\ UNCHANGED <<email, root, files, doc, invites, feed, req, now, faults, history>>

\* The owner of an imported did points its document at this server.
PointDocumentHere(d) ==
    /\ doc[d] = "foreign" /\ HasActor(d)
    /\ doc' = [doc EXCEPT ![d] = "shared"]
    /\ UNCHANGED <<rows, files, invites, feed, req, counters, history>>

-----------------------------------------------------------------------------
(***************************************************************************)
(* deleteAccount: the store, the rows in one transaction, the event, and   *)
(* last every event of the did, the one just sequenced included.           *)
(***************************************************************************)
StartDelete(h) ==
    /\ req[h] = NoRequest /\ Accept
    /\ \E d \in Dids :
         /\ HasActor(d)
         /\ req' = [req EXCEPT ![h] = [pc |-> "wipe", did |-> d]]
         /\ Overlap(d)
    /\ UNCHANGED <<rows, files, doc, invites, feed, now, faults, created, deleted, raced, born>>

WipeStore(h) ==
    LET d == req[h].did IN
    /\ req[h].pc = "wipe"
    /\ \/ /\ Works /\ Go(h, "rows")
          /\ store' = [store EXCEPT ![d] = Nothing] /\ keyFile' = keyFile \ {d}
       \/ Fault /\ Done(h) /\ UNCHANGED files
    /\ created' = created \ {d}
    /\ UNCHANGED <<rows, doc, invites, feed, now, requests, deleted, contested, raced, born>>

DeleteRows(h) ==
    LET d == req[h].did IN
    /\ req[h].pc = "rows"
    /\ \/ /\ Works /\ Go(h, "gone")
          /\ actor' = [actor EXCEPT ![d] = NoActor]
          /\ email' = [email EXCEPT ![d] = Nothing]
          /\ root' = root \ {d}
       \/ Fault /\ Done(h) /\ UNCHANGED rows
    /\ UNCHANGED <<files, doc, invites, feed, now, requests, history>>

\* sequence_account_evt: who is connected hears of the deletion.
AnnounceDeleted(h) ==
    LET d == req[h].did IN
    /\ req[h].pc = "gone"
    /\ \/ Works /\ feed' = [feed EXCEPT ![d] = "deleted"] /\ Go(h, "purge")
       \/ Fault /\ Done(h) /\ UNCHANGED feed
    /\ UNCHANGED <<rows, files, doc, invites, now, requests, history>>

\* delete_all_for_user: no event of the did stays in the log.
DeleteAllForUser(h) ==
    LET d == req[h].did IN
    /\ req[h].pc = "purge" /\ Done(h)
    /\ \/ Works /\ feed' = [feed EXCEPT ![d] = Nothing] /\ deleted' = deleted \cup {d}
       \/ Fault /\ UNCHANGED <<feed, deleted>>
    /\ UNCHANGED <<rows, files, doc, invites, now, requests, created, contested, raced, born>>

-----------------------------------------------------------------------------
(***************************************************************************)
(* Invite codes.                                                           *)
(***************************************************************************)
Fresh == {c \in Codes : code[c] = NoCode}

\* insert_invite_codes, in one transaction: c \in new is for owner[c].
InsertInviteCodes(new, owner, by) ==
    code' = [c \in Codes |->
               IF c \in new THEN [avail |-> 1, off |-> FALSE, for |-> owner[c], by |-> by]
               ELSE code[c]]

\* What an administrator inserts is his, whoever it is for.
AdminCodes(new, owner) == InsertInviteCodes(new, owner, "admin")

\* createInviteCode: one code, for an account or for nobody.
CreateInviteCode(c, for) ==
    /\ Accept /\ c \in Fresh
    /\ AdminCodes({c}, [o \in {c} |-> for])
    /\ UNCHANGED <<rows, files, doc, uses, feed, req, now, faults, history>>

\* createInviteCodes: as many for each of several accounts.
CreateInviteCodes(new) ==
    /\ Accept /\ new \subseteq Fresh /\ Cardinality(new) > 1
    /\ \E owner \in [new -> {"admin"} \cup {d \in Dids : HasActor(d)}] :
         AdminCodes(new, owner)
    /\ UNCHANGED <<rows, files, doc, uses, feed, req, now, faults, history>>

\* disable_invite_codes: by their names, then by their accounts.
DisableInviteCodes(names, accounts) ==
    LET hit == {c \in Codes : code[c] # NoCode /\ ~code[c].off
                              /\ (c \in names \/ code[c].for \in accounts)}
    IN
    /\ Accept /\ hit # {}
    /\ code' = [c \in Codes |-> IF c \in hit THEN [code[c] EXCEPT !.off = TRUE] ELSE code[c]]
    /\ UNCHANGED <<rows, files, doc, uses, feed, req, now, faults, history>>

Routine(d) == {c \in Codes : code[c].for = d /\ code[c].by = d}

\* get_invite_codes_uses_v2.
UseCount(c) == Cardinality(uses[c])

Unused(d) == {c \in Routine(d) : ~code[c].off /\ code[c].avail > UseCount(c)}

Min(a, b) == IF a < b THEN a ELSE b
Minus(a, b) == IF a > b THEN a - b ELSE 0

\* calculate_codes_to_create: one code per interval since the account was made,
\* at most UnusedLimit unused ones.
CodesToCreate(d) ==
    Min(Minus(UnusedLimit, Cardinality(Unused(d))),
        Minus(now - actor[d].at, Cardinality(Routine(d))))

\* getAccountInviteCodes reads the account and its codes ...
StartInvites(h) ==
    /\ req[h] = NoRequest /\ Accept
    /\ \E d \in Dids :
         /\ Available(d, FALSE, FALSE)
         /\ CodesToCreate(d) > 0
         /\ req' = [req EXCEPT ![h] =
              [pc |-> "codes", did |-> d, n |-> CodesToCreate(d),
               total |-> Cardinality(Routine(d)) + CodesToCreate(d)]]
    /\ UNCHANGED <<rows, files, doc, invites, feed, now, faults, history>>

\* Mutation of DuplicateCreate: the total is not compared.
DuplicateCreateNever(d, n, total) == FALSE

\* ... and inserts the new ones in a transaction that is rolled back when there
\* are then more than the total it had expected.
DuplicateCreate(d, n, total) == Cardinality(Routine(d)) + n > total

CreateAccountInviteCodes(h) ==
    LET d == req[h].did
        n == req[h].n
    IN
    /\ req[h].pc = "codes" /\ Done(h)
    /\ \/ /\ ~DuplicateCreate(d, n, req[h].total)
          /\ Works
          /\ \E new \in SUBSET Fresh :
               /\ Cardinality(new) = Min(n, Cardinality(Fresh))
               /\ InsertInviteCodes(new, [c \in new |-> d], d)
       \/ DuplicateCreate(d, n, req[h].total) /\ Works /\ UNCHANGED code
       \/ Fault /\ UNCHANGED code
    /\ UNCHANGED <<rows, files, doc, uses, feed, now, requests, history>>

-----------------------------------------------------------------------------
IntervalPasses ==
    /\ now < MaxNow /\ now' = now + 1
    /\ UNCHANGED <<rows, files, doc, invites, feed, req, requests, faults, history>>

\* The process dies: requests are gone, files and rows stay.
Crash ==
    /\ \E h \in Handlers : req[h] # NoRequest
    /\ Fault
    /\ req' = [h \in Handlers |-> NoRequest]
    /\ UNCHANGED <<rows, files, doc, invites, feed, now, requests, history>>

Create(h) ==
    \/ Validate(h) \/ RemoteCreateAccount(h) \/ CheckStore(h) \/ MakeStore(h) \/ StoreKey(h)
    \/ CreateRepo(h) \/ SendOperation(h) \/ EnsureInvite(h) \/ RegisterActor(h)
    \/ RegisterAccount(h) \/ RecordInviteUse(h) \/ UpdateRoot(h) \/ AnnounceCreated(h)
    \/ Destroy(h)

Activate(h) ==
    \/ StartActivate(h) \/ Refuse(h) \/ FindInactive(h) \/ ActivateRow(h) \/ ReadSyncData(h)
    \/ ReadStatus(h) \/ AnnounceStatus(h)

Delete(h) ==
    \/ StartDelete(h) \/ WipeStore(h) \/ DeleteRows(h) \/ AnnounceDeleted(h)
    \/ DeleteAllForUser(h)

AccountsNext ==
    \/ \E h \in Handlers : \/ Create(h) \/ Activate(h) \/ Delete(h)
                           \/ StartInvites(h) \/ CreateAccountInviteCodes(h)
    \/ \E d \in Dids : \/ DeactivateAccount(d) \/ PointDocumentHere(d)
                       \/ \E b \in BOOLEAN : TakedownAccount(d, b)
                       \/ \E n \in Handles : UpdateHandle(d, n)
    \/ \E c \in Codes, for \in {"admin"} \cup {d \in Dids : HasActor(d)} : CreateInviteCode(c, for)
    \/ \E cs \in SUBSET Codes : \/ CreateInviteCodes(cs)
                               \/ \E ds \in SUBSET Dids : DisableInviteCodes(cs, ds)
    \/ IntervalPasses \/ Crash

AccountsSpec == AccountsInit /\ [][AccountsNext]_accountsVars

-----------------------------------------------------------------------------
\* The shape of the state.
AccountsTypeOK ==
    /\ actor \in [Dids -> [handle: Handles \cup {Nothing}, off: BOOLEAN, down: BOOLEAN,
                          at: 0..MaxNow]]
    /\ email \in [Dids -> Emails \cup {Nothing}]
    /\ root \subseteq Dids /\ keyFile \subseteq Dids
    /\ store \in [Dids -> {Nothing, "made", "repo"}]
    /\ doc \in [Dids -> {Nothing, "own", "foreign", "shared"}]
    /\ uses \in [Codes -> SUBSET Dids]
    /\ feed \in [Dids -> {Nothing, "active", "deactivated", "takendown", "deleted"}]

\* An account whose createAccount answered with success, by either path, is
\* whole: rows, store, repo and, for a minted did, the key that its document
\* lists.  It stays so whatever sign-ups for the same handle, address or did
\* come later and fail, and until it is deleted; only requests that worked on
\* the same did at the same time can undo it.
CreatedIsWhole ==
    \A d \in created \ contested :
        /\ HasActor(d) /\ email[d] # Nothing /\ d \in root
        /\ store[d] = "repo"
        /\ d \in Minted => d \in keyFile /\ doc[d] = "own"

\* An invite code is used no more often than it may be, unless one sign-up
\* checked it while another was between its own check and its use.
InviteWithinUses == \A c \in Codes \ raced : Cardinality(uses[c]) <= code[c].avail

\* An account never gets more routine codes than intervals have passed since
\* it was first made, nor more unused ones than the limit, however many
\* requests for them run at once and even if it is deleted and made again.
CodesWithinAllowance ==
    \A d \in Dids :
        /\ Cardinality(Routine(d)) <= Minus(now, born[d])
        /\ Cardinality(Unused(d)) <= UnusedLimit

\* After a deleteAccount that answered with success nothing of the account is
\* left, neither rows nor files nor events in the log, unless another request
\* worked on the did at the same time: one that announced the account from
\* what it had read before would leave an event of it.
DeletedIsForgotten ==
    \A d \in deleted \ contested :
        /\ ~HasActor(d) /\ email[d] = Nothing /\ d \notin root
        /\ store[d] = Nothing /\ d \notin keyFile
        /\ feed[d] = Nothing

\* Accounts are whole or gone: what createAccount answered for is all there and
\* what deleteAccount answered for has left nothing, whatever other sign-ups,
\* failures and crashes came in between.
AccountsConsistent == AccountsTypeOK /\ CreatedIsWhole /\ DeletedIsForgotten
=============================================================================
