------------------------------ MODULE Rotation ------------------------------
(***************************************************************************)
(* PLC rotation keys.  Every did:plc has a log of operations in the PLC    *)
(* directory; whoever holds one of the rotation keys listed by the last    *)
(* operation manages the document.  Old accounts list one key shared by    *)
(* the whole server; newer ones list a key of their own, kept as a file in *)
(* the actor's directory.  The operator's tool cacos-pds-migrate moves the *)
(* old accounts over in two passes, `rotation-keys' (give every store a    *)
(* key file) and `plc-rotation-keys' (rewrite the documents), while the    *)
(* server keeps creating and deleting accounts.  The tool may die anywhere *)
(* and be run again.                                                       *)
(***************************************************************************)
EXTENDS Naturals, Sequences, FiniteSets

CONSTANTS
    Legacy,      \* dids of accounts made before per-DID rotation keys
    Imported,    \* dids of accounts that moved here from another server
    Minted,      \* dids this server mints during the run
    MaxRuns,     \* bound: runs of the tool
    MaxFaults,   \* bound: failed I/O, lost answers, death of the tool
    MaxUserOps,  \* bound: operations the owners of documents submit
    MaxDeletes   \* bound: accounts deleted

ASSUME RotationAssumption ==
    /\ Cardinality(Legacy \cup Imported \cup Minted)
         = Cardinality(Legacy) + Cardinality(Imported) + Cardinality(Minted)
    /\ {MaxRuns, MaxFaults, MaxUserOps, MaxDeletes} \subseteq Nat

Dids == Legacy \cup Imported \cup Minted

VARIABLES
    log,       \* log[d]: the PLC directory's operations for d
    disk,      \* disk[d]: the actor's directory
    row,       \* row[d]: the actor row and its plcRotationKeysMigrated column
    create,    \* create[d]: how far createAccount has come for a minted d
    gone,      \* dids whose deletion has begun
    tool,      \* the running migration tool
    runs, faults, userOps,
    clobbered, \* history: dids whose own key the seed pass overwrote
    rewrites   \* history: operations the tool had accepted, per did

rotationVars == <<log, disk, row, create, gone, tool, runs, faults, userOps, clobbered,
                  rewrites>>

None == "none"

(***************************************************************************)
(* Keys by their role.  "own" is the did's own key, "shared" the           *)
(* PDS_PLC_ROTATION_KEYPAIR of the server, "recovery" the owner's, and     *)
(* "foreign" and "signing" keys this server does not hold.                 *)
(***************************************************************************)
Keys == {"own", "shared", "recovery", "foreign", "signing"}

\* A regular operation, a first operation of the old format, a tombstone.
Operation(ks) == [type |-> "operation", keys |-> ks]
CreateOpV1 == [type |-> "v1", recovery |-> "recovery", signing |-> "signing"]
Tombstone == [type |-> "tombstone"]

\* The rotation keys an operation gives the document.
NormalizeOp(op) == IF op.type = "v1" THEN {op.recovery, op.signing} ELSE op.keys

LastOp(d) == log[d][Len(log[d])]

Exists(d) == log[d] # <<>>

DocKeys(d) == IF Exists(d) /\ LastOp(d).type # "tombstone"
              THEN NormalizeOp(LastOp(d)) ELSE {}

\* Submitting an operation: the directory wants it to follow the last one and
\* to be signed by a key which that one lists.
Accepts(d, prev, signer) ==
    /\ prev = Len(log[d])
    /\ prev = 0 \/ signer \in DocKeys(d)

\* An update made from the last operation: only the rotation keys change.
UpdateOp(d, ks) == [op |-> Operation(ks), prev |-> Len(log[d])]

Dir == [store: BOOLEAN, key: {None, "own", "shared"}]
Row == {None, "unmigrated", "migrated"}
NoTool == [pass |-> None]

LegacyLogs == {<<Operation({"shared"})>>, <<Operation({"shared", "recovery"})>>,
               <<CreateOpV1>>}
ImportedLogs == {<<Operation({"foreign"})>>, <<Operation({"foreign"}), Tombstone>>}

RotationInit ==
    /\ log \in [Dids -> LegacyLogs \cup ImportedLogs \cup {<<>>}]
    /\ \A d \in Legacy : log[d] \in LegacyLogs
    /\ \A d \in Imported : log[d] \in ImportedLogs
    /\ \A d \in Minted : log[d] = <<>>
    /\ disk \in [Dids -> Dir]
    /\ \A d \in Dids :
         disk[d] \in CASE d \in Legacy -> {[store |-> TRUE, key |-> None]}
                       [] d \in Imported -> {[store |-> TRUE, key |-> k] : k \in {None, "own"}}
                       [] d \in Minted -> {[store |-> FALSE, key |-> None]}
    /\ row = [d \in Dids |-> IF d \in Minted THEN None ELSE "unmigrated"]
    /\ create = [d \in Minted |-> "new"]
    /\ gone = {}
    /\ tool = NoTool
    /\ runs = 0 /\ faults = 0 /\ userOps = 0
    /\ clobbered = {}
    /\ rewrites = [d \in Dids |-> 0]

Fault == faults < MaxFaults /\ faults' = faults + 1
Works == UNCHANGED faults

toolVars == <<tool, runs, rewrites>>
serverVars == <<create, gone>>

-----------------------------------------------------------------------------
(***************************************************************************)
(* The server: createAccount, the part of it that concerns keys.           *)
(***************************************************************************)
CreateStore(d) ==
    /\ create[d] = "new"
    /\ disk' = [disk EXCEPT ![d].store = TRUE]
    /\ create' = [create EXCEPT ![d] = "store"]
    /\ UNCHANGED <<log, row, gone, toolVars, faults, userOps, clobbered>>

\* A later step has failed: the directory is to be destroyed, key and all.
Abandon(d) == create' = [create EXCEPT ![d] = "undo"]

\* Mutation of StoreRotationKeypair: a failed write is only warned about.
StoreRotationKeypairWarning(d) ==
    /\ create[d] = "store"
    /\ create' = [create EXCEPT ![d] = "key"]
    /\ \/ Works /\ disk' = [disk EXCEPT ![d].key = "own"]
       \/ Fault /\ UNCHANGED disk
    /\ UNCHANGED <<log, row, gone, toolVars, userOps, clobbered>>

\* The key file is written before the operation that lists it is sent.
StoreRotationKeypair(d) ==
    /\ create[d] = "store"
    /\ \/ /\ Works
          /\ disk' = [disk EXCEPT ![d].key = "own"]
          /\ create' = [create EXCEPT ![d] = "key"]
       \/ Fault /\ Abandon(d) /\ UNCHANGED disk
    /\ UNCHANGED <<log, row, gone, toolVars, userOps, clobbered>>

\* It lists the did's own key and the recovery key of a caller who gives one.
GenesisOps == {Operation({"own"}), Operation({"recovery", "own"})}

\* The genesis operation; an answer may be lost after the directory accepted.
SendGenesis(d) ==
    /\ create[d] = "key"
    /\ \E op \in GenesisOps :
         \/ /\ Works
            /\ log' = [log EXCEPT ![d] = <<op>>]
            /\ create' = [create EXCEPT ![d] = "sent"]
         \/ /\ Fault
            /\ log' \in {log, [log EXCEPT ![d] = <<op>>]}
            /\ Abandon(d)
    /\ UNCHANGED <<disk, row, gone, toolVars, userOps, clobbered>>

\* The actor row, in a statement of its own: plcRotationKeysMigrated has its
\* default, 0.
RegisterActor(d) ==
    /\ create[d] = "sent"
    /\ \/ /\ Works
          /\ row' = [row EXCEPT ![d] = "unmigrated"]
          /\ create' = [create EXCEPT ![d] = "row"]
       \/ Fault /\ Abandon(d) /\ UNCHANGED row
    /\ UNCHANGED <<log, disk, gone, toolVars, userOps, clobbered>>

\* The rest of AccountManager::create_account: the account row, the use of the
\* invite, the refresh token, the root.  A failure does not take the actor row
\* back.
RegisterAccount(d) ==
    /\ create[d] = "row"
    /\ \/ Works /\ create' = [create EXCEPT ![d] = "done"]
       \/ Fault /\ Abandon(d)
    /\ UNCHANGED <<log, disk, row, gone, toolVars, userOps, clobbered>>

\* destroy, after a failed step; it can fail as well, and the directory stays.
\* It is called once for a did, so MaxFaults need not bound it.
UndoCreate(d) ==
    /\ create[d] = "undo"
    /\ \/ /\ disk' = [disk EXCEPT ![d] = [store |-> FALSE, key |-> None]]
          /\ create' = [create EXCEPT ![d] = "failed"]
       \/ UNCHANGED disk /\ create' = [create EXCEPT ![d] = "stuck"]
    /\ UNCHANGED <<log, row, gone, toolVars, faults, userOps, clobbered>>

\* deleteAccount: the directory first, then the rows.
DestroyStore(d) ==
    /\ Cardinality(gone) < MaxDeletes
    /\ row[d] # None /\ d \notin gone
    /\ gone' = gone \cup {d}
    /\ disk' = [disk EXCEPT ![d] = [store |-> FALSE, key |-> None]]
    /\ UNCHANGED <<log, row, create, toolVars, faults, userOps, clobbered>>

DeleteRows(d) ==
    /\ d \in gone /\ row[d] # None
    /\ row' = [row EXCEPT ![d] = None]
    /\ UNCHANGED <<log, disk, serverVars, toolVars, faults, userOps, clobbered>>

\* The owner of a document moves on: lists keys of another server, or adds
\* this server's shared key, which activateAccount asks for.
UserOp(d) ==
    /\ userOps < MaxUserOps
    /\ DocKeys(d) \cap {"recovery", "foreign"} # {}
    /\ \E ks \in {{"foreign"}, {"foreign", "shared"}} :
         log' = [log EXCEPT ![d] = Append(@, Operation(ks))]
    /\ userOps' = userOps + 1
    /\ UNCHANGED <<disk, row, serverVars, toolVars, faults, clobbered>>

-----------------------------------------------------------------------------
(***************************************************************************)
(* cacos-pds-migrate rotation-keys: a walk of the actor directories.       *)
(***************************************************************************)
StartSeed ==
    /\ tool = NoTool /\ runs < MaxRuns
    /\ runs' = runs + 1
    /\ tool' = [pass |-> "seed", pc |-> "walk", todo |-> Dids]
    /\ UNCHANGED <<log, disk, row, serverVars, faults, userOps, clobbered, rewrites>>

\* A directory without a store, or with a key, is passed over.
HasRotationKeypair(d) == disk[d].key # None

SeedCheck(d) ==
    /\ tool.pass = "seed" /\ tool.pc = "walk" /\ d \in tool.todo
    /\ tool' = IF disk[d].store /\ ~HasRotationKeypair(d)
               THEN [pass |-> "seed", pc |-> "write", todo |-> tool.todo \ {d}, did |-> d,
                     seen |-> disk[d].key]
               ELSE [tool EXCEPT !.todo = @ \ {d}]
    /\ UNCHANGED <<log, disk, row, serverVars, runs, faults, userOps, clobbered,
                   rewrites>>

\* write_rotation_key_from_bytes makes the directory if it has to.
SeedWrite ==
    /\ tool.pass = "seed" /\ tool.pc = "write"
    /\ tool' = [pass |-> "seed", pc |-> "walk", todo |-> tool.todo]
    /\ \/ /\ Works
          /\ disk' = [disk EXCEPT ![tool.did].key = "shared"]
          /\ clobbered' = IF tool.seen = None /\ disk[tool.did].key = "own"
                          THEN clobbered \cup {tool.did} ELSE clobbered
       \/ Fault /\ UNCHANGED <<disk, clobbered>>
    /\ UNCHANGED <<log, row, serverVars, runs, userOps, rewrites>>

\* Mutation of ListUnmigrated: the column is not looked at.
ListUnmigratedAll == {d \in Dids : row[d] # None}

(***************************************************************************)
(* cacos-pds-migrate plc-rotation-keys [--dry-run].                        *)
(***************************************************************************)
ListUnmigrated == {d \in Dids : row[d] = "unmigrated"}

StartRewrite ==
    /\ tool = NoTool /\ runs < MaxRuns
    /\ runs' = runs + 1
    /\ \E dry \in BOOLEAN :
         tool' = [pass |-> "rewrite", pc |-> "next", todo |-> ListUnmigrated, dry |-> dry]
    /\ UNCHANGED <<log, disk, row, serverVars, faults, userOps, clobbered, rewrites>>

Next1(t) == [pass |-> "rewrite", pc |-> "next", todo |-> t.todo, dry |-> t.dry]

\* The document counts as clean when the operation just built, which lists the
\* did's key file and nothing else, does not list the shared key.
AlreadyClean(op) == "shared" \notin op.keys

\* Mutation of FetchLastOp: a dry run marks the clean documents.
FetchLastOpMarking(d) ==
    /\ tool.pass = "rewrite" /\ tool.pc = "next" /\ d \in tool.todo
    /\ disk[d].key # None /\ Exists(d) /\ LastOp(d).type # "tombstone"
    /\ LET upd == UpdateOp(d, {disk[d].key})
       IN  tool' = [pass |-> "rewrite", todo |-> tool.todo \ {d}, dry |-> tool.dry, did |-> d,
                    key |-> disk[d].key, upd |-> upd,
                    pc |-> IF AlreadyClean(upd.op) THEN "mark" ELSE "send"]
    /\ UNCHANGED <<log, disk, row, serverVars, runs, faults, userOps, clobbered,
                   rewrites>>

\* No key file: skipped.  Then the last operation is fetched; a failed fetch and
\* a tombstone skip the did.
FetchLastOp(d) ==
    /\ tool.pass = "rewrite" /\ tool.pc = "next" /\ d \in tool.todo
    /\ LET t == [tool EXCEPT !.todo = @ \ {d}]
           upd == UpdateOp(d, {disk[d].key})
           at(pc) == [pass |-> "rewrite", pc |-> pc, todo |-> t.todo, dry |-> t.dry, did |-> d,
                      key |-> disk[d].key, upd |-> upd]
       IN  \/ /\ disk[d].key = None \/ ~Exists(d) \/ LastOp(d).type = "tombstone"
              /\ Works /\ tool' = t
           \/ /\ disk[d].key # None /\ Exists(d) /\ LastOp(d).type # "tombstone"
              /\ Works
              /\ tool' = CASE AlreadyClean(upd.op) /\ ~t.dry -> at("mark")
                           [] ~AlreadyClean(upd.op) /\ ~t.dry -> at("send")
                           [] t.dry -> t
           \/ disk[d].key # None /\ Fault /\ tool' = t
    /\ UNCHANGED <<log, disk, row, serverVars, runs, userOps, clobbered, rewrites>>

SendOperation ==
    /\ tool.pass = "rewrite" /\ tool.pc = "send"
    /\ LET d == tool.did
           ok == Accepts(d, tool.upd.prev, tool.key)
           sent == IF ok THEN [log EXCEPT ![d] = Append(@, tool.upd.op)] ELSE log
           count == IF ok THEN [rewrites EXCEPT ![d] = @ + 1] ELSE rewrites
       IN  \/ /\ Works /\ log' = sent /\ rewrites' = count
              /\ tool' = IF ok THEN [tool EXCEPT !.pc = "mark"] ELSE Next1(tool)
           \/ /\ Fault /\ log' \in {log, sent}
              /\ rewrites' = IF log' = log THEN rewrites ELSE count
              /\ tool' = Next1(tool)
    /\ UNCHANGED <<disk, row, serverVars, runs, userOps, clobbered>>

\* The UPDATE touches no row when the account is gone.
MarkMigrated ==
    /\ tool.pass = "rewrite" /\ tool.pc = "mark"
    /\ tool' = Next1(tool)
    /\ \/ /\ Works
          /\ row' = IF row[tool.did] = None THEN row
                    ELSE [row EXCEPT ![tool.did] = "migrated"]
       \/ Fault /\ UNCHANGED row
    /\ UNCHANGED <<log, disk, serverVars, runs, userOps, clobbered, rewrites>>

Finish ==
    /\ tool.pass # None /\ tool.pc \in {"walk", "next"} /\ tool.todo = {}
    /\ tool' = NoTool
    /\ UNCHANGED <<log, disk, row, serverVars, runs, faults, userOps, clobbered,
                   rewrites>>

\* The operator interrupts the tool, or it dies.
Die ==
    /\ tool # NoTool /\ Fault
    /\ tool' = NoTool
    /\ UNCHANGED <<log, disk, row, serverVars, runs, userOps, clobbered, rewrites>>

-----------------------------------------------------------------------------
Server(d) == \/ d \in Minted /\ (CreateStore(d) \/ StoreRotationKeypair(d) \/ SendGenesis(d)
                                 \/ RegisterActor(d) \/ RegisterAccount(d)
                                 \/ UndoCreate(d))
             \/ DestroyStore(d) \/ DeleteRows(d)

Tool == \/ StartSeed \/ (\E d \in Dids : SeedCheck(d)) \/ SeedWrite
        \/ StartRewrite \/ (\E d \in Dids : FetchLastOp(d)) \/ SendOperation \/ MarkMigrated
        \/ Finish \/ Die

RotationNext ==
    \/ \E d \in Dids : Server(d) \/ UserOp(d)
    \/ Tool

RotationSpec == RotationInit /\ [][RotationNext]_rotationVars

-----------------------------------------------------------------------------
\* The shape of the state.
RotationTypeOK ==
    /\ disk \in [Dids -> Dir]
    /\ row \in [Dids -> Row]
    /\ create \in [Minted -> {"new", "store", "key", "sent", "row", "done", "undo",
                           "failed", "stuck"}]
    /\ gone \subseteq Dids /\ clobbered \subseteq Dids
    /\ tool.pass \in {None, "seed", "rewrite"}

Held(d) == {"shared"} \cup {disk[d].key}

\* createAccount failed and destroyed the directory, the did's key with it.
Destroyed(d) == d \in Minted /\ create[d] = "failed"

\* No account loses its document: as long as an account lives here and its owner
\* has not moved the document to keys of his own, the document lists a key this
\* server holds.  No run, death or rerun of the tool breaks that while accounts
\* are made and deleted, and neither does a createAccount that fails before the
\* actor row is there or cannot destroy the directory.  Two things do: the seed
\* pass, when it looks at the directory of an account being created just before
\* that account's key arrives and writes the shared key over it just after; and
\* a createAccount that fails after register_actor, whose actor row stays when
\* the directory and the only file of the did's key are destroyed.
Manageable ==
    \A d \in Dids :
        /\ row[d] # None /\ d \notin gone
        /\ DocKeys(d) # {} /\ DocKeys(d) \cap {"foreign", "signing"} = {}
        => DocKeys(d) \cap Held(d) # {} \/ d \in clobbered \/ Destroyed(d)

\* Rows and key files stay such that this server can change the document of
\* every account that was made, wherever the tool dies.
KeysConsistent == RotationTypeOK /\ Manageable

\* The tool rewrites a document once, and once more only for each time it failed
\* between the directory's accepting the operation and the row's being marked.
RewrittenOnce == \A d \in Dids : rewrites[d] <= 1 + faults

\* A dry run leaves directory, files and rows as they were.
DryRunWritesNothing ==
    [][tool.pass = "rewrite" /\ tool' # tool =>
         (tool.dry => UNCHANGED <<log, disk, row>>)]_rotationVars

-----------------------------------------------------------------------------
\* What plc-rotation-keys says of itself: it walks the dids whose document still
\* lists the shared key, replaces the rotation keys, and marks the row on success.
\* A row marked as migrated belongs to a document without the shared key.
MigratedDropsSharedKey ==
    \A d \in Dids : row[d] = "migrated" => "shared" \notin DocKeys(d)
=============================================================================
