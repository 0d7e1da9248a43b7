# TLA+ verification of cacos

cacos is a Personal Data Server (PDS) for the AT Protocol, written in Rust:
accounts and their sessions live in an account database, every account has a
repository in a database of its own (the actor store) and blobs in an object
store, and every change is sequenced into an event log that other services
follow over the WebSocket endpoint `com.atproto.sync.subscribeRepos` (the
*firehose*). This directory models the parts of the server whose correctness
depends on the order of concurrent steps and on what a failure leaves behind,
checks them with TLC on small instances, and proves their safety properties with
TLAPS for all instances.

Model-check a run with `tlc -config <cfg> <MC module>` and the proofs of a
component with `tlapm <component>Proofs.tla` (`Access` and `Accounts` share
`AccountAccessProofs.tla`, `RepoStorage` and `Rotation` share
`ActorFilesProofs.tla`). `PROJECT.json` lists the runs, the
mutations that show that each property can fail, the source lines behind each
definition, the theorems and the hazards.

## 1. Inventory

| Component | State | Operations | What is hard | What makes it correct | Module |
|---|---|---|---|---|---|
| Event log (`cacos-pds-sequencer/src/mod.rs`, `events.rs`, `migration/src/types/db_id.rs`) | table `repo_seq`; the process-wide ULID generator | `sequence_*`, `request_seq_range`, `curr`, `next_seq`, `earliest_after_time`, `delete_all_for_user` | ids are minted before the inserts are awaited; a clock that is set back; restart | ids are unique; what is published is in the log | `SeqEvents`, `Sequencer` |
| Job queue and worker (`apalis_worker.rs`) | table `apalis_seq_jobs`; the broadcast channel | enqueue; poll, mark done, publish | no claim of a job, errors discarded, one job id per millisecond | a pending job is published; without failures once | `Sequencer` |
| Outbox and handler (`outbox.rs`, `subscribe_repos.rs`) | per connection: cursor, backfill, forwarder, bounded channel, `last_seen` | cursor checks, backfill, subscribe, forward, deliver, close | three tasks per connection, channels that fill up, lag | each connection is sent events of the log once and in order | `Firehose`, `Feed` |
| Refresh tokens (`account/mod.rs`, `helpers/auth.rs`) | table `refresh_token` | create, rotate, revoke | rotation is four statements without a transaction; grace period; retry | one successor per token; revoked sessions stay revoked | `Sessions` |
| Logins, passwords, email tokens (`account/mod.rs`, `helpers/account.rs`, `password.rs`, `email_token.rs`, ten handlers) | `failedLoginCount`, `lockedUntil`, password rows, `email_token`, `emailConfirmedAt` | log in, lock, clear; mail, check and use a token; change password, address, app password | check, count and lock are statements of their own; joined statements that fail one by one | guesses are bounded; a token is used once; a reset ends sessions; a confirmed address was proved | `Credentials` |
| Account lifecycle and invites (`helpers/account.rs`, `invite.rs`, `create_account.rs`, `delete_account.rs`, `activate_account.rs`, `remote_create_account.rs`) | `actor`, `account`, `repo_root`, `invite_code`, `invite_code_use`; actor store, PLC document, log | create by two paths, activate, deactivate, take down, delete; make, hand out, use codes | several stores, no transaction across them; failures are answered by destroying the store | no half-made or half-deleted account; codes are not overused | `Accounts` |
| OAuth store, provider, consent (`oauth_store.rs`, `cacos-pds-oauth`, `consent_state.rs`) | authorization requests, nonces, codes, tokens, used refresh tokens, devices | push, consent steps, exchange, refresh, revoke | read-modify-write by separate statements; replays; lost answers | one step at a time; codes and refresh tokens are spent once | `OAuth` |
| Auth verifier and extractors (`auth_extractors.rs`, `auth/verifier`, `admin_tokens.rs`, replay table) | thread-local DPoP context; `dpop_replay` | fifteen guards; prune | a thread-local across awaits; checks spread over layers | a guard admits only what it names; a proof counts once | `Access` |
| Actor store and repo writes (`actor-store/src/mod.rs`, `record/`, four handlers) | lock per DID, cache of databases, files; root, blocks, record index | open, create, destroy; create, put, delete, apply writes | index, repo, blobs and log are written one after the other; `destroy` takes no lock | writers serialize; index and repo agree; commits form a chain | `ActorStore` |
| Repo storage (`repo/sql_repo.rs`) | `repo_root`, `repo_block`, a block cache per request | commit transaction, block reads, pages | the transaction runs in a spawned task that outlives its request | the root is whole; caches and pages tell the truth | `RepoStorage` |
| Blobs (`actor-store/src/blob`, `cacos-pds-blobstore`, `background.rs`) | rows `blob`, `record_blob`; objects in `tmp/`, `blocks/`, `quarantine/`; background tasks | upload, write, dereference, take down, restore, read | two stores without a transaction; deletions in the background | a referenced blob has its row, a row its bytes | `Blobs` |
| PLC keys (`cacos-pds-plc`, `cacos-pds-migrate`, key files) | PLC log of each DID, key files, `plcRotationKeysMigrated` | create, delete, seed keys, rewrite documents | a tool that may die anywhere, beside a running server | every account's document lists a key the server holds | `Rotation` |
| Crawlers (`crawlers.rs`), DID cache (`cacos-pds-identity`), preferences, mail texts, service JWTs, configuration, migrations, `remote-client` | `last_notified`, `did_doc`, `account_pref`, none | | | | none, see section 6 |

How they interact. An XRPC handler passes a guard (`Access`), reads and writes
the account database through `AccountManager` (`Accounts`, `Credentials`,
`Sessions`) and the actor store (`ActorStore`, with `RepoStorage` and `Blobs`
inside it), and ends by cloning the shared `Sequencer` and calling one of its
`sequence_*` methods. Those insert a row into `repo_seq` and, if the sequencer
has a job pool, a row into the job table. The worker polls the job table and
publishes to a broadcast channel that all `subscribeRepos` connections share. A
connection reads the log for its backfill and the channel for what follows.
`deleteAccount` removes an account's store, rows and log entries. The OAuth pages
create accounts and verify logins through the same `AccountManager`. Nothing
spans two databases transactionally.

## 2. Modules

    SeqEvents  <-  Sequencer  <-  Firehose  <-  FirehoseProofs
        ^                            |   ^
        |                            |   MCFirehose
        +--- Feed  <-----------------+  (refinement)

    Sessions, OAuth, Access, Credentials, Accounts  (account database)
    ActorStore, RepoStorage, Blobs, Rotation        (one actor's files)
    MC<module>       ->  each of them               (model checking)
    <module>Proofs   ->  Firehose, Sessions, OAuth, Credentials,
                         ActorStore, Blobs                      (theorems)
    AccountAccessProofs ->  Access, Accounts                    (theorems)
    ActorFilesProofs    ->  RepoStorage, Rotation               (theorems)

The two modules that hold the theorems of two components extend both, so `Accounts`
and `Rotation` name their specifications `AccountsSpec` and `RotationSpec`, and
likewise the definitions it is made of.

`Firehose` composes the sequencer, the worker and the connections. The other
modules meet at named seams: `ActorStore` ends with the order in which commits
are handed to the sequencer (the log of `Sequencer`); its action `ApplyCommit` is
the transaction that `RepoStorage` takes apart, and its `WriteBlobs` the task that
`Blobs` takes apart; `Accounts` uses the creation and destruction of `ActorStore`
as single steps and `Rotation` the key files of both; `Credentials` opens the
sessions whose tokens `Sessions` rotates; `Access` reads the account status that
`Accounts` changes.

### SeqEvents: ids and the order of the log

A ULID is a millisecond and a random part, compared in this order; `seq`, the
number on the wire, is the millisecond alone. Two events of one millisecond have
different ids and equal `seq`. The body and type of an event play no part in
sequencing and are left out, so an event is its id, its account and its
`sequencedAt`. `Ordered` and `FirstRows` are `ORDER BY` and `LIMIT`.

### Sequencer: the log, the job table and the worker

| Action | Code |
|---|---|
| `Format` | `format_seq_*` in `events.rs`, which stamps `sequencedAt` |
| `MintId`, `NextIds` | `DbId::new`: a fresh random part in a later millisecond, else the successor of the last id, carrying into the millisecond |
| `InsertRow`, `InsertFails` | the INSERT of `sequence_evt` and its `?`; cancellation of the request |
| `EnqueueJob`, `EnqueueFails` | `enqueue_seq_event_job` (INSERT OR REPLACE by millisecond); its error is logged only |
| `FetchJob`, `MarkDone`, `MarkDoneFails`, `Publish` | the poll loop of `spawn_seq_event_worker` and `run_seq_event_job` |
| `DeleteAllForUser` | `delete_all_for_user` |
| `RestartSequencer` | `SharedState::from_env`: tables stay, the rest is new |
| `AdjustClock` | the wall clock, which NTP may set back |

`JobPool` says whether the sequencer has a job pool. The server passes none
(`xrpc/types.rs`); the tests and the design documents use one, and the runs set it
to TRUE.

### Firehose: connections

Each connection `sub[s]` is a record: `pc` (what the handler is at), `cursor`,
`iter` (what is left of the backfill), `pos` (the receiver's place in the
broadcast channel), `held` (the envelope the forwarder is sending), `mpsc` (the
bounded channel), `last_seen`, `delivered`, and the histories `start`, `base`,
`skipped` and `known`. The broadcast channel is the whole sequence `published`;
a receiver more than `RingSize` behind lags.

| Action | Code |
|---|---|
| `Connect`, `CheckFuture`, `CheckOutdated`, `ResetCursor` | the cursor checks of `subscribe_repos`, one query each, with their failures |
| `Backfill`, `BackfillFails` | `Outbox::get_backfill`: the first page of the whole log, filtered by the cursor afterwards |
| `Subscribe` | `Outbox::events`: the receiver is created after the backfill |
| `Forward`, `Send`, `Lag` | the forwarder task: filter by `last_seen` and raise it, send on the bounded channel, continue after lagging |
| `DeliverBackfill`, `DeliverLive` | `OutboxStream::poll_next` and the frame that is sent |
| `Disconnect`, `Restart` | closing a connection; all connections close with the process |

### Feed: what a connection is promised

The abstract specification: a connection is sent events of the log, each at most
once and in the order of their ids, until it closes. It leaves open which events
are sent, because the code promises no more (section 5). `Firehose` implements
it with `log <- sequenced` and `delivered <- sub[s].delivered`.

### Sessions: refresh tokens of one account

| Action | Code |
|---|---|
| `CreateSession` | `AccountManager::create_session` after the credentials are checked |
| `RefreshSession` | the start of `inner_refresh_session` |
| `GetToken`, `Tidy` | the SELECT, the best-effort DELETE of expired rows, the computation of the new expiry and successor |
| `AddGracePeriod`, `StoreToken` | the two halves of `try_join!`, in either order |
| `ConcurrentRefresh` | the UPDATE matched no row: the rotation starts again |
| `RequestFails` | a statement fails; what was written stays |
| `DeleteSession`, `RevokeAppPassword`, `RevokeAll` | the three DELETEs, with the callers of each |

A token id is a number drawn once (32 random bytes in the code). `granted`,
`issued`, `removed` and `dead` are histories that properties speak about; no
guard reads `granted`, `removed` or `dead`, and `issued` stands for what clients
hold.

### Credentials: logins, passwords and mailed tokens of one account

Variables: the password and the app password (as the number of the request that
set them), the address and whether it is confirmed, `fails` and `lockedUntil`, one
`email_token` row per purpose, the mail that has arrived, and the sessions that
each credential opened. A login or a mailed flow is a sequence of statements, and
the request record `req[h]` says which comes next.

| Action | Code |
|---|---|
| `CreateSession`, `AuthenticateAccount` | the starts of `inner_create_session` and of the sign-in of the OAuth pages: the lock is read |
| `VerifyPassword`, `IncrementFailedLogins`, `ReadFailedLogins`, `LockAccount`, `ClearFailedLogins`, `RecheckLock`, `OpenSession` | the statements of a login, in the order of the code |
| `RequestToken` and its four callers, `SendMail` | the `request*` handlers: store the token, then mail it |
| `ConfirmEmail`, `CheckConfirm`, `SetConfirmed` | `confirmEmail` |
| `UpdateEmail`, `CheckUpdate`, `SetEmail` | `updateEmail`: the address, then the deletion of all tokens |
| `ResetPassword`, `CheckReset`, `UpdateAccountPassword`, `RevokeSessions` | `resetPassword`: the three joined statements in any order, each of which may fail |
| `CreateAppPassword`, `RevokeAppPassword`, `RevokeAppSessions`, `DropAppPassword` | app passwords |

### Accounts: the life of accounts and invite codes

Variables: the tables `actor`, `account` (by its address), `repo_root`,
`invite_code` and `invite_code_use`; the actor's directory and key file; the DID
document; the status of the last account event of each DID in the log.

| Action | Code |
|---|---|
| `Validate`, `RemoteCreateAccount` | the two ways into account creation; the remote one checks neither handle rules nor address nor invite code |
| `CheckStore`, `MakeStore`, `StoreKey`, `CreateRepo`, `SendOperation`, `EnsureInvite`, `RegisterActor`, `RegisterAccount`, `RecordInviteUse`, `UpdateRoot`, `AnnounceCreated`, `Destroy` | the steps of `inner_create_account` and `AccountManager::create_account`, each of which may fail, and the clean-up |
| `StartActivate`, `Refuse`, `FindInactive`, `ActivateRow`, `ReadSyncData`, `ReadStatus`, `AnnounceStatus` | `activateAccount` |
| `DeactivateAccount`, `TakedownAccount`, `UpdateHandle` | one statement each |
| `StartDelete`, `WipeStore`, `DeleteRows`, `AnnounceDeleted`, `DeleteAllForUser` | `deleteAccount`: the last step removes every event of the DID from the log, the one just sequenced included |
| `CreateInviteCode(s)`, `DisableInviteCodes`, `StartInvites`, `CreateAccountInviteCodes` | codes of the administrator and of users |
| `PointDocumentHere`, `Crash`, `IntervalPasses` | the owner of an imported DID; the process; the clock |

### OAuth: requests, consent, codes and tokens of one account

Variables: the rows `authorization_request`, `consent_state`, `device`,
`account_device`, `token` and `used_refresh_token`, and what has been given to the
remote client and to OAuth clients. The provider itself is the library
`rsky-oauth`; what it decides between two calls to the store is external, each
call is one step.

| Action | Code |
|---|---|
| `PushRequest`, `Authorize`, `EnsureDevice`, `CreateDevice` | `/oauth/par`, `/oauth/authorize`, device sessions |
| `StartStep` (with `Matches`) | `TokenGuard`: `ConsentStateStore::rotate` by compare and set |
| `ReadRequest`, `SignIn`, `SignUp`, `SelectAccount`, `AcceptRequest`, `RejectRequest`, `UpdateRequest`, `AnswerPage`, `AnswerRedirect` | the steps of `/oauth/remote`, read, then write, then answer |
| `ConsumeCode`, `CreateToken`, `FindTokenByCode` | the code exchange and the replay of a code |
| `LookupUsed`, `LookupToken`, `RotateRead`, `RotateWrite` | refresh and the replay of a refresh token |
| `DeleteToken`, `Revoke` | `/oauth/revoke` and the answer to a replay |
| `Fail` | a statement fails, or hyper drops the handler |

### Access: guards and the verifier

Every extractor of `auth_extractors.rs` is a record that says which validation it
runs, which scopes it takes and which checks it makes; a request (`job[r]`) goes
from `Arrive` to `Answered` and is polled by a worker thread from one await to the
next, so that the thread-local `ctx[t]` is visible to all requests of the thread.

| Action | Code |
|---|---|
| `ValidateAccess`, `RouteDPoP`, `RouteBearer`, `VerifyAccessToken`, `ClearContext` | `validate_access` of the extractors and the routing in `bearer.rs` |
| `Consume`, `ConsumeFails`, `Prune` | the replay table: insert once, prune what has expired |
| `FetchAccountStatus`, `FetchFails`, `Decide` | the status checks and the mapping of errors |
| `ExtractRefresh`, `ExtractAdmin`, `ExtractModerator`, `ExtractOptional`, `ExtractUserDid`, `ExtractUserDidOptional` | the guards that do more than call `validate_access` |
| `AccountChanges`, `Restart`, `Drop`, `Tick` | takedowns and deactivations, the process, a client that goes away, the clock |

`FromEnv`, `Lookup`, `Contains` and `VerifyAdminToken` are the registry of admin
tokens, built again for each request as in the code.

### ActorStore: one actor's repo, its lock and its directory

Every `store.sqlite` ever made has a number, because a file that is removed lives
on for whoever has it open; `dir`, `cache` and `locks` say which one the
directory, the cache and the map of locks hold now.

| Action | Code |
|---|---|
| `CreateRecord`, `PutRecord`, `DeleteRecord`, `ApplyWrites` | the handlers up to `transact` (with `did_lock`) |
| `Lock`, `OpenDb`, `CachePut`, `LoadKey` | `transact`, `open_db`, the key |
| `FormatCommit`, `IndexRecord`, `ApplyCommit`, `WriteBlobs`, `SequenceCommit` | `process_writes` and the handler's last step |
| `StartRead`, `ReadRoot`, `ReadBlocks` | reading without the lock |
| `StartCreate`, `CreateDb`, `CreateRepo`, `CreateRows` | `createAccount` as far as it touches the store |
| `StartDelete`, `PopCache`, `RemoveLock`, `RemoveDir`, `DeleteRows` | `deleteAccount` and `ActorStore::destroy`, statement by statement |
| `Fault`, `Crash`, `Evict` | a failing statement, a restart, the LRU cache |

### RepoStorage: blocks, caches and pages

| Action | Code |
|---|---|
| `Open`, `GetRootDetailed`, `CacheRev`, `GetBytes`, `GetBlocks`, `FormatCommit` | what a writer reads and caches before it commits |
| `ApplyCommit`, `ApplyFails`, `EvictCache`, `Answer` | the transaction, its rollback, the eviction after it |
| `Drop`, `ApplySpawned` | a request dropped at the await of its commit, and the task that runs on without it |
| `StartWalk`, `GetBlockRange` | the pages of `get_block_range` |

### Blobs: rows and bytes

| Action | Code |
|---|---|
| `UploadBlob`, `Upload`, `TrackUntethered` | `uploadBlob`: bytes to `tmp/`, then the row |
| `StartWrite`, `Dereference`, `Collect`, `Verify`, `Permanent`, `ClearTemp`, `Associate` | `process_write_blobs`: references away, rows of what nobody needs away, bytes made permanent, references in |
| `DeleteOne`, `Restart` | the background deletion, and its loss with the process |
| `StartTakedown`, `MoveBytes` | `update_blob_takedown_status`, row first |
| `GetMetadata`, `GetStream` | `getBlob`: the row, then the bytes |
| `Destroy`, `Fail` | `destroy`; a failing statement |

`PerDid` says whether each actor has a blobstore handle of its own. The design has
one each; the server builds a single one (section 5), so the run sets it to FALSE.
What an actor does to an object is then done to the object of every other actor
with the same content: `crossed` records the actor and content it was done to, where
that actor has a row or an answered upload of the content.

### Rotation: PLC keys and the migration tool

Variables: the operations of each DID in the PLC directory, each actor's
directory, its row, how far `createAccount` has come, and the running tool. The
operations are records with their rotation keys; the directory accepts one that is
signed by a key of the last one.

| Action | Code |
|---|---|
| `CreateStore`, `StoreRotationKeypair`, `SendGenesis` (one of `GenesisOps`), `RegisterActor`, `RegisterAccount` | `createAccount`, each step of which may fail |
| `UndoCreate` | the `destroy` after a failed step, which may fail as well |
| `DestroyStore`, `DeleteRows` | `deleteAccount` |
| `StartSeed`, `SeedCheck`, `SeedWrite` | the pass `rotation-keys` |
| `StartRewrite`, `FetchLastOp`, `SendOperation`, `MarkMigrated`, `Finish` | the pass `plc-rotation-keys`, with its dry run |
| `UserOp`, `Die` | the owner of a document; the tool killed anywhere |

## 3. Runs

| Run | Checks | Shows |
|---|---|---|
| `firehose` | `TypeOK`, `InsertNeverCollides`, `DeliveredInOrder`, `NewsIsForwarded`, `ResumeRefusedOnlyAfterDeletion`, `ImplementsFeed` | two handlers, the worker and a connection, with an error and a restart: ids are unique, events published out of order or twice reach a connection in order and once, the `last_seen` filter drops nothing that is news, a cursor the client knows is refused only after a deletion |
| `firehose_live` | `LoggedFirst`, `PendingJobIsPublished`, `PublishedReachesSubscriber` | every event in the job table is itself published, over failing calls and a restart, but for the three ways in which the table loses one; forwarder, channel and consumer never block each other in a circle |
| `sessions` | `TypeOK`, `SameSuccessor`, `SuccessorOutlives`, `RevokedSessionIsGone`, `RotationReturns` | concurrent rotations with failures, expiry and revocation; every request returns, the loser of a race that starts again included |
| `credentials` | `TypeOK`, `GuessesBounded`, `ConfirmedIsProved`, `ResetIsFinal` | parallel guesses, tokens used by two requests, resets beside logins |
| `accounts` | `AccountsConsistent`, `InviteWithinUses`, `CodesWithinAllowance` | no half-made and no half-deleted account; invite codes |
| `oauth` | `ConsentConsistent`, `CodeSurvives`, `SpentOnce`, `RevokedIsGone` | one consent step at a time, one token per code, one successor per refresh token |
| `access` | `ContextConsistent`, `ProofAcceptedOnce`, `AdmitsOnlyItsOwn` | guards over two requests on two threads; no deadlock |
| `actor_store` | `StoreConsistent`, `CommitsInOrder`, `PrevIsTrue` | repo, index, blocks, lock and the commits handed to the sequencer |
| `repo_storage` | `StorageConsistent`, `WalkIsComplete`, `WritersSerialize` | the commit transaction, dropped requests, caches and pages; no deadlock |
| `blobs` | `BlobRowsConsistent`, `BytesBehindRow`, `TakedownHides` | rows and bytes of two actors under one handle, through uploads, writes, background deletion, takedown and `destroy` |
| `rotation` | `KeysConsistent`, `RewrittenOnce`, `DryRunWritesNothing` | the tool beside a server that creates, fails to create and deletes accounts |
| `gap_migrated_drops_shared_key` | `MigratedDropsSharedKey` | section 5: expected to be violated |

A property whose name ends in `Consistent` is the module's type invariant together
with the invariants named in its definition. `access` and `repo_storage` also
check that the system cannot block. The other runs say `CHECK_DEADLOCK FALSE`: the
bounds on events, ids, requests and time end every behaviour, and a server without
requests really does nothing.

Exceptions are written into the properties, not into the models. Where the code
has a window in which a property fails, the action that enters the window records
it in a history variable (`contested`, `raced`, `overtaken`, `straddled`, `partial`,
`torn`, `unguarded`, `lost`, `doomed`, `strayed`, `crossed`, `overlap`, `clobbered`), and the
property is stated outside it. The comment above each property names its window;
section 5 lists them.

Bounds. Two handlers are enough for every race between two handlers, because each
pair of their statements interleaves freely; a race that takes three requests
under way at once is beyond these runs, except where the sequence of requests
makes up for it. `MaxRequests`, `MaxCommits`, `MaxTasks` and the like let the
handlers do three or four things one after the other, so that a request can meet
what an earlier one left behind. One fault may happen at any step.

- `firehose`: three events; one bit of random part and one more millisecond, so
  that the generator runs ahead of the clock; a page of two rows, so that the
  third event is beyond it; a ring and a channel of one place, so that a
  connection lags after two; cursors before and after the first rows.
  `firehose_live` moves the clock instead, back and forth. It has one failure and one
  restart, and `OpenOnlyWhenCalm` of `MCFirehose` lets a connection be open only
  before both: the job table meets every failure, and a stream every order of calm
  steps. The two together are in the safety run, where the state space is smaller.
- `sessions`: three ids give a chain of two rotations, or a successor and an
  orphan of a lost race; the clock reaches the end of a grace period, and the
  lifetime exceeds it by one. When the ids are used up, a request that would have to
  draw one stops there (`OutOfIds`), and `RotationReturns` excuses only that place: a
  loser of a race draws nothing in its second round, it finds a row that leads on.
- `credentials`: the account locks after two wrong passwords for one unit; a token
  lives one unit; the clock reaches two.
- `accounts`: one minted and one imported DID, three handles of which one is
  reserved, two addresses, two codes of one use each. `InviteRequired` is FALSE, the
  configuration in which fewer requests are refused; a code that is presented is
  checked all the same.
- `oauth`: one request with five nonces, four codes and tokens, two devices.
- `access`: one proof that is fresh for one second of two; every extractor with
  the credentials that its checks tell apart (`MCOffered`), and the environments
  that the registry tells apart (`MCEnvs`).
- `actor_store`: two records of one content, so that they share a block; three
  commits; two stores of the DID.
- `repo_storage`: three blocks, three commits after the first, a cache that is
  warmed with one row and pages of one row; one drop.
- `blobs`: two actors under one handle, two records, one content that both may store,
  two uploads, three tasks (a batch, a takedown or a `destroy` is one).
- `rotation`: one account from before the per-DID keys, one imported, one being
  minted, with or without a recovery key of the caller; the imported document is its
  owner's, or tombstoned, until an operation of the owner lists a key of the server;
  three runs of the tool; one operation of an owner, one deletion.

Symmetry is used for handlers, requests, threads, records and contents, and only
in runs without liveness properties.

Fairness. `LiveSpec` of `Firehose` assumes weak fairness of the worker's steps (it
is one spawned task that polls in an endless loop), of each forwarder and
consumer, which the runtime polls as soon as they can move, and of the request
handlers once they have started; nothing is assumed of clients, the clock or
failures. `MCLiveSpec` has the same fairness. `LiveSpec` of `Sessions` assumes that an accepted request is polled
until it returns. The other modules state safety only.

Every property has a mutation in `PROJECT.json`: an operator of the module,
marked "Mutation of", that changes the code's behaviour as a plausible bug would
and makes TLC report the property violated.

## 4. Proofs

Eight modules hold theorems, one for each component they are about, except for
two: `AccountAccessProofs` holds those of the two components that decide about an
account, `Access` and `Accounts`, and `ActorFilesProofs` those of the two that keep an
actor's directory, `RepoStorage` and `Rotation`. Each theorem is about the
component's specification itself, for every value of the constants: any number of
requests, accounts, records, tokens and failures. Where the property a run checks is
not inductive, the module names the parts of the invariant that is (`Inv`;
`AccountsInv` and `KeyInv` for the second component of a module), and shows
`Init => Inv`, `Inv /\ [Next]_vars => Inv'` (one lemma per action, or per group of
actions that change the same thing) and that `Inv` implies the property.

| Module | Theorem | Property | What makes it inductive |
|---|---|---|---|
| `FirehoseProofs` | `TypeCorrect`, `Logged` | `TypeOK`, `LoggedFirst` | inductive together |
| | `InOrder` | `DeliveredInOrder` | `StreamOrder`, `FromLog` |
| | `FirehoseImplementsFeed` | `ImplementsFeed` | `InOrder`'s |
| | `NeverCollides` | `InsertNeverCollides` | `IdsDiffer` |
| | `NewsForwarded` | `NewsIsForwarded` | `Caught` |
| | `ResumeAccepted` | `ResumeRefusedOnlyAfterDeletion` | `CursorKnown` |
| `SessionsProofs` | `TypeCorrect` | `TypeOK` | |
| | `OneSuccessor` | `SameSuccessor` | `Settled` |
| | `Outlived` | `SuccessorOutlives` | `OneApp`, `Bounded`, `Recent` |
| | `GoneForGood` | `RevokedSessionIsGone` | `Buried` |
| `OAuthProofs` | `StepsOneByOne` | `ConsentConsistent` | `Nonced`, `Alone` |
| | `CodeKept` | `CodeSurvives` | `Unwritten`, `Answered`, `Unspent` |
| | `Once` | `SpentOnce` | `Granting`, `Live`, `Rotating` |
| | `Revoked` | `RevokedIsGone` | `Past`, `Started` |
| `AccountAccessProofs` | `OwnContexts` | `ContextConsistent` | `Polling` |
| | `OnceAccepted` | `ProofAcceptedOnce` | `Used` |
| | `AdmitsItsOwn` | `AdmitsOnlyItsOwn` | `JobOK` |
| | `AccountsWholeOrGone` | `AccountsConsistent` | `Life`: `Sole`, `Reached`, `Listed` |
| | `InvitesStayWithinUses` | `InviteWithinUses` | `Usage` |
| | `AllowanceIsKept` | `CodesWithinAllowance` | `Grant`, `Promise` |
| `ActorFilesProofs` | `Serialized` | `WritersSerialize` | `Based`, `Orphan` |
| | `Whole` | `StorageConsistent` | `Formatted` (with `Diff`), `CacheHolds` |
| | `WalkComplete` | `WalkIsComplete` | `Passed` |
| | `DocumentsStayManageable` | `KeysConsistent` | `OwnKey`, `Created` |
| | `RewritesAreBounded` | `RewrittenOnce` | `Budget`, `Created` |
| | `DryRunIsDry` | `DryRunWritesNothing` | `KeyTypes` |
| `ActorStoreProofs` | `StoreKept` | `StoreConsistent` | `Held`, `Holding`, `Guarding`, `Writers` |
| | `InOrder` | `CommitsInOrder` | `Chained`, `Roots`, `Writers` |
| | `PrevTrue` | `PrevIsTrue` | `Writers` |
| `BlobsProofs` | `RowsKept` | `BlobRowsConsistent` | `TaskRows` |
| | `BytesKept` | `BytesBehindRow` | `KeysPart`, `UploadsHeld`, `Cleared`, `DueOK` |
| | `Takedown` | `TakedownHides` | `Hidden` |
| `CredentialsProofs` | `Shape` | `TypeOK` | `Numbered` |
| | `GuessesAreBounded` | `GuessesBounded` | `Counted`, `Pending`, `Barred` |
| | `ConfirmedAddressIsProved` | `ConfirmedIsProved` | `Good`, `Addressed`, `Fresh`, `Mailed` |
| | `ResetFinal` | `ResetIsFinal` | `Leaving`, `Gone`, `Typing` |

The arguments, one component at a time.

**Firehose.** The next event a connection is sent comes from the backfill, the
bounded channel or the forwarder's hand, and nothing in `DeliveredInOrder` says
what those hold. `StreamOrder` does (every stage holds events in order, each stage
is before the stage behind it, the last one is at most `last_seen`), and `FromLog`
says that all of it is of the log; `GoodUpdateKeepsInv` lifts what one action does
to its connection to the whole state. The refinement of `Feed` follows: a
delivered event is in the log and after what was delivered before. Ids are unique
because every id minted in this run of the process is past those of the log when
it started and differs from every other (`IdsDiffer`). `Caught` accounts for every
place of the broadcast channel a receiver has passed: it was skipped by a lag,
raised `last_seen`, or was no news. `CursorKnown` says that the events a client's
cursor can name were in the log.

**Sessions.** From the moment a request's UPDATE has matched until the row is
deleted, the row leads to that request's successor (`Settled`), because the UPDATE
matches only a row that leads nowhere or to the same successor, and the INSERT
leaves existing rows alone. The other two need what everybody who has heard of an
id, rows, JWTs and requests under way with what they have read, says of it: one app
password (`OneApp`), expiries within those of the successor (`Bounded`), a time
read that is not ahead of the clock (`Recent`), and that nobody still holds an id
of a revoked session (`Buried`).

**OAuth.** A consent step that is under way has put a nonce in the row that no
client has been given (`Nonced`); the guard of a step asks for the row's nonce, so
no second one can start (`Alone`), and what the step read of the request still
holds when it writes (`Unwritten`). Codes and refresh tokens are fresh numbers, so
a rotation that comes late either finds the refresh token it read or finds it
among the used ones of the same row (`Rotating`); a row that was deleted has no
code and no request that could make it again (`Past`).

**Access.** A thread's context is the one of the request it polls, because nothing
between `RouteDPoP` and its use gives up the thread (`Polling`). A proof that was
accepted while fresh has its row until it is stale (`Used`). `JobOK` carries what a
request has passed so far: which extractor, which credentials, which account
status.

**Accounts.** No transaction spans `createAccount`, so what makes an account whole is
spread over the requests: `Reached` says for each place of a request what its earlier
steps have made (or, in a deletion, removed) and is still there. That holds while
the request is the only one at work on its did (`Sole`), and a second one makes the
did `contested`, which is where the properties stop. Other sign-ups work on other dids:
handles and addresses are refused by their unique indexes, and what a failed
creation destroys is the store of its own did. What keeps a minted did from being
minted again after its deletion is not in any table of the server: the PLC directory
lists it from before its first row, and for ever (`Listed`). A code that is not `raced`
has at most one sign-up between its check and its use, and that one still finds a use
left (`Usage`). A request for invite codes that counted them before another inserted
its own expects a smaller total than there will be: it inserts only while its total
is what the table would hold, and then its promise about unused codes is still good
(`Promise`). Times of accounts and intervals only grow apart (`Grant`); `born` is the
first time of an account that was deleted and made again.

**RepoStorage.** A writer that has read the root holds the lock, so the root cannot
move under it (`Based`); when the request is dropped at the await of its commit,
that commit is still made from the root and nobody else is at work (`Orphan`), or
the commit is in `overlap`, which the properties name. A commit is the difference
of two trees (`Diff`), so applying it leaves the new tree whole. A page walk has
passed exactly the blocks before its cursor (`Passed`).

**Rotation.** `OwnKey` follows the key file from `StoreRotationKeypair` to the account:
a document that is as `createAccount` made it belongs to a did that has the key file, unless the account is being deleted, its creation failed and
destroyed the directory (`Destroyed`), or the seed pass wrote over the key. A creation
that failed before `register_actor` has left no row for the property to speak of; one
that failed after it has.
`RewrittenOnce` does not say when a did may be rewritten again; `Budget` does: as
long as the row is unmarked, or the tool still has the did before it, the operations
accepted so far are at most the failures, because between the directory's acceptance
and the mark either nothing or a failure happens. An account in the making has no row
(`Created`), so no pass has it on its list. A tool that sends or marks is not in a
dry run (`KeyTypes`).

**ActorStore.** Whoever holds a mutex is under way and will free it (`Held`), a
writer holds its own from `lock` to the answer (`Holding`), and on a store whose
lock `destroy` has not dropped that mutex is the one in the map (`Guarding`). So two
writers of one store are the same request (lemma `Alone`), and what a writer read
when it formatted its commit (`Good`) still holds when it indexes, applies and
sequences it. `Chained` says where the next commit of a store links to while one is
applied but not yet sequenced. Histories mark what falls outside: `unguarded` stores,
`torn` records, `lost` commits.

**Blobs.** A temp key is drawn once and is that of one untracked upload or of one
row of one actor (`UploadsDiffer`, `KeysOnce`: `KeysPart`); rows change only under the
actor's lock, so what a task has found in a row is still so (`TaskRows`); bytes whose
deletion is due are not the only ones of a row, unless the blob is `doomed` (`DueOK`).
The background deletion keeps `BytesBehindRow` for that reason alone. The step of one
actor concerns the others as well, since the handle is shared: it leaves their rows
and tasks alone, and every object it stores, moves or deletes is either none of theirs
or `crossed` from then on (lemma `OthersStay`). With a handle each, no actor has
sharers and nothing is ever crossed; the theorems assume neither arrangement.

**Credentials.** Below the threshold every guess is in `failedLoginCount`, about to be,
or its bookkeeping has failed (`Counted`). Once the counter has reached the threshold
and the account is not yet locked, a guess more than the threshold belongs to a request
that has not left before `LockAccount` (`Pending`): this is why the counter may be read
back in a statement of its own. Under the lock only requests that passed its check may
guess (`Barred`), so it all adds up to `GuessesBounded`. A confirmation token that is
still in the table was mailed to the present address, or `delete_all_email_tokens` of
the change is about to run (`Good`); a request that asks for one carries the present
address (`Addressed`) and an id nobody else has (`Fresh`). A session of a former
password belongs to a reset whose `revoke_refresh_tokens_by_did` is still to come
(`Leaving`), and the token of a finished reset is not in the table (`Gone`). `Numbered`
bounds the numbers by the requests: each raises one of them at most once.

Assumptions. The proofs rest on the `ASSUME`s of the modules, which TLC evaluates in
every run: ranges of the bounds and `None`-like values outside the sets they are
added to; `RepoStorageAssumption` also says that the blocks are finitely many
natural numbers (a page is the largest few by revision and cid) and that there is
a first revision; `GuardsAssumption`, `EnvsAssumption` and `OfferedAssumption` say
which guards exist and the shape of tokens and requests; `CredentialsAssumption`
says that the requests are finitely many and that neither the threshold nor the length
of the lock is 0 (the code has 5 and 900 s; a lock of no length bounds nothing); `AccountsAssumption`
says that there are finitely many invite codes and that no did is called `admin`, as the
administrator's codes are. That a token id, a code or
a temp key was never drawn before is how the models draw them, not a proved fact
about random numbers.

Only model-checked:

- the liveness properties `PendingJobIsPublished`, `PublishedReachesSubscriber` and
  `RotationReturns`: fairness and ENABLED are beyond the prover;
- that `access` and `repo_storage` never block.

## 5. Where documents and code disagree

One disagreement is a run that TLC ends with a counterexample:
`gap_migrated_drops_shared_key`. `plc-rotation-keys` marks an account as migrated
whose document still lists the key of the whole server, because it looks for that
key in the operation it is about to send, not in the last one of the directory
(`cacos-pds-migrate/src/main.rs:236`). `PROJECT.json` quotes the comments that say
otherwise.

The models show the following as well; where a property would fail for it, the
property excludes the window by name.

Event log and firehose
- An event published between the backfill query and the subscription is passed
  over (`outbox.rs:116`, against "backfill then live" in `outbox.rs:1`). `Feed`
  promises order and no repetition only.
- The server builds the sequencer without a job pool (`types.rs:52`), so nothing
  is published to live connections, against the repository's README (line 24).
- Events of one millisecond share a job row and the second replaces the first
  (`apalis_worker.rs:105`), or the worker, which has read the first, marks the row Done
  for the second as well; a job is Done before it is broadcast, so a restart in between
  loses the event (`apalis_worker.rs:142`); ids are minted before inserts that other
  handlers overtake (`mod.rs:194`). ADR 8 says one job per event and delivery in order.
- The backfill reads the first 500 rows of the whole log and filters afterwards
  (`outbox.rs:168`).

Sessions and credentials
- A token whose row was deleted and stored again by its predecessor has forgotten
  its successor (`auth.rs:278`, against `mod.rs:344-345`).
- `GuessesBounded` leaves room for the guesses that passed the check before the
  lock; a login that passed it may also clear the lock of another.
- A confirmation that meets a change of address confirms the new one
  (`overtaken`). A reset deletes the newest reset token, not the one it was
  given, and one that is cut short leaves old sessions (`partial`, `straddled`).
- Addresses are stored as given and looked up in lower case (`account.rs:183`,
  `:627`). A reset leaves app passwords and OAuth tokens valid.

Accounts
- `deleteAccount` sequences a deletion event and then removes every event of the DID
  from the log, that one included (`delete_account.rs:70`): a subscriber that is not
  connected at the time never reads of the deletion.
- The loser of two concurrent creations of one DID destroys the store of the
  winner; rows survive a `createAccount` that fails later; one whose very last
  statement fails answers an error for an account that exists (`contested`).
- Two sign-ups may both find the last use of a code free (`raced`).
- `activateAccount` checks the document without the actor store, so only the
  shared key counts; `deactivateAccount` announces nothing; a `deleteAccount`
  whose last step fails cannot be repeated.

OAuth and access
- A consent step that fails after the nonce was rotated strands the request. A
  replay deletes the token row it has read, not one rotated meanwhile.
- A verification that read the time before a prune may accept again a proof that
  expired in between; `ProofAcceptedOnce` counts the acceptances of fresh proofs.
- The guards `AccessStandard` and `AccessFull` do not check for takedowns; a dropped
  request leaves its context on the thread, where the next one overwrites it.
- `admin_tokens.rs` speaks of a registry that is cached; `verify_admin_token`
  builds it for every request.

Actor store
- `destroy` removes the lock from the map without taking it (`unguarded`).
- `apply_commit` runs in a spawned task (`sql_repo.rs:802`): a request dropped at
  its await frees the lock while its commit is being applied, against the comment
  at `actor-store/src/mod.rs:624` that writers serialize (`overlap`).
- A failure between `index_writes` and `apply_commit` leaves the index ahead of the
  repo (`torn`); one after the commit leaves a commit nobody announces (`lost`).
- All actors share one blobstore handle (`types.rs`), so the `delete_all` of one
  removes the blobs of all, against its comment. The objects that one actor takes from
  another, or puts back after a takedown, are `crossed`.
- Bytes stored again while the background deletion of the former ones is due are
  deleted with them (`doomed`, `write.rs:273`).

Migration
- The seed pass may overwrite the key of an account that is being created
  (`main.rs:124`, `clobbered`). A `createAccount` that fails after the PLC operation
  was accepted loses the key of a DID that has no account; one that fails after
  `register_actor` (`account/mod.rs:177-183`, no transaction) destroys directory and key
  as well, and the actor row stays (`Destroyed`).

## 6. Not modelled, and why

- The contents of events, WebSocket frames, pings, the wording of mail, the syntax
  of handles, HTTP and CORS: no property here depends on them.
- Signatures. A token is its id and what checking it says. A refresh JWT is never
  valid for less time than its row.
- Code that production never reaches: `format_seq_handle_update`,
  `BackgroundQueue::destroy` and `process_all`, `put_block`, `put_many`,
  `delete_many`, `update_root` and `list_existing_blocks` of the repo storage,
  `PreferenceReader`, `verify_service_jwt` (its resolver is registered in tests
  only), backlinks (never written), and `set_account_invites_disabled`.
  `update_handle` and `disable_invite_codes` have no route either, but the functions are
  modelled.
- The crawler notification (at most one call in 20 minutes to other hosts;
  the time of the last one is kept in a clone that is dropped), the DID cache (a
  refresh in the background may overwrite a newer document with an older one; a
  stale document is accepted by design), service auth, configuration,
  observability, migrations and the web pages: see the notes in `PROJECT.json`.
- `reserve_keypair` and the signing keys it reserves (a check and a write that two
  requests can interleave), takedown of single records, the listing of blobs.
- More than one account where accounts do not share state: `Sessions`,
  `Credentials`, `OAuth` and `ActorStore` are about one each. `Accounts`, `Blobs`
  and `Rotation` are not, because handles, addresses, codes, bytes or the tool are
  shared.
- A statement that the database still executes after its request was dropped:
  the model lets it be done or not at that moment, and never later, except for the
  commit of `RepoStorage`. Crash of SQLite itself: a statement is atomic and durable.
- The clock goes back in `Sequencer` only.

## 7. Plan

Done: all modules above, and the proofs of the safety properties of every one.

Next, the composition of `ActorStore` with `Sequencer` in one module: a commit
that is applied and not lost is in the log.
