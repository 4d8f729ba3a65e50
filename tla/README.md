# benchmark-prompts in TLA+

This directory models benchmark-prompts, a server that publishes a reviewed
catalogue of prompts (Go, SQLite) and an SDK/CLI that keeps a local copy of it.
Modules are checked with TLC on small instances; the main results are proved
with TLAPS for all values of the constants. `PROJECT.json` lists components,
runs, mutants, the map from definitions to source lines, findings, hazards and
theorems. Paths below are relative to `src/benchmark-prompts/`.

## 1. The system

Processes and what they share:

* **bench-server** (`cmd/server`): one HTTP process over one SQLite file, opened
  with `SetMaxOpenConns(1)`, WAL and `busy_timeout=5000`. Requests run
  concurrently but their statements go through one connection; a request of
  several statements interleaves with others between them.
* **operator commands** (`bench-server -approve`, `-reject`, `-put-key`,
  `-gen-invite`, `-revoke-key` ...): each a process of its own on the same file.
* **maintenance goroutine**: every ten minutes drops limiter buckets and prunes
  catalogue snapshots.
* **clients** (`pkg/client`, `internal/cli`): short-lived processes, several at a
  time, over one cache file (SQLite: `prompt_cache` and `kv`).
* **plugins** (`plugins/pi`, `plugins/dsh`) call the CLI; **web** calls the API.

| part | state | operations | what is hard | what makes it correct |
|---|---|---|---|---|
| store: prompts, snapshots | rows (status, version, updated_at), hash -> second | upload, SetStatus, RowsForHash, PromptsUpdatedSince, DeletedSince, RecordSnapshot, Lookup, Prune | second granularity, stamps read before commits, processes of the operator | a snapshot's second never claims too much |
| catalog + delta | none | Hash, Refresh, Delta (page, deletions, cursor) | several statements per answer, OFFSET paging | an answer never hides a change |
| SDK sync | cache rows, `catalog_hash` | Sync, Get, Random, Purge, CheckStatus | failed rounds, lost replies, concurrent processes | no lost change, no ghost row, progress |
| store: uploads, scores | `uploads`, `scores` | CreatePendingPrompt, UpsertScore | retries of a POST, duplicate texts, review between statements | one prompt per text, one per client id, votes for published prompts only |
| store: keys | `api_keys`, `invite_codes` | RegisterSelfKey, Disable, Revoke, PutAPIKey, CreateInvite | races for the last use, lost replies, two processes | uses never exceed the limit, one key per device, a revoked key comes back by `-put-key` of that key only |
| auth | - | Bearer and HMAC | clock skew | only enabled keys pass |
| rate limiter | a slot (count, end) for each tier, endpoint and subject | Allow, GC | window edges, clock read before the lock, GC beside calls | one window at a time, bounded bursts, a told wait is enough |
| middleware | a request's stage, body and identity | body, shedding, authentication, quota, handler, panic, counting | the order of the layers, a flag read before the handler runs | a caller is refused only for its own use |
| SDK transport | attempt, time left | send, attempt, retry, back off | lost and late replies, two time limits, signals, gateways | a write is sent once and a refusal is final; every command ends |
| list | an offset as cursor | `list`, `list --all`, `GET /v1/prompts` | the catalogue moves between pages, limits are clamped | up to where the list ends, nothing is left out or doubled but what was moved |
| SDK cache: ETags, recent, device id | `kv`, `prompt_cache` | Get, Meta, Random, PushRecent, DeviceID, Purge, ClearRecent | ETag and copy are two statements, written by Get, Random and Sync alike | a 304 never confirms an older copy; one device id |
| LRU cache | list + map | Get, Set, Delete | - | always empty: nothing calls Set |
| metrics, watchdog | ring of rates, flag | BytesOut, a sample each second | uneven ticks, a ring not full at first | the flag is the mean's, degradation ends |
| start, migrations | `schema_migrations`, scope of keys, the write lock | Open, Migrate, applyMigration | several processes start on one file, die and are restarted | what is recorded is what was done, each once; nobody works without it |
| CLI configuration | `~/.bench/config`, flags, environment | config init/set, key new/revoke, Save | precedence, read-modify-write, lost replies | only what was asked for is saved, and nothing else is lost |
| moderation, secretbox, server config, model, CLI text, web, plugins, deploy | - | pure functions, I/O, user interface | - | not modelled (pure or presentation) |

## 2. Modules

| module | models |
|---|---|
| `Catalog` | the server's tables and every statement that writes them; a Refresh in two steps; the stamps of writes and snapshots with their delays |
| `CatalogSync` | extends `Catalog` with any number of clients: `Sync` and the handler of delta statement by statement, lost replies, failed rounds, `Get`/`Random` on the side, `Purge` |
| `Replica` | what synchronisation promises, row by row and without hashes, times or pages; implemented by `CatalogSync` |
| `MCCatalogSync` | symmetry and a bound for the model checker |
| `KeyRegistry` | API keys and invitations: registration as a transaction, the operator's commands, revocation, the key a device has saved |
| `Invitations` | what registration promises, each transaction one step; implemented by `KeyRegistry` |
| `PromptStore` | uploads (client ids, duplicate texts) as a transaction, reviews, scores in three statements |
| `Intake` | what an upload promises, one step each; implemented by `PromptStore` |
| `Served` | what `/v1/prompts/{id}`, `/v1/prompts/random` and `/v1/meta` show: versions and publicity by id |
| `ClientCache` | extends `Served` with the cache file of an SDK client and every statement of Get, Meta, Random, Sync's rows, Score, Purge |
| `Reader` | a client without a cache: what Get and Meta promise; implemented by `ClientCache` |
| `MCClientCache` | symmetry of prompts and devices; a bound on the third prompt |
| `RateLimiter` | `Allow` in its two steps (the clock, then the lock), GC likewise, the wait told to refused callers |
| `Quota` | what fixed windows promise, with no GC and no lock; implemented by `RateLimiter` |
| `Watchdog` | the ring of samples and the flag `degraded` |
| `Admission` | extends `RateLimiter` and `Watchdog` with requests that pass the middleware to their handler, and the bytes they add |
| `MCAdmission` | routes, callers and limits; symmetry of the requests |
| `MCKeyRegistry`, `MCPromptStore` | symmetries; the texts and client ids that are sent |
| `RemoteWrite` | what a command that changes something promises: done at most once, and what the answer says of it; implemented by `Listing` |
| `Transport` | one call of the SDK: attempts, time limits, pauses, classes of errors, signals; the network and the server's side of its requests |
| `Listing` | extends `Transport` with `list` over changing public prompts: the handler's page and cursor, the loop of `--all` |
| `MCListing` | one answer of each kind that is told apart |
| `Startup` | Open and Migrate in any number of processes that start, fail, die and are restarted on one file; the scope of keys |
| `Credentials` | the CLI's config file under flags and environment, and the commands that write it |
| `CatalogSyncProofs` (with `Catalog` and `Replica`), `KeyRegistryProofs`, `PromptStoreProofs`, `ClientCacheProofs`, `AdmissionProofs` (with `RateLimiter` and `Watchdog`), `ListingProofs` (with `Transport`), `StartupProofs`, `CredentialsProofs` | theorems and proofs |

### Catalog

`row`, `snap` are the tables, `req` what each Refresh under way has read, `clock`
the machine's second, `shown` a history of public versions. The text of a prompt
never changes after its insert, and no code sets `deleted=1`, so a row is its
status, version and `updated_at`. A catalogue hash is modelled by what it
digests, the public ids with their versions: equal hashes are equal catalogues.
`SetStatus` and the insert of an upload are stamped with a second up to
`CommitLag` before the one they commit in: the code reads `time.Now()` before a
statement that may wait `busy_timeout` for another process. `Refresh` reads the rows, and the clock up to
`StampLag` seconds later. Only `GET /v1/prompts/delta` records snapshots
(`/v1/meta` just reads), so the constant `Requests` are calls of delta. The
operator's commands write `approved` and `rejected` (`Outcomes`) from any status.

### CatalogSync

One process per client: the handler runs while the client waits, so `pc` covers
both. Actions: `StartSync`, `ServeHash`, `ServeRecord`, `ServePage`,
`ServeDeleted`, `ApplyPage`, `StoreHash` for a round; `Resend` (reply lost,
`send` repeats the idempotent GET), `Interrupt` (the process dies or the call
fails; any part of the page received may have been written), `FetchRead` and
`FetchApply` (a public row read by Get or Random, and its later write to the
cache), `PurgeRows` and `PurgeKV`, `Review` (an operator), `ServerAlone`
(uploads, time, pruning, other clients' deltas).

Merged steps, and why that loses nothing: `LookupSnapshot` and the page query
(the lookup commutes with reviews and the query with pruning and recording);
the upserts of a page and its deletions (other processes see either order per
row, and a failure in between is `Interrupt`). The limit `maxSyncPages` is a
failed round. Two rounds of Sync on one cache file at the same time are not
modelled.

Four booleans switch on what the environment may do, each in a configuration of its own:
`BusyPaging` (reviews between two pages), `EarlyRows` (rows in the cache before
the first complete Sync), `Overlap` (Get or Random of another process during a
Sync), `SplitPurge` (a process dies between the statements of Purge). Together
with `CommitLag = 0` and a retention as long as the run, their absence is
`Quiet`, the assumption of the main theorems.

### Replica

The same from a reader's side. `copy` is `cache`, `public` is `Published`, `due` is
`Due`: the rows the client's next delta will look at, all of them when its hash is
missing or resolves to nothing. An upload or a review (`Change`) makes a row due for
everybody; `ApplyPage`, `Interrupt` and `FetchApply` are `Receive`, `StoreHash` is
`Finish`, `PurgeRows` is `Forget`; all else leaves the four variables alone.

### Transactions in KeyRegistry and PromptStore

`RegisterSelfKey` and `CreatePendingPrompt` read, decide and write in one
transaction. `SetMaxOpenConns(1)` gives the connection to one request at a time,
so `conn` names the call that holds it, and no other request of the server has a
step until it is free. An operator's command is another process: it may write
between what a transaction reads and what it writes. In WAL mode SQLite does not
let a transaction whose snapshot is old begin to write (`SQLITE_BUSY_SNAPSHOT`,
which `busy_timeout` does not wait for); `stale` records that, and the second
step then fails, with everything rolled back. So each transaction has two steps,
`RegisterCheck` and `RegisterCommit`, `UploadRead` and `UploadWrite`: what is read
is of one snapshot, what is written appears at once. `LoseReply` may come after
any step: the caller, the connection or the server dies, an open transaction is
rolled back, a committed one stays, and nobody receives the answer.

### KeyRegistry

`key` and `invite` are `api_keys` and `invite_codes`, a key or code being named by
its plain form (the code stores hashes). `held` is `api_key` in a device's
configuration file. `PutAPIKey` writes the columns as its statement binds them.
`Matches` is the prefix or name of `-revoke-key`. `RevokeSelf` merges the lookup of
`authMW` and the `UPDATE` of `DisableAPIKey`: a key that is disabled between the two
would be disabled again; its key is the one saved or any other, given by `--key` or
`BENCH_API_KEY`. `Keys` is one set: `NewAPIKey` draws a fresh one of it (160 random bits)
and `-put-key` takes any, as `parseKeySpec` does, a device's key too, revoked or not. The
row keeps its device and its invitation then, and becomes enabled and `admin`.
Labels, secrets and HMAC are left out.

### PromptStore

A prompt is its text and status; `DigestOf` maps texts that differ in white space
to one digest. `vote` is `scores`, whose primary key `ON CONFLICT` makes a function
of prompt and device. `published` is a history of what has been public.
`Submissions` says what is sent: `FromCLI` (a client id stands for one text and is
sent again with it, other texts carry none), `FromBrowser` (one id for all).
`UpsertScore`
is three statements in autocommit, with anything between them. Validation and
moderation answer before the first statement and are left out.

### ClientCache

`tag` is `etag:<id>` and `etag:meta`, `copy` is `prompt_cache` and `meta_json`,
`recent` the window of `random --fresh`, `device` the device id. An answer is a
view (the version of each prompt it shows); it determines its ETag and stands for
it, which takes equal ETags for equal answers (the total in `/v1/meta` is read in
a statement of its own and is left out, as is its server time). `call` is the call
under way in each process, `at` the statement it is before: the cache has no
transaction but that of `DeletePrompts`. `UpsertPrompt` is `SelectOld`, `Insert`,
`EraseTag`, whoever calls it; `SetETag` comes before it in Get. Sync appears a row
at a time, since `CatalogSync` has its rounds. `drawn` and `used` are histories.
`Latest` is the loop of `PushRecent`, one id of the old list at a time.
`StatementFails` is a write whose error Get, Meta and Random ignore; an error that
ends the call is a `Stop`. `Torn` allows either between the statements that store
one answer; `Procs` of two is two processes (or goroutines) on one file. Options
that replace the cache (`DeviceID`, `NoCache`), tags, `--exclude` and the cap of 100
excluded ids are left out, as is a failing `GetETag` (an unconditional request,
which `ReadCopy` makes too).

### RateLimiter

`hits` is the map, `asked[c]` the bucket and the time of a call that has read the
clock and waits for the lock, `gc` the same for GC. Nobody waits longer than `Lag`,
so the time by which a call is judged may be that far behind the one that another
call has acted on. A refused call's wait comes from a reading under the lock
(`time.Until`), rounded up to seconds by `renderErr`. `window` and `told` are
histories: the last slot of a bucket whether or not GC has dropped it, and when
refused callers were told to come back. Time is an integer; `Win` and `Second` are
lengths in its unit. A bucket without a limit is let through before the clock is
read and has no step here.

### Watchdog and Admission

`fresh` is what `BytesOut` has gained since the last sample, `samples`, `idx` and
`filled` are the ring. Rates are exact, multiplied by `Scale`, which every gap
between ticks divides; the code uses floats. A ticker drops ticks its receiver is
late for, so gaps differ, and the mean is over samples, not over time. The gap of
zero stands for the guard `secs <= 0`, which only the first tick can meet. `Total` adds from the first sample
to the last, as the loop does.

A request goes `idle`, `limit` (it has read the clock), `run`, `answer`, `idle`.
`Arrive` has a disjunct for each layer that may answer first. `Guarded` routes are
those of `writeRoute` and `adminRoute`, where an identity exists; on all others
`identityOf` is empty. Two routes can have one endpoint name (`keys`). `Panic` ends a
request without counting: `metricsMW` counts after the handler returns, not in a
`defer`, and `recoverMW` is outside it. `served` is a history of when requests with a
quota reached their handlers, by `Subject`, the caller a documented quota is for,
which is chosen apart from the bucket `KeyOf`.

### Transport and Listing

A command is one value of `write` and one call of `send`, or several for
`list --all`. `stage` follows `send`: `ready` before an attempt, `flying` during it,
`pausing` in `sleepCtx`. `spent` counts the command's time against `--timeout`, one
deadline for all its calls, and `timer` what is left of the attempt
(`http.Client.Timeout`) or of the pause. Time passes only while the command waits.
With the context done the next attempt fails inside `Do` as `network`, so an attempt
may be spent without a request; a pause that is cut short returns the context's error,
which `classifyError` names `unavailable` or `canceled`. `ShouldRetry` keeps the
code's two tests: on the code, and on the status.

The other side is `wire`, the attempts whose request may still be performed, and
`done`, how often the call has been. A request is answered, performed with nobody to
hear it (at any time, after the command has ended too), or lost; `AnswerError` with
a status of 4xx is decided before anything is changed (validation, authentication,
quota and conflict come first or roll back, as `PromptStore` and `KeyRegistry` show),
any other answer leaves open what was done, and 502 and 504 may come from a gateway
that answers in the server's place. The 304 and the body of a reply are
in `ClientCache`.

`ListPage` is `ListApproved` with limit + 1 rows, the cut to a page, and the append in
`cmdList`: the query is one statement, and what happens to the catalogue after it only
meets the next page. A public prompt is its place in the order of ids; tags, a filter
of the same query, are left out. `start`, `came` and `gone` are histories of what was
public when the command began and of what has moved since. `GoesOn` ends the loop of
`--all` after `MaxPages` pages, and the command ends well. It says so in a note on the
standard error, which `--quiet` keeps back and `--json` has no field for, so no property
counts on the note: `NothingSkipped` states instead where the list may have been cut.

The pause of `Retry-After` in `send` is not in the model because it is not reached:
it stands behind `shouldRetry`, which is false for `rate_limited` with status 429.

### Startup

`schema`, `recorded` and `scope` are what is committed, `txn` what the holder of
SQLite's write lock sees of them. `Open` sets the journal mode before the busy timeout,
so processes that come to a new file together may fail at once. `Count` is a look outside the
transaction; `Body`, `Record` and `Commit` are `applyMigration`; a body whose table or
column is there already, or that waits too long, fails the process (`BodyFails`), and
`main` exits. 0002 adds the column with the default `writer` and then makes the keys it
finds administrators, in one transaction; `PutKey` and `RegisterKey` are the later
writers of the column. `Crash` is a death or a signal at any point.

### Credentials

`file` is `~/.bench/config`, `Blank` also when it is missing: `LoadConfig` takes both
for an empty configuration. `flags` stand for what the command line gives, over the
environment. `key new` and `key revoke` send their request with the file under the
flags (`InForce`), read the file again and save it changed (`Load`, `Truncate`,
`Write`); `config init` and `config set` save the flags. `server` is what the server
knows of each key; its own rules are `KeyRegistry`'s. `ReplyLost` and `Fail` end a
command at any point. A user gives keys that are valid. `given` and `base` are histories.
Of the `Procs` that use one file one runs at a time, unless `TwoProcesses` lets their
commands overlap: then the last `Write` wins, which is the reason for the condition of
two theorems.

## 3. Runs

| run | asks | result |
|---|---|---|
| `sync` | `CatInv`, `SnapSound`: is the second recorded for a hash true of the rows? `Covered`, `ImplementsReplica` and the inductive `SyncInv`: paging one row at a time, late stamps, a lost reply or a failed round at any step | holds |
| `live` | `SnapshotTimeFixed`: is the second of a hash never moved while the hash is kept, with two Refreshes, late commits and pruning at once? `CachedWasPublic`, `RoundEnds`, `HashCatchesUp` under fairness, with reviews while paging, early rows and split purges | holds |
| `keys` | `Budget`, the inductive `KeyInv`, `OnlyPutRestores`, `ImplementsInvitations` with two registrations, two invitations, the operator, who may put any key, and lost replies | holds |
| `uploads` | `StoreInv`, `AcceptedIsStored`, `ImplementsIntake` with the uploads of the SDK's clients, votes and reviews | holds |
| `cache` | `Transparent` and the inductive `CacheInv`, `WindowIsLatest`, `OneDevice`: do Get and Meta answer from the cache what they would have been answered without, is the window the prompts drawn last, is there one device id, over Purge and failures? | holds |
| `quota` | the inductive `AdmissionInv`, `QuotaKept`, `OneWindowAtATime`, `RetryAfterHonoured`, `RefusedHadItsShare` with two requests, GC and clock readings that are behind | holds |
| `bandwidth` | the inductive `RingInv`, `DegradedIsMean`, `SheddingRecovers` with uneven ticks, panics, missing keys and two requests | holds |
| `commands` | `ImplementsRemoteWrite`, `NothingSkipped`, `NothingRepeated`, the inductive `ListInv`, `CommandEnds`, with every answer, loss and delay, two limits of time, a signal and a catalogue that moves | holds |
| `startup` | the inductive `StartInv`, `ServesMigrated`, `NeverDemoted`, `EventuallyServes` with the service and two commands on one file and two crashes | holds |
| `credentials` | the inductive `CredInv`, `RestIsKept`, `NoDeadKey` with two users of one file, every mixture of file and flags, and a fault anywhere | holds |
| `busy_paging` | `Covered` with reviews between pages | violated |
| `early_rows` | `NoGhost` with rows before the first Sync | violated |

The violations are behaviours of the code that a comment, a test or a doc of
the repository excludes; `PROJECT.json` quotes each.

The other configurations show more disagreements: `tlc -config X.cfg` with the module
named, and TLC violates the property at once. Where the property follows a `+`, it is
to be written in place of the configuration's `INVARIANTS` and `PROPERTIES`
(`INVARIANTS` for `NoGhost`, `CreatedInTime`, `SelfServiceIsWriter` and `AllIsToTheEnd`,
`PROPERTIES` for the others).

| configuration, module | property | what happens | what is said |
|---|---|---|---|
| `MCLateCommit`, `MCCatalogSync` | `Covered` | a status change is stamped before an `UPDATE` that waits for another process, commits behind the second of a hash and is never sent (`store.go:600`) | `catalog.go:103` calls `>=` safe |
| `CatalogSync.cfg` + with `KeepSeconds = 0`, `MCCatalogSync` | `NoGhost` | a client's snapshot is pruned, its delta falls back to the full list, a row taken down stays (`store.go:430`) | `sync_e2e_test.go:175`: it must be removed |
| `MCOverlap`, `MCCatalogSync` | `Covered` | a late answer of Get overwrites the newer row of a Sync (`cache.go:103`) | `client.go:49`: safe for concurrent use |
| `MCUpToDate`, `MCCatalogSync` | `UpToDateIsEqual` | approve and reject bring the old hash back; a client with the prompt is "up to date" (`sync.go:177`) | `sync.go:146`: tells whether the client is behind |
| `MCKeyAmbiguous`, `MCKeyRegistry` | `AmbiguousRevokesNone` | several matches: the error comes after all are disabled (`store.go:963`) | `store.go:946`, `docs/server.md:300`: nothing is revoked by mistake |
| `MCKeyRegistry` +, `MCKeyRegistry` | `CreatedInTime` | the `VALUES` of `PutAPIKey` bind the second to `enabled` and 1 to `created_at` (`store.go:675`) | `docs/api.md:354` |
| `MCKeyRegistry` +, `MCKeyRegistry` | `RevokedForGood` | `-put-key` of a key that a device has revoked enables it again (`store.go:677`) | `handlers.go:445`, `docs/api.md:363`: cannot be undone |
| `MCKeyRegistry` +, `MCKeyRegistry` | `SelfServiceIsWriter` | `-put-key` of a device's key makes it `admin` (`store.go:677`) | `CHANGELOG.md:24`, `docs/server.md:311`: always `writer` |
| `MCKeyRegistry` +, `MCKeyRegistry` | `ClearedIsRevoked` | `key revoke` with `--key` clears another, valid, saved key (`commands.go:296`) | `commands.go:218`: revokes the current key and clears it |
| `MCUploads` +, `MCPromptStore` | `ReusedIsPublic` | a rejected or pending text is answered with its old prompt (`store.go:534`) | `docs/storage.md:149`: an approved one |
| `MCUploads` +, `MCPromptStore` | `CollisionRetried` | an id that is taken fails the upload (`store.go:560`) | `docs/storage.md:105`: is drawn again |
| `MCUploads` +, `MCPromptStore` | `DocumentedTransitions` | approved to rejected, rejected to approved (`store.go:591`) | `docs/storage.md:104` |
| `MCKeyRegistry` +, `MCKeyRegistry` | `ConflictHasKey` | a device whose key was revoked is refused for good: revoked rows count (`store.go:838`) | `handlers.go:402`: have the operator revoke it for a new one |
| `MCBrowser`, `MCPromptStore` | `AcceptedIsStored` | the web site sends one client id with every upload (`web/src/lib/api.ts:242`): every text after the first is answered with the id of the first and stored nowhere | `docs/client.md:190`: a new random id for each upload |
| `MCKeyedReads`, `MCAdmission` | `KeyHolderHasItsQuota` | `route()` has no `authMW` (`server.go:131`), so a reader that sends its key has the quota of its address | `middleware.go:257`: or authenticated requests are limited as anonymous ones |
| `MCCommands` +, `MCListing` | `LimitedIsRetried` | a 429 ends the command at the first attempt (`client.go:223` asks for a status of 5xx) | `docs/client.md:165`: waits for `Retry-After` and repeats |
| `MCCommands` +, `MCListing` | `AllIsToTheEnd` | after `maxAllPages` pages `list --all` ends well with more to come, silently under `--quiet` (`commands.go:170`, `cli.go:333`) | `cli.go:96`: until the end |
| `MCNoCondition`, `MCClientCache` | `RowHasTag` | Get stores the ETag, then `UpsertPrompt` erases it because the row has changed (`client.go:453`, `cache.go:112`): the second Get has no condition and is answered 200 | `sync_e2e_test.go:282`: the second Get hits the ETag and is a 304; `client_test.go:112` |
| `MCTorn`, `MCClientCache` | `Transparent` | the process ends between the ETag and the copy; the next Get has a 304 and returns the older copy (`client.go:452`) | `client.go:418`: a 304 is answered from the cache |
| `MCTwoProcesses`, `MCClientCache` | `OneDevice` | two first processes draw a device id each and both vote (`cache.go:242`) | `docs/client.md:188`: stable after the first write |
| `MCFresh`, `MCClientCache` | `FreshFinds` | when all public prompts are in the window, `--fresh` finds none until others are drawn (`commands.go:119`) | `cache.go:266` rejects excluding all for this very reason |
| `MCRetryAfter`, `MCAdmission` | `RefusalSaysWhen` | a call judged at the last instant of a window has no wait left when it is refused, and `renderErr` writes no `Retry-After` for it (`limiter.go:56`, `render.go:42`) | `docs/api.md:442`, `contract_test.go:757`: a 429 has one |
| `MCSliding`, `MCAdmission` | `SlidingQuota` | the end of one window and the start of the next let twice the limit through (`limiter.go:51`) | `docs/server.md:79`: a sliding window |
| `MCShedErrors`, `MCAdmission` | `SheddingRecovers` | with bodies of errors that are large beside the limit, the 503s of shed requests keep degradation on (`middleware.go:205`) | `middleware.go:201`: sheds to keep get and random usable |

A variant holds and adds to what a listed run asks: `CacheCatchesUp` (while nothing is
taken down, the cache itself becomes equal to the catalogue) for `CatalogSync.cfg` without
its `CONSTRAINT`, with `FairSpec`, `MaxClock = 1` and `Outcomes = {"approved"}`.

*Bounds.* Two prompts and pages of one row make a round of two pages, an offset
that points past the end, and a tie on `updated_at`. `MaxClock` of 2
seconds gives snapshots before, in and after the second of a write (1 in `live`, whose
properties do not compare seconds beyond their order; the theorem `SnapshotsSound` has
late commits and late stamps of any length);
`MaxVersion` 3 allows upload, approve, reject (the A-B-A of a hash); in `sync` the
constraint `FewReviews` lets one of the two prompts have that and the other one review. One
failure (`MaxInterrupts`) at every step of a round is enough: a failed round
leaves a cache and a hash, and the next starts from there. Clients
interact only through snapshots; the proof covers any number. Two calls at a time make
every race for an invitation, a device, a text or a client id (a third would wait
for the connection); two keys, drawn or put, let a second registration, a `-put-key` of
a device's key and one of an unknown key happen; two ids, devices and client ids, one more than a
transaction uses, let one be taken; three texts of two digests give a repetition
up to white space and a different text; two seconds let an invitation expire
between check and commit. In `ClientCache` two prompts let
Random and Sync touch another row than the one being read and reorder a window of two; once
there is a third one, calls are those of Random and Purge and no ETag is kept
(`ThirdIsDrawn`), and the window overflows, so that the oldest id is cut from it. Three
versions give a prompt two public versions or take it down, one failure
falls at every statement. In `quota` a window of two and a wait of one give
calls that open a window late and GC that forgets one under a call that is behind, and
five instants reach a third window; in `bandwidth` time stands still for the limiter,
a ring of three turns while gaps of one and two mix, errors weigh nothing beside
answers, and at most `MaxFresh` bytes are counted between two samples. In `commands` three prompts on pages
of one (the limit asked for is clamped from two) let a prompt come or go before, on and
behind a page; a limit of two pages makes lists that are complete and lists that are cut; two attempts
within two units of time make the pause, the limit of an attempt and the deadline meet in
every order. In `startup` three processes are one more than the race for a
migration needs, two versions give a file of before 0002 and a new one, and two crashes hit
one process twice or two of them. In `credentials` two keys of one device
and one of an operator are one more than a command handles; one fault falls at every
step. The proofs remove all of these bounds, for every safety property of the runs:
without a condition, or with the one stated in section 4.

*Fairness.* `WF` of the steps of a round (a process that started goes on), `SF` of
`StartSync` (the user synchronises again and again, whatever else he does in
between; weak fairness would not do, since Purge and a Get disable it for
moments), `WF` of writing an answer and of the second half of Purge, and `WF` of
`TakeSample` (the watchdog's goroutine runs as long as the server). In `commands` `WF` of
`Process`: the scheduler runs the process and its timers fire; nothing is asked of the
network or the server. In `startup` `WF` of each running process and of starting the
service (`Restart=always` in `deploy/bench-server.service`); nobody need give a command, and
the number of crashes is bounded, so `EventuallyServes` says that the service comes up once
crashes pause. Nothing
forces uploads, reviews, fetches, purges or the clock. In the bounded model the
catalogue stops changing in the end (`MaxVersion`); `HashCatchesUp` and
`CacheCatchesUp` therefore say that a client catches up once changes pause.

## 4. Proofs

All liveness properties, and only they, are left to the runs: the prover has no rules for
fairness and `ENABLED`. Every invariant and action property of the passing runs, and
every refinement, has a theorem:

* `CatalogSyncProofs`, the server's tables: `CatInv` (types, unique hashes, `SnapSound`, and
  the same for a Refresh between its two steps) is inductive; `SnapshotsSound` and
  `SnapshotTimesStay` follow, for all delays and retentions. Synchronisation:
  `SyncImplementsCatalog` (every step of the composition is
  one of `Catalog` or leaves it alone), `SyncTypes`, `SyncInvariant` and from it `NothingLost` (`Covered`
  under `Quiet`), `OnlyPublicVersions` (`CachedWasPublic`, no assumption);
  `SyncKeepsPromise` (`ImplementsReplica`, under `Quiet`) and, of the abstract
  specification, `PromiseIsEnough`.
* `KeyRegistryProofs`: `KeyInvariant` (types, `Budget`, one key per device, what a
  transaction has checked still holds), `BudgetKeptAlways`, `PutAloneRestores`
  (`OnlyPutRestores`), and
  `RefinesInvitations`.
* `PromptStoreProofs`: `StoreInvariant` (one row per text, sound answers and votes),
  `UploadsAtomic` (`ImplementsIntake`), and `AcceptedStored` (`AcceptedIsStored`, if no
  client id is sent with two texts; `MCBrowser.cfg` shows that the condition is
  needed).
* `ClientCacheProofs`: `CacheInvariant` (`CacheInv`), `FreshWindow` (`WindowIsLatest`) and
  `CacheIsTransparent` (`Transparent`, a refinement of `Reader`) for
  `Sequential`, one process at a time and whole stores; `DeviceIsOne` (`OneDevice`)
  for `OneProcess` alone, so with an answer stored in part as well. `MCTwoProcesses` and
  `MCTorn` show that the conditions are needed.
* `AdmissionProofs`, the limiter: `LimiterInvariant` (`LimInv`: a slot is the last window of its
  bucket, or missing only when that is over), `LimiterKeepsQuota`
  (`OneWindowAtATime`, a refinement of `Quota`), `LimiterHonoursRetryAfter`
  (`RetryAfterHonoured`), for all limits, windows, units and waits up to a window.
  The server: `AdmissionUsesLimiter` (every step of a request is one of
  `RateLimiter` or leaves it alone), hence `ServerKeepsQuota`; `AdmissionInvariant`
  (`AdmissionInv`); `RefusalIsFair` (`RefusedHadItsShare`); `QuotaIsKept` (`QuotaKept`, over any
  number of windows). The watchdog: `RingInvariant` (`RingInv`) and `FlagIsMean`
  (`DegradedIsMean`), for every size of the ring and all gaps and rates.
* `ListingProofs`: `ListInvariant` (`ListInv`), `WritesKeepTheirPromise` (`Listing`
  implements `RemoteWrite`), `ListComplete` (`NothingSkipped`), `ListDistinct`
  (`NothingRepeated`), for every catalogue, page size, deadline and number of attempts.
* `StartupProofs`: `StartInvariant` (`StartInv`), `WorkNeedsTheSchema`
  (`ServesMigrated`), `KeysStayAdmin` (`NeverDemoted`), for any number of processes,
  keys, versions and crashes.
* `CredentialsProofs`: `CredentialsInvariant` (`CredInv`, for any number of commands at a
  time), `SavesKeepTheRest` (`RestIsKept`) and `NoDeadKeyStays` (`NoDeadKey`), both for one
  command at a time (`~TwoProcesses`): a command writes back the whole file it has read.

`ImplementsRemoteWrite` needs `WireInv`: a write has one attempt, and its request is on
the wire or performed but not both, so one that is refused can have neither left.
`NothingSkipped` speaks of the end; `SeenInv` says at every moment that a prompt which
nothing before it has left is listed or has its place behind the pages seen, with
`PlaceMonotone`, `PlaceUnmoved` and `PlaceBelow` for what a change of the catalogue does to
places. That the list goes as far as it was asked to needs `PagesInv`: the places seen
are `Limit` for each page received, and success means that no page is due.
`SchemaIsRecorded` needs `TxnInv` (what is uncommitted is the file and one
migration) and `LoopInv` (everything below a process's own version is recorded), from
which `NextVersion` has that a body follows the last one without a gap.

`OneWindowAtATime` has no GC: that a slot may be dropped needs `SlotIsWindow` with the
history `window`, and that a call which is behind may open the next one at most `Lag`
late needs `RecentlyRead`. `RefusedHadItsShare` speaks of requests, not of slots:
`Asking` ties a waiting request to the bucket of its subject, and `SlotCountsServed`
says that a slot counts no more than has reached the handlers since it was opened.
`QuotaKept` counts what a bucket has let through since an instant. `WindowsApart` keeps, for
each call of a bucket before its last window, that with so many calls in between that `n`
windows were full the two lie `n * (Win - Lag + 1)` apart: a window lasts `Win`, and the
call that opened it may have been `Lag` behind. `CountBound` turns the distance back into
a number of calls.

`DegradedIsMean` is about a sum over a ring that turns. `RingInv` says which sample stands at
which place of the ring (`Place`) and that the sum over the ring is the sum over the
latest samples; `TotalFirst` and `TotalReplaced` say what a sample dropped in front, or put
in place of another, changes. `Total` is a recursive function: that it exists and what it is
at the next index (`LoopExists`, `LoopUnique`) is shown from the well-foundedness of the
numbers, and a fact about all indices by `NatSetInduction`, which takes the *set* of the
numbers that have the property in place of a predicate and is therefore open to the
prover. `WindowIsLatest` uses the same: `WithoutIs` says what the loop of `PushRecent`
keeps, `TakeLatest` that cutting the list before or after a push comes to the same, and
`WindowInv` that a draw that has its answer will make the window what it should be, from
the list in the file or from the one it has read.

`CredInv` speaks of each command by what it is about to put into the file (`CommandInv`):
nothing but what the user asked to be saved. For one command at a time `AloneInv` adds
that the file is still what the command found, that what it will save has changed only the
fields it is about (`Kept`), and, as long as nothing has failed, that a key in the file or on
its way to it is live, but for the one that the `key revoke` under way has just revoked
(`KeyInv`).

`AnswersInv`, the other part of `CacheInv`, says that an ETag in the file agrees with the copy, or there is no copy, or
the ETag is `Dead`: of a version the server has left behind, so that it confirms
nothing any more (what a Sync leaves that ends before it erases the ETag). It
speaks of every answer on its way to the file as well: it is no older than the
ETag it will meet. Since versions only grow, a 304 means that the ETag is not dead,
so the copy is what the server shows, which is the step `Answer` of `Reader`.

`Budget` is not inductive: that the condition of the `UPDATE` and the insert agree
with what was read rests on `CheckStillHolds`, which says that a transaction that has
checked holds the connection and that, unless `stale`, its checks still hold. In
`PromptStore` the same part is `UploadSound`; there prompts are never deleted nor
change their texts, so what was read about them holds even when `stale`. The lemmas
`OtherUploadSound` and `OtherVoteSound` are the frame: what a step of another call
must leave alone. `AcceptedStored` needs one conjunct more, `TextInv`: the prompt
bound to a client id has the text that was sent with it.

`Covered` is not inductive: nothing in it speaks of a round under way. `SyncInv`
adds, for each client, where a round stands (`RoundInv`), that versions on their
way are right for rows older than the hash held (`InFlightInv`), and that each
row is right in the cache or still to come on a later page (`ProgressInv`). The
proof of a step of the server or another client uses a frame lemma (`KeepLocal`,
`CreateLocal`, `ReviewLocal`); each step of the client has its own lemma.
`PageOrLater` is the counting argument of paging: the rank of a row in the
query is below the number of rows, so it is on this page or on a later one.

`SyncKeepsPromise` needs nothing more: a row that is not due agrees with the catalogue
before a step and, by the invariant, after it, so the step has not touched it (`ReceiveStep`),
what is no longer due after `StoreHash` is right (`FinishStep`), and by `ProvenanceInv`
what arrives has been public. `PromiseIsEnough` is then a proof about the four
variables of `Replica` alone.

Only model-checked: the liveness properties (`RoundEnds`, `HashCatchesUp`,
`SheddingRecovers`, `CommandEnds`, `EventuallyServes`) and
what the violation runs show. Assumed by the proofs: the named ASSUMEs of
the modules (typed, disjoint constants), and `Quiet`, `OneTextPerClient`, `OneProcess`,
`Sequential` and `~TwoProcesses` where stated. Each of these is a restriction of the environment that
code or documentation suggests and that a configuration of section 3 lifts; with
`TwoProcesses`, a command that saves what it read before another saved loses the other's
change (a hazard in `PROJECT.json`).

## 5. Not modelled

* Text, tags, JSON, gzip, HTTP headers, logging, the web client and the plugins, which
  run the CLI and present its output; moderation, secretbox, signatures and the server's configuration: pure
  functions or I/O, tested as such. SHA-256 is taken to be injective.
* The response cache `internal/cache` is created and deleted from, but no handler
  stores anything in it, so it has no behaviour to model.
* `store.migrate = false`, `-backup`, the draining of requests when the server stops,
  and the deployment scripts.
* Commands of the CLI that only pass on what the SDK does; options that replace the
  cache (`NoCache`, `DeviceID`).
* Two rounds of Sync at the same time on one cache file.

## 6. Plan

1. `ClientCache` over `Transport`: the two calls of a Get whose copy is missing under
   one deadline.
2. The two calls of `RevokeSelf` as steps of their own.
3. `Covered` with reviews between pages for the rows a review has not moved: what a
   busy round still guarantees.
