# Verification of the blob server

TLA+ models of the blob server in `src/`, their model-checking configurations
for TLC, and proofs for TLAPS.  The server stores files ("blobs") by bucket and
uuid: metadata rows in PostgreSQL, files in a storage driver, background tasks in
Redis (asynq).  No transaction and no lock spans the row and the file, so what can
go wrong is mostly what happens *between* the calls of concurrent operations.

## 1. The system

| Component | Code | State | Operations |
|---|---|---|---|
| Blob service | `services/blob_service.go`, `repository/blob_repo.go`, `controllers/{upload,edit,delete,download,view}.go` | table `blobs` | Upload, Edit, Delete, OpenFile, PurgeExpired, List, Get |
| Storage driver | `storage/*.go` | files and directories under the base | Put, Create, Open, Stat, Exists, Delete, Move, EnsureBucket, RemoveTree |
| Multipart service | `services/multipart_service.go`, `repository/multipart_repo.go`, `controllers/multipart/*` | table `multipart_uploads`, chunk files, `final` files | Initiate, UploadChunk, Status, Complete, CleanupAbandoned |
| Background tasks | `services/queue/*.go`, `services/asynq.go` | task queues in Redis | schedulers, at-least-once task runs, 5 workers |
| Rate limiter | `middleware/ratelimit.go` | a counter with expiry per client in Redis | Middleware |
| Storage quota | `functions/validation.go`, checks in `upload.go`, `initialize.go` | none (walks the tree) | GetTotalStorageSize |
| Listing | `controllers/{list,get}.go`, `blob_repo.go` List | none | page arithmetic |
| Event bus | `events/bus.go` | subscriber lists | Subscribe, unsubscribe, Publish |
| Metrics | `metrics/service.go` | counters and event lists under a mutex | Record*, snapshots |
| Authorization | `auth/*.go`, `middleware/auth.go`, `controllers/sign.go` | none | per-request decisions |
| Routing and validation | `routes/index.go`, `validators` | none | the dispatch by path and method |
| Configuration and connections | `config`, `main.go`, `logger` | none | start-up |

**Interaction.**  Handlers and queue workers run in one process and share the
database and the driver.  Upload, Edit and Delete call the repository and the
driver one call at a time.  Complete inserts into the blob service's table
directly.  The purge and cleanup tasks work on lists read earlier.  Publish starts
goroutines, and nothing in the repository subscribes.

**Hard behaviours, and what correctness means.**

* *Blob service.*  Two operations on one blob or on two blobs that share a
  deduplicated file; a failed call or a crash between row and file; a row read,
  edited in memory and written back whole.  Correct means: a row never leads to
  other bytes than those uploaded; bytes go away only by removal; expired blobs
  go away eventually; a shared file stays while it is referenced.
* *Multipart.*  Chunks in parallel, retries, concurrent completions, cleanup
  against an active session.  Correct means: what is promoted has the final hash;
  Status tells the truth about missing chunks; abandoned sessions leave nothing.
* *Driver.*  Directory pruning against directory creation; a Move that degrades
  to copying.  Correct means: it implements the contract of `driver.go`.
* *Rate limiter.*  Increment and expiry are two commands.  Correct means: a client
  that waits a window is served again.
* *Quota.*  Check, then act; errors of the walk.  Correct means: the bound on
  overshoot is known.
* *Listing.*  Two queries per page, pages as offsets into a table that changes.
  Correct means: a client that walks the pages misses, or sees twice, no more rows
  than moved meanwhile.
* *Event bus.*  Goroutines that start late, panic or never return.  Correct means:
  an event reaches the handlers of its time and no others.
* *Metrics.*  Counters, a list under a mutex, and queries that run one after the
  other.  Correct means: no event is lost and one reply's figures fit together.
* *Authorization and routing.*  The row that is judged is not the row that is
  served, and links and expirations age.  Correct means: what was made private or
  has expired is not served to requests that come later without a claim, and each
  route asks for its permission.

`PROJECT.json` lists the hazards line by line with the properties that cover them.

## 2. The modules

| Module | What it is |
|---|---|
| `BlobService` | state machine of the blob service over an abstract driver |
| `MCBlobService` | the constants of its TLC instances |
| `WriteOnceStore` | the abstract specification: what the service owes to the bytes stored under a uuid |
| `BlobServiceProofs` | its invariants and the refinement, for all values of the constants |
| `MultipartUpload` | state machine of upload sessions, completions and the cleanup task |
| `MCMultipartUpload` | the constants of its TLC instances |
| `MultipartUploadProofs` | theorems about it for all values of the constants |
| `ObjectStore` | the abstract specification: what `driver.go` promises to concurrent callers |
| `FilesystemDriver` | the filesystem driver, one step per system call; implements `ObjectStore` |
| `MCFilesystemDriver` | the constants of its TLC instances |
| `FilesystemDriverProofs` | its invariant and the refinement, for all values of the constants |
| `Access` | routes, keys, signed links, visibility, expiration, and the handlers that act on them |
| `MCAccess` | the constants of its TLC instances |
| `AccessProofs` | theorems about it for all values of the constants |
| `RateLimiter` | a client's counter in Redis |
| `StorageQuota` | the walk of the storage tree and the writes that it lets pass |
| `Listing` | a client that walks the pages of a listing that changes |
| `EventBus` | Subscribe, its unsubscribe function, Publish |
| `Metrics` | recording of events and `GET /metrics` |
| `ResumeUpload` | Status, and a client that resumes an upload by it |
| `MCComponents` | the last six, side by side, for TLC and for the proofs |
| `ListingProofs`, `ComponentsProofs`, `LimiterProofs` | theorems about them: the listing; the bus, metrics, quota, the limiter's counters and ResumeUpload; the limiter's windows |

BlobService and MultipartUpload call the driver one call at a time; ObjectStore says
what such a call may do, and FilesystemDriver shows that the shipped driver does
that.  ResumeUpload looks at MultipartUpload's UploadChunk as Status sees it.  The
others share no state with these: their interfaces are a return value (a refused
request) or nothing at all (events).

### BlobService

Every action is one call to the database or the driver, the points where the code
can be interrupted; `pc[p]` names the call that handler or worker `p` makes next.
`target`, `blob` and `seen` are the local variables of the Go functions: the id,
the row held in memory (which Edit writes back whole and Delete acts on), and the
other row that was read (the row found by hash, the row as Edit loaded it, the
first read of a download).  `expired[w]` is the list that PurgeExpired walks.

| Operation | Actions, in the order of the code |
|---|---|
| `PUT /blob`, Upload | UploadBegin, UploadEnsure, UploadPut (or UploadPutTorn), then with deduplication UploadLookup, UploadProbe, UploadDropCopy, and UploadCreate |
| `POST /blob/{id}`, Edit | EditLoad, EditMove (if a bucket is given), EditSave |
| `DELETE /blob/{id}`, Delete | DeleteLoad, CountSharers, Unlink, DropRow |
| purge task, PurgeExpired | PurgeFind, then per row PurgeNext, CountSharers, Unlink, DropRow; PurgeDone |
| download and view | OpenLoad (serveBlobFile's read), OpenReload, OpenFile, BumpCounter |
| errors | CallRefused: the call returns an error and the operation returns, or the purge loop continues; steps whose error the code drops have it as an alternative of their own |
| process | Crash (all operations stop where they are), Tick (the clock) |

`rows` is the table, `files` the driver's content.  `written` and `served` are history:
what has been uploaded under each uuid, and how many downloads got a
file.  `WriteOnceStore` is the service seen by bytes alone, without rows, buckets and
calls: under a uuid bytes are stored once, never change and never come back; the
refinement mapping takes the whole file that the driver holds under a uuid in whatever
bucket (`StoredBytes`), and the uuids whose Put has returned (`Spent`).  `EditSave` is
gorm's `Save`, which updates all columns and inserts when there is no row; the two
statements are one step.

Abstractions: hashes are contents; the columns no step depends on are left out; one
counter stands for both; a path string and its split by `BucketKey` come to the
same file, so a path is a pair of bucket and uuid; timestamps are ticks of a coarse
clock, and rows created in the same tick have no order; `removePhysicalIfUnshared`'s
guard for an empty path is left out because no row has one; a commit whose
acknowledgement is lost is not modelled; nothing waits for events, so Publish is
left out.  The driver keeps its contract, except that a failed Put may leave a torn
file, as the code of `FilesystemDriver.Put` may.  In particular Move is atomic:
`os.Rename` inside one filesystem.  The copy fallback is in FilesystemDriver.

`Driver` says which driver is configured.  With `"filesystem"`, EnsureBucket is
what `filesystem.go` computes, and it rejects every bucket (finding below).  With
`"conforming"`, EnsureBucket does what `driver.go` promises.  The properties of the
service are checked with the conforming driver: with the shipped one no upload
passes its first call, and there would be nothing to check.  The registry accepts
other drivers, and data written before stays reachable.

### MultipartUpload

A session has its row (`sessions`), its chunk files, its assembled file `final`, the
file it is promoted to and the row of that blob (`blobs`).  As in BlobService one
action is one call, and `pc[p]` names the next one; but here writers of one file
can overlap, so a chunk's body is written in two parts, an assembled file chunk by
chunk, and `handle[p]` says where the file that `p` has open is now: under its
temporary name, promoted by somebody's rename, or unlinked.

| Operation | Actions, in the order of the code |
|---|---|
| `POST /blob/initiate` | InitiateCreate, InitiateEnsure |
| `PUT /blob/{id}/chunk` | ChunkBegin (the session is read once), ChunkPut, ChunkWrite, ChunkStat, ChunkLimit, ChunkRecord; ChunkDiscard when a check rejects the body |
| `POST /blob/{id}/complete` | CompleteBegin, CompleteCreate, CompleteCopy per chunk, CompleteClose, CompleteInspect, CompleteMove, CompleteRow, CompleteMark, CompleteSweep; CompleteDrop after a failure |
| cleanup task | CleanupFind, then per session CleanupNext, CleanupTree, CleanupForget; CleanupDone |
| errors and process | CallRefused, CompleteFails, Crash, Age (a session passes the threshold) |

Abstractions: the client's file is its chunks `0 .. NumChunks-1`, one size each; the
client sends indices from `Indices`, which may go beyond them, any number of times;
a body is good or bad (wrong hash or size); a file is right if each of its parts is;
the final hash is that of the client's file; a request for a session that is not its
user's, or a completion with another hash, ends without a step that matters; deleting
a promoted blob belongs to BlobService and is left out; RemoveTree takes effect or
fails without effect; Status only reads (ResumeUpload has it).  `ids` keeps uuids from being drawn twice and
a client from using an id it was never told; `overlapped` is history.

### ObjectStore and FilesystemDriver

`ObjectStore` has objects, the call each goroutine is in, and its outcome.  While a
call is pending it may change the objects it names, and no others: a Put may show a
torn object before the whole one; a Move either relocates at once or copies and
gives up the source only when the copy is whole; an `ok` is decided only when the
effect is there; an error leaves what was done.  It is a contract for callers none
of which writes an object that another call under way names, as uploads with fresh
uuids do; overlapping writers are MultipartUpload's subject, at the level of calls.

`FilesystemDriver` has directories and files instead.  `pc[p]` is the next system
call of the goroutine:

| Call | Actions |
|---|---|
| Put | BeginPut, MkdirAll, OsCreate, Copy, Sync, Return |
| Create | BeginCreate, MkdirAll, OsCreate, Return |
| Delete | BeginDelete, Unlink, then pruneEmptyParents: PruneRead and PruneRemove up to the base |
| Move | BeginMove, MkdirAll, Rename, pruning; if Rename fails, OpenSource, OsCreate, Copy, Unlink, pruning |
| RemoveTree | BeginRemoveTree, TreeStat, TreeUnlink and TreeRmdir in any order, TreeGone |
| errors | Fault: a system call fails by itself; inside pruning the error is dropped |

The refinement mapping is the identity on `calls` and `outcome` and maps `objects` to
`files`; directories are what the abstract store does not have.  MkdirAll, ReadDir and
io.Copy are one step each (a copy that is cut short is a Fault before Copy, after
OsCreate has made the torn file).  The name rules of `resolve` are left out, and the
names here pass them; directory and object names are kept apart.

### Access

The whole of `RegisterRoutes` is the operator `Route(method, path)`, in the order of its
tests: exact paths, then the suffix, then the number of segments, then the verb. A path
is the sequence of its segments.  `Documented` is README.md's table; `Tolerated` is what
the dispatch lets in beside it: segments after a verb (`/blob/{id}/sign/x`), which need
the verb's permission, and download and view by any method.  `RequirePermission` and the
handlers' checks up to the first query are the guard of Arrive, since a refused request
changes nothing. What follows is one action per query: Read (GetByID), Check
(serveBlobFile judges the row it has read), Open (OpenFile reads another one), Save
(Edit's whole-row save), Remove, Issue (SignBlobController), Close.  A signed link is
what it signs: an id, an action and an expiration; nobody else can make one.  The hash
that stands for a claim is one value, known or not.  `secret` and `barred` are history:
which blobs a completed edit has made private, and for each request whether it had no
claim, or its blob had expired, when it arrived.  Upload, listing and multipart routes
are dispatched and leave for other modules ("elsewhere").  Files and buckets are left
out.

### RateLimiter, StorageQuota, Listing, EventBus, Metrics, ResumeUpload

* `RateLimiter`: a request takes the steps Arrive (clientIP), Incr, PExpire when the
  counter was new, Decide; IncrFails, PExpireFails and Lost are failed commands and
  requests that stop, and Tick is Redis's clock.  A counter is only compared with 1 and
  `max`, so it stays at `max + 1`.  `granted` is history: who was let through, by age.
* `StorageQuota`: List and Visit are the walk (it lists, then looks at each entry, and
  fails on one that is gone), Check and SkipCheck what the handler makes of it,
  WriteFile, Assemble and Sweep what is written and removed later.  All files have
  one size.
* `Listing`: Count and Find are the two queries of a page; Upload, Leave and Return
  change the table between them.  PageSize, Limit, Offset and Pages are the arithmetic
  of the controller, the repository and the service, each with its own idea of the size.
* `EventBus`: Snapshot copies the handlers under the lock, Start makes a goroutine for
  each, Call runs it, and a handler returns, panics or never comes back.  Unsubscribe
  removes nothing, because it compares addresses that are never equal.
* `Metrics`: Add, Lock, ReadSlice, WriteSlice, Unlock record an event; CountBlobs to
  Rates are the queries and the Snapshot of `GET /metrics` in their order; Change is
  anything that alters the blobs table.  RecordUpload stands for RecordDownload, whose
  body is the same.
* `ResumeUpload`: Ask is Status with its integer arithmetic (`Width` bits) and the limit
  on entries; Send, PutChunk and Record are UploadChunk's read of the list, the store and
  the write of the list; Fail is a chunk request that fails in either place.

`MCComponents` takes the union of these six: in each behaviour one of them runs
(`active`), so that the states add up instead of multiplying.  It renames the variables
that have one name in two modules and adds nothing else.

### Runs

| Run | Instance | Shows |
|---|---|---|
| `blob_safety` | 2 uuids, 2 buckets, 2 contents, 2 handlers, all requests, deduplication, 1 interrupted call, empty at the start | TypeOK, Consistent, ContentIntegrity, ServedContent, SingleCopy, CountNotInflated, BytesKept hold, and BlobService implements WriteOnceStore |
| `blob_nodedup` | 3 uuids (1 stored), 2 handlers, 1 purge worker, uploads and deletes, 2 interrupted calls | DamageBounded holds |
| `blob_purge` | 2 stored blobs, possibly sharing a file, 1 handler with edits and deletes, 1 worker, 1 interrupted call, fairness | EventuallyPurged holds |
| `multipart_safety` | 1 session of 2 chunks, 2 handlers, all requests, 1 interrupted call | TypeOK, PromotedWhole, CompletedHasBlob, OneSuccess, ChunksKept hold |
| `multipart_cleanup` | 1 session, 1 handler, 1 cleanup worker, size cap of 1 chunk, 2 interrupted calls, fairness | PromotedWhole, EventuallyCleaned hold |
| `driver_contract` | 3 goroutines, all calls, 2 nested directories, 1 key, empty at the start, 1 failed system call | TypeOK, Orderly, NoEmptyDirs hold, and FilesystemDriver implements ObjectStore |
| `access` | 1 blob, a reader and an editor, requests with and without claims by five kinds of token, 4 edits, all routes, 3 seconds, links of 1 second | TypeOK, RoutesAsDocumented, SecretKept, LapsedRefused, WritesPermitted hold |
| `components` | see below | the safety of the six small modules holds |
| `progress` | the limiter (1 client, limit 2), the bus and a resumed upload, with fairness | BlockEnds, EveryHandlerCalled, ResumeEnds hold |
| `blob_ensure_bucket` | filesystem driver | BucketEnsured is violated |
| `blob_double_delete` | 2 stored blobs, 2 handlers, deletes only | SharedFileKept is violated |
| `multipart_double_complete` | 2 completions, nothing fails | CompletedIsWhole is violated |

`components` has: 2 requests of 2 clients, limit 1, a window of 2 ticks, 1 fault; 2 upload
slots and 1 session against a limit of 2 files with deletions and 1 skipped check; 5 rows,
2 that enter and 2 that leave during the walk, page sizes from 0 to above the maximum;
2 subscribers and 2 events; 2 recorders, 2 events, 2 changes of the table, 3 ticks; files
of one to five chunks, 2 connections, 2 failed chunk requests.

*Why the bounds are enough.*  The hazards are between two operations on one blob,
or on two blobs that share one file: two handlers and two uuids show all of them.
Two buckets are what an edit can move between; two contents tell a wrong file from
the right one.  Interrupted calls are a budget, and a crash costs one unit for each
operation it stops; one unit reaches every place where an operation can end early.
The theorems below hold for every size.  Sessions share no file and no row, so
one session is enough for the multipart module; two handlers are any pair of chunk
requests and completions that overlap, and two chunks tell a truncated file, a file
with a hole and a whole one apart.  In `multipart_safety` no cleanup runs; in
`multipart_cleanup` requests do not overlap each other, only the task.

For the driver, one directory inside another has everything that pruning climbs over,
and three goroutines are a writer and two removals that meet in one directory; the
theorems cover every tree.  In `access` one editor works at a time, because with two
SecretKept does not hold (below); nothing relates two blobs, so one is enough; three
seconds let a link and an expiration pass while a request is under way.  In the rate
limiter a client's counter depends on nobody else's; two requests are what can stand
between INCR and PEXPIRE at once, and a window of two ticks can be straddled.  The page
sizes lie on both sides of each clamp, and five rows fill more pages than the changes
can empty.  A session's two chunk connections are what can overwrite one another.

Symmetry is used in safety runs only (buckets, contents, handlers, uuids that start
alike; goroutines and keys of the driver).  Deadlock is not checked where the bounded
system stops: uuids, clock and budgets run out, and clients owe no requests.

`DamageBounded` says more than "row iff file": each interrupted call leaves at most
one row without a file or one file without a row, whatever runs concurrently.  It
needs `DedupEnabled = FALSE` and no edits; with either the counterexamples show why.
`PromotedWhole` excepts sessions of which two completions have overlapped, and no
others: the violating run shows what happens to those.  `BlockEnds` excepts counters
that nothing will expire, and `StuckBounded` counts those: one for each fault.
`MissesBounded` says nothing of a client that trusts `pages` with a page size above
the maximum, for which it does not hold (below).

*Fairness.*  A call under way returns (a handler's and a worker's next step is
weakly fair) and a purge task starts whenever there is something to purge:
`StartCleanupScheduler` enqueues one every interval for ever, and asynq runs each at
least once.  Requests, failures, crashes and the clock have no fairness.  Failures
are finitely many by the budget; a call that always failed would keep a blob for ever.
The same holds for the cleanup task and `StartTmpCleanupScheduler`.  In the rate
limiter requests under way go on and time passes; on the bus, Publish's loop goes on
and the runtime schedules every goroutine, while handlers need not return; in
ResumeUpload the client asks again when its requests have returned.

### What the code does otherwise

With a run of their own:

1. `EnsureBucket` (filesystem.go:246) resolves the bucket with an empty key, which
   `validateRelativePathComponent` rejects: every upload fails (`blob_ensure_bucket`).
2. Two removals of one deduplicated blob (two deletes, a delete and a purge task, two
   purge tasks): the second counts only the *other* sharer's row, takes it for its
   own, and unlinks the file that the other blob needs (`blob_double_delete`).
3. Two completions of one session assemble in one temporary file.  The second
   truncates it after the first has checked the hash, finds the chunks gone and gives
   up: the blob keeps a truncated file under the right hash
   (`multipart_double_complete`).

### Further counterexamples

These configurations are kept beside the runs; TLC stops each at the property named.

| Configuration | Module | Property | What happens |
|---|---|---|---|
| `blob_dedup_race.cfg` | MCBlobService | NewRowHasFile | an upload that reuses the file of a blob being deleted is acknowledged, and its file is gone |
| `blob_edit_sharers.cfg` | MCBlobService | EditKeepsSharers | changing the bucket of a blob moves the file away from its sharers; a single request is enough |
| `blob_resurrect.cfg` | MCBlobService | DeletedStaysDeleted | an edit's whole-row save brings a deleted row back |
| `multipart_lost_chunk.cfg` | MCMultipartUpload | ListOnlyGrows | chunks sent in parallel overwrite each other's entry in the list; completing fails until the chunk is sent again |
| `multipart_cap.cfg` | MCMultipartUpload | CapKept | two chunks in parallel are each checked without the other and get the session over its size limit (README.md:246 says "exceeding it rejects the chunk") |
| `multipart_orphans.cfg` | MCMultipartUpload | ChunksHaveSession | a chunk request that outlives its session leaves a chunk that no later cleanup finds |
| `driver_prune_race.cfg` | MCFilesystemDriver | PutStores | a Put fails although every system call works: a deletion has pruned the directory it had just made |
| `driver_torn_move.cfg` | MCFilesystemDriver | MoveLeavesOneCopy | a Move that copies and is interrupted leaves an object at both places |
| `access_lost_edit.cfg` | MCAccess | SecretKept | of two concurrent edits, the one saved last puts back the visibility from before the other: a blob made private is public |
| `access_methods.cfg` | MCAccess | ServedByGet | download and view answer every method (routes/index.go:71 and :77 say GET) |
| `rate_limit_stuck.cfg` | RateLimiter | EveryBlockEnds | a request lost between INCR and PEXPIRE blocks its client for good (.env.example:62 says "time window") |
| `quota_race.cfg` | StorageQuota | WithinLimit | two uploads that fit one by one pass the limit together (.env.example:87 says "to prevent disk overflow") |
| `listing_pages.cfg` | Listing | PagesReachAll | with page_size above 100 `pages` counts too few pages: a client that trusts it misses rows of a listing that nobody changes |
| `bus_unsubscribe.cfg` | EventBus | UnsubscribeSilences | events still reach a handler that has unsubscribed |
| `metrics_average.cfg` | Metrics | AverageIsOne | `avg_upload_ms` divides the time of all uploads by the number of the last minute's, and exceeds the longest one |
| `resume_default_size.cfg` | ResumeUpload | MissingAreChunks | without `chunk_size` Status counts chunks of 102400 bytes, below the minimum of 1 MiB, and reports indices the file does not have |
| `resume_overflow.cfg` | ResumeUpload | WholeWhenNoneMissing | for a size next to the largest integer the chunk count overflows and nothing is missing; only `BLOB_MAX_UPLOAD_SIZE_BYTES=0` or an enormous `chunk_size` lets it happen |

## 3. What is proved

Every invariant and every action property that a passing run checks is also proved,
for every value of the constants, and so are the two refinements.  The assumptions are
the named ones of each module: finite and disjoint slots, bounds that are naturals,
`None` and the like different from the data, parents of directories that are
directories.  What a theorem needs beyond them is a hypothesis of its own, in the table.

| Theorem (module) | States |
|---|---|
| `TypeCorrect`, `ConsistentAlways` (BlobServiceProofs) | TypeOK; Consistent, the inductive invariant |
| `IntegrityHolds`, `DownloadsMatchTheirRow`, `OneBucketPerBlob` | ContentIntegrity, ServedContent, SingleCopy |
| `BytesAreKept` | BytesKept |
| `ServiceWritesOnce` | WritesOnce: BlobService implements WriteOnceStore |
| `CountsAreDownloads` | CountNotInflated |
| `DamageIsBounded` | DamageBounded, if `OwnFiles`: no deduplication, no edits |
| `TypeCorrect`, `CompletionAlways` (MultipartUploadProofs) | TypeOK; Completion, the inductive invariant |
| `BlobsAreWhole`, `CompletedSessionsAreBlobs`, `OneCompletionSucceeds` | PromotedWhole, CompletedHasBlob, OneSuccess |
| `ChunksAreKept` | ChunksKept |
| `TypeCorrect`, `OrderlyAlways` (FilesystemDriverProofs) | TypeOK; Orderly, the inductive invariant |
| `DriverImplementsContract` | ImplementsContract: FilesystemDriver implements ObjectStore |
| `NoEmptyDirsLeft` | NoEmptyDirs |
| `TypeCorrect`, `OnlyPermittedWrites`, `RoutesAreDocumented` (AccessProofs) | TypeOK, WritesPermitted, RoutesAsDocumented |
| `PrivateIsNotServed`, `ExpiredIsNotServed` | SecretKept, LapsedRefused, if `OneEditor`: edits do not overlap |
| `ComponentTypes` (ComponentsProofs) | TypeOK of the six small modules |
| `EventsReachTheSnapshot` | OnlyTheSnapshot |
| `CountedEventsAreListed`, `RecentIsPartOfTotal`, `PartsDifferByChanges` | NoEventLost, RecentWithinTotal, PartsAddUp |
| `OvershootIsBounded` | OvershootBounded |
| `FewStuckForGood` | StuckBounded |
| `NoneMissingIsWhole` | WholeWhenNoneMissing, if the client sends `chunk_size` and no sum of a size and it overflows |
| `RepeatsAreEntries`, `MissesAreMoves` (ListingProofs) | RepeatsBounded, MissesBounded |
| `AtMostTwoWindows` (LimiterProofs) | AdmissionBounded |

The hypotheses are not for convenience.  `blob_dedup_race`, `blob_edit_sharers`,
`access_lost_edit`, `resume_default_size` and `resume_overflow` are what happens without
them, and the runs that check these properties satisfy them.

**The arguments.**  Each module has an inductive invariant; a lemma per action, or per
kind of step, shows which parts it can disturb and that it keeps them.

* *BlobService.*  Whether a row's path leads to the right bytes depends on where the row
  came from: an upload's memory, a deduplication lookup, an edit's stale copy, a purge
  list.  `Consistent` therefore relates everything to `written`: a file holds nothing or
  exactly what was written under its key (FilesMatch); a row, wherever it is held,
  describes what was written under its own uuid and under its path's key (RowsMatch,
  ListsMatch, HeldMatch); and a uuid whose Put has not returned belongs to one upload and
  has no file (PutPending, UuidsDistinct), so that no row can refer to a torn file.
* *WriteOnceStore.*  By FilesMatch the bytes under a uuid can only be those written
  under it.  A Put finds its uuid pending; a Move has its only file as source, by
  SingleCopy; a removal clears one path; everything else leaves files and `Spent` alone.
* *Counters.*  A counter is not yet too high when a download is about to be counted:
  `Tallied` adds to each row, and to each copy that an edit holds, the downloads that
  are waiting at IncrementCounter.
* *Damage.*  With `OwnFiles` a blob stays in one bucket, its `home`; nobody else makes its
  row and its file (Separate).  `Parted` are the blobs whose row and file have parted
  unexcused; a step adds no more to it than it interrupts calls, a crash as many as it
  stops.
* *MultipartUpload.*  `Completion`: past the insert there is one request per session, and
  its row is there (InsertOnce); rows have their file (RowsHaveFiles); a completion that
  never had company is the only one of its session (Alone), and what it holds from the
  inspection to the row is whole (Verified).  Open files matter: `handle` says that
  nobody else can still write what has been promoted.
* *FilesystemDriver.*  The refinement is not inductive by itself: that an `unlink` is a
  DropSource step needs the target to hold what was read from the source, which is true
  because no other call writes that target (Compatible) and because the copy came first
  (Progressed).  That a file's directory cannot vanish under it (Rooted) needs pruning to
  remove empty directories only, and this is where the race with MkdirAll is harmless to
  the data: the Put fails, and no object is lost.  For NoEmptyDirs, `Pruned` says that an
  empty directory is on the way of a call that is still pruning towards it, or one that a
  failure or a removed tree accounts for.
* *Access.*  A request under way came through its route with its permission and only takes
  its handler's steps (`Admissions`); `Kept` says that a private blob's row is not public and
  no edit under way will make it so, and that a request without a claim gets no further
  than the check; the same for expired blobs.  Here `OneEditor` is needed: what an
  editor holds is what the table has, or the row is gone.
* *Metrics.*  Who is between Lock and Unlock holds the mutex and a current slice
  (Exclusive); the counter is ahead of the list by those who have not written (Recorded);
  the parts of a reply are apart by the changes since it began (Drift).
* *StorageQuota.*  Above the limit no walk becomes hopeful any more, so what can still be
  added are the `Claims` of before, one per slot, and skipped checks (Claimed).
* *RateLimiter.*  Stuck counters are charged to faults (FewStuck).  Twice the limit passes
  in a window's length because those admitted in it were counted by two counters at most
  (Epochs): the present one, and those of an older one, which leave the span before the
  present one expires.  Each counter lets `max` through, requests that have been counted
  and not answered included.
* *Listing.*  `Walking` counts by rank: rows received that now lie behind the pages read,
  and rows that stayed and have slipped before them unseen; an entry moves one rank up, a
  row that leaves one down, and reading a page moves nobody (AnotherPage).
* *ResumeUpload.*  What is listed is stored (Backed), and no chunk under way is listed or
  will be sent again in this round (Disjoint), so no failing request spoils a listed chunk.
* *EventBus.*  Handlers come from subscriptions, copies from handlers of their time,
  goroutines from copies (Published).

To make the proofs possible bounded folds became cardinalities (`Admitted` in
RateLimiter), CASE without an OTHER that can be reached became IF (`Route`), and constants
got named assumptions; what the actions do is the same.

**Only model-checked.**  Liveness under fairness (EventuallyPurged, EventuallyCleaned,
BlockEnds, EveryHandlerCalled, ResumeEnds), which is beyond the prover; and that the
violated properties are violated, which takes an example and no proof.

## 4. Not modelled, and what is planned

Not modelled:

* configuration, connections, logging, start-up and the health route: sequential,
  before or beside the requests;
* the field validation of a single request (names, lengths, MIME types): the models
  start from input that passed it;
* the further aggregates of `GET /metrics` (sizes, buckets, types): queries of the same
  shape as the ones in Metrics;
* asynq's own queueing and retries, an external library: overlapping and repeated task
  runs are in the models, its persistence is not;
* the order of rows with one `created_at` (the database chooses), the growth of the
  lists of event times, the declared size that the row of a completed upload takes over
  unchecked, and buckets named like the path of a blob's file.

Planned:

1. SharedFileKept when removals of one blob do not overlap and no upload takes its file
   for its own meanwhile: what the count in `removePhysicalIfUnshared` does guarantee.
2. CapKept for a client that sends one chunk at a time.
3. The composition of BlobService with ObjectStore: that the calls it makes keep the
   contract's condition on callers.

## 5. Running

    tlc -config blob_safety.cfg MCBlobService.tla
    tlc -config multipart_safety.cfg MCMultipartUpload.tla
    tlc -config driver_contract.cfg MCFilesystemDriver.tla
    tlc -config access.cfg MCAccess.tla
    tlc -config components.cfg MCComponents.tla
    tlc -config quota_race.cfg StorageQuota.tla
    tlapm BlobServiceProofs.tla
    tlapm FilesystemDriverProofs.tla
    tlapm MultipartUploadProofs.tla
    tlapm AccessProofs.tla
    tlapm ComponentsProofs.tla
    tlapm ListingProofs.tla
    tlapm LimiterProofs.tla
