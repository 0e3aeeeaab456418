------------------------------ MODULE BlobService ------------------------------
(***************************************************************************)
(* The blob service: metadata rows in PostgreSQL, files in a storage        *)
(* driver, and nothing that spans the two.  Every operation is a sequence   *)
(* of calls, each atomic at the database or at the driver, with no lock     *)
(* and no transaction around them; HTTP handlers and purge tasks run them   *)
(* concurrently in one server process.  One action models one call.         *)
(*                                                                          *)
(* Sources: services/blob_service.go, repository/blob_repo.go, the handlers *)
(* of api/controllers (upload, edit, delete, download), the purge task of   *)
(* services/queue/expired_blobs.queue.go and the contract of                *)
(* storage/driver.go, with filesystem.go's name resolution.                 *)
(*                                                                          *)
(* Abstractions.  A SHA-256 is the content itself (no collisions).  A row   *)
(* keeps the fields that some step reads back or that must agree with a     *)
(* file; name, MIME type, size, visibility and metadata are left out.  One  *)
(* count stands for download_count and view_count.  A path is the pair      *)
(* that BucketKey and Join bring to the same file.  A driver call either    *)
(* takes effect or fails without effect, except that a failed Put may leave *)
(* a torn file.                                                             *)
(***************************************************************************)
EXTENDS Naturals, FiniteSets

CONSTANTS
    Ids,            \* blob uuids
    Buckets,        \* bucket names that pass the controllers' validation
    Contents,       \* file contents, and with them their SHA-256
    Handlers,       \* HTTP request slots
    Workers,        \* asynq worker slots that run purge tasks
    Ops,            \* the kinds of request clients send
    Stored,         \* ids that have a row when the server starts
    DedupEnabled,   \* BLOB_DEDUP_ENABLED
    Driver,         \* "filesystem", or "conforming": one that obeys driver.go
    Dates,          \* the expiration dates that clients choose among
    MaxTime,        \* bound on the clock
    MaxFaults,      \* bound on interrupted calls
    MaxOpens,       \* bound on downloads of one blob
    None,           \* no row, no file, no expiry, nothing held
    Torn            \* what a Put that failed midway leaves in a file

Procs == Handlers \cup Workers
Times == 0..MaxTime

(* A stored path "bucket/key": the key of every blob is its uuid. *)
Paths == [bucket : Buckets, key : Ids]

(* The columns of models.Blob that the service's steps depend on. *)
Row == [bucket  : Buckets,
        path    : Paths,
        hash    : Contents,
        exp     : Times \cup {None},
        count   : Nat,
        created : Times]

ASSUME SlotsAssumption ==
    /\ IsFiniteSet(Handlers) /\ IsFiniteSet(Workers)
    /\ Handlers \cap Workers = {}
ASSUME StoredAssumption == Stored \subseteq Ids
ASSUME BoundsAssumption ==
    /\ MaxTime \in Nat /\ MaxFaults \in Nat /\ MaxOpens \in Nat
    /\ Dates \subseteq Times
ASSUME NoneAssumption ==
    None \notin Ids \cup Buckets \cup Contents \cup Times \cup Row
ASSUME TornAssumption == Torn \notin Contents \cup {None}

VARIABLES
    rows,     \* the blobs table
    files,    \* what the driver holds at each path
    written,  \* history: None while the uuid is not drawn, Torn until Put
              \* has returned, then the bytes that were uploaded under it
    now,      \* the clock
    faults,   \* calls interrupted so far
    served,   \* history: downloads of each blob that got their file
    pc,       \* the next call of each handler and worker
    target,   \* the id it works on
    blob,     \* the row it holds in memory and will write or act on
    seen,     \* the other row it has read
    expired   \* each purge task's list of rows still to remove

locals == <<target, blob, seen>>
vars == <<rows, files, written, now, faults, served, pc, target, blob, seen, expired>>

-----------------------------------------------------------------------------
(* Names.  validateRelativePathComponent, for the only value among those    *)
(* the service passes that it rejects: the empty one.                       *)
ValidComponent(v) == v # ""

Resolves(bucket, key) == ValidComponent(bucket) /\ ValidComponent(key)

(* FilesystemDriver.EnsureBucket resolves the bucket with an empty key. *)
EnsureBucketAccepts(bucket) ==
    Driver = "filesystem" => Resolves(bucket, "")

OwnPath(bucket, id) == [bucket |-> bucket, key |-> id]

-----------------------------------------------------------------------------
(* Queries of the blobs table. *)
LiveIds == {i \in Ids : rows[i] # None}

(* The newest row, whatever its hash. *)
LatestWithHash_AnyHash(h) ==
    {i \in LiveIds : \A j \in LiveIds : rows[j].created <= rows[i].created}

(* BlobRepository.GetByHash: a most recent row with this hash.  Rows made   *)
(* in the same tick of the clock are not ordered.                           *)
LatestWithHash(h) ==
    {i \in LiveIds : /\ rows[i].hash = h
                     /\ \A j \in LiveIds :
                          rows[j].hash = h => rows[j].created <= rows[i].created}

(* BlobRepository.FindByPath. *)
FindByPath(path) == {i \in LiveIds : rows[i].path = path}

(* FindExpired without the row that expires this very moment. *)
IsDue_Strict(r) == r.exp # None /\ r.exp < now

(* BlobRepository.FindExpired's condition. *)
IsDue(r) == r.exp # None /\ r.exp <= now

(* isExpired of controllers/download.go. *)
IsExpired(r) == r.exp # None /\ r.exp < now

(* An expires_at that upload.go and edit.go let through. *)
Expiries == {None} \cup {t \in Dates : t >= now}

-----------------------------------------------------------------------------
(* Control.  A handler that answers becomes idle; a purge task goes on to   *)
(* the next row of its list, after an error too (its `continue`).           *)
Goto(p, s) == pc' = [pc EXCEPT ![p] = s]

Finish(p) ==
    /\ Goto(p, IF p \in Workers THEN "next" ELSE "idle")
    /\ target' = [target EXCEPT ![p] = None]
    /\ blob' = [blob EXCEPT ![p] = None]
    /\ seen' = [seen EXCEPT ![p] = None]

(* The call that p is about to make returns an error: the database or the   *)
(* disk refuses it, or the client is gone and its context is cancelled.     *)
Fault ==
    /\ faults < MaxFaults
    /\ faults' = faults + 1

(* An error that changes nothing and ends the operation. *)
Refused(p) ==
    /\ Fault
    /\ Finish(p)
    /\ UNCHANGED <<rows, files, written, now, served, expired>>

(* The rows and files as they are after the service has run for a while:    *)
(* some rows share the file of an older row, their owner, that has the same *)
(* content.                                                                 *)
Populated(owner, bucketOf, hashOf, expOf) ==
    /\ \A i \in Stored : /\ owner[owner[i]] = owner[i]
                         /\ hashOf[owner[i]] = hashOf[i]
                         /\ ~DedupEnabled => owner[i] = i
    /\ rows = [i \in Ids |->
                 IF i \in Stored
                 THEN [bucket |-> bucketOf[i],
                       path |-> OwnPath(bucketOf[owner[i]], owner[i]),
                       hash |-> hashOf[i], exp |-> expOf[i],
                       count |-> 0, created |-> 0]
                 ELSE None]
    /\ files = [f \in Paths |->
                  IF f.key \in Stored /\ owner[f.key] = f.key
                                      /\ bucketOf[f.key] = f.bucket
                  THEN hashOf[f.key] ELSE None]
    /\ written = [i \in Ids |-> IF i \in Stored THEN hashOf[i] ELSE None]

Init ==
    /\ \E owner \in [Stored -> Stored], bucketOf \in [Stored -> Buckets],
          hashOf \in [Stored -> Contents], expOf \in [Stored -> Dates \cup {None}] :
         Populated(owner, bucketOf, hashOf, expOf)
    /\ now = 0
    /\ faults = 0
    /\ served = [i \in Ids |-> 0]
    /\ pc = [p \in Procs |-> "idle"]
    /\ target = [p \in Procs |-> None]
    /\ blob = [p \in Procs |-> None]
    /\ seen = [p \in Procs |-> None]
    /\ expired = [w \in Workers |-> [i \in Ids |-> None]]

-----------------------------------------------------------------------------
(* PUT /blob: UploadBlobController's last checks and BlobService.Upload.    *)

(* The row that Upload builds, before deduplication changes its path.  Its  *)
(* hash is not known to the code before Put has read the stream.            *)
NewBlob(id, bucket, content, exp) ==
    [bucket |-> bucket, path |-> OwnPath(bucket, id), hash |-> content,
     exp |-> exp, count |-> 0, created |-> now]

(* A request with an acceptable expires_at; Upload draws a new uuid. *)
UploadBegin(h) ==
    /\ "upload" \in Ops
    /\ pc[h] = "idle"
    /\ \E id \in Ids, bucket \in Buckets, content \in Contents, exp \in Expiries :
        /\ written[id] = None
        /\ written' = [written EXCEPT ![id] = Torn]
        /\ target' = [target EXCEPT ![h] = id]
        /\ blob' = [blob EXCEPT ![h] = NewBlob(id, bucket, content, exp)]
    /\ Goto(h, "ensure")
    /\ UNCHANGED <<rows, files, now, faults, served, seen, expired>>

UploadEnsure(h) ==
    /\ pc[h] = "ensure"
    /\ IF EnsureBucketAccepts(blob[h].bucket)
       THEN Goto(h, "put") /\ UNCHANGED locals
       ELSE Finish(h)
    /\ UNCHANGED <<rows, files, written, now, faults, served, expired>>

UploadPut(h) ==
    /\ pc[h] = "put"
    /\ files' = [files EXCEPT ![blob[h].path] = blob[h].hash]
    /\ written' = [written EXCEPT ![target[h]] = blob[h].hash]
    /\ Goto(h, IF DedupEnabled THEN "lookup" ELSE "create")
    /\ UNCHANGED <<rows, now, faults, served, locals, expired>>

(* A Put whose error Upload does not look at. *)
UploadPutTorn_ErrorIgnored(h) ==
    /\ pc[h] = "put"
    /\ Fault
    /\ files' = [files EXCEPT ![blob[h].path] = Torn]
    /\ Goto(h, "create")
    /\ UNCHANGED <<rows, written, now, served, locals, expired>>

(* Put fails after os.Create: Upload returns and leaves what was written. *)
UploadPutTorn(h) ==
    /\ pc[h] = "put"
    /\ Fault
    /\ files' = [files EXCEPT ![blob[h].path] = Torn]
    /\ Finish(h)
    /\ UNCHANGED <<rows, written, now, served, expired>>

(* GetByHash.  Without a match, or on an error, Upload keeps its own file.  *)
UploadLookup(h) ==
    /\ pc[h] = "lookup"
    /\ \/ /\ \E i \in LatestWithHash(blob[h].hash) :
               seen' = [seen EXCEPT ![h] = rows[i]]
          /\ Goto(h, "probe")
          /\ UNCHANGED faults
       \/ /\ LatestWithHash(blob[h].hash) = {}
          /\ Goto(h, "create")
          /\ UNCHANGED <<seen, faults>>
       \/ /\ Fault
          /\ Goto(h, "create")
          /\ UNCHANGED seen
    /\ UNCHANGED <<rows, files, written, now, served, target, blob, expired>>

(* Exists on the path that was found; its error is taken for a no. *)
UploadProbe(h) ==
    /\ pc[h] = "probe"
    /\ \/ /\ Goto(h, IF files[seen[h].path] # None THEN "dropcopy" ELSE "create")
          /\ UNCHANGED faults
       \/ /\ Fault
          /\ Goto(h, "create")
    /\ UNCHANGED <<rows, files, written, now, served, locals, expired>>

(* The own copy is deleted, or stays behind when that fails (the error is   *)
(* dropped); either way the row will name the older file.                   *)
UploadDropCopy(h) ==
    /\ pc[h] = "dropcopy"
    /\ \/ /\ files' = [files EXCEPT ![blob[h].path] = None]
          /\ UNCHANGED faults
       \/ /\ Fault
          /\ UNCHANGED files
    /\ blob' = [blob EXCEPT ![h].path = seen[h].path]
    /\ Goto(h, "create")
    /\ UNCHANGED <<rows, written, now, served, target, seen, expired>>

UploadCreate(h) ==
    /\ pc[h] = "create"
    /\ rows' = [rows EXCEPT ![target[h]] = [blob[h] EXCEPT !.created = now]]
    /\ Finish(h)
    /\ UNCHANGED <<files, written, now, faults, served, expired>>

-----------------------------------------------------------------------------
(* POST /blob/{id}: EditBlobController and BlobService.Edit.                *)

(* The row of id with what the request gives; None stands for a field that  *)
(* it does not give.  No request clears an expiry.                          *)
Edited(id, bucket, exp) ==
    LET row   == rows[id]
        dated == [row EXCEPT !.exp = IF exp = None THEN row.exp ELSE exp]
    IN  IF bucket = None THEN dated
        ELSE [dated EXCEPT !.bucket = bucket, !.path = OwnPath(bucket, id)]

(* GetByID; the new fields are written into the copy of the row. *)
EditLoad(h) ==
    /\ "edit" \in Ops
    /\ pc[h] = "idle"
    /\ \E id \in LiveIds, bucket \in Buckets \cup {None}, exp \in Expiries :
        /\ target' = [target EXCEPT ![h] = id]
        /\ seen' = [seen EXCEPT ![h] = rows[id]]
        /\ blob' = [blob EXCEPT ![h] = Edited(id, bucket, exp)]
        /\ Goto(h, IF bucket = None THEN "save" ELSE "move")
    /\ UNCHANGED <<rows, files, written, now, faults, served, expired>>

(* The file that the row names, which may be another blob's. *)
EditSource_RowPath(h) == seen[h].path

(* Where Edit looks for the file: at the id's own key in the row's bucket,  *)
(* whatever the row's path says.                                            *)
EditSource(h) == OwnPath(seen[h].bucket, target[h])

(* A copy whose source is never removed. *)
Moved_KeepsSource(from, to) == [files EXCEPT ![to] = files[from]]

(* A copy, then the removal of a source that may be the same path. *)
Moved_RemovesLast(from, to) == [files EXCEPT ![to] = files[from], ![from] = None]

(* StorageDriver.Move: the bytes are at the destination, and only there. *)
Moved(from, to) == [files EXCEPT ![from] = None, ![to] = files[from]]

EditMove(h) ==
    /\ pc[h] = "move"
    /\ IF files[EditSource(h)] # None
       THEN /\ files' = Moved(EditSource(h), blob[h].path)
            /\ Goto(h, "save")
            /\ UNCHANGED locals
       ELSE /\ Finish(h)
            /\ UNCHANGED files
    /\ UNCHANGED <<rows, written, now, faults, served, expired>>

(* gorm's Save: UPDATE of every column, and INSERT when no row was updated. *)
EditSave(h) ==
    /\ pc[h] = "save"
    /\ rows' = [rows EXCEPT ![target[h]] = blob[h]]
    /\ Finish(h)
    /\ UNCHANGED <<files, written, now, faults, served, expired>>

-----------------------------------------------------------------------------
(* DELETE /blob/{id}: BlobService.Delete; and the removal of one blob that  *)
(* Delete and PurgeExpired share.                                           *)

DeleteLoad(h) ==
    /\ "delete" \in Ops
    /\ pc[h] = "idle"
    /\ \E id \in LiveIds :
        /\ target' = [target EXCEPT ![h] = id]
        /\ blob' = [blob EXCEPT ![h] = rows[id]]
    /\ Goto(h, "count")
    /\ UNCHANGED <<rows, files, written, now, faults, served, seen, expired>>

(* The count compared with 0: the row being deleted counts as a sharer. *)
Shared_OffByOne(path) == Cardinality(FindByPath(path)) > 0

(* removePhysicalIfUnshared: the file stays when more than one row names it. *)
Shared(path) == Cardinality(FindByPath(path)) > 1

CountSharers(p) ==
    /\ pc[p] = "count"
    /\ Goto(p, IF Shared(blob[p].path) THEN "droprow" ELSE "unlink")
    /\ UNCHANGED <<rows, files, written, now, faults, served, locals, expired>>

Unlink(p) ==
    /\ pc[p] = "unlink"
    /\ files' = [files EXCEPT ![blob[p].path] = None]
    /\ Goto(p, "droprow")
    /\ UNCHANGED <<rows, written, now, faults, served, locals, expired>>

DropRow(p) ==
    /\ pc[p] = "droprow"
    /\ rows' = [rows EXCEPT ![target[p]] = None]
    /\ Finish(p)
    /\ UNCHANGED <<files, written, now, faults, served, expired>>

-----------------------------------------------------------------------------
(* The purge task: BlobService.PurgeExpired.  The rows it found are copies; *)
(* FindExpired gives no order.                                              *)

(* An empty result ends the task at once and changes nothing. *)
PurgeFind(w) ==
    /\ pc[w] = "idle"
    /\ \E i \in LiveIds : IsDue(rows[i])
    /\ expired' = [expired EXCEPT ![w] =
                     [i \in Ids |-> IF rows[i] # None /\ IsDue(rows[i])
                                    THEN rows[i] ELSE None]]
    /\ Goto(w, "next")
    /\ UNCHANGED <<rows, files, written, now, faults, served, locals>>

PurgeNext(w) ==
    /\ pc[w] = "next"
    /\ \E i \in Ids :
        /\ expired[w][i] # None
        /\ target' = [target EXCEPT ![w] = i]
        /\ blob' = [blob EXCEPT ![w] = expired[w][i]]
        /\ expired' = [expired EXCEPT ![w][i] = None]
    /\ Goto(w, "count")
    /\ UNCHANGED <<rows, files, written, now, faults, served, seen>>

PurgeDone(w) ==
    /\ pc[w] = "next"
    /\ \A i \in Ids : expired[w][i] = None
    /\ Goto(w, "idle")
    /\ UNCHANGED <<rows, files, written, now, faults, served, locals, expired>>

-----------------------------------------------------------------------------
(* GET /blob/{id}/download and /view: serveBlobFile and OpenFile.           *)

(* The handler's own read of the row: the expiry check, and the hash and    *)
(* the name that the response carries.                                      *)
OpenLoad(h) ==
    /\ "open" \in Ops
    /\ pc[h] = "idle"
    /\ \E id \in LiveIds :
        /\ served[id] < MaxOpens
        /\ ~IsExpired(rows[id])
        /\ target' = [target EXCEPT ![h] = id]
        /\ seen' = [seen EXCEPT ![h] = rows[id]]
    /\ Goto(h, "reload")
    /\ UNCHANGED <<rows, files, written, now, faults, served, blob, expired>>

(* The second read without a check of its error. *)
OpenReload_Unchecked(h) ==
    /\ pc[h] = "reload"
    /\ blob' = [blob EXCEPT ![h] = rows[target[h]]]
    /\ Goto(h, "open")
    /\ UNCHANGED <<rows, files, written, now, faults, served, target, seen, expired>>

(* OpenFile reads the row again: the path comes from this second read. *)
OpenReload(h) ==
    /\ pc[h] = "reload"
    /\ IF rows[target[h]] # None
       THEN /\ blob' = [blob EXCEPT ![h] = rows[target[h]]]
            /\ Goto(h, "open")
            /\ UNCHANGED <<target, seen>>
       ELSE Finish(h)
    /\ UNCHANGED <<rows, files, written, now, faults, served, expired>>

(* A download counted although the file is gone. *)
OpenFile_CountsMisses(h) ==
    /\ pc[h] = "open"
    /\ served' = [served EXCEPT ![target[h]] =
                    IF files[blob[h].path] # None THEN @ + 1 ELSE @]
    /\ Goto(h, "bump")
    /\ UNCHANGED <<rows, files, written, now, faults, locals, expired>>

(* Stat and Open; the open file keeps its bytes whatever happens next. *)
OpenFile(h) ==
    /\ pc[h] = "open"
    /\ IF files[blob[h].path] # None
       THEN /\ served' = [served EXCEPT ![target[h]] = @ + 1]
            /\ Goto(h, "bump")
            /\ UNCHANGED locals
       ELSE /\ Finish(h)
            /\ UNCHANGED served
    /\ UNCHANGED <<rows, files, written, now, faults, expired>>

(* The row with one more download. *)
Counted(row) == [row EXCEPT !.count = @ + 1]

(* IncrementCounter, one UPDATE statement; its error is ignored and no row  *)
(* is not an error.                                                         *)
BumpCounter(h) ==
    /\ pc[h] = "bump"
    /\ \/ /\ rows' = IF rows[target[h]] = None THEN rows
                     ELSE [rows EXCEPT ![target[h]] = Counted(@)]
          /\ UNCHANGED faults
       \/ /\ Fault
          /\ UNCHANGED rows
    /\ Finish(h)
    /\ UNCHANGED <<files, written, now, served, expired>>

-----------------------------------------------------------------------------
(* The calls whose error makes the operation return, or the purge loop      *)
(* continue, with nothing undone.                                           *)
CheckedCalls == {"ensure", "put", "create", "move", "save", "count", "unlink",
                 "droprow", "reload", "open"}

CallRefused(p) ==
    /\ pc[p] \in CheckedCalls
    /\ Refused(p)

(* The server stops: every operation under way ends where it is.  Requests  *)
(* are not resumed; the next purge task starts over.                        *)
Busy == {p \in Procs : pc[p] # "idle"}

Crash ==
    /\ Busy # {}
    /\ faults + Cardinality(Busy) <= MaxFaults
    /\ faults' = faults + Cardinality(Busy)
    /\ pc' = [p \in Procs |-> "idle"]
    /\ target' = [p \in Procs |-> None]
    /\ blob' = [p \in Procs |-> None]
    /\ seen' = [p \in Procs |-> None]
    /\ expired' = [w \in Workers |-> [i \in Ids |-> None]]
    /\ UNCHANGED <<rows, files, written, now, served>>

Tick ==
    /\ now < MaxTime
    /\ now' = now + 1
    /\ UNCHANGED <<rows, files, written, faults, served, pc, locals, expired>>

(* The next step of a request that has begun. *)
UploadStep(h) ==
    \/ UploadEnsure(h) \/ UploadPut(h) \/ UploadPutTorn(h) \/ UploadLookup(h)
    \/ UploadProbe(h) \/ UploadDropCopy(h) \/ UploadCreate(h)

EditStep(h) == EditMove(h) \/ EditSave(h)
RemoveStep(p) == CountSharers(p) \/ Unlink(p) \/ DropRow(p)
OpenStep(h) == OpenReload(h) \/ OpenFile(h) \/ BumpCounter(h)
PurgeStep(w) == PurgeFind(w) \/ PurgeNext(w) \/ PurgeDone(w)

Request(h) == UploadBegin(h) \/ EditLoad(h) \/ DeleteLoad(h) \/ OpenLoad(h)

Next ==
    \/ \E h \in Handlers : Request(h) \/ UploadStep(h) \/ EditStep(h) \/ OpenStep(h)
    \/ \E p \in Procs : RemoveStep(p) \/ CallRefused(p)
    \/ \E w \in Workers : PurgeStep(w)
    \/ Crash
    \/ Tick

Spec == Init /\ [][Next]_vars

(* A call under way returns, and asynq keeps running the purge task that    *)
(* StartCleanupScheduler keeps enqueueing; clients owe no requests.         *)
Fairness ==
    /\ \A h \in Handlers : WF_vars(UploadStep(h) \/ EditStep(h) \/ OpenStep(h))
    /\ \A p \in Procs : WF_vars(RemoveStep(p))
    /\ \A w \in Workers : WF_vars(PurgeStep(w))

FairSpec == Spec /\ Fairness

-----------------------------------------------------------------------------
(* Invariants. *)

(* The steps at which a process holds a row in blob, and in seen. *)
HoldsBlob == {"ensure", "put", "lookup", "probe", "dropcopy", "create", "move",
              "save", "count", "unlink", "droprow", "open", "bump"}
HoldsSeen == {"probe", "dropcopy", "move", "save", "reload", "open", "bump"}
(* Only a handler serves a request, and only a worker walks a list. *)
HandlerCalls == {"ensure", "put", "lookup", "probe", "dropcopy", "create", "move",
                 "save", "reload", "open", "bump"}
RemovalCalls == {"count", "unlink", "droprow"}

(* A process holds the rows that the call it is about to make reads. *)
ControlOK(p) ==
    /\ pc[p] \in HandlerCalls => p \in Handlers
    /\ pc[p] = "next" => p \in Workers
    /\ pc[p] \notin {"idle", "next"} => target[p] \in Ids
    /\ pc[p] \in HoldsBlob => blob[p] \in Row
    /\ pc[p] \in HoldsSeen => seen[p] \in Row

(* Every variable has its type, and no call is reached without the row it   *)
(* needs: no error return of GetByID, Put or Move is missing before it.     *)
TypeOK ==
    /\ rows \in [Ids -> Row \cup {None}]
    /\ files \in [Paths -> Contents \cup {None, Torn}]
    /\ written \in [Ids -> Contents \cup {None, Torn}]
    /\ now \in Times
    /\ faults \in Nat
    /\ served \in [Ids -> Nat]
    /\ pc \in [Procs -> {"idle", "next"} \cup HandlerCalls \cup RemovalCalls]
    /\ target \in [Procs -> Ids \cup {None}]
    /\ blob \in [Procs -> Row \cup {None}]
    /\ seen \in [Procs -> Row \cup {None}]
    /\ expired \in [Workers -> [Ids -> Row \cup {None}]]
    /\ \A p \in Procs : ControlOK(p)

(* A row never names a file with other bytes than its hash says, nor a torn *)
(* one: whatever uploads, edits, removals, failed calls and crashes did     *)
(* before, a file that is there at a row's path is whole and its own.       *)
ContentIntegrity ==
    \A i \in LiveIds : files[rows[i].path] \in {None, rows[i].hash}

(* A download serves the bytes that the row it was checked against          *)
(* describes, although serveBlobFile and OpenFile each read the row and the *)
(* blob may be edited, deleted or moved in between.                         *)
ServedContent ==
    \A h \in Handlers :
        pc[h] = "open" => files[blob[h].path] \in {None, seen[h].hash}

(* The bytes of a blob are in one bucket at a time: concurrent edits of its *)
(* bucket never leave it in two, and a failed one never in both.            *)
SingleCopy ==
    \A f, g \in Paths :
        files[f] # None /\ files[g] # None /\ f.key = g.key => f = g

(* The counter of a row never exceeds the downloads that got the file: a    *)
(* whole-row save from a stale copy may lose downloads, never invent them.  *)
CountNotInflated ==
    \A i \in LiveIds : rows[i].count <= served[i]

(* Rows without their file and files without a row, other than those that a *)
(* request under way explains.                                              *)
Dangling ==
    {i \in LiveIds : /\ files[rows[i].path] = None
                     /\ ~\E p \in Procs : pc[p] = "droprow" /\ target[p] = i}
Orphans ==
    {f \in Paths : /\ files[f] # None
                   /\ FindByPath(f) = {}
                   /\ ~\E h \in Handlers : pc[h] = "create" /\ blob[h].path = f}

(* Without deduplication and edits, rows and files part only by an          *)
(* interrupted call, and each interrupted call costs at most one of them:   *)
(* concurrent uploads, deletes and purges of the same blobs never do.       *)
DamageBounded == Cardinality(Dangling) + Cardinality(Orphans) <= faults

(* The inductive invariant.  It ties what is in the store, in the table and *)
(* in the hands of each process to what was uploaded under the uuids.       *)
FilesMatch == \A f \in Paths : files[f] \in {None, written[f.key]}

(* A row describes the bytes of its own upload, and its path leads to a     *)
(* uuid under which the same bytes were uploaded.                           *)
Matches(id, row) ==
    /\ written[id] = row.hash
    /\ written[row.path.key] = row.hash

RowsMatch == \A i \in LiveIds : Matches(i, rows[i])

ListsMatch ==
    \A w \in Workers, i \in Ids :
        expired[w][i] # None => Matches(i, expired[w][i])

HeldMatch(p) ==
    /\ pc[p] \in HoldsBlob \ {"ensure", "put"} => Matches(target[p], blob[p])
    /\ pc[p] \in {"ensure", "put", "move"} => blob[p].path.key = target[p]
    /\ pc[p] \in {"probe", "dropcopy"} =>
          written[seen[p].path.key] = blob[p].hash
    /\ pc[p] \in {"move", "reload", "open"} => written[target[p]] = seen[p].hash

(* Until its Put returns, an upload's uuid is its own and has no file. *)
BeforePut(p) == pc[p] \in {"ensure", "put"}

PutPending(p) ==
    BeforePut(p) => /\ written[target[p]] = Torn
                    /\ \A f \in Paths : f.key = target[p] => files[f] = None

UuidsDistinct ==
    \A p, q \in Procs :
        BeforePut(p) /\ BeforePut(q) /\ p # q => target[p] # target[q]

(* Files, rows, purge lists and every row held in memory agree on what was  *)
(* uploaded, between any two calls of any processes.                        *)
Consistent ==
    /\ FilesMatch
    /\ RowsMatch
    /\ ListsMatch
    /\ \A p \in Procs : HeldMatch(p)
    /\ \A p \in Procs : PutPending(p)
    /\ UuidsDistinct
    /\ SingleCopy

-----------------------------------------------------------------------------
(* Action and temporal properties. *)

Held(key) == \E f \in Paths : f.key = key /\ files[f] \in Contents

(* Whole bytes stored under a uuid leave the store only by the removal of   *)
(* their path or as the copy that an upload gives up for an older file: no  *)
(* edit, alone or racing, and no failed call loses them.                    *)
BytesKept ==
    [][\A key \in Ids :
         Held(key) /\ ~Held(key)' =>
             \E p \in Procs : /\ pc[p] \in {"unlink", "dropcopy"}
                              /\ blob[p].path.key = key]_vars

(* The whole bytes that the driver holds under each uuid, in whatever       *)
(* bucket, and the uuids whose Put has returned.                            *)
StoredBytes ==
    [key \in Ids |->
        LET whole == {v \in Buckets : files[OwnPath(v, key)] \in Contents}
        IN IF whole = {} THEN None ELSE files[OwnPath(CHOOSE v \in whole : TRUE, key)]]
Spent == {key \in Ids : written[key] \in Contents}
Store == INSTANCE WriteOnceStore WITH stored <- StoredBytes, spent <- Spent

(* The service implements the write-once store: no edit, deduplication or   *)
(* failed call changes the bytes under a uuid or brings back what is gone,  *)
(* although edits move files and write back stale rows.                     *)
WritesOnce == Store!Spec

(* The expiration worker removes every blob whose expiration has passed,    *)
(* unless an edit moves the expiration: although several tasks, deletes and *)
(* edits run and single calls fail.                                         *)
EventuallyPurged ==
    \A i \in Ids :
        (rows[i] # None /\ rows[i].exp # None /\ rows[i].exp <= now)
            ~> (rows[i] = None \/ rows[i].exp = None \/ rows[i].exp > now)

-----------------------------------------------------------------------------
(* What the repository says and the code does not do. *)

(* driver.go:39 "EnsureBucket creates the bucket namespace if it does not   *)
(* exist": an upload does not fail there unless a call was interrupted.     *)
BucketEnsured ==
    [][\A h \in Handlers :
         pc[h] = "ensure" /\ pc'[h] = "idle" => faults' # faults]_vars

(* .env.example:52-53: shared files "are only removed when the last         *)
(* reference is deleted": when a file is unlinked, only the blob being      *)
(* removed still names it.                                                  *)
SharedFileKept ==
    [][\A p \in Procs :
         pc[p] = "unlink" /\ pc'[p] = "droprow" =>
             FindByPath(blob[p].path) \subseteq {target[p]}]_vars

(* blob_service.go:142-143: an existing file is reused if it "is still      *)
(* available": the row that an upload makes names a file that is there.     *)
NewRowHasFile ==
    [][\A h \in Handlers :
         /\ pc[h] = "create"
         /\ rows[target[h]] = None /\ rows'[target[h]] # None
         => files'[rows'[target[h]].path] # None]_vars

(* .env.example:52-53 again: moving a blob to another bucket leaves the     *)
(* file of the blobs that share it.                                         *)
EditKeepsSharers ==
    [][\A h \in Handlers :
         pc[h] = "move" /\ pc'[h] = "save" =>
             \A j \in LiveIds \ {target[h]} :
                 files[rows[j].path] # None => files'[rows[j].path] # None]_vars

(* README.md:490: delete "deletes a blob, its metadata, and the file": a    *)
(* row that was removed comes back only as the upload that first makes it.  *)
DeletedStaysDeleted ==
    [][\A i \in Ids :
         rows[i] = None /\ rows'[i] # None =>
             \E h \in Handlers : pc[h] = "create" /\ target[h] = i]_vars

=============================================================================
