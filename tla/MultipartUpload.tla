---------------------------- MODULE MultipartUpload ----------------------------
(***************************************************************************)
(* Multipart uploads: sessions in PostgreSQL, chunk files and an assembled  *)
(* file under tmp/<session>, and the blob that a completed session becomes. *)
(* Requests and cleanup tasks run concurrently, one call to the database or *)
(* the driver at a time, without a lock or a transaction.  One action       *)
(* models one call, except that a file is written in several writes.        *)
(*                                                                          *)
(* Sources: services/multipart_service.go, repository/multipart_repo.go,    *)
(* api/controllers/multipart and services/queue/remove_tmp_chunks.queue.go, *)
(* over the file semantics of storage/filesystem.go.                        *)
(*                                                                          *)
(* Abstractions.  The client's file is its chunks 0 .. NumChunks-1, all of  *)
(* one size, and X-Final-Hash is its hash.  The body of a chunk is good, or *)
(* bad: it does not match X-Chunk-Hash or the size limits.  It is written   *)
(* in two parts, so that writers of one file can overlap; a chunk is read   *)
(* in one step.  Hashes do not collide.  One user owns all sessions.        *)
(***************************************************************************)
EXTENDS Naturals, FiniteSets, Sequences

CONSTANTS
    Sessions,      \* upload session uuids
    Indices,       \* the chunk indices that clients send
    NumChunks,     \* the chunks of the client's file
    MaxChunks,     \* BLOB_MAX_UPLOAD_SIZE_BYTES, in chunks
    Handlers,      \* HTTP request slots
    Workers,       \* asynq worker slots that run cleanup tasks
    Driver,        \* "filesystem", or "conforming": one that obeys driver.go
    MaxFaults,     \* bound on interrupted calls
    None,          \* no row, no file
    Lost           \* what is not the chunk that belongs there

Procs == Handlers \cup Workers
Session == [done : SUBSET Indices, completed : BOOLEAN, old : BOOLEAN]
Bodies == {"good", "bad"}
ChunkFile == {<<b>> : b \in Bodies} \cup (Bodies \X Bodies)
Places == {"tmp", "bucket"}
Blocks == Indices \cup {Lost}

ASSUME SlotsAssumption ==
    /\ IsFiniteSet(Handlers) /\ IsFiniteSet(Workers)
    /\ Handlers \cap Workers = {}
ASSUME ChunksAssumption ==
    /\ IsFiniteSet(Indices) /\ Indices \subseteq Nat
    /\ NumChunks \in Nat \ {0} /\ 0..(NumChunks - 1) \subseteq Indices
    /\ MaxChunks \in Nat /\ MaxFaults \in Nat
ASSUME MissingAssumption ==
    /\ None \notin Sessions \cup Indices \cup Session \cup ChunkFile \cup Places
    /\ None \notin Seq(Blocks)
    /\ Lost \notin Indices

VARIABLES
    sessions,   \* the multipart_uploads table
    ids,        \* whether a session id is new, in use, or known to its client
    overlapped, \* history: sessions that had two completions at a time
    chunks,     \* the chunk files of each session
    final,      \* tmp/<session>/final
    promoted,   \* the file at <bucket>/<session>
    blobs,      \* the ids with a row in the blobs table
    faults,     \* calls interrupted so far
    pc,         \* the next call of each handler and worker
    target,     \* the session it works on
    index,      \* the chunk that an UploadChunk stores
    body,       \* and its body
    listed,     \* the chunk list as the request read it
    copied,     \* the chunks that a Complete has copied
    handle,     \* where the file that a request has open for writing is now
    abandoned   \* each cleanup task's list of sessions still to remove

store  == <<chunks, final, promoted>>
tables == <<sessions, blobs, ids, overlapped>>
locals == <<target, index, body, listed, copied, handle>>
vars   == <<sessions, ids, overlapped, chunks, final, promoted, blobs, faults, pc,
            target, index, body, listed, copied, handle, abandoned>>

Whole == [k \in 1..NumChunks |-> k - 1]
GoodChunk == <<"good", "good">>

(* The calls of UploadChunk, of Complete and of the cleanup loop. *)
ChunkCalls == {"put", "write", "stat", "limit", "record", "discard"}
CompleteCalls == {"create", "copy", "inspect", "move", "row", "mark", "sweep", "drop"}
CleanupCalls == {"tree", "forget"}

-----------------------------------------------------------------------------
(* Control: the locals of a request are gone when it has been answered. *)
Goto(p, s) == pc' = [pc EXCEPT ![p] = s]

Forget(p) ==
    /\ Goto(p, IF p \in Workers THEN "next" ELSE "idle")
    /\ target' = [target EXCEPT ![p] = None]
    /\ index' = [index EXCEPT ![p] = None]
    /\ body' = [body EXCEPT ![p] = None]
    /\ listed' = [listed EXCEPT ![p] = {}]
    /\ copied' = [copied EXCEPT ![p] = 0]

Finish(p) == Forget(p) /\ handle' = [handle EXCEPT ![p] = None]

Fault ==
    /\ faults < MaxFaults
    /\ faults' = faults + 1

Init ==
    /\ sessions = [s \in Sessions |-> None]
    /\ ids = [s \in Sessions |-> "new"]
    /\ overlapped = {}
    /\ chunks = [s \in Sessions |-> [i \in Indices |-> None]]
    /\ final = [s \in Sessions |-> None]
    /\ promoted = [s \in Sessions |-> None]
    /\ blobs = {}
    /\ faults = 0
    /\ pc = [p \in Procs |-> "idle"]
    /\ target = [p \in Procs |-> None]
    /\ index = [p \in Procs |-> None]
    /\ body = [p \in Procs |-> None]
    /\ listed = [p \in Procs |-> {}]
    /\ copied = [p \in Procs |-> 0]
    /\ handle = [p \in Procs |-> None]
    /\ abandoned = [w \in Workers |-> {}]

-----------------------------------------------------------------------------
(* Open files.  A file that is renamed or unlinked while a request writes   *)
(* it stays open: later writes follow it, or go nowhere.                    *)
WritersOf(s, place) == {p \in Procs : target[p] = s /\ handle[p] = place}

Redirected(writers, place) ==
    [p \in Procs |-> IF p \in writers THEN place ELSE handle[p]]

(* A write at an offset that the writer alone advances; what lies before it *)
(* in a file that was truncated meanwhile is a hole.                        *)
WriteAt(file, k, block) ==
    [n \in 1..(IF Len(file) < k THEN k ELSE Len(file)) |->
        IF n = k THEN block ELSE IF n <= Len(file) THEN file[n] ELSE Lost]

-----------------------------------------------------------------------------
(* POST /blob/initiate. *)

(* The row is created first, the namespace second: when the second fails    *)
(* the client never learns the id, and the row stays.                       *)
InitiateCreate(h) ==
    /\ pc[h] = "idle"
    /\ \E s \in Sessions :
        /\ ids[s] = "new"
        /\ ids' = [ids EXCEPT ![s] = "used"]
        /\ sessions' = [sessions EXCEPT ![s] =
                          [done |-> {}, completed |-> FALSE, old |-> FALSE]]
        /\ target' = [target EXCEPT ![h] = s]
    /\ Goto(h, "ensure")
    /\ UNCHANGED <<store, blobs, overlapped, faults, index, body, listed, copied,
                   handle, abandoned>>

(* filesystem.go's EnsureBucket rejects every bucket, chunkBucket too. *)
InitiateEnsure(h) ==
    /\ pc[h] = "ensure"
    /\ ids' = IF Driver = "filesystem" THEN ids
              ELSE [ids EXCEPT ![target[h]] = "known"]
    /\ Finish(h)
    /\ UNCHANGED <<store, sessions, blobs, overlapped, faults, abandoned>>

-----------------------------------------------------------------------------
(* PUT /blob/{uploadId}/chunk: UploadChunk. *)

(* The session is read once, and its list used until the end. *)
ChunkBegin(h) ==
    /\ pc[h] = "idle"
    /\ \E s \in Sessions, i \in Indices, b \in Bodies :
        /\ ids[s] = "known"
        /\ sessions[s] # None /\ ~sessions[s].completed
        /\ target' = [target EXCEPT ![h] = s]
        /\ index' = [index EXCEPT ![h] = i]
        /\ body' = [body EXCEPT ![h] = b]
        /\ listed' = [listed EXCEPT ![h] = sessions[s].done]
    /\ Goto(h, "put")
    /\ UNCHANGED <<store, tables, faults, copied, handle, abandoned>>

(* Put: MkdirAll brings the directory back if a cleanup has removed it;     *)
(* os.Create truncates what is there; the first part of the body follows.   *)
ChunkPut(h) ==
    /\ pc[h] = "put"
    /\ chunks' = [chunks EXCEPT ![target[h]][index[h]] = <<body[h]>>]
    /\ handle' = [handle EXCEPT ![h] = "tmp"]
    /\ Goto(h, "write")
    /\ UNCHANGED <<tables, final, promoted, faults, target, index, body, listed,
                   copied, abandoned>>

(* The rest of the body; the last of overlapping writers wins, part by      *)
(* part.  A body over MaxChunkSize ends the Put with an error, which leaves *)
(* its beginning.                                                           *)
ChunkWrite(h) ==
    /\ pc[h] = "write"
    /\ \/ /\ chunks' = IF handle[h] = "tmp"
                       THEN [chunks EXCEPT ![target[h]][index[h]] = <<@[1], body[h]>>]
                       ELSE chunks
          /\ handle' = [handle EXCEPT ![h] = None]
          /\ Goto(h, "stat")
          /\ UNCHANGED <<target, index, body, listed, copied>>
       \/ /\ body[h] = "bad"
          /\ Finish(h)
          /\ UNCHANGED chunks
    /\ UNCHANGED <<tables, final, promoted, faults, abandoned>>

(* Stat and the checks after it.  The hash is that of the body, not of the  *)
(* file.  A file that is missing, or that another writer has just           *)
(* truncated, may be smaller than MinChunkSize.                             *)
ChunkStat(h) ==
    /\ pc[h] = "stat"
    /\ LET file == chunks[target[h]][index[h]]
       IN  \/ /\ file # None /\ body[h] = "good"
              /\ Goto(h, "limit")
              /\ UNCHANGED faults
           \/ /\ file \notin Bodies \X Bodies \/ body[h] = "bad"
              /\ Goto(h, "discard")
              /\ UNCHANGED faults
           \/ /\ Fault
              /\ Goto(h, "discard")
    /\ UNCHANGED <<store, tables, locals, abandoned>>

(* The chunks that count against the limit: this one, and those of the list *)
(* as it was read that have a file.                                         *)
Counted(h) ==
    {index[h]} \cup {i \in listed[h] : chunks[target[h]][i] # None}

(* The sum of the sizes, where a Stat that fails leaves its chunk out.  A   *)
(* chunk that was on the list needs no further call.                        *)
ChunkLimit(h) ==
    /\ pc[h] = "limit"
    /\ \E missed \in SUBSET (Counted(h) \ {index[h]}) :
        /\ faults' = faults + Cardinality(missed)
        /\ faults' <= MaxFaults
        /\ IF Cardinality(Counted(h) \ missed) > MaxChunks
           THEN Goto(h, "discard") /\ UNCHANGED locals
           ELSE IF index[h] \in listed[h]
           THEN Finish(h)
           ELSE Goto(h, "record") /\ UNCHANGED locals
    /\ UNCHANGED <<store, tables, abandoned>>

(* UpdateChunks writes the whole list back; no row is not an error. *)
ChunkRecord(h) ==
    /\ pc[h] = "record"
    /\ sessions' = IF sessions[target[h]] = None THEN sessions
                   ELSE [sessions EXCEPT ![target[h]].done =
                           listed[h] \cup {index[h]}]
    /\ Finish(h)
    /\ UNCHANGED <<store, blobs, ids, overlapped, faults, abandoned>>

(* The rejected chunk is deleted, whoever wrote the file that is there; an  *)
(* error of that is dropped.                                                *)
ChunkDiscard(h) ==
    /\ pc[h] = "discard"
    /\ \/ /\ chunks' = [chunks EXCEPT ![target[h]][index[h]] = None]
          /\ handle' = Redirected({p \in WritersOf(target[h], "tmp") :
                                     index[p] = index[h]}, None)
          /\ UNCHANGED faults
       \/ /\ Fault
          /\ UNCHANGED <<chunks, handle>>
    /\ Forget(h)
    /\ UNCHANGED <<tables, final, promoted, abandoned>>

-----------------------------------------------------------------------------
(* POST /blob/{uploadId}/complete: Complete. *)

Completing(s) ==
    {h \in Handlers : target[h] = s /\ pc[h] \in CompleteCalls}

CompleteBegin(h) ==
    /\ pc[h] = "idle"
    /\ \E s \in Sessions :
        /\ ids[s] = "known"
        /\ sessions[s] # None /\ ~sessions[s].completed /\ sessions[s].done # {}
        /\ overlapped' = IF Completing(s) = {} THEN overlapped
                         ELSE overlapped \cup {s}
        /\ target' = [target EXCEPT ![h] = s]
        /\ listed' = [listed EXCEPT ![h] = sessions[s].done]
    /\ Goto(h, "create")
    /\ UNCHANGED <<store, sessions, blobs, ids, faults, index, body, copied, handle,
                   abandoned>>

(* Create truncates a final file that another completion is writing. *)
CompleteCreate(h) ==
    /\ pc[h] = "create"
    /\ final' = [final EXCEPT ![target[h]] = <<>>]
    /\ handle' = [handle EXCEPT ![h] = "tmp"]
    /\ Goto(h, "copy")
    /\ UNCHANGED <<tables, chunks, promoted, faults, target, index, body, listed,
                   copied, abandoned>>

(* The chunks are copied in the order of their indices. *)
IsNext(h, i) ==
    /\ i \in listed[h]
    /\ Cardinality({j \in listed[h] : j < i}) = copied[h]

Extended(file, h, i) ==
    WriteAt(file, copied[h] + 1,
            IF chunks[target[h]][i] = GoodChunk THEN i ELSE Lost)

(* A failure that leaves the file open. *)
CloseWithError_LeftOpen(h) == Goto(h, "drop") /\ UNCHANGED handle

(* closeWithError: close the file; its deletion is the next call. *)
CloseWithError(h) ==
    /\ handle' = [handle EXCEPT ![h] = None]
    /\ Goto(h, "drop")

(* Open and copy one chunk; without its file the completion fails. *)
CompleteCopy(h) ==
    /\ pc[h] = "copy"
    /\ \E i \in Indices :
        /\ IsNext(h, i)
        /\ IF chunks[target[h]][i] = None
           THEN /\ CloseWithError(h)
                /\ UNCHANGED <<final, promoted, copied>>
           ELSE /\ final' = IF handle[h] = "tmp"
                            THEN [final EXCEPT ![target[h]] = Extended(@, h, i)]
                            ELSE final
                /\ promoted' = IF handle[h] = "bucket"
                               THEN [promoted EXCEPT ![target[h]] = Extended(@, h, i)]
                               ELSE promoted
                /\ copied' = [copied EXCEPT ![h] = @ + 1]
                /\ UNCHANGED <<pc, handle>>
    /\ UNCHANGED <<tables, chunks, faults, target, index, body, listed, abandoned>>

CompleteClose(h) ==
    /\ pc[h] = "copy"
    /\ copied[h] = Cardinality(listed[h])
    /\ handle' = [handle EXCEPT ![h] = None]
    /\ listed' = [listed EXCEPT ![h] = {}]
    /\ copied' = [copied EXCEPT ![h] = 0]
    /\ Goto(h, "inspect")
    /\ UNCHANGED <<store, tables, faults, target, index, body, abandoned>>

(* A hash that is not compared. *)
CompleteInspect_Unchecked(h) ==
    /\ pc[h] = "inspect"
    /\ Goto(h, IF final[target[h]] # None THEN "move" ELSE "drop")
    /\ UNCHANGED <<store, tables, locals, faults, abandoned>>

(* inspectFile reads the file under its name, whoever wrote it. *)
CompleteInspect(h) ==
    /\ pc[h] = "inspect"
    /\ Goto(h, IF final[target[h]] = Whole THEN "move" ELSE "drop")
    /\ UNCHANGED <<store, tables, locals, faults, abandoned>>

(* Rename replaces what a former completion has promoted; a writer that has *)
(* the moved file open goes on writing it in its new place.                 *)
CompleteMove(h) ==
    /\ pc[h] = "move"
    /\ LET s == target[h]
       IN  IF final[s] = None
           THEN Goto(h, "drop") /\ UNCHANGED <<final, promoted, handle>>
           ELSE /\ promoted' = [promoted EXCEPT ![s] = final[s]]
                /\ final' = [final EXCEPT ![s] = None]
                /\ handle' = [p \in Procs |->
                     IF p \in WritersOf(s, "bucket") THEN None
                     ELSE IF p \in WritersOf(s, "tmp") /\ pc[p] = "copy"
                     THEN "bucket" ELSE handle[p]]
                /\ Goto(h, "row")
    /\ UNCHANGED <<tables, chunks, faults, target, index, body, listed, copied,
                   abandoned>>

(* The row saved without regard to one that is there, as Edit saves rows. *)
CompleteRow_Upsert(h) ==
    /\ pc[h] = "row"
    /\ blobs' = blobs \cup {target[h]}
    /\ Goto(h, "mark")
    /\ UNCHANGED <<store, sessions, ids, overlapped, faults, locals, abandoned>>

(* An insert whose error does not end the completion. *)
CompleteRow_ErrorIgnored(h) ==
    /\ pc[h] = "row"
    /\ \/ blobs' = blobs \cup {target[h]} /\ UNCHANGED faults
       \/ Fault /\ UNCHANGED blobs
    /\ Goto(h, "mark")
    /\ UNCHANGED <<store, sessions, ids, overlapped, locals, abandoned>>

(* The row's id is the session's: a second insert is refused. *)
CompleteRow(h) ==
    /\ pc[h] = "row"
    /\ IF target[h] \in blobs
       THEN Finish(h) /\ UNCHANGED blobs
       ELSE /\ blobs' = blobs \cup {target[h]}
            /\ Goto(h, "mark")
            /\ UNCHANGED locals
    /\ UNCHANGED <<store, sessions, ids, overlapped, faults, abandoned>>

(* MarkCompleted; no row is not an error. *)
CompleteMark(h) ==
    /\ pc[h] = "mark"
    /\ sessions' = IF sessions[target[h]] = None THEN sessions
                   ELSE [sessions EXCEPT ![target[h]].completed = TRUE]
    /\ Goto(h, "sweep")
    /\ UNCHANGED <<store, blobs, ids, overlapped, faults, locals, abandoned>>

(* RemoveTree of tmp/<session>, and the writers that it cuts off. *)
TreeRemoved(s) ==
    /\ chunks' = [chunks EXCEPT ![s] = [i \in Indices |-> None]]
    /\ final' = [final EXCEPT ![s] = None]

(* Its error is dropped: the session is complete, and the chunks stay. *)
CompleteSweep(h) ==
    /\ pc[h] = "sweep"
    /\ \/ /\ TreeRemoved(target[h])
          /\ handle' = Redirected(WritersOf(target[h], "tmp"), None)
          /\ UNCHANGED faults
       \/ /\ Fault
          /\ UNCHANGED <<chunks, final, handle>>
    /\ Forget(h)
    /\ UNCHANGED <<tables, promoted, abandoned>>

(* A failure that takes the chunks along with the final file. *)
CompleteDrop_Tree(h) ==
    /\ pc[h] = "drop"
    /\ TreeRemoved(target[h])
    /\ handle' = Redirected(WritersOf(target[h], "tmp"), None)
    /\ Forget(h)
    /\ UNCHANGED <<tables, promoted, faults, abandoned>>

(* The deferred Delete of the final file when a completion fails, with its  *)
(* error dropped.                                                           *)
CompleteDrop(h) ==
    /\ pc[h] = "drop"
    /\ \/ /\ final' = [final EXCEPT ![target[h]] = None]
          /\ handle' = Redirected({p \in WritersOf(target[h], "tmp") :
                                     pc[p] = "copy"}, None)
          /\ UNCHANGED faults
       \/ /\ Fault
          /\ UNCHANGED <<final, handle>>
    /\ Forget(h)
    /\ UNCHANGED <<tables, chunks, promoted, abandoned>>

-----------------------------------------------------------------------------
(* The cleanup task: removeOldTmpChunks and CleanupAbandoned. *)

(* A cleanup that skips the sessions without chunks. *)
IncompleteOld_NoEmpty(s) ==
    /\ sessions[s] # None /\ ~sessions[s].completed /\ sessions[s].old
    /\ sessions[s].done # {}

(* FindIncompleteOlderThan. *)
IncompleteOld(s) ==
    sessions[s] # None /\ ~sessions[s].completed /\ sessions[s].old

CleanupFind(w) ==
    /\ pc[w] = "idle"
    /\ \E s \in Sessions : IncompleteOld(s)
    /\ abandoned' = [abandoned EXCEPT ![w] = {s \in Sessions : IncompleteOld(s)}]
    /\ Goto(w, "next")
    /\ UNCHANGED <<store, tables, faults, locals>>

CleanupNext(w) ==
    /\ pc[w] = "next"
    /\ \E s \in abandoned[w] :
        /\ target' = [target EXCEPT ![w] = s]
        /\ abandoned' = [abandoned EXCEPT ![w] = @ \ {s}]
    /\ Goto(w, "tree")
    /\ UNCHANGED <<store, tables, faults, index, body, listed, copied, handle>>

CleanupDone(w) ==
    /\ pc[w] = "next"
    /\ abandoned[w] = {}
    /\ Goto(w, "idle")
    /\ UNCHANGED <<store, tables, faults, locals, abandoned>>

(* Its error is dropped, and the row is deleted all the same. *)
CleanupTree(w) ==
    /\ pc[w] = "tree"
    /\ \/ /\ TreeRemoved(target[w])
          /\ handle' = Redirected(WritersOf(target[w], "tmp"), None)
          /\ UNCHANGED faults
       \/ /\ Fault
          /\ UNCHANGED <<chunks, final, handle>>
    /\ Goto(w, "forget")
    /\ UNCHANGED <<tables, promoted, target, index, body, listed, copied, abandoned>>

(* The check of Completed is on the row as it was found: it never fails. *)
CleanupForget(w) ==
    /\ pc[w] = "forget"
    /\ sessions' = [sessions EXCEPT ![target[w]] = None]
    /\ Finish(w)
    /\ UNCHANGED <<store, blobs, ids, overlapped, faults, abandoned>>

-----------------------------------------------------------------------------
(* Errors, crashes and time. *)

(* A call whose error ends the request, or the step of the cleanup loop. A  *)
(* Put interrupted in the middle leaves what it wrote.                      *)
CallRefused(p) ==
    /\ pc[p] \in {"ensure", "put", "write", "record", "create", "row", "mark", "forget"}
    /\ Fault
    /\ Finish(p)
    /\ UNCHANGED <<store, tables, abandoned>>

(* A call whose error makes Complete delete the final file. *)
CompleteFails(h) ==
    /\ pc[h] \in {"copy", "inspect", "move"}
    /\ Fault
    /\ CloseWithError(h)
    /\ listed' = [listed EXCEPT ![h] = {}]
    /\ copied' = [copied EXCEPT ![h] = 0]
    /\ UNCHANGED <<store, tables, target, index, body, abandoned>>

Busy == {p \in Procs : pc[p] # "idle"}

Crash ==
    /\ Busy # {}
    /\ faults + Cardinality(Busy) <= MaxFaults
    /\ faults' = faults + Cardinality(Busy)
    /\ pc' = [p \in Procs |-> "idle"]
    /\ target' = [p \in Procs |-> None]
    /\ index' = [p \in Procs |-> None]
    /\ body' = [p \in Procs |-> None]
    /\ listed' = [p \in Procs |-> {}]
    /\ copied' = [p \in Procs |-> 0]
    /\ handle' = [p \in Procs |-> None]
    /\ abandoned' = [w \in Workers |-> {}]
    /\ UNCHANGED <<store, tables>>

(* A session passes BLOB_TMP_CLEANUP_THRESHOLD. *)
Age ==
    /\ \E s \in Sessions :
        /\ sessions[s] # None /\ ~sessions[s].old
        /\ sessions' = [sessions EXCEPT ![s].old = TRUE]
    /\ UNCHANGED <<store, blobs, ids, overlapped, faults, pc, locals, abandoned>>

Request(h) == InitiateCreate(h) \/ ChunkBegin(h) \/ CompleteBegin(h)
ChunkStep(h) ==
    \/ ChunkPut(h) \/ ChunkWrite(h) \/ ChunkStat(h)
    \/ ChunkLimit(h) \/ ChunkRecord(h) \/ ChunkDiscard(h)
CompleteStep(h) ==
    \/ CompleteCreate(h) \/ CompleteCopy(h) \/ CompleteClose(h)
    \/ CompleteInspect(h) \/ CompleteMove(h) \/ CompleteRow(h)
    \/ CompleteMark(h) \/ CompleteSweep(h) \/ CompleteDrop(h)
CleanupStep(w) ==
    \/ CleanupFind(w) \/ CleanupNext(w) \/ CleanupTree(w)
    \/ CleanupForget(w) \/ CleanupDone(w)

Next ==
    \/ \E h \in Handlers : \/ Request(h) \/ InitiateEnsure(h)
                           \/ ChunkStep(h) \/ CompleteStep(h) \/ CompleteFails(h)
    \/ \E w \in Workers : CleanupStep(w)
    \/ \E p \in Procs : CallRefused(p)
    \/ Crash
    \/ Age

Spec == Init /\ [][Next]_vars

(* Calls return, and asynq keeps running the task that                      *)
(* StartTmpCleanupScheduler keeps enqueueing; clients owe no requests.      *)
Fairness ==
    /\ \A h \in Handlers :
         WF_vars(InitiateEnsure(h) \/ ChunkStep(h) \/ CompleteStep(h))
    /\ \A w \in Workers : WF_vars(CleanupStep(w))

FairSpec == Spec /\ Fairness

-----------------------------------------------------------------------------
(* Invariants. *)

(* What a process holds at the call it is about to make; no file stays open *)
(* after the last write to it, and one that is written under its name is    *)
(* there.                                                                   *)
ControlOK(p) ==
    /\ pc[p] \in {"ensure"} \cup ChunkCalls \cup CompleteCalls => p \in Handlers
    /\ pc[p] \in {"next"} \cup CleanupCalls => p \in Workers
    /\ pc[p] \notin {"idle", "next"} => target[p] \in Sessions
    /\ pc[p] \in ChunkCalls => index[p] \in Indices /\ body[p] \in Bodies
    /\ handle[p] # None => pc[p] \in {"write", "copy"}
    /\ pc[p] = "write" /\ handle[p] = "tmp" => chunks[target[p]][index[p]] # None
    /\ pc[p] = "copy" /\ handle[p] = "tmp" => final[target[p]] # None
    /\ handle[p] = "bucket" => pc[p] = "copy" /\ promoted[target[p]] # None

(* Every variable has its type, and no call goes through a file handle or   *)
(* a session that earlier calls, of the same or another request, took away. *)
TypeOK ==
    /\ sessions \in [Sessions -> Session \cup {None}]
    /\ ids \in [Sessions -> {"new", "used", "known"}]
    /\ overlapped \subseteq Sessions
    /\ chunks \in [Sessions -> [Indices -> ChunkFile \cup {None}]]
    /\ final \in [Sessions -> Seq(Blocks) \cup {None}]
    /\ promoted \in [Sessions -> Seq(Blocks) \cup {None}]
    /\ blobs \subseteq Sessions
    /\ faults \in Nat
    /\ pc \in [Procs -> {"idle", "next", "ensure"} \cup ChunkCalls
                          \cup CompleteCalls \cup CleanupCalls]
    /\ target \in [Procs -> Sessions \cup {None}]
    /\ index \in [Procs -> Indices \cup {None}]
    /\ body \in [Procs -> Bodies \cup {None}]
    /\ listed \in [Procs -> SUBSET Indices]
    /\ copied \in [Procs -> Nat]
    /\ handle \in [Procs -> Places \cup {None}]
    /\ abandoned \in [Workers -> SUBSET Sessions]
    /\ \A p \in Procs : ControlOK(p)

(* A blob that a session became has the bytes that X-Final-Hash vouched     *)
(* for, whatever chunk uploads, cleanups, failed calls and crashes go on    *)
(* around the completion and after it, and however often a failed           *)
(* completion is tried again, if no two completions of it ran at a time.    *)
PromotedWhole == \A s \in blobs \ overlapped : promoted[s] = Whole

(* A session that counts as completed, so that neither its client nor the   *)
(* cleanup touches it again, has become a blob with a file.                 *)
CompletedHasBlob ==
    \A s \in Sessions :
        sessions[s] # None /\ sessions[s].completed
            => s \in blobs /\ promoted[s] # None

(* Of the completions of one session that overlap or follow each other, one *)
(* alone gets past the insert, to an answer that the blob is there.         *)
OneSuccess ==
    \A s \in Sessions :
        Cardinality({h \in Handlers : target[h] = s /\ pc[h] \in {"mark", "sweep"}}) <= 1

-----------------------------------------------------------------------------
(* Action and temporal properties. *)

(* A failed completion can be tried again: the chunks of a session go only  *)
(* by a chunk request of the same index, by the cleanup once the session is *)
(* old, or when it has become a blob.                                       *)
ChunksKept ==
    [][\A s \in Sessions, i \in Indices :
         chunks[s][i] # None /\ chunks'[s][i] = None =>
             \/ s \in blobs
             \/ sessions[s] = None \/ sessions[s].old
             \/ \E h \in Handlers :
                  pc[h] = "discard" /\ target[h] = s /\ index[h] = i]_vars

(* Every session that its client abandons is removed by the cleanup task,   *)
(* although chunks still arrive and single calls fail.                      *)
EventuallyCleaned ==
    \A s \in Sessions :
        (sessions[s] # None /\ ~sessions[s].completed /\ sessions[s].old)
            ~> (sessions[s] = None \/ sessions[s].completed)

-----------------------------------------------------------------------------
(* What the repository says and the code does not do. *)

(* multipart_service.go:243 "Complete assembles the chunks, validates the   *)
(* final hash and promotes the session into a regular blob": when the       *)
(* completions of a session have returned, its blob has the final hash.     *)
CompletedIsWhole ==
    \A s \in blobs : Completing(s) = {} => promoted[s] = Whole

(* multipart_service.go:199 "Status reports which chunks are still missing":*)
(* the list it reports from does not lose a chunk that was recorded.        *)
ListOnlyGrows ==
    [][\A s \in Sessions :
         sessions[s] # None /\ sessions'[s] # None
             => sessions[s].done \subseteq sessions'[s].done]_vars

(* README.md:246 "Chunks accumulate against BLOB_MAX_UPLOAD_SIZE_BYTES;      *)
(* exceeding it rejects the chunk": when no chunk is on its way, those that *)
(* were stored whole fit.                                                   *)
CapKept ==
    \A s \in Sessions :
        (\A h \in Handlers : target[h] = s => pc[h] \notin ChunkCalls) =>
            Cardinality({i \in Indices : chunks[s][i] = GoodChunk}) <= MaxChunks

(* README.md:282 "Abandoned multipart uploads are cleaned up automatically":*)
(* no chunk outlives its session.                                           *)
ChunksHaveSession ==
    (\A p \in Procs : pc[p] = "idle") =>
        \A s \in Sessions : sessions[s] = None => \A i \in Indices : chunks[s][i] = None

=============================================================================
