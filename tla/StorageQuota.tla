------------------------------ MODULE StorageQuota ------------------------------
(***************************************************************************)
(* The storage limit: upload.go:97 and initialize.go:47 walk the storage    *)
(* tree (functions/validation.go) and refuse a request that does not fit.   *)
(* Nothing is reserved: what passes is written later, by Put, or chunk by   *)
(* chunk and once more when the chunks are assembled.                       *)
(*                                                                          *)
(* Storage is counted in files of one size, the size of every request.  A   *)
(* walk lists the files and then looks at each; a file that is unlinked in  *)
(* between makes it fail, and a failed walk refuses nothing.                *)
(***************************************************************************)
EXTENDS Naturals, FiniteSets

CONSTANTS
    Uploads,          \* slots for PUT /blob requests
    Sessions,         \* slots for multipart uploads
    MaxStorageSize,   \* BLOB_MAX_STORAGE_SIZE, in files
    Deletes,          \* whether blobs are deleted meanwhile
    MaxSkips          \* bound on checks that are skipped

Slots == Uploads \cup Sessions
QuotaAssumption ==
    /\ IsFiniteSet(Slots) /\ Uploads \cap Sessions = {}
    /\ MaxStorageSize \in Nat \ {0} /\ MaxSkips \in Nat /\ Deletes \in BOOLEAN

VARIABLES
    kept,     \* how many files stand in the buckets, or are assembled
    chunks,   \* the sessions whose chunks are stored
    pc,       \* what each slot does next
    total,    \* the sum of its walk so far
    listed,   \* the sessions whose chunks its walk has still to look at
    failed,   \* whether its walk has met a file that is gone
    skipped   \* history: checks that let a request pass after a failed walk

vars == <<kept, chunks, pc, total, listed, failed, skipped>>

TypeOK ==
    /\ kept \in Nat /\ chunks \subseteq Sessions
    /\ pc \in [Slots -> {"idle", "walk", "write", "assemble", "sweep"}]
    /\ total \in [Slots -> Nat]
    /\ listed \in [Slots -> SUBSET Sessions]
    /\ failed \in [Slots -> BOOLEAN]
    /\ skipped \in 0..MaxSkips

Init ==
    /\ kept = 0 /\ chunks = {} /\ skipped = 0
    /\ pc = [s \in Slots |-> "idle"]
    /\ total = [s \in Slots |-> 0]
    /\ listed = [s \in Slots |-> {}]
    /\ failed = [s \in Slots |-> FALSE]

Goto(s, step) == pc' = [pc EXCEPT ![s] = step]
walk == <<total, listed, failed>>
EndWalk(s) ==
    /\ total' = [total EXCEPT ![s] = 0]
    /\ listed' = [listed EXCEPT ![s] = {}]
    /\ failed' = [failed EXCEPT ![s] = FALSE]

\* GetTotalStorageSize lists the tree ...
List(s) ==
    /\ pc[s] = "idle"
    /\ Goto(s, "walk")
    /\ total' = [total EXCEPT ![s] = kept]
    /\ listed' = [listed EXCEPT ![s] = chunks]
    /\ UNCHANGED <<kept, chunks, failed, skipped>>

\* ... and looks at each entry.
Visit(s) ==
    /\ pc[s] = "walk" /\ ~failed[s]
    /\ \E c \in listed[s] :
          /\ listed' = [listed EXCEPT ![s] = @ \ {c}]
          /\ IF c \in chunks THEN total' = [total EXCEPT ![s] = @ + 1] /\ UNCHANGED failed
                             ELSE failed' = [failed EXCEPT ![s] = TRUE] /\ UNCHANGED total
    /\ UNCHANGED <<kept, chunks, pc, skipped>>

Check_Bug(s) ==
    /\ pc[s] = "walk" /\ ~failed[s] /\ listed[s] = {}
    /\ Goto(s, IF total[s] > MaxStorageSize THEN "idle" ELSE "write")
    /\ EndWalk(s) /\ UNCHANGED <<kept, chunks, skipped>>

Check(s) ==
    /\ pc[s] = "walk" /\ ~failed[s] /\ listed[s] = {}
    /\ Goto(s, IF total[s] + 1 > MaxStorageSize THEN "idle" ELSE "write")
    /\ EndWalk(s) /\ UNCHANGED <<kept, chunks, skipped>>

\* "err == nil &&": a walk that failed refuses nothing.
SkipCheck(s) ==
    /\ pc[s] = "walk" /\ failed[s] /\ skipped < MaxSkips
    /\ skipped' = skipped + 1
    /\ Goto(s, "write")
    /\ EndWalk(s) /\ UNCHANGED <<kept, chunks>>

\* Put writes the file; the chunks of a session come one by one.
WriteFile(s) ==
    /\ pc[s] = "write"
    /\ IF s \in Uploads
       THEN kept' = kept + 1 /\ Goto(s, "idle") /\ UNCHANGED chunks
       ELSE chunks' = chunks \cup {s} /\ Goto(s, "assemble") /\ UNCHANGED kept
    /\ UNCHANGED <<walk, skipped>>

Assemble(s) ==
    /\ pc[s] = "assemble"
    /\ kept' = kept + 1
    /\ Goto(s, "sweep")
    /\ UNCHANGED <<chunks, walk, skipped>>

Sweep(s) ==
    /\ pc[s] = "sweep"
    /\ chunks' = chunks \ {s}
    /\ Goto(s, "idle")
    /\ UNCHANGED <<kept, walk, skipped>>

\* A request ends between its check and its write, with an error.
GiveUp(s) ==
    /\ pc[s] = "write"
    /\ Goto(s, "idle")
    /\ UNCHANGED <<kept, chunks, walk, skipped>>

\* A blob is deleted, and walks that have listed it may not have passed it.
DeleteBlob ==
    /\ Deletes /\ kept > 0
    /\ kept' = kept - 1
    /\ \E hit \in SUBSET {s \in Slots : pc[s] = "walk" /\ total[s] > 0} :
          failed' = [s \in Slots |-> failed[s] \/ s \in hit]
    /\ UNCHANGED <<chunks, pc, total, listed, skipped>>

Next == \/ \E s \in Slots : \/ List(s) \/ Visit(s) \/ Check(s) \/ SkipCheck(s)
                            \/ WriteFile(s) \/ GiveUp(s) \/ Assemble(s) \/ Sweep(s)
        \/ DeleteBlob

Spec == Init /\ [][Next]_vars

-----------------------------------------------------------------------------
Total == kept + Cardinality(chunks)

(* How far the limit can be overshot by requests that were checked without  *)
(* each other: by one file for each other upload slot, by two for each      *)
(* session slot (its chunks and the assembled file), and by one upload or   *)
(* session more for each check that a failed walk skipped.                  *)
OvershootBounded ==
    Total <= MaxStorageSize + Cardinality(Uploads) + 2 * Cardinality(Sessions) - 1 + skipped

(* .env.example:87: "set a maximum total storage size (in bytes) to prevent *)
(* disk overflow".  Concurrent uploads, and walks that fail, pass it.       *)
WithinLimit == Total <= MaxStorageSize
=============================================================================
