------------------------------ MODULE ResumeUpload ------------------------------
(***************************************************************************)
(* A client brings a multipart upload to its end: it asks for the status    *)
(* (MultipartService.Status), uploads the chunks reported as missing over   *)
(* parallel connections (UploadChunk), and asks again until none is.        *)
(*                                                                          *)
(* UploadChunk is here what Status can tell of it: the list of chunks is    *)
(* read before the chunk is stored and written back whole after it.         *)
(* MultipartUpload has its other steps.  Integers are Width bits wide.      *)
(***************************************************************************)
EXTENDS Integers, FiniteSets

CONSTANTS
    Width,             \* 64: of int64, and of int on the 64-bit builds
    Sizes,             \* declared sizes of the file
    ChunkSize,         \* the client's
    SendsChunkSize,    \* whether it sends chunk_size to the status route
    DefaultChunkSize,  \* 102400 in Status
    maxChunkStatusEntries,
    Connections,       \* slots for chunk requests
    MaxFaults          \* bound on chunk requests that fail

MaxInt == 2^(Width - 1) - 1
\* Modulo 2^Width, which is 2 * (MaxInt + 1).
Wrap(n) == ((n + MaxInt + 1) % (2 * (MaxInt + 1))) - MaxInt - 1

ResumeAssumption ==
    /\ Width \in Nat \ {0, 1} /\ MaxInt \in Nat /\ Sizes \subseteq 1..MaxInt /\ SendsChunkSize \in BOOLEAN
    /\ ChunkSize \in 1..MaxInt /\ DefaultChunkSize \in 1..MaxInt
    /\ maxChunkStatusEntries \in Nat /\ MaxFaults \in Nat /\ IsFiniteSet(Connections)

VARIABLES
    size,      \* the session's size
    done,      \* its list of chunks
    stored,    \* the chunks that the driver holds
    client,    \* what the client does next
    todo,      \* the chunks it has still to send since the last status
    pc,        \* the next step of each chunk request
    chunk,     \* its index
    listed,    \* the list it has read
    faults     \* chunk requests that failed so far

requests == <<pc, chunk, listed>>
vars == <<size, done, stored, client, todo, requests, faults>>

\* The chunks of the file, as the client cuts it.
Chunks == 0..((size - 1) \div ChunkSize)

TypeOK ==
    /\ size \in Sizes /\ done \subseteq Nat /\ stored \subseteq Nat /\ todo \subseteq Nat
    /\ client \in {"ask", "send", "complete", "refused"}
    /\ pc \in [Connections -> {"idle", "put", "record"}]
    /\ \A c \in Connections : chunk[c] \in Nat /\ listed[c] \subseteq Nat
    /\ faults \in 0..MaxFaults

Init ==
    /\ size \in Sizes /\ done = {} /\ stored = {}
    /\ client = "ask" /\ todo = {} /\ faults = 0
    /\ pc = [c \in Connections |-> "idle"]
    /\ chunk = [c \in Connections |-> 0]
    /\ listed = [c \in Connections |-> {}]

-----------------------------------------------------------------------------
\* Go's division rounds to zero.
Quo(a, b) == IF a >= 0 THEN a \div b ELSE -((-a) \div b)

StatusChunkSize == IF SendsChunkSize THEN ChunkSize ELSE DefaultChunkSize

TotalChunks_Bug == Quo(size, StatusChunkSize)
TotalChunks == Quo(Wrap(Wrap(size + StatusChunkSize) - 1), StatusChunkSize)

Missing == {i \in 0..(TotalChunks - 1) : i \notin done}

Ask ==
    /\ client = "ask"
    /\ client' = CASE TotalChunks > maxChunkStatusEntries -> "refused"
                   [] TotalChunks <= maxChunkStatusEntries /\ Missing = {} -> "complete"
                   [] OTHER -> "send"
    /\ todo' = IF client' = "send" THEN Missing ELSE {}
    /\ UNCHANGED <<size, done, stored, requests, faults>>

Send(c) ==
    /\ client = "send" /\ pc[c] = "idle"
    /\ \E i \in todo : chunk' = [chunk EXCEPT ![c] = i] /\ todo' = todo \ {i}
    /\ listed' = [listed EXCEPT ![c] = done]
    /\ pc' = [pc EXCEPT ![c] = "put"]
    /\ UNCHANGED <<size, done, stored, client, faults>>

PutChunk(c) ==
    /\ pc[c] = "put"
    /\ stored' = stored \cup {chunk[c]}
    /\ pc' = [pc EXCEPT ![c] = "record"]
    /\ UNCHANGED <<size, done, client, todo, chunk, listed, faults>>

Record_OwnOnly(c) ==
    /\ pc[c] = "record"
    /\ done' = {chunk[c]}
    /\ pc' = [pc EXCEPT ![c] = "idle"]
    /\ UNCHANGED <<size, stored, client, todo, chunk, listed, faults>>

\* UpdateChunks writes the list back, unless the chunk was on it.
Record(c) ==
    /\ pc[c] = "record"
    /\ done' = IF chunk[c] \in listed[c] THEN done ELSE listed[c] \cup {chunk[c]}
    /\ pc' = [pc EXCEPT ![c] = "idle"]
    /\ UNCHANGED <<size, stored, client, todo, chunk, listed, faults>>

\* A chunk request fails: in or after Put, where what stood under its name is
\* torn or deleted, or at UpdateChunks, where the chunk stays.
Fail(c) ==
    /\ pc[c] # "idle" /\ faults < MaxFaults
    /\ faults' = faults + 1
    /\ stored' = IF pc[c] = "put" THEN stored \ {chunk[c]} ELSE stored
    /\ pc' = [pc EXCEPT ![c] = "idle"]
    /\ UNCHANGED <<size, done, client, todo, chunk, listed>>

AskAgain ==
    /\ client = "send" /\ todo = {} /\ \A c \in Connections : pc[c] = "idle"
    /\ client' = "ask"
    /\ UNCHANGED <<size, done, stored, todo, requests, faults>>

Stop == client \in {"complete", "refused"} /\ UNCHANGED vars

ChunkStep(c) == Send(c) \/ PutChunk(c) \/ Record(c)

Next == Ask \/ AskAgain \/ Stop \/ \E c \in Connections : ChunkStep(c) \/ Fail(c)

\* This client goes on, and requests under way return.
Fairness == WF_vars(Ask) /\ WF_vars(AskAgain) /\ \A c \in Connections : WF_vars(ChunkStep(c))

Spec == Init /\ [][Next]_vars /\ Fairness

-----------------------------------------------------------------------------
(* multipart_service.go:199, "Status reports which chunks are still         *)
(* missing": when it reports none, the driver holds every chunk of the      *)
(* file, although the list loses chunks and requests fail.                  *)
WholeWhenNoneMissing == client = "complete" => Chunks \subseteq stored

(* Parallel chunks overwrite each other's entry of the list, but each round *)
(* of the client adds one at least: it comes to an end.                     *)
ResumeEnds == <>(client \in {"complete", "refused"})

(* multipart_service.go:199, with the request of README.md:253, which sends *)
(* no chunk_size: what is reported as missing is a chunk of the file.       *)
MissingAreChunks == todo \subseteq Chunks
================================================================================
