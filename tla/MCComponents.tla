------------------------------ MODULE MCComponents ------------------------------
(***************************************************************************)
(* The components that share no state with the rest, checked side by side:  *)
(* each behaviour is a behaviour of one of them, and the others stay in     *)
(* their initial state.                                                     *)
(***************************************************************************)
EXTENDS Integers, FiniteSets

CONSTANTS
    Components,                                               \* those that run
    Addresses, Requests, max, window, TrustProxy,             \* RateLimiter
    RequestFaults, None,
    Uploads, Sessions, MaxStorageSize, Deletes, MaxSkips,     \* StorageQuota
    MaxRows, RowChanges, MaxPageSize, DefaultPageSize,        \* Listing
    AskedSizes, Rules,
    Subscribers, Events,                                      \* EventBus
    Recorders, Durations, Minute, MaxTime, MaxEvents,         \* Metrics
    TableChanges,
    Width, Sizes, ChunkSize, SendsChunkSize,                  \* ResumeUpload
    DefaultChunkSize, maxChunkStatusEntries, Connections, ChunkFaults

VARIABLES
    active,
    count, life, reqPc, ip, value, reqFaults, age, granted,
    kept, chunks, slotPc, sum, toVisit, failed, skipped,
    created, matching, asked, rule, page, rowTotal, walkPc, received,
    stayed, entered, left, repeated,
    handlers, sub, pub, run, before,
    now, eventTotal, events, spent, mu, recPc, event, longest,
    rows, changes, report, reply, started,
    size, done, stored, client, todo, connPc, chunk, readList, chunkFaults

Limiter == INSTANCE RateLimiter WITH
    pc <- reqPc, seen <- value, faults <- reqFaults, MaxFaults <- RequestFaults
Quota == INSTANCE StorageQuota WITH
    pc <- slotPc, total <- sum, listed <- toVisit
Pages == INSTANCE Listing WITH
    listed <- matching, total <- rowTotal, pc <- walkPc, seen <- received, MaxChanges <- RowChanges
Bus == INSTANCE EventBus
Counters == INSTANCE Metrics WITH
    total <- eventTotal, pc <- recPc, MaxChanges <- TableChanges
Resume == INSTANCE ResumeUpload WITH
    pc <- connPc, listed <- readList, faults <- chunkFaults, MaxFaults <- ChunkFaults

ASSUME ComponentsAssumption ==
    /\ Limiter!LimitsAssumption /\ Quota!QuotaAssumption /\ Pages!ListingAssumption
    /\ Bus!EventBusAssumption /\ Counters!MetricsAssumption /\ Resume!ResumeAssumption

-----------------------------------------------------------------------------
\* What only a component that runs has a choice of.
Pinned ==
    /\ active # "listing" => (asked = CHOOSE n \in AskedSizes : TRUE) /\ (rule = CHOOSE r \in Rules : TRUE)
    /\ active # "resume" => (size = CHOOSE n \in Sizes : TRUE)

Init ==
    /\ active \in Components
    /\ Limiter!Init /\ Quota!Init /\ Pages!Init /\ Bus!Init /\ Counters!Init /\ Resume!Init
    /\ Pinned

L == <<count, life, reqPc, ip, value, reqFaults, age, granted>>
Q == <<kept, chunks, slotPc, sum, toVisit, failed, skipped>>
P == <<created, matching, asked, rule, page, rowTotal, walkPc, received, stayed, entered, left, repeated>>
B == <<handlers, sub, pub, run, before>>
C == <<now, eventTotal, events, spent, mu, recPc, event, longest, rows, changes, report, reply, started>>
R == <<size, done, stored, client, todo, connPc, chunk, readList, chunkFaults>>
vars == <<active, L, Q, P, B, C, R>>

Next ==
    \/ active = "limiter" /\ Limiter!Next /\ UNCHANGED <<active, Q, P, B, C, R>>
    \/ active = "quota" /\ Quota!Next /\ UNCHANGED <<active, L, P, B, C, R>>
    \/ active = "listing" /\ Pages!Next /\ UNCHANGED <<active, L, Q, B, C, R>>
    \/ active = "bus" /\ Bus!Next /\ UNCHANGED <<active, L, Q, P, C, R>>
    \/ active = "metrics" /\ Counters!Next /\ UNCHANGED <<active, L, Q, P, B, R>>
    \/ active = "resume" /\ Resume!Next /\ UNCHANGED <<active, L, Q, P, B, C>>

\* Each component's own fairness, while it is the one that runs.
Fairness ==
    /\ WF_L(active = "limiter" /\ Limiter!Tick)
    /\ \A r \in Requests : WF_L(active = "limiter" /\ Limiter!Step(r))
    /\ \A e \in Events : WF_B(active = "bus" /\ Bus!Start(e))
    /\ \A d \in Events \X Subscribers : WF_B(active = "bus" /\ Bus!Call(d))
    /\ WF_R(active = "resume" /\ Resume!Ask) /\ WF_R(active = "resume" /\ Resume!AskAgain)
    /\ \A c \in Connections : WF_R(active = "resume" /\ Resume!ChunkStep(c))

Spec == Init /\ [][Next]_vars
FairSpec == Spec /\ Fairness

-----------------------------------------------------------------------------
(* The properties, each stated in its component's module. *)

TypeOK ==
    /\ Limiter!TypeOK /\ Quota!TypeOK /\ Pages!TypeOK /\ Bus!TypeOK /\ Counters!TypeOK /\ Resume!TypeOK

(* RateLimiter: at most twice max requests pass in any window's length.     *)
AdmissionBounded == Limiter!AdmissionBounded

(* RateLimiter: a counter nothing will expire needs a failure of its own.   *)
StuckBounded == Limiter!StuckBounded

(* RateLimiter: any other block ends.                                       *)
BlockEnds == Limiter!BlockEnds

(* StorageQuota: how far unreserved checks let the limit be passed.         *)
OvershootBounded == Quota!OvershootBounded

(* Listing: a walk misses no more rows than the table's changes explain.    *)
MissesBounded == Pages!MissesBounded

(* Listing: a row is received again only for a row that entered.            *)
RepeatsBounded == Pages!RepeatsBounded

(* EventBus: an event reaches none that subscribed after it.                *)
OnlyTheSnapshot == Bus!OnlyTheSnapshot

(* EventBus: it reaches every handler of its time, whatever the others do.  *)
EveryHandlerCalled == Bus!EveryHandlerCalled

(* Metrics: every counted event is in the list of times.                    *)
NoEventLost == Counters!NoEventLost

(* Metrics: the last minute's events are no more than all events.           *)
RecentWithinTotal == Counters!RecentWithinTotal

(* Metrics: public and private blobs add up to the blobs, but for changes.  *)
PartsAddUp == Counters!PartsAddUp

(* ResumeUpload: when nothing is missing, every chunk is stored.            *)
WholeWhenNoneMissing == Resume!WholeWhenNoneMissing

(* ResumeUpload: the client comes to an end.                                *)
ResumeEnds == active = "resume" => Resume!ResumeEnds
==============================================================================
