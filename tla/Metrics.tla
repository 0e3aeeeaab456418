-------------------------------- MODULE Metrics --------------------------------
(***************************************************************************)
(* The counters of metrics/service.go, which requests record while they are *)
(* read, and GET /metrics (controllers/metrics.go), which puts them next to *)
(* the answers of one query of the blobs table after the other.             *)
(*                                                                          *)
(* One kind of event is modelled: RecordUpload and RecordDownload have the  *)
(* same body.  RecordView and RecordError are their first step alone.       *)
(***************************************************************************)
EXTENDS Integers, Sequences, FiniteSets

CONSTANTS
    Recorders,    \* slots for requests that record an event
    Durations,    \* how long an event may have taken
    Minute,       \* time.Minute, in ticks
    MaxTime,      \* bound on the clock
    MaxEvents,    \* bound on the events recorded
    MaxChanges    \* bound on the changes of the blobs table

MetricsAssumption ==
    /\ IsFiniteSet(Recorders) /\ {"free", "report"} \cap Recorders = {}
    /\ Durations \subseteq Nat
    /\ Minute \in Nat \ {0} /\ MaxTime \in Nat /\ MaxEvents \in Nat /\ MaxChanges \in Nat

VARIABLES
    now,        \* the clock, in ticks
    total,      \* uploadsTotal, an atomic counter
    events,     \* uploadEvents, the times of all events
    spent,      \* totalUploadDur
    mu,         \* who holds the mutex, "free" for nobody
    pc,         \* the next step of each recorder
    event,      \* what it records, and the slice it has read
    longest,    \* history: the longest duration recorded
    rows,       \* how many rows have public true, false and null
    changes,    \* changes of rows so far
    report,     \* the next step of GET /metrics
    reply,      \* what it has gathered
    started     \* history: changes when it began

runtime == <<total, events, spent, mu, pc, event, longest>>
table == <<rows, changes>>
reader == <<report, reply, started>>
vars == <<now, runtime, table, reader>>

Visibility == {"true", "false", "null"}
NoReply == [blobs |-> 0, public |-> 0, private |-> 0, at |-> 0, total |-> 0, recent |-> 0, sum |-> 0]

TypeOK ==
    /\ now \in 0..MaxTime /\ total \in 0..MaxEvents /\ events \in Seq(0..MaxTime) /\ spent \in Nat
    /\ mu \in Recorders \cup {"free", "report"}
    /\ pc \in [Recorders -> {"idle", "lock", "read", "write", "unlock"}]
    /\ \A v \in Visibility : rows[v] \in Nat
    /\ \A f \in DOMAIN NoReply : reply[f] \in Nat
    /\ report \in {"idle", "public", "private", "clock", "lock", "load", "rates", "done"}

Init ==
    /\ now = 0 /\ total = 0 /\ events = <<>> /\ spent = 0 /\ longest = 0
    /\ mu = "free"
    /\ pc = [r \in Recorders |-> "idle"]
    /\ event = [r \in Recorders |-> [time |-> 0, took |-> 0, slice |-> <<>>]]
    /\ rows = [v \in Visibility |-> 0] /\ changes = 0
    /\ report = "idle" /\ reply = NoReply /\ started = 0

-----------------------------------------------------------------------------
Goto(r, step) == pc' = [pc EXCEPT ![r] = step]

\* The atomic counters are added to, and the clock is read, before the mutex
\* is taken.
Add(r) ==
    /\ pc[r] = "idle" /\ total < MaxEvents
    /\ total' = total + 1
    /\ \E d \in Durations :
          /\ event' = [event EXCEPT ![r] = [time |-> now, took |-> d, slice |-> <<>>]]
          /\ longest' = IF d > longest THEN d ELSE longest
    /\ Goto(r, "lock")
    /\ UNCHANGED <<now, events, spent, mu, table, reader>>

Lock_Bug(r) ==
    /\ pc[r] = "lock"
    /\ Goto(r, "read")
    /\ UNCHANGED <<now, total, events, spent, mu, event, longest, table, reader>>

Lock(r) ==
    /\ pc[r] = "lock" /\ mu = "free"
    /\ mu' = r
    /\ Goto(r, "read")
    /\ UNCHANGED <<now, total, events, spent, event, longest, table, reader>>

\* append reads the slice and stores a longer one.
ReadSlice(r) ==
    /\ pc[r] = "read"
    /\ event' = [event EXCEPT ![r].slice = events]
    /\ Goto(r, "write")
    /\ UNCHANGED <<now, total, events, spent, mu, longest, table, reader>>

WriteSlice(r) ==
    /\ pc[r] = "write"
    /\ events' = Append(event[r].slice, event[r].time)
    /\ spent' = spent + event[r].took
    /\ Goto(r, "unlock")
    /\ UNCHANGED <<now, total, mu, event, longest, table, reader>>

Unlock(r) ==
    /\ pc[r] = "unlock"
    /\ mu' = "free"
    /\ event' = [event EXCEPT ![r] = [time |-> 0, took |-> 0, slice |-> <<>>]]
    /\ Goto(r, "idle")
    /\ UNCHANGED <<now, total, events, spent, longest, table, reader>>

-----------------------------------------------------------------------------
\* Uploads, deletions and edits of the blobs table.
Change ==
    /\ changes < MaxChanges /\ changes' = changes + 1
    /\ \/ \E v \in Visibility : rows' = [rows EXCEPT ![v] = @ + 1]
       \/ \E v \in Visibility : rows[v] > 0 /\ rows' = [rows EXCEPT ![v] = @ - 1]
       \/ \E v \in Visibility, w \in {"true", "false"} :
             v # w /\ rows[v] > 0 /\ rows' = [rows EXCEPT ![v] = @ - 1, ![w] = @ + 1]
    /\ UNCHANGED <<now, runtime, reader>>

Query(at, then, field, answer) ==
    /\ report = at /\ report' = then
    /\ reply' = [reply EXCEPT ![field] = answer]
    /\ UNCHANGED <<now, runtime, table>>

CountBlobs ==
    /\ Query("idle", "public", "blobs", rows["true"] + rows["false"] + rows["null"])
    /\ started' = changes

CountPublic == Query("public", "private", "public", rows["true"]) /\ UNCHANGED started

CountPrivate_Bug == Query("private", "clock", "private", rows["false"]) /\ UNCHANGED started

\* "public = false OR public IS NULL"
CountPrivate == Query("private", "clock", "private", rows["false"] + rows["null"]) /\ UNCHANGED started

\* Snapshot reads the clock and then takes the mutex ...
ReadClock == Query("clock", "lock", "at", now) /\ UNCHANGED started

LockReport ==
    /\ report = "lock" /\ mu = "free"
    /\ mu' = "report" /\ report' = "load"
    /\ UNCHANGED <<now, total, events, spent, pc, event, longest, table, reply, started>>

\* ... loads the atomic counters, which still move ...
LoadTotal == Query("load", "rates", "total", total) /\ UNCHANGED started

Recent(at) == Cardinality({i \in DOMAIN events : events[i] + Minute > at})

\* ... and counts the events after the cutoff, over all there ever were.
Rates ==
    /\ report = "rates" /\ report' = "done"
    /\ reply' = [reply EXCEPT !.recent = Recent(reply.at), !.sum = spent]
    /\ mu' = "free"
    /\ UNCHANGED <<now, total, events, spent, pc, event, longest, table, started>>

Close ==
    /\ report = "done"
    /\ report' = "idle" /\ reply' = NoReply /\ started' = 0
    /\ UNCHANGED <<now, runtime, table>>

Tick ==
    /\ now < MaxTime
    /\ now' = now + 1
    /\ UNCHANGED <<runtime, table, reader>>

Next == \/ \E r \in Recorders : Add(r) \/ Lock(r) \/ ReadSlice(r) \/ WriteSlice(r) \/ Unlock(r)
        \/ CountBlobs \/ CountPublic \/ CountPrivate \/ ReadClock \/ LockReport \/ LoadTotal \/ Rates
        \/ Close \/ Change \/ Tick

Spec == Init /\ [][Next]_vars

-----------------------------------------------------------------------------
(* service.go:10: "safe for concurrent use".  Every event that was counted  *)
(* is in the list of times, but for those still on their way to the mutex.  *)
NoEventLost ==
    Len(events) + Cardinality({r \in Recorders : pc[r] \in {"lock", "read", "write"}}) = total

(* A reply never reports more events in the last minute than in all: the    *)
(* counter moves before the list, and the list rests while it is read.      *)
RecentWithinTotal == report = "done" => reply.recent <= reply.total

(* GET /metrics asks for all blobs, the public and the private ones with    *)
(* separate queries: the parts differ from the whole by at most the changes *)
(* of the table that ran meanwhile.                                         *)
PartsAddUp ==
    report \in {"clock", "lock", "load", "rates", "done"} =>
        /\ reply.blobs - (reply.public + reply.private) <= changes - started
        /\ (reply.public + reply.private) - reply.blobs <= changes - started

(* service.go:77, AvgUploadMs "avg_upload_ms": an average duration is not   *)
(* longer than the longest.  It is the time of all events divided by the    *)
(* number of those of the last minute.                                      *)
AverageIsOne == report = "done" /\ reply.recent > 0 => reply.sum <= longest * reply.recent
================================================================================
