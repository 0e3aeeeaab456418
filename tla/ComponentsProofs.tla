---------------------------- MODULE ComponentsProofs ----------------------------
(* Theorems about the components of MCComponents, for every value of their  *)
(* constants.  Each has an inductive invariant of its own: the steps of the *)
(* others leave its variables alone.                                        *)
EXTENDS ListingProofs, Sequences

-----------------------------------------------------------------------------
(* The event bus. *)

BusTypes ==
    /\ handlers \in Seq(Subscribers)
    /\ sub \in [Subscribers -> {"new", "subscribed", "unsubscribed"}]
    /\ pub \in [Events -> [copy : Seq(Subscribers), started : Nat, phase : {"none", "starting"}]]
    /\ \A e \in Events : pub[e].started <= Len(pub[e].copy)
    /\ run \in [Events \X Subscribers ->
                  {"none", "ready", "running", "returned", "recovered", "crashed"}]
    /\ before \in [Events -> [subscribed : SUBSET Subscribers, unsubscribed : SUBSET Subscribers]]

(* Who had subscribed when an event was published. *)
Reached(e) == before[e].subscribed \cup before[e].unsubscribed

(* Handlers come from subscriptions, copies from handlers of their time, and *)
(* goroutines from copies.                                                  *)
Published ==
    /\ \A i \in DOMAIN handlers : sub[handlers[i]] # "new"
    /\ \A e \in Events :
         /\ \A i \in DOMAIN pub[e].copy : pub[e].copy[i] \in Reached(e)
         /\ pub[e].phase = "none" => pub[e].copy = <<>>
         /\ \A s \in Subscribers :
              run[<<e, s>>] # "none" => s \in Reached(e) /\ pub[e].phase # "none"

(* Nobody has subscribed at first. *)
LEMMA BusInit == Init => BusTypes /\ Published
<1> SUFFICES ASSUME Init PROVE BusTypes /\ Published
  OBVIOUS
<1>1. Bus!Init
  BY DEF Init
<1>2. /\ handlers = <<>> /\ sub = [s \in Subscribers |-> "new"]
      /\ pub = [e \in Events |-> [copy |-> <<>>, started |-> 0, phase |-> "none"]]
      /\ run = [d \in Events \X Subscribers |-> "none"]
      /\ before = [e \in Events |-> [subscribed |-> {}, unsubscribed |-> {}]]
  BY <1>1 DEF Bus!Init, Bus!Unpublished, Bus!Deliveries
<1>3. BusTypes
  BY <1>2 DEF BusTypes
<1>4. Published
  BY <1>2 DEF Published
<1>5. QED
  BY <1>3, <1>4

(* Types and Published are kept, one step of the proof per action. *)
LEMMA BusStep == BusTypes /\ Published /\ [Next]_vars => BusTypes' /\ Published'
<1> SUFFICES ASSUME BusTypes, Published, [Next]_vars PROVE BusTypes' /\ Published'
  OBVIOUS
<1>1. ASSUME NEW s \in Subscribers, Bus!Subscribe(s) PROVE BusTypes' /\ Published'
  <2>1. /\ handlers' = Append(handlers, s)
        /\ sub' = [sub EXCEPT ![s] = "subscribed"]
        /\ UNCHANGED <<pub, run, before>>
    BY <1>1 DEF Bus!Subscribe
  <2>2. BusTypes'
    BY <2>1 DEF BusTypes
  <2>3. \A i \in DOMAIN handlers' : sub'[handlers'[i]] # "new"
    BY <2>1 DEF BusTypes, Published
  <2>4. QED
    BY <2>1, <2>2, <2>3 DEF Published, Reached
<1>2. ASSUME NEW s \in Subscribers, Bus!Unsubscribe(s) PROVE BusTypes' /\ Published'
  <2>1. /\ sub' = [sub EXCEPT ![s] = "unsubscribed"]
        /\ UNCHANGED <<handlers, pub, run, before>>
    BY <1>2 DEF Bus!Unsubscribe
  <2>2. BusTypes'
    BY <2>1 DEF BusTypes
  <2>3. \A i \in DOMAIN handlers' : sub'[handlers'[i]] # "new"
    BY <2>1 DEF BusTypes, Published
  <2>4. QED
    BY <2>1, <2>2, <2>3 DEF Published, Reached
<1>3. ASSUME NEW e \in Events, Bus!Snapshot(e) PROVE BusTypes' /\ Published'
  <2>1. /\ pub[e].phase = "none"
        /\ pub' = [pub EXCEPT ![e] = [copy |-> handlers, started |-> 0, phase |-> "starting"]]
        /\ before' = [before EXCEPT ![e] =
                        [subscribed |-> {s \in Subscribers : sub[s] = "subscribed"},
                         unsubscribed |-> {s \in Subscribers : sub[s] = "unsubscribed"}]]
        /\ UNCHANGED <<handlers, sub, run>>
    BY <1>3 DEF Bus!Snapshot, Bus!With
  <2>2. BusTypes'
    BY <2>1 DEF BusTypes
  <2>3. \A i \in DOMAIN handlers : handlers[i] \in Reached(e)'
    BY <2>1 DEF BusTypes, Published, Reached
  <2>4. ASSUME NEW f \in Events, f # e
        PROVE  pub'[f] = pub[f] /\ Reached(f)' = Reached(f)
    BY <2>1, <2>4 DEF BusTypes, Reached
  <2>5. pub'[e].copy = handlers /\ pub'[e].phase = "starting"
    BY <2>1 DEF BusTypes
  <2>6. \A s \in Subscribers : run[<<e, s>>] = "none"
    BY <2>1 DEF Published
  <2>7. QED
    BY <2>1, <2>2, <2>3, <2>4, <2>5, <2>6 DEF Published
<1>4. ASSUME NEW e \in Events, Bus!Start(e) PROVE BusTypes' /\ Published'
  <2> DEFINE s0 == pub[e].copy[pub[e].started + 1]
  <2>1. /\ pub[e].started < Len(pub[e].copy)
        /\ pub' = [pub EXCEPT ![e].started = @ + 1]
        /\ run' = [run EXCEPT ![<<e, s0>>] = "ready"]
        /\ UNCHANGED <<handlers, sub, before>>
    BY <1>4 DEF Bus!Start
  <2>2. pub[e].started + 1 \in DOMAIN pub[e].copy /\ s0 \in Subscribers
    BY <2>1 DEF BusTypes
  <2>3. BusTypes'
    <3>1. \A f \in Events : pub'[f].started <= Len(pub'[f].copy)
      BY <2>1, <2>2 DEF BusTypes
    <3>2. pub' \in [Events -> [copy : Seq(Subscribers), started : Nat,
                             phase : {"none", "starting"}]]
      <4> DEFINE next == [pub[e] EXCEPT !.started = pub[e].started + 1]
      <4>0. pub[e] \in [copy : Seq(Subscribers), started : Nat, phase : {"none", "starting"}]
        BY DEF BusTypes
      <4>1. next \in [copy : Seq(Subscribers), started : Nat, phase : {"none", "starting"}]
        BY <4>0
      <4>2. pub' = [pub EXCEPT ![e] = next]
        BY <2>1
      <4>3. QED
        BY <4>1, <4>2 DEF BusTypes
    <3>3. run' \in [Events \X Subscribers ->
                      {"none", "ready", "running", "returned", "recovered", "crashed"}]
      BY <2>1, <2>2 DEF BusTypes
    <3>4. QED
      BY <2>1, <3>1, <3>2, <3>3 DEF BusTypes
  <2>4. \A f \in Events : pub'[f].copy = pub[f].copy /\ pub'[f].phase = pub[f].phase
    BY <2>1 DEF BusTypes
  <2>5. s0 \in Reached(e) /\ pub[e].phase # "none"
    BY <2>2 DEF Published
  <2>6. ASSUME NEW f \in Events, NEW s \in Subscribers, run'[<<f, s>>] # "none"
        PROVE  s \in Reached(f) /\ pub[f].phase # "none"
    BY <2>1, <2>2, <2>5, <2>6 DEF BusTypes, Published
  <2>7. QED
    BY <2>1, <2>3, <2>4, <2>6 DEF Published, Reached
<1>5. ASSUME NEW d \in Events \X Subscribers,
             Bus!Call(d) \/ Bus!HandlerReturns(d) \/ Bus!HandlerPanics(d)
      PROVE  BusTypes' /\ Published'
  <2>1. /\ run[d] # "none" /\ UNCHANGED <<handlers, sub, pub, before>>
        /\ \E status \in {"running", "returned", "recovered"} :
             run' = [run EXCEPT ![d] = status]
    BY <1>5 DEF Bus!Call, Bus!HandlerReturns, Bus!HandlerPanics
  <2>2. BusTypes'
    BY <2>1 DEF BusTypes
  <2>3. \A f \in Events, s \in Subscribers : run'[<<f, s>>] # "none" => run[<<f, s>>] # "none"
    BY <2>1 DEF BusTypes
  <2>4. QED
    BY <2>1, <2>2, <2>3 DEF Published, Reached
<1>6. CASE UNCHANGED B
  BY <1>6 DEF B, BusTypes, Published, Reached
<1>7. QED
  BY <1>1, <1>2, <1>3, <1>4, <1>5, <1>6 DEF Next, vars, Bus!Next, Bus!Deliveries

(* The invariant of the bus. *)
LEMMA BusAlways == Spec => [](BusTypes /\ Published)
BY BusInit, BusStep, PTL DEF Spec

(* bus.go:66, for any subscribers and events: an event reaches no handler   *)
(* that had not subscribed when it was published.                           *)
THEOREM EventsReachTheSnapshot == Spec => []OnlyTheSnapshot
<1>1. BusTypes /\ Published => OnlyTheSnapshot
  BY DEF Published, Reached, OnlyTheSnapshot, Bus!OnlyTheSnapshot, Bus!Called
<1>2. QED
  BY <1>1, BusAlways, PTL

-----------------------------------------------------------------------------
(* Metrics. *)

Report == [blobs : Nat, public : Nat, private : Nat, at : Nat, total : Nat, recent : Nat,
           sum : Nat]

MetricsTypes ==
    /\ now \in 0..MaxTime /\ eventTotal \in 0..MaxEvents /\ events \in Seq(0..MaxTime)
    /\ spent \in Nat
    /\ mu \in Recorders \cup {"free", "report"}
    /\ recPc \in [Recorders -> {"idle", "lock", "read", "write", "unlock"}]
    /\ event \in [Recorders -> [time : 0..MaxTime, took : Nat, slice : Seq(0..MaxTime)]]
    /\ rows \in [Counters!Visibility -> Nat] /\ changes \in Nat
    /\ report \in {"idle", "public", "private", "clock", "lock", "load", "rates", "done"}
    /\ reply \in Report /\ started \in Nat

(* Who is between its Lock and its Unlock holds the mutex, and the slice    *)
(* that it has read is the list.                                            *)
Exclusive ==
    /\ \A r \in Recorders : recPc[r] \in {"read", "write", "unlock"} <=> mu = r
    /\ report \in {"load", "rates"} <=> mu = "report"
    /\ \A r \in Recorders : recPc[r] = "write" => event[r].slice = events

(* The counter moves first. *)
Underway == {r \in Recorders : recPc[r] \in {"lock", "read", "write"}}
Recorded ==
    /\ Len(events) + Cardinality(Underway) = eventTotal
    /\ report = "rates" => Len(events) <= reply.total
    /\ report = "done" => reply.recent <= reply.total

(* The instance counts as the library does. *)
LEMMA MetricsCounting ==
  /\ \A S : Counters!IsFiniteSet(S) <=> IsFiniteSet(S)
  /\ \A S : Counters!Cardinality(S) = Cardinality(S)
<1>1. \A S : Counters!IsFiniteSet(S) <=> IsFiniteSet(S)
  BY DEF Counters!IsFiniteSet, IsFiniteSet
<1>2. \A S : Counters!Cardinality(S) = Cardinality(S)
  BY DEF Counters!Cardinality, Cardinality
<1>3. QED
  BY <1>1, <1>2

(* Finitely many recorders, none called like a state of the mutex. *)
LEMMA RecordersAssumption ==
  /\ IsFiniteSet(Recorders) /\ Durations \subseteq Nat
  /\ "free" \notin Recorders /\ "report" \notin Recorders
  /\ MaxTime \in Nat /\ MaxEvents \in Nat
<1>1. /\ IsFiniteSet(Recorders) /\ {"free", "report"} \cap Recorders = {}
      /\ Durations \subseteq Nat /\ MaxTime \in Nat /\ MaxEvents \in Nat
  BY ComponentsAssumption, MetricsCounting DEF ComponentsAssumption, Counters!MetricsAssumption
<1>2. QED
  BY <1>1

(* The events after any cutoff are some of those of the list. *)
LEMMA RecentCounts ==
  ASSUME MetricsTypes, NEW at \in Nat
  PROVE  Counters!Recent(at) \in Nat /\ Counters!Recent(at) <= Len(events)
<1> DEFINE S == {i \in DOMAIN events : events[i] + Minute > at}
<1>1. S \subseteq 1..Len(events) /\ Len(events) \in Nat
  BY DEF MetricsTypes
<1>2. IsFiniteSet(1..Len(events)) /\ Cardinality(1..Len(events)) = Len(events)
  <2>1. 1 \in Int /\ Len(events) \in Int
    BY <1>1
  <2>2. IsFiniteSet(1..Len(events))
    BY ONLY <2>1, FS_Interval
  <2>3. Cardinality(1..Len(events)) = IF 1 > Len(events) THEN 0 ELSE Len(events)-1+1
    BY ONLY <2>1, FS_Interval
  <2>4. QED
    BY <1>1, <2>2, <2>3
<1>3. IsFiniteSet(S) /\ Cardinality(S) <= Len(events)
  BY <1>1, <1>2, FS_Subset
<1>4. Cardinality(S) \in Nat
  BY <1>3, FS_CardinalityType
<1>5. Counters!Recent(at) = Cardinality(S)
  BY MetricsCounting DEF Counters!Recent
<1>6. QED
  BY <1>3, <1>4, <1>5

(* Nothing has been recorded at first. *)
LEMMA MetricsInit == Init => MetricsTypes /\ Exclusive /\ Recorded
<1> SUFFICES ASSUME Init PROVE MetricsTypes /\ Exclusive /\ Recorded
  OBVIOUS
<1>1. /\ now = 0 /\ eventTotal = 0 /\ events = <<>> /\ spent = 0 /\ mu = "free"
      /\ recPc = [r \in Recorders |-> "idle"]
      /\ event = [r \in Recorders |-> [time |-> 0, took |-> 0, slice |-> <<>>]]
      /\ rows = [v \in Counters!Visibility |-> 0] /\ changes = 0
      /\ report = "idle" /\ started = 0
      /\ reply = [blobs |-> 0, public |-> 0, private |-> 0, at |-> 0, total |-> 0,
                  recent |-> 0, sum |-> 0]
  BY DEF Init, Counters!Init, Counters!NoReply
<1>2. MetricsTypes
  BY <1>1, RecordersAssumption DEF MetricsTypes, Report
<1>3. Exclusive
  BY <1>1, RecordersAssumption DEF Exclusive
<1>4. Underway = {}
  BY <1>1 DEF Underway
<1>5. Recorded
  BY <1>1, <1>4, FS_EmptySet DEF Recorded
<1>6. QED
  BY <1>2, <1>3, <1>5

(* Types are kept, one step of the proof per action. *)
LEMMA MetricsTypesKept == MetricsTypes /\ [Next]_vars => MetricsTypes'
<1> SUFFICES ASSUME MetricsTypes, [Next]_vars PROVE MetricsTypes'
  OBVIOUS
<1>1. ASSUME NEW r \in Recorders, Counters!Add(r) PROVE MetricsTypes'
  BY <1>1, RecordersAssumption
     DEF MetricsTypes, Counters!Add, Counters!Goto, Counters!table, Counters!reader
<1>2. ASSUME NEW r \in Recorders, Counters!Lock(r) PROVE MetricsTypes'
  BY <1>2 DEF MetricsTypes, Counters!Lock, Counters!Goto, Counters!table, Counters!reader
<1>3. ASSUME NEW r \in Recorders, Counters!ReadSlice(r) PROVE MetricsTypes'
  BY <1>3 DEF MetricsTypes, Counters!ReadSlice, Counters!Goto, Counters!table, Counters!reader
<1>4. ASSUME NEW r \in Recorders, Counters!WriteSlice(r) PROVE MetricsTypes'
  <2>1. /\ event[r].slice \in Seq(0..MaxTime) /\ event[r].time \in 0..MaxTime
        /\ event[r].took \in Nat
    BY DEF MetricsTypes
  <2>2. events' \in Seq(0..MaxTime) /\ spent' \in Nat
    BY <1>4, <2>1 DEF MetricsTypes, Counters!WriteSlice
  <2>3. QED
    BY <1>4, <2>2
       DEF MetricsTypes, Counters!WriteSlice, Counters!Goto, Counters!table, Counters!reader
<1>5. ASSUME NEW r \in Recorders, Counters!Unlock(r) PROVE MetricsTypes'
  BY <1>5, RecordersAssumption
     DEF MetricsTypes, Counters!Unlock, Counters!Goto, Counters!table, Counters!reader
<1>6. CASE Counters!Change
  <2>1. rows' \in [Counters!Visibility -> Nat]
    <3>1. rows \in [Counters!Visibility -> Nat] /\ \A v \in Counters!Visibility : rows[v] \in Nat
      BY DEF MetricsTypes
    <3>2. \/ \E v \in Counters!Visibility : rows' = [rows EXCEPT ![v] = @ + 1]
          \/ \E v \in Counters!Visibility : rows[v] > 0 /\ rows' = [rows EXCEPT ![v] = @ - 1]
          \/ \E v \in Counters!Visibility, w \in {"true", "false"} :
                v # w /\ rows[v] > 0 /\ rows' = [rows EXCEPT ![v] = @ - 1, ![w] = @ + 1]
      BY <1>6 DEF Counters!Change
    <3>3. \A w \in {"true", "false"} : w \in Counters!Visibility
      BY DEF Counters!Visibility
    <3>4. QED
      BY <3>1, <3>2, <3>3
  <2>2. QED
    BY <1>6, <2>1 DEF MetricsTypes, Counters!Change, Counters!runtime, Counters!reader
<1>7. ASSUME NEW at, NEW then \in {"public", "private", "clock", "lock", "rates"},
             NEW field \in {"blobs", "public", "private", "at", "total"}, NEW answer \in Nat,
             Counters!Query(at, then, field, answer), started' \in Nat
      PROVE  MetricsTypes'
  <2>1. reply' \in Report
    BY <1>7 DEF MetricsTypes, Counters!Query, Report
  <2>2. QED
    BY <1>7, <2>1 DEF MetricsTypes, Counters!Query, Counters!runtime, Counters!table
<1>8. /\ rows["true"] \in Nat /\ rows["false"] \in Nat /\ rows["null"] \in Nat
      /\ changes \in Nat /\ started \in Nat /\ now \in Nat /\ eventTotal \in Nat
  BY DEF MetricsTypes, Counters!Visibility
<1>9. CASE Counters!CountBlobs
  <2>1. rows["true"] + rows["false"] + rows["null"] \in Nat /\ started' \in Nat
    BY <1>8, <1>9 DEF Counters!CountBlobs
  <2>2. QED
    BY <1>7, <1>9, <2>1 DEF Counters!CountBlobs
<1>10. CASE Counters!CountPublic
  BY <1>7, <1>8, <1>10 DEF Counters!CountPublic
<1>11. CASE Counters!CountPrivate
  BY <1>7, <1>8, <1>11 DEF Counters!CountPrivate
<1>12. CASE Counters!ReadClock
  BY <1>7, <1>8, <1>12 DEF Counters!ReadClock
<1>13. CASE Counters!LockReport
  BY <1>13 DEF MetricsTypes, Counters!LockReport, Counters!table
<1>14. CASE Counters!LoadTotal
  BY <1>7, <1>8, <1>14 DEF Counters!LoadTotal
<1>15. CASE Counters!Rates
  <2>1. Counters!Recent(reply.at) \in Nat
    <3>1. reply.at \in Nat
      BY DEF MetricsTypes, Report
    <3>2. QED
      BY <3>1, RecentCounts
  <2>2. reply' \in Report
    BY <1>15, <2>1 DEF MetricsTypes, Counters!Rates, Report
  <2>3. QED
    BY <1>15, <2>2 DEF MetricsTypes, Counters!Rates, Counters!table
<1>16. CASE Counters!Close
  BY <1>16 DEF MetricsTypes, Counters!Close, Counters!NoReply, Report, Counters!runtime,
               Counters!table
<1>17. CASE Counters!Tick
  BY <1>17, RecordersAssumption
     DEF MetricsTypes, Counters!Tick, Counters!runtime, Counters!table, Counters!reader
<1>18. CASE UNCHANGED C
  BY <1>18 DEF MetricsTypes, C
<1>19. QED
  BY <1>1, <1>2, <1>3, <1>4, <1>5, <1>6, <1>9, <1>10, <1>11, <1>12, <1>13, <1>14, <1>15,
     <1>16, <1>17, <1>18 DEF Next, vars, Counters!Next

(* The mutex excludes: writes of the list do not overlap. *)
LEMMA ExclusiveKept ==
  MetricsTypes /\ Exclusive /\ [Next]_vars => Exclusive'
<1> SUFFICES ASSUME MetricsTypes, Exclusive, [Next]_vars PROVE Exclusive'
  OBVIOUS
<1> USE DEF Counters!Goto, Counters!table, Counters!reader, Counters!runtime
<1>1. ASSUME NEW r \in Recorders, Counters!Add(r) PROVE Exclusive'
  BY <1>1 DEF MetricsTypes, Exclusive, Counters!Add
<1>2. ASSUME NEW r \in Recorders, Counters!Lock(r) PROVE Exclusive'
  BY <1>2, RecordersAssumption DEF MetricsTypes, Exclusive, Counters!Lock
<1>3. ASSUME NEW r \in Recorders, Counters!ReadSlice(r) PROVE Exclusive'
  <2>1. event'[r].slice = events
    BY <1>3 DEF MetricsTypes, Counters!ReadSlice
  <2>2. QED
    BY <1>3, <2>1 DEF MetricsTypes, Exclusive, Counters!ReadSlice
<1>4. ASSUME NEW r \in Recorders, Counters!WriteSlice(r) PROVE Exclusive'
  BY <1>4 DEF MetricsTypes, Exclusive, Counters!WriteSlice
<1>5. ASSUME NEW r \in Recorders, Counters!Unlock(r) PROVE Exclusive'
  BY <1>5, RecordersAssumption DEF MetricsTypes, Exclusive, Counters!Unlock
<1>6. CASE Counters!Change
  BY <1>6 DEF Exclusive, Counters!Change
<1>7. ASSUME NEW at, NEW then, NEW field, NEW answer, at \notin {"load", "rates"},
             then \notin {"load", "rates"}, Counters!Query(at, then, field, answer)
      PROVE  Exclusive'
  BY <1>7 DEF Exclusive, Counters!Query
<1>8. CASE Counters!CountBlobs
  BY <1>7, <1>8 DEF Counters!CountBlobs
<1>9. CASE Counters!CountPublic
  BY <1>7, <1>9 DEF Counters!CountPublic
<1>10. CASE Counters!CountPrivate
  BY <1>7, <1>10 DEF Counters!CountPrivate
<1>11. CASE Counters!ReadClock
  BY <1>7, <1>11 DEF Counters!ReadClock
<1>12. CASE Counters!LockReport
  BY <1>12, RecordersAssumption DEF Exclusive, Counters!LockReport
<1>13. CASE Counters!LoadTotal
  BY <1>13 DEF Exclusive, Counters!LoadTotal, Counters!Query
<1>14. CASE Counters!Rates
  BY <1>14, RecordersAssumption DEF Exclusive, Counters!Rates
<1>15. CASE Counters!Close
  BY <1>15 DEF Exclusive, Counters!Close
<1>16. CASE Counters!Tick
  BY <1>16 DEF Exclusive, Counters!Tick
<1>17. CASE UNCHANGED C
  BY <1>17 DEF Exclusive, C
<1>18. QED
  BY <1>1, <1>2, <1>3, <1>4, <1>5, <1>6, <1>8, <1>9, <1>10, <1>11, <1>12, <1>13, <1>14,
     <1>15, <1>16, <1>17 DEF Next, vars, Counters!Next

(* The number under way moves with the steps of one recorder. *)
LEMMA UnderwayMoves ==
  ASSUME MetricsTypes, MetricsTypes', NEW r \in Recorders, NEW step,
         recPc' = [recPc EXCEPT ![r] = step]
  PROVE  /\ Cardinality(Underway) \in Nat
         /\ recPc[r] = "idle" /\ step = "lock" =>
              Cardinality(Underway)' = Cardinality(Underway) + 1
         /\ recPc[r] \in {"lock", "read"} /\ step \in {"read", "write"} =>
              Cardinality(Underway)' = Cardinality(Underway)
         /\ recPc[r] = "write" /\ step = "unlock" =>
              Cardinality(Underway)' = Cardinality(Underway) - 1
         /\ recPc[r] = "unlock" /\ step = "idle" =>
              Cardinality(Underway)' = Cardinality(Underway)
<1>1. IsFiniteSet(Underway) /\ Underway \subseteq Recorders
  BY RecordersAssumption, FS_Subset DEF Underway
<1>2. Cardinality(Underway) \in Nat
  BY <1>1, FS_CardinalityType
<1>3. ASSUME recPc[r] = "idle", step = "lock"
      PROVE  Underway' = Underway \cup {r} /\ r \notin Underway
  BY <1>3 DEF Underway, MetricsTypes
<1>4. ASSUME recPc[r] = "write", step = "unlock"
      PROVE  Underway' = Underway \ {r} /\ r \in Underway
  BY <1>4 DEF Underway, MetricsTypes
<1>5. ASSUME recPc[r] \in {"lock", "read"}, step \in {"read", "write"}
      PROVE  Underway' = Underway
  BY <1>5 DEF Underway, MetricsTypes
<1>6. ASSUME recPc[r] = "unlock", step = "idle"
      PROVE  Underway' = Underway
  BY <1>6 DEF Underway, MetricsTypes
<1>7. r \notin Underway => Cardinality(Underway \cup {r}) = Cardinality(Underway) + 1
  BY <1>1, FS_AddElement
<1>8. r \in Underway => Cardinality(Underway \ {r}) = Cardinality(Underway) - 1
  BY <1>1, FS_RemoveElement
<1>9. QED
  BY <1>2, <1>3, <1>4, <1>5, <1>6, <1>7, <1>8

(* The list catches up with the counter, one event for each that leaves     *)
(* the mutex.                                                               *)
LEMMA RecordedKept ==
  MetricsTypes /\ MetricsTypes' /\ Exclusive /\ Recorded /\ [Next]_vars => Recorded'
<1> SUFFICES ASSUME MetricsTypes, MetricsTypes', Exclusive, Recorded, [Next]_vars
             PROVE  Recorded'
  OBVIOUS
<1> USE DEF Counters!Goto, Counters!table, Counters!reader, Counters!runtime
<1>a. /\ Len(events) \in Nat /\ Cardinality(Underway) \in Nat /\ eventTotal \in Nat
      /\ Len(events) + Cardinality(Underway) = eventTotal
      /\ reply.total \in Nat
  <2>1. IsFiniteSet(Underway)
    BY RecordersAssumption, FS_Subset DEF Underway
  <2>2. QED
    BY <2>1, FS_CardinalityType DEF Recorded, MetricsTypes, Report
<1>1. ASSUME NEW r \in Recorders, Counters!Add(r) PROVE Recorded'
  <2>1. /\ recPc' = [recPc EXCEPT ![r] = "lock"] /\ recPc[r] = "idle"
        /\ eventTotal' = eventTotal + 1 /\ UNCHANGED <<events, report, reply>>
    BY <1>1 DEF Counters!Add
  <2>2. Cardinality(Underway)' = Cardinality(Underway) + 1
    BY <2>1, UnderwayMoves
  <2>3. QED
    BY <1>a, <2>1, <2>2 DEF Recorded
<1>2. ASSUME NEW r \in Recorders, Counters!Lock(r) PROVE Recorded'
  <2>1. /\ recPc' = [recPc EXCEPT ![r] = "read"] /\ recPc[r] = "lock"
        /\ UNCHANGED <<events, eventTotal, report, reply>>
    BY <1>2 DEF Counters!Lock
  <2>2. Cardinality(Underway)' = Cardinality(Underway)
    BY <2>1, UnderwayMoves
  <2>3. QED
    BY <1>a, <2>1, <2>2 DEF Recorded
<1>3. ASSUME NEW r \in Recorders, Counters!ReadSlice(r) PROVE Recorded'
  <2>1. /\ recPc' = [recPc EXCEPT ![r] = "write"] /\ recPc[r] = "read"
        /\ UNCHANGED <<events, eventTotal, report, reply>>
    BY <1>3 DEF Counters!ReadSlice
  <2>2. Cardinality(Underway)' = Cardinality(Underway)
    BY <2>1, UnderwayMoves
  <2>3. QED
    BY <1>a, <2>1, <2>2 DEF Recorded
<1>4. ASSUME NEW r \in Recorders, Counters!WriteSlice(r) PROVE Recorded'
  <2>1. /\ recPc' = [recPc EXCEPT ![r] = "unlock"] /\ recPc[r] = "write"
        /\ UNCHANGED <<eventTotal, report, reply>>
        /\ events' = Append(events, event[r].time)
    BY <1>4 DEF Counters!WriteSlice, Exclusive
  <2>2. Cardinality(Underway)' = Cardinality(Underway) - 1
    BY <2>1, UnderwayMoves
  <2>3. Len(events') = Len(events) + 1
    BY <2>1 DEF MetricsTypes
  <2>4. report # "rates"
    BY <2>1, RecordersAssumption DEF Exclusive
  <2>5. QED
    BY <1>a, <2>1, <2>2, <2>3, <2>4 DEF Recorded
<1>5. ASSUME NEW r \in Recorders, Counters!Unlock(r) PROVE Recorded'
  <2>1. /\ recPc' = [recPc EXCEPT ![r] = "idle"] /\ recPc[r] = "unlock"
        /\ UNCHANGED <<events, eventTotal, report, reply>>
    BY <1>5 DEF Counters!Unlock
  <2>2. Cardinality(Underway)' = Cardinality(Underway)
    BY <2>1, UnderwayMoves
  <2>3. QED
    BY <1>a, <2>1, <2>2 DEF Recorded
<1>6. CASE UNCHANGED <<events, eventTotal, recPc>> /\ report' \notin {"rates", "done"}
  <2>1. Underway' = Underway
    BY <1>6 DEF Underway
  <2>2. QED
    BY <1>6, <2>1 DEF Recorded
<1>7. CASE Counters!CountBlobs \/ Counters!CountPublic \/ Counters!CountPrivate
           \/ Counters!ReadClock \/ Counters!LockReport \/ Counters!Close
  BY <1>6, <1>7
     DEF Counters!CountBlobs, Counters!CountPublic, Counters!CountPrivate,
         Counters!ReadClock, Counters!LockReport, Counters!Close, Counters!Query
<1>8. CASE Counters!LoadTotal
  <2>1. /\ UNCHANGED <<events, eventTotal, recPc>> /\ report' = "rates"
        /\ reply' = [reply EXCEPT !["total"] = eventTotal]
    BY <1>8 DEF Counters!LoadTotal, Counters!Query
  <2>2. Underway' = Underway /\ reply'.total = eventTotal
    BY <2>1 DEF Underway, MetricsTypes, Report
  <2>3. QED
    BY <1>a, <2>1, <2>2 DEF Recorded
<1>9. CASE Counters!Rates
  <2>1. /\ UNCHANGED <<events, eventTotal, recPc>> /\ report = "rates" /\ report' = "done"
        /\ reply' = [reply EXCEPT !.recent = Counters!Recent(reply.at), !.sum = spent]
    BY <1>9 DEF Counters!Rates
  <2>2. Underway' = Underway /\ reply'.total = reply.total
        /\ reply'.recent = Counters!Recent(reply.at)
    BY <2>1 DEF Underway, MetricsTypes, Report
  <2>3. Counters!Recent(reply.at) \in Nat /\ Counters!Recent(reply.at) <= Len(events)
    <3>1. reply.at \in Nat
      BY DEF MetricsTypes, Report
    <3>2. QED
      BY <3>1, RecentCounts
  <2>4. Len(events) <= reply.total
    BY <2>1 DEF Recorded
  <2>5. QED
    BY <1>a, <2>1, <2>2, <2>3, <2>4 DEF Recorded
<1>10. CASE UNCHANGED <<events, eventTotal, recPc, report, reply>>
  <2>1. Underway' = Underway
    BY <1>10 DEF Underway
  <2>2. QED
    BY <1>10, <2>1 DEF Recorded
<1>11. CASE Counters!Change \/ Counters!Tick \/ UNCHANGED C
  BY <1>10, <1>11 DEF Counters!Change, Counters!Tick, C
<1>12. QED
  BY <1>1, <1>2, <1>3, <1>4, <1>5, <1>7, <1>8, <1>9, <1>11 DEF Next, vars, Counters!Next

(* The invariant of the metrics. *)
LEMMA MetricsAlways == Spec => [](MetricsTypes /\ Exclusive /\ Recorded)
<1>1. Spec => []MetricsTypes
  BY MetricsInit, MetricsTypesKept, PTL DEF Spec
<1>2. Spec => []Exclusive
  BY <1>1, MetricsInit, ExclusiveKept, PTL DEF Spec
<1>3. Spec => []Recorded
  BY <1>1, <1>2, MetricsInit, RecordedKept, PTL DEF Spec
<1>4. QED
  BY <1>1, <1>2, <1>3, PTL

(* service.go:10, for any number of requests that record events: none of    *)
(* those counted is missing from the list but those before the mutex.       *)
THEOREM CountedEventsAreListed == Spec => []NoEventLost
<1>1. Recorded => NoEventLost
  BY MetricsCounting DEF Recorded, Underway, NoEventLost, Counters!NoEventLost
<1>2. QED
  BY <1>1, MetricsAlways, PTL

(* A reply of GET /metrics never has more events of the last minute than    *)
(* events in all, whatever is recorded while it is put together.            *)
THEOREM RecentIsPartOfTotal == Spec => []RecentWithinTotal
<1>1. Recorded => RecentWithinTotal
  BY DEF Recorded, RecentWithinTotal, Counters!RecentWithinTotal
<1>2. QED
  BY <1>1, MetricsAlways, PTL

(* How far the reply and the table are apart by its changes since. *)
Near(a, b) == a - b <= changes - started /\ b - a <= changes - started
Drift ==
    /\ started <= changes
    /\ report = "public" => Near(reply.blobs, rows["true"] + (rows["false"] + rows["null"]))
    /\ report = "private" => Near(reply.blobs, reply.public + (rows["false"] + rows["null"]))
    /\ PartsAddUp

(* A change of the table moves what is left to count by one at most. *)
LEMMA ChangeMovesByOne ==
  ASSUME MetricsTypes, Counters!Change
  PROVE  LET hidden == rows["false"] + rows["null"]
             sum0 == rows["true"] + hidden
         IN  /\ hidden' - hidden \in -1..1
             /\ sum0' - sum0 \in -1..1
<1>1. /\ rows["true"] \in Nat /\ rows["false"] \in Nat /\ rows["null"] \in Nat
      /\ DOMAIN rows = {"true", "false", "null"}
  BY DEF MetricsTypes, Counters!Visibility
<1>2. CASE \E v \in Counters!Visibility : rows' = [rows EXCEPT ![v] = @ + 1]
  BY <1>1, <1>2 DEF Counters!Visibility
<1>3. CASE \E v \in Counters!Visibility : rows[v] > 0 /\ rows' = [rows EXCEPT ![v] = @ - 1]
  BY <1>1, <1>3 DEF Counters!Visibility
<1>4. CASE \E v \in Counters!Visibility, w \in {"true", "false"} :
              v # w /\ rows[v] > 0 /\ rows' = [rows EXCEPT ![v] = @ - 1, ![w] = @ + 1]
  <2>1. PICK v \in Counters!Visibility, w \in {"true", "false"} :
              v # w /\ rows[v] > 0 /\ rows' = [rows EXCEPT ![v] = @ - 1, ![w] = @ + 1]
    BY <1>4
  <2>2. rows'[v] = rows[v] - 1 /\ rows'[w] = rows[w] + 1
    BY <1>1, <2>1 DEF Counters!Visibility
  <2>3. \A u \in Counters!Visibility : u # v /\ u # w => rows'[u] = rows[u]
    BY <1>1, <2>1 DEF Counters!Visibility
  <2>4. CASE v = "true" /\ w = "false"
    BY <1>1, <2>2, <2>3, <2>4 DEF Counters!Visibility
  <2>5. CASE v = "false" /\ w = "true"
    BY <1>1, <2>2, <2>3, <2>5 DEF Counters!Visibility
  <2>6. CASE v = "null" /\ w = "true"
    BY <1>1, <2>2, <2>3, <2>6 DEF Counters!Visibility
  <2>7. CASE v = "null" /\ w = "false"
    BY <1>1, <2>2, <2>3, <2>7 DEF Counters!Visibility
  <2>8. QED
    BY <2>1, <2>4, <2>5, <2>6, <2>7 DEF Counters!Visibility
<1>5. QED
  BY <1>2, <1>3, <1>4 DEF Counters!Change

(* Each query finds the table as it is then. *)
LEMMA DriftKept == MetricsTypes /\ Drift /\ [Next]_vars => Drift'
<1> SUFFICES ASSUME MetricsTypes, Drift, [Next]_vars PROVE Drift'
  OBVIOUS
<1>a. /\ rows["true"] \in Nat /\ rows["false"] \in Nat /\ rows["null"] \in Nat
      /\ changes \in Nat /\ started \in Nat /\ reply \in Report
      /\ reply.blobs \in Nat /\ reply.public \in Nat /\ reply.private \in Nat
  BY DEF MetricsTypes, Counters!Visibility, Report
<1> USE DEF Counters!table, Counters!reader, Counters!runtime
<1>1. CASE UNCHANGED <<rows, changes, report, reply, started>>
  BY <1>1 DEF Drift, Near, PartsAddUp, Counters!PartsAddUp
<1>2. CASE Counters!Change
  <2>1. changes' = changes + 1 /\ UNCHANGED <<report, reply, started>>
    BY <1>2 DEF Counters!Change
  <2> DEFINE hidden == rows["false"] + rows["null"]
             sum0 == rows["true"] + hidden
  <2>2. hidden' - hidden \in -1..1 /\ sum0' - sum0 \in -1..1
    BY <1>2, ChangeMovesByOne
  <2>3. /\ rows'["true"] \in Nat /\ rows'["false"] \in Nat /\ rows'["null"] \in Nat
    <3>1. MetricsTypes'
      BY MetricsTypesKept
    <3>2. QED
      BY <3>1 DEF MetricsTypes, Counters!Visibility
  <2>4. started' <= changes'
    BY <1>a, <2>1 DEF Drift
  <2>5. report = "public" => Near(reply.blobs, sum0)'
    BY <1>a, <2>1, <2>2, <2>3 DEF Drift, Near
  <2>6. report = "private" => Near(reply.blobs, reply.public + hidden)'
    BY <1>a, <2>1, <2>2, <2>3 DEF Drift, Near
  <2>7. PartsAddUp'
    BY <1>a, <2>1 DEF Drift, PartsAddUp, Counters!PartsAddUp
  <2>8. QED
    BY <2>1, <2>4, <2>5, <2>6, <2>7 DEF Drift
<1>3. CASE Counters!CountBlobs
  <2>1. /\ UNCHANGED <<rows, changes>> /\ report' = "public" /\ started' = changes
        /\ reply'.blobs = rows["true"] + rows["false"] + rows["null"]
    BY <1>a, <1>3 DEF Counters!CountBlobs, Counters!Query, Report
  <2>2. QED
    BY <1>a, <2>1 DEF Drift, Near, PartsAddUp, Counters!PartsAddUp
<1>4. CASE Counters!CountPublic
  <2>1. /\ UNCHANGED <<rows, changes, started>> /\ report = "public" /\ report' = "private"
        /\ reply'.blobs = reply.blobs /\ reply'.public = rows["true"]
    BY <1>a, <1>4 DEF Counters!CountPublic, Counters!Query, Report
  <2>2. QED
    BY <1>a, <2>1 DEF Drift, Near, PartsAddUp, Counters!PartsAddUp
<1>5. CASE Counters!CountPrivate
  <2>1. /\ UNCHANGED <<rows, changes, started>> /\ report = "private" /\ report' = "clock"
        /\ reply'.blobs = reply.blobs /\ reply'.public = reply.public
        /\ reply'.private = rows["false"] + rows["null"]
    BY <1>a, <1>5 DEF Counters!CountPrivate, Counters!Query, Report
  <2>2. QED
    BY <1>a, <2>1 DEF Drift, Near, PartsAddUp, Counters!PartsAddUp
<1>6. CASE /\ UNCHANGED <<rows, changes, started>>
           /\ report \in {"clock", "lock", "load", "rates"}
           /\ report' \in {"lock", "load", "rates", "done"}
           /\ reply'.blobs = reply.blobs /\ reply'.public = reply.public
           /\ reply'.private = reply.private
  BY <1>6 DEF Drift, PartsAddUp, Counters!PartsAddUp
<1>7. CASE Counters!ReadClock \/ Counters!LockReport \/ Counters!LoadTotal \/ Counters!Rates
  BY <1>a, <1>6, <1>7
     DEF Counters!ReadClock, Counters!LockReport, Counters!LoadTotal, Counters!Rates,
         Counters!Query, Report
<1>8. CASE Counters!Close
  <2>1. UNCHANGED <<rows, changes>> /\ report' = "idle" /\ started' = 0
    BY <1>8 DEF Counters!Close
  <2>2. QED
    BY <1>a, <2>1 DEF Drift, PartsAddUp, Counters!PartsAddUp
<1>9. ASSUME NEW r \in Recorders,
             \/ Counters!Add(r) \/ Counters!Lock(r) \/ Counters!ReadSlice(r)
             \/ Counters!WriteSlice(r) \/ Counters!Unlock(r)
      PROVE  Drift'
  BY <1>1, <1>9
     DEF Counters!Add, Counters!Lock, Counters!ReadSlice, Counters!WriteSlice, Counters!Unlock
<1>10. CASE Counters!Tick \/ UNCHANGED C
  BY <1>1, <1>10 DEF Counters!Tick, C
<1>11. QED
  BY <1>2, <1>3, <1>4, <1>5, <1>7, <1>8, <1>9, <1>10 DEF Next, vars, Counters!Next

(* GET /metrics, controllers/metrics.go, for any table: what three queries  *)
(* counted differs by no more than the changes that ran between them.       *)
THEOREM PartsDifferByChanges == Spec => []PartsAddUp
<1>1. Init => Drift
  <2> SUFFICES ASSUME Init PROVE Drift
    OBVIOUS
  <2>1. changes = 0 /\ started = 0 /\ report = "idle"
    BY DEF Init, Counters!Init
  <2>2. QED
    BY <2>1 DEF Drift, PartsAddUp, Counters!PartsAddUp
<1>2. Spec => []Drift
  BY <1>1, DriftKept, MetricsAlways, PTL DEF Spec
<1>3. Drift => PartsAddUp
  BY DEF Drift
<1>4. QED
  BY <1>2, <1>3, PTL

-----------------------------------------------------------------------------
(* The storage quota. *)

QuotaTypes ==
    /\ kept \in Nat /\ chunks \subseteq Sessions /\ skipped \in 0..MaxSkips
    /\ slotPc \in [Quota!Slots -> {"idle", "walk", "write", "assemble", "sweep"}]
    /\ sum \in [Quota!Slots -> Nat]
    /\ toVisit \in [Quota!Slots -> SUBSET Sessions]
    /\ failed \in [Quota!Slots -> BOOLEAN]

(* A walk that has not failed passes if it listed less than the limit: each *)
(* chunk it has still to visit counts, or makes it fail.                    *)
Hopeful(s) ==
    /\ slotPc[s] = "walk" /\ ~failed[s]
    /\ sum[s] + Cardinality(toVisit[s]) + 1 <= MaxStorageSize

(* The slots that may yet add a file for good. *)
Claims == {s \in Quota!Slots : slotPc[s] \in {"write", "assemble"} \/ Hopeful(s)}

(* Above the limit no walk becomes hopeful: what is still added are claims  *)
(* of before, one per slot, and checks that are skipped.                    *)
Claimed == kept + Cardinality(Claims) <= MaxStorageSize - 1 + Cardinality(Quota!Slots) + skipped

(* The instance counts as the library does. *)
LEMMA QuotaCounting ==
  /\ \A S : Quota!IsFiniteSet(S) <=> IsFiniteSet(S)
  /\ \A S : Quota!Cardinality(S) = Cardinality(S)
<1>1. \A S : Quota!IsFiniteSet(S) <=> IsFiniteSet(S)
  BY DEF Quota!IsFiniteSet, IsFiniteSet
<1>2. \A S : Quota!Cardinality(S) = Cardinality(S)
  BY DEF Quota!Cardinality, Cardinality
<1>3. QED
  BY <1>1, <1>2

(* There are finitely many slots, and a limit. *)
LEMMA SlotsFinite ==
  /\ IsFiniteSet(Quota!Slots) /\ Cardinality(Quota!Slots) \in Nat
  /\ Sessions \subseteq Quota!Slots /\ Uploads \subseteq Quota!Slots
  /\ IsFiniteSet(Sessions) /\ IsFiniteSet(Uploads)
  /\ MaxStorageSize \in Nat /\ MaxStorageSize > 0 /\ MaxSkips \in Nat
<1>1. IsFiniteSet(Quota!Slots) /\ MaxStorageSize \in Nat \ {0} /\ MaxSkips \in Nat
  BY ComponentsAssumption, QuotaCounting DEF ComponentsAssumption, Quota!QuotaAssumption
<1>2. Sessions \subseteq Quota!Slots /\ Uploads \subseteq Quota!Slots
  BY DEF Quota!Slots
<1>3. QED
  BY <1>1, <1>2, FS_Subset, FS_CardinalityType

(* No slot is both for an upload and for a session. *)
LEMMA SlotsCount == Cardinality(Quota!Slots) = Cardinality(Uploads) + Cardinality(Sessions)
<1>1. Uploads \cap Sessions = {}
  BY ComponentsAssumption DEF ComponentsAssumption, Quota!QuotaAssumption
<1>2. Cardinality(Uploads \cap Sessions) = 0
  BY <1>1, FS_EmptySet
<1>3. Cardinality(Uploads) \in Nat /\ Cardinality(Sessions) \in Nat
  BY SlotsFinite, FS_CardinalityType
<1>4. Cardinality(Uploads \cup Sessions)
        = Cardinality(Uploads) + Cardinality(Sessions) - Cardinality(Uploads \cap Sessions)
  <2>1. IsFiniteSet(Uploads) /\ IsFiniteSet(Sessions)
    BY SlotsFinite
  <2>2. QED
    BY ONLY <2>1, FS_Union
<1>5. QED
  BY <1>2, <1>3, <1>4 DEF Quota!Slots

(* Nothing is stored or claimed at first. *)
LEMMA QuotaInit == Init => QuotaTypes /\ Claimed
<1> SUFFICES ASSUME Init PROVE QuotaTypes /\ Claimed
  OBVIOUS
<1>1. /\ kept = 0 /\ chunks = {} /\ skipped = 0
      /\ slotPc = [s \in Quota!Slots |-> "idle"]
      /\ sum = [s \in Quota!Slots |-> 0] /\ toVisit = [s \in Quota!Slots |-> {}]
      /\ failed = [s \in Quota!Slots |-> FALSE]
  BY DEF Init, Quota!Init
<1>2. QuotaTypes
  BY <1>1, SlotsFinite DEF QuotaTypes
<1>3. Claims = {}
  BY <1>1 DEF Claims, Hopeful
<1>4. Claimed
  BY <1>1, <1>3, SlotsFinite, FS_EmptySet DEF Claimed
<1>5. QED
  BY <1>2, <1>4

(* Types are kept, one step of the proof per action. *)
LEMMA QuotaTypesKept == QuotaTypes /\ [Next]_vars => QuotaTypes'
<1> SUFFICES ASSUME QuotaTypes, [Next]_vars PROVE QuotaTypes'
  OBVIOUS
<1> USE DEF QuotaTypes, Quota!Goto, Quota!walk, Quota!EndWalk
<1>1. ASSUME NEW s \in Quota!Slots, Quota!List(s) PROVE QuotaTypes'
  BY <1>1 DEF Quota!List
<1>2. ASSUME NEW s \in Quota!Slots, Quota!Visit(s) PROVE QuotaTypes'
  <2>1. PICK c \in toVisit[s] :
          /\ toVisit' = [toVisit EXCEPT ![s] = @ \ {c}]
          /\ \/ sum' = [sum EXCEPT ![s] = @ + 1] /\ UNCHANGED failed
             \/ failed' = [failed EXCEPT ![s] = TRUE] /\ UNCHANGED sum
    BY <1>2 DEF Quota!Visit
  <2>2. sum' \in [Quota!Slots -> Nat] /\ failed' \in [Quota!Slots -> BOOLEAN]
    <3>1. CASE sum' = [sum EXCEPT ![s] = @ + 1] /\ UNCHANGED failed
      <4>1. sum[s] + 1 \in Nat
        OBVIOUS
      <4>2. QED
        BY <3>1, <4>1
    <3>2. CASE failed' = [failed EXCEPT ![s] = TRUE] /\ UNCHANGED sum
      BY <3>2
    <3>3. QED
      BY <2>1, <3>1, <3>2
  <2>3. toVisit' \in [Quota!Slots -> SUBSET Sessions]
    BY <2>1
  <2>4. QED
    BY <1>2, <2>2, <2>3 DEF Quota!Visit
<1>3. ASSUME NEW s \in Quota!Slots, Quota!Check(s) PROVE QuotaTypes'
  BY <1>3 DEF Quota!Check
<1>4. ASSUME NEW s \in Quota!Slots, Quota!SkipCheck(s) PROVE QuotaTypes'
  BY <1>4, SlotsFinite DEF Quota!SkipCheck
<1>5. ASSUME NEW s \in Quota!Slots, Quota!WriteFile(s) PROVE QuotaTypes'
  BY <1>5 DEF Quota!WriteFile, Quota!Slots
<1>6. ASSUME NEW s \in Quota!Slots, Quota!GiveUp(s) PROVE QuotaTypes'
  BY <1>6 DEF Quota!GiveUp
<1>7. ASSUME NEW s \in Quota!Slots, Quota!Assemble(s) PROVE QuotaTypes'
  BY <1>7 DEF Quota!Assemble
<1>8. ASSUME NEW s \in Quota!Slots, Quota!Sweep(s) PROVE QuotaTypes'
  BY <1>8 DEF Quota!Sweep
<1>9. CASE Quota!DeleteBlob
  BY <1>9 DEF Quota!DeleteBlob
<1>10. CASE UNCHANGED Q
  BY <1>10 DEF Q
<1>11. QED
  BY <1>1, <1>2, <1>3, <1>4, <1>5, <1>6, <1>7, <1>8, <1>9, <1>10 DEF Next, vars, Quota!Next

(* Each step pays for what it adds. *)
LEMMA ClaimedKept == QuotaTypes /\ Claimed /\ [Next]_vars => Claimed'
<1> SUFFICES ASSUME QuotaTypes, Claimed, [Next]_vars PROVE Claimed'
  OBVIOUS
<1> USE DEF Quota!Goto, Quota!walk, Quota!EndWalk
<1>a. QuotaTypes'
  BY QuotaTypesKept
<1>b. /\ IsFiniteSet(Claims) /\ IsFiniteSet(Claims')
      /\ Cardinality(Claims) \in Nat /\ Cardinality(Claims') \in Nat
      /\ Cardinality(Claims') <= Cardinality(Quota!Slots)
  <2>1. Claims \subseteq Quota!Slots /\ Claims' \subseteq Quota!Slots
    BY DEF Claims
  <2>2. QED
    BY <2>1, SlotsFinite, FS_Subset, FS_CardinalityType
<1>c. /\ kept \in Nat /\ kept' \in Nat /\ skipped \in Nat /\ skipped' \in Nat
      /\ Cardinality(Quota!Slots) \in Nat /\ MaxStorageSize \in Nat
  BY <1>a, SlotsFinite DEF QuotaTypes
<1>d. \A s \in Quota!Slots : IsFiniteSet(toVisit[s]) /\ Cardinality(toVisit[s]) \in Nat
  BY SlotsFinite, FS_Subset, FS_CardinalityType DEF QuotaTypes
<1>e. ASSUME Claims' \subseteq Claims, kept' <= kept, skipped <= skipped' PROVE Claimed'
  <2>1. Cardinality(Claims') <= Cardinality(Claims)
    BY <1>b, <1>e, FS_Subset
  <2>2. QED
    BY <1>b, <1>c, <1>e, <2>1 DEF Claimed
<1>1. ASSUME NEW s \in Quota!Slots, Quota!List(s) PROVE Claimed'
  <2>1. /\ slotPc[s] = "idle" /\ slotPc' = [slotPc EXCEPT ![s] = "walk"]
        /\ sum' = [sum EXCEPT ![s] = kept] /\ toVisit' = [toVisit EXCEPT ![s] = chunks]
        /\ UNCHANGED <<kept, chunks, failed, skipped>>
    BY <1>1 DEF Quota!List
  <2>2. CASE Hopeful(s)'
    <3>1. kept + Cardinality(chunks) + 1 <= MaxStorageSize
      BY <2>1, <2>2 DEF Hopeful, QuotaTypes
    <3>2. Cardinality(chunks) \in Nat
      BY SlotsFinite, FS_Subset, FS_CardinalityType DEF QuotaTypes
    <3>3. QED
      BY <1>b, <1>c, <2>1, <3>1, <3>2 DEF Claimed
  <2>3. CASE ~Hopeful(s)'
    <3>1. Claims' \subseteq Claims
      BY <2>1, <2>3 DEF Claims, Hopeful, QuotaTypes
    <3>2. QED
      BY <1>c, <1>e, <2>1, <3>1
  <2>4. QED
    BY <2>2, <2>3
<1>2. ASSUME NEW s \in Quota!Slots, Quota!Visit(s) PROVE Claimed'
  <2>1. PICK c \in toVisit[s] :
          /\ toVisit' = [toVisit EXCEPT ![s] = @ \ {c}]
          /\ \/ sum' = [sum EXCEPT ![s] = @ + 1] /\ UNCHANGED failed
             \/ failed' = [failed EXCEPT ![s] = TRUE] /\ UNCHANGED sum
    BY <1>2 DEF Quota!Visit
  <2>2. UNCHANGED <<kept, skipped, slotPc>>
    BY <1>2 DEF Quota!Visit
  <2>3. Cardinality(toVisit[s] \ {c}) = Cardinality(toVisit[s]) - 1
    BY <1>d, <2>1, FS_RemoveElement
  <2>4. Hopeful(s)' => Hopeful(s)
    <3>1. toVisit'[s] = toVisit[s] \ {c}
      BY <2>1 DEF QuotaTypes
    <3>2. CASE sum' = [sum EXCEPT ![s] = @ + 1] /\ UNCHANGED failed
      <4>1. sum'[s] = sum[s] + 1 /\ sum[s] \in Nat
        BY <3>2 DEF QuotaTypes
      <4>2. Cardinality(toVisit'[s]) = Cardinality(toVisit[s]) - 1
        BY <2>3, <3>1
      <4>3. QED
        BY <1>c, <1>d, <2>2, <3>2, <4>1, <4>2 DEF Hopeful
    <3>3. CASE failed' = [failed EXCEPT ![s] = TRUE]
      BY <3>3 DEF Hopeful, QuotaTypes
    <3>4. QED
      BY <2>1, <3>2, <3>3
  <2>5. \A u \in Quota!Slots : u # s => (Hopeful(u)' <=> Hopeful(u))
    BY <2>1, <2>2 DEF Hopeful, QuotaTypes
  <2>6. Claims' \subseteq Claims
    BY <2>2, <2>4, <2>5 DEF Claims
  <2>7. QED
    BY <1>c, <1>e, <2>2, <2>6
<1>3. ASSUME NEW s \in Quota!Slots, Quota!Check(s) PROVE Claimed'
  <2>1. /\ slotPc[s] = "walk" /\ ~failed[s] /\ toVisit[s] = {}
        /\ slotPc' = [slotPc EXCEPT ![s] =
                         IF sum[s] + 1 > MaxStorageSize THEN "idle" ELSE "write"]
        /\ UNCHANGED <<kept, skipped>>
    BY <1>3 DEF Quota!Check
  <2>2. Cardinality(toVisit[s]) = 0
    BY <2>1, FS_EmptySet
  <2>3. slotPc'[s] = "write" => Hopeful(s)
    BY <1>c, <2>1, <2>2 DEF Hopeful, QuotaTypes
  <2>4. \A u \in Quota!Slots : u # s => slotPc'[u] = slotPc[u] /\ (Hopeful(u)' <=> Hopeful(u))
    BY <1>3, <2>1 DEF Hopeful, QuotaTypes, Quota!Check
  <2>5. slotPc'[s] \in {"idle", "write"}
    BY <2>1 DEF QuotaTypes
  <2>6. Claims' \subseteq Claims
    BY <2>3, <2>4, <2>5 DEF Claims, Hopeful
  <2>7. QED
    BY <1>c, <1>e, <2>1, <2>6
<1>4. ASSUME NEW s \in Quota!Slots, Quota!SkipCheck(s) PROVE Claimed'
  <2>1. slotPc' = [slotPc EXCEPT ![s] = "write"] /\ kept' = kept /\ skipped' = skipped + 1
    BY <1>4 DEF Quota!SkipCheck
  <2>2. \A u \in Quota!Slots : u # s => slotPc'[u] = slotPc[u] /\ (Hopeful(u)' <=> Hopeful(u))
    BY <1>4, <2>1 DEF Hopeful, QuotaTypes, Quota!SkipCheck
  <2>3. Claims' \subseteq Claims \cup {s}
    BY <2>2 DEF Claims
  <2>4. /\ IsFiniteSet(Claims \cup {s})
        /\ Cardinality(Claims \cup {s}) \in Nat
        /\ Cardinality(Claims \cup {s}) <= Cardinality(Claims) + 1
    <3>1. /\ IsFiniteSet(Claims \cup {s})
          /\ Cardinality(Claims \cup {s}) =
               IF s \in Claims THEN Cardinality(Claims) ELSE Cardinality(Claims) + 1
      BY ONLY <1>b, FS_AddElement
    <3>2. QED
      BY <1>b, <3>1
  <2>5. Cardinality(Claims') <= Cardinality(Claims \cup {s})
    BY <2>3, <2>4, FS_Subset
  <2>6. QED
    BY <1>b, <1>c, <2>1, <2>4, <2>5 DEF Claimed
<1>5. ASSUME NEW s \in Quota!Slots, s \in Claims, kept' = kept + 1, skipped' = skipped,
             NEW then \in {"idle", "sweep"}, slotPc' = [slotPc EXCEPT ![s] = then],
             UNCHANGED <<sum, toVisit, failed>>
      PROVE  Claimed'
  <2>1. Claims' \subseteq Claims \ {s}
    BY <1>5 DEF Claims, Hopeful, QuotaTypes
  <2>2. IsFiniteSet(Claims \ {s}) /\ Cardinality(Claims \ {s}) = Cardinality(Claims) - 1
    BY <1>b, <1>5, FS_RemoveElement
  <2>3. Cardinality(Claims') <= Cardinality(Claims \ {s})
    BY <2>1, <2>2, FS_Subset
  <2>4. QED
    BY <1>b, <1>c, <1>5, <2>2, <2>3 DEF Claimed
<1>6. ASSUME NEW s \in Quota!Slots, Quota!WriteFile(s) PROVE Claimed'
  <2>1. s \in Claims /\ UNCHANGED <<sum, toVisit, failed, skipped>>
    BY <1>6 DEF Quota!WriteFile, Claims
  <2>2. CASE s \in Uploads
    <3>1. kept' = kept + 1 /\ slotPc' = [slotPc EXCEPT ![s] = "idle"]
      BY <1>6, <2>2 DEF Quota!WriteFile
    <3>2. QED
      BY <1>5, <2>1, <2>2, <3>1
  <2>3. CASE s \notin Uploads
    <3>1. kept' = kept /\ slotPc' = [slotPc EXCEPT ![s] = "assemble"]
      BY <1>6, <2>3 DEF Quota!WriteFile
    <3>2. Claims' \subseteq Claims
      BY <2>1, <3>1 DEF Claims, Hopeful, QuotaTypes
    <3>3. QED
      BY <1>c, <1>e, <2>1, <3>1, <3>2
  <2>4. QED
    BY <2>2, <2>3
<1>7. ASSUME NEW s \in Quota!Slots, Quota!Assemble(s) PROVE Claimed'
  <2>1. /\ slotPc[s] = "assemble" /\ kept' = kept + 1
        /\ slotPc' = [slotPc EXCEPT ![s] = "sweep"]
        /\ UNCHANGED <<sum, toVisit, failed, skipped>>
    BY <1>7 DEF Quota!Assemble
  <2>2. s \in Claims
    BY <2>1 DEF Claims
  <2>3. QED
    BY <1>5, <2>1, <2>2
<1>8. ASSUME NEW s \in Quota!Slots, Quota!GiveUp(s) \/ Quota!Sweep(s) PROVE Claimed'
  <2>1. /\ slotPc' = [slotPc EXCEPT ![s] = "idle"]
        /\ UNCHANGED <<kept, sum, toVisit, failed, skipped>>
    BY <1>8 DEF Quota!GiveUp, Quota!Sweep
  <2>2. Claims' \subseteq Claims
    BY <2>1 DEF Claims, Hopeful, QuotaTypes
  <2>3. QED
    BY <1>c, <1>e, <2>1, <2>2
<1>9. CASE Quota!DeleteBlob
  <2>1. /\ kept' = kept - 1 /\ UNCHANGED <<slotPc, sum, toVisit, skipped>>
        /\ \A s \in Quota!Slots : failed[s] => failed'[s]
    BY <1>9 DEF Quota!DeleteBlob, QuotaTypes
  <2>2. Claims' \subseteq Claims
    BY <2>1 DEF Claims, Hopeful
  <2>3. QED
    BY <1>c, <1>e, <2>1, <2>2
<1>10. CASE UNCHANGED Q
  <2>1. UNCHANGED <<kept, skipped, slotPc, sum, toVisit, failed>>
    BY <1>10 DEF Q
  <2>2. Claims' = Claims
    BY <2>1 DEF Claims, Hopeful
  <2>3. QED
    BY <2>1, <2>2 DEF Claimed
<1>11. QED
  BY <1>1, <1>2, <1>3, <1>4, <1>6, <1>7, <1>8, <1>9, <1>10 DEF Next, vars, Quota!Next

(* upload.go:97, initialize.go:47, for any slots and limit: requests that   *)
(* were checked without each other, and checks that a failed walk skipped,  *)
(* overshoot the limit by one file for each other upload, two for each      *)
(* session and one for each skipped check.                                  *)
THEOREM OvershootIsBounded == Spec => []OvershootBounded
<1>1. Spec => []QuotaTypes
  BY QuotaInit, QuotaTypesKept, PTL DEF Spec
<1>2. Spec => []Claimed
  BY <1>1, QuotaInit, ClaimedKept, PTL DEF Spec
<1>3. QuotaTypes /\ Claimed => OvershootBounded
  <2> SUFFICES ASSUME QuotaTypes, Claimed PROVE OvershootBounded
    OBVIOUS
  <2>1. Cardinality(chunks) \in Nat /\ Cardinality(chunks) <= Cardinality(Sessions)
    BY SlotsFinite, FS_Subset, FS_CardinalityType DEF QuotaTypes
  <2>2. Cardinality(Claims) \in Nat
    BY SlotsFinite, FS_Subset, FS_CardinalityType DEF Claims
  <2>3. Cardinality(Uploads) \in Nat /\ Cardinality(Sessions) \in Nat
    BY SlotsFinite, FS_CardinalityType
  <2>4. kept + Cardinality(chunks) <= MaxStorageSize + Cardinality(Uploads)
                                        + 2 * Cardinality(Sessions) - 1 + skipped
    BY <2>1, <2>2, <2>3, SlotsFinite, SlotsCount DEF Claimed, QuotaTypes
  <2>5. QED
    BY <2>4, QuotaCounting DEF OvershootBounded, Quota!OvershootBounded, Quota!Total
<1>4. QED
  BY <1>1, <1>2, <1>3, PTL

-----------------------------------------------------------------------------
(* The rate limiter. *)

FewStuck == IsFiniteSet(Limiter!Stuck) /\ Cardinality(Limiter!Stuck) <= reqFaults

(* The instance counts as the library does. *)
LEMMA LimitCounting == \A S : Limiter!Cardinality(S) = Cardinality(S)
BY DEF Limiter!Cardinality, Cardinality

(* A limit lets a first request pass, and a window takes time. *)
LEMMA LimitsPositive ==
  /\ max \in Nat /\ max > 0 /\ window \in Nat /\ window > 0 /\ RequestFaults \in Nat
  /\ TrustProxy \in BOOLEAN /\ None \notin Addresses
BY ComponentsAssumption DEF ComponentsAssumption, Limiter!LimitsAssumption

(* No counter runs at first. *)
LEMMA LimiterInit == Init => Limiter!TypeOK /\ FewStuck
<1> SUFFICES ASSUME Init PROVE Limiter!TypeOK /\ FewStuck
  OBVIOUS
<1>1. Limiter!Init
  BY DEF Init
<1>2. Limiter!TypeOK
  BY <1>1, LimitsPositive DEF Limiter!Init, Limiter!TypeOK, Limiter!Forever, Limiter!Ages
<1>3. Limiter!Stuck = {} /\ reqFaults = 0
  BY <1>1 DEF Limiter!Init, Limiter!Stuck
<1>4. QED
  BY <1>2, <1>3, FS_EmptySet DEF FewStuck

(* Types are kept, one step of the proof per action. *)
LEMMA LimiterTypes == Limiter!TypeOK /\ [Next]_vars => Limiter!TypeOK'
<1> SUFFICES ASSUME Limiter!TypeOK, [Next]_vars PROVE Limiter!TypeOK'
  OBVIOUS
<1> USE LimitsPositive DEF Limiter!TypeOK, Limiter!Goto, Limiter!Forever
<1>1. ASSUME NEW r \in Requests, Limiter!Arrive(r) PROVE Limiter!TypeOK'
  <2>1. \A remote \in Addresses : \A forwarded, real \in Addresses \cup {None} :
          Limiter!clientIP(remote, forwarded, real) \in Addresses
    BY LimitsPositive DEF Limiter!clientIP
  <2>2. PICK c \in Addresses : ip' = [ip EXCEPT ![r] = c]
    BY <1>1, <2>1 DEF Limiter!Arrive
  <2>3. /\ ip' \in [Requests -> Addresses \cup {None}]
        /\ \A q \in Requests : ip'[q] = None => q # r /\ ip[q] = None
    BY <2>2, LimitsPositive
  <2>4. QED
    BY <1>1, <2>3 DEF Limiter!Arrive
<1>2. ASSUME NEW r \in Requests, Limiter!Incr(r) PROVE Limiter!TypeOK'
  <2> DEFINE c == ip[r]
             n == IF count[c] > max THEN count[c] ELSE count[c] + 1
  <2>1. /\ count' = [count EXCEPT ![c] = n] /\ value' = [value EXCEPT ![r] = n]
        /\ reqPc' = [reqPc EXCEPT ![r] = IF n = 1 THEN "pexpire" ELSE "decide"]
        /\ age' = [age EXCEPT ![r] = 0] /\ reqPc[r] = "incr"
        /\ UNCHANGED <<life, ip, reqFaults, granted>>
    BY <1>2 DEF Limiter!Incr
  <2>2. c \in Addresses
    BY <2>1
  <2>3. n \in 0..(max + 1)
    BY <2>2
  <2> HIDE DEF n, c
  <2>4. /\ count' \in [Addresses -> 0..(max + 1)] /\ value' \in [Requests -> 0..(max + 1)]
        /\ age' \in [Requests -> 0..window]
    BY <2>1, <2>2, <2>3
  <2>5. /\ reqPc' \in [Requests -> {"idle", "incr", "pexpire", "decide"}]
        /\ \A q \in Requests : reqPc'[q] # "idle" => ip'[q] # None
    BY <2>1
  <2>6. QED
    BY <2>1, <2>4, <2>5
<1>3. ASSUME NEW r \in Requests, Limiter!PExpire(r) PROVE Limiter!TypeOK'
  <2> DEFINE left0 == IF count[ip[r]] > 0 THEN window ELSE life[ip[r]]
  <2>1. life' = [life EXCEPT ![ip[r]] = left0]
    BY <1>3 DEF Limiter!PExpire
  <2>2. ip[r] \in Addresses => left0 \in 1..Limiter!Forever
    OBVIOUS
  <2>3. life' \in [Addresses -> 1..Limiter!Forever]
    BY <2>1, <2>2
  <2>4. QED
    BY <1>3, <2>3 DEF Limiter!PExpire
<1>4. ASSUME NEW r \in Requests, Limiter!Decide(r) PROVE Limiter!TypeOK'
  <2> DEFINE after == [a \in Limiter!Ages |-> IF a = age[r] /\ value[r] <= max
                                             THEN granted[ip[r]][a] + 1 ELSE granted[ip[r]][a]]
  <2>1. granted' = [granted EXCEPT ![ip[r]] = after]
    BY <1>4 DEF Limiter!Decide
  <2>2. ip[r] \in Addresses => after \in [Limiter!Ages -> Nat]
    OBVIOUS
  <2>3. granted' \in [Addresses -> [Limiter!Ages -> Nat]]
    BY <2>1, <2>2
  <2>4. QED
    BY <1>4, <2>3 DEF Limiter!Decide
<1>5. ASSUME NEW r \in Requests,
             Limiter!IncrFails(r) \/ Limiter!PExpireFails(r) \/ Limiter!Lost(r)
      PROVE  Limiter!TypeOK'
  BY <1>5 DEF Limiter!IncrFails, Limiter!PExpireFails, Limiter!Lost
<1>6. CASE Limiter!Tick
  <2>1. ASSUME NEW c \in Addresses PROVE life'[c] \in 1..Limiter!Forever
    <3>1. life'[c] = IF life[c] = Limiter!Forever \/ life[c] = 1
                     THEN Limiter!Forever ELSE life[c] - 1
      BY <1>6 DEF Limiter!Tick
    <3>2. life[c] \in 1..Limiter!Forever
      OBVIOUS
    <3>3. QED
      BY <3>1, <3>2
  <2>2. life' \in [Addresses -> 1..Limiter!Forever]
    BY <1>6, <2>1 DEF Limiter!Tick
  <2>3. count' \in [Addresses -> 0..(max + 1)]
    BY <1>6 DEF Limiter!Tick
  <2>4. age' \in [Requests -> 0..window]
    BY <1>6 DEF Limiter!Tick
  <2>5. granted' \in [Addresses -> [Limiter!Ages -> Nat]]
    <3>1. granted' = [c \in Addresses |->
                        [a \in Limiter!Ages |-> IF a = 0 THEN 0 ELSE granted[c][a - 1]]]
      BY <1>6 DEF Limiter!Tick
    <3>2. \A c \in Addresses, a \in Limiter!Ages :
            (IF a = 0 THEN 0 ELSE granted[c][a - 1]) \in Nat
      BY DEF Limiter!Ages
    <3>3. QED
      BY <3>1, <3>2
  <2>6. UNCHANGED <<reqPc, ip, value, reqFaults>>
    BY <1>6 DEF Limiter!Tick
  <2>7. QED
    BY <2>2, <2>3, <2>4, <2>5, <2>6
<1>7. CASE UNCHANGED L
  BY <1>7 DEF L
<1>8. QED
  BY <1>1, <1>2, <1>3, <1>4, <1>5, <1>6, <1>7 DEF Next, vars, Limiter!Next, Limiter!Step

(* Only a failure takes the last request that would set the expiration of a *)
(* counter off its way to do so.                                            *)
LEMMA FewStuckKept == Limiter!TypeOK /\ FewStuck /\ [Next]_vars => FewStuck'
<1> SUFFICES ASSUME Limiter!TypeOK, FewStuck, [Next]_vars PROVE FewStuck'
  OBVIOUS
<1> USE DEF Limiter!Goto
<1>a. reqFaults \in Nat /\ Cardinality(Limiter!Stuck) \in Nat
  BY FS_CardinalityType DEF Limiter!TypeOK, FewStuck
<1>b. ASSUME Limiter!Stuck' \subseteq Limiter!Stuck, reqFaults' = reqFaults PROVE FewStuck'
  <2>1. /\ IsFiniteSet(Limiter!Stuck')
        /\ Cardinality(Limiter!Stuck') <= Cardinality(Limiter!Stuck)
    BY <1>b, FS_Subset DEF FewStuck
  <2>2. Cardinality(Limiter!Stuck') \in Nat
    BY <2>1, FS_CardinalityType
  <2>3. QED
    BY <1>a, <1>b, <2>1, <2>2 DEF FewStuck
<1>1. ASSUME NEW r \in Requests, Limiter!Arrive(r) PROVE FewStuck'
  <2>1. Limiter!Stuck' \subseteq Limiter!Stuck
    BY <1>1 DEF Limiter!Arrive, Limiter!Stuck, Limiter!TypeOK
  <2>2. QED
    BY <1>1, <1>b, <2>1 DEF Limiter!Arrive
<1>2. ASSUME NEW r \in Requests, Limiter!Incr(r) PROVE FewStuck'
  <2> DEFINE c == ip[r]
             n == IF count[c] > max THEN count[c] ELSE count[c] + 1
  <2>1. /\ reqPc[r] = "incr" /\ count' = [count EXCEPT ![c] = n]
        /\ reqPc' = [reqPc EXCEPT ![r] = IF n = 1 THEN "pexpire" ELSE "decide"]
        /\ UNCHANGED <<life, ip, reqFaults>>
    BY <1>2 DEF Limiter!Incr
  <2>2. ASSUME NEW d \in Addresses, d \in Limiter!Stuck' PROVE count[d] > 0
    <3>1. CASE d # c
      BY <2>1, <2>2, <3>1 DEF Limiter!Stuck, Limiter!TypeOK
    <3>2. CASE d = c /\ count[c] = 0
      <4>1. n = 1
        BY <3>2, LimitsPositive
      <4>2. reqPc'[r] = "pexpire" /\ ip'[r] = d
        BY <2>1, <3>2, <4>1 DEF Limiter!TypeOK
      <4>3. QED
        BY <2>2, <4>2 DEF Limiter!Stuck
    <3>3. QED
      BY <3>1, <3>2 DEF Limiter!TypeOK
  <2>3. \A q \in Requests : reqPc[q] = "pexpire" => reqPc'[q] = "pexpire"
    BY <2>1 DEF Limiter!TypeOK
  <2>4. Limiter!Stuck' \subseteq Limiter!Stuck
    BY <2>1, <2>2, <2>3 DEF Limiter!Stuck
  <2>5. QED
    BY <1>b, <2>1, <2>4
<1>3. ASSUME NEW r \in Requests, Limiter!PExpire(r) PROVE FewStuck'
  <2>1. /\ reqPc[r] = "pexpire" /\ reqPc' = [reqPc EXCEPT ![r] = "decide"]
        /\ life' = [life EXCEPT ![ip[r]] = IF count[ip[r]] > 0 THEN window ELSE @]
        /\ UNCHANGED <<count, ip, reqFaults>>
    BY <1>3 DEF Limiter!PExpire
  <2>2. ip[r] \notin Limiter!Stuck'
    BY <2>1, LimitsPositive DEF Limiter!Stuck, Limiter!Forever, Limiter!TypeOK
  <2>3. \A d \in Addresses : d # ip[r] => life'[d] = life[d]
    BY <2>1 DEF Limiter!TypeOK
  <2>4. \A q \in Requests : reqPc[q] = "pexpire" /\ ip[q] # ip[r] => reqPc'[q] = "pexpire"
    BY <2>1 DEF Limiter!TypeOK
  <2>5. Limiter!Stuck' \subseteq Limiter!Stuck
    BY <2>1, <2>2, <2>3, <2>4 DEF Limiter!Stuck
  <2>6. QED
    BY <1>b, <2>1, <2>5
<1>4. ASSUME NEW r \in Requests, Limiter!Decide(r) PROVE FewStuck'
  <2>1. Limiter!Stuck' \subseteq Limiter!Stuck
    BY <1>4 DEF Limiter!Decide, Limiter!Stuck, Limiter!TypeOK
  <2>2. QED
    BY <1>4, <1>b, <2>1 DEF Limiter!Decide
<1>5. ASSUME NEW r \in Requests,
             Limiter!IncrFails(r) \/ Limiter!PExpireFails(r) \/ Limiter!Lost(r)
      PROVE  FewStuck'
  <2>1. /\ reqFaults' = reqFaults + 1 /\ UNCHANGED <<count, life, ip>>
        /\ \A q \in Requests : q # r => reqPc'[q] = reqPc[q]
    BY <1>5 DEF Limiter!IncrFails, Limiter!PExpireFails, Limiter!Lost, Limiter!TypeOK
  <2>2. Limiter!Stuck' \subseteq Limiter!Stuck \cup {ip[r]}
    BY <2>1 DEF Limiter!Stuck
  <2>3. /\ IsFiniteSet(Limiter!Stuck \cup {ip[r]})
        /\ Cardinality(Limiter!Stuck \cup {ip[r]}) =
             IF ip[r] \in Limiter!Stuck THEN Cardinality(Limiter!Stuck)
                                        ELSE Cardinality(Limiter!Stuck) + 1
    BY FS_AddElement DEF FewStuck
  <2>4. /\ IsFiniteSet(Limiter!Stuck')
        /\ Cardinality(Limiter!Stuck') <= Cardinality(Limiter!Stuck \cup {ip[r]})
    BY <2>2, <2>3, FS_Subset
  <2>5. Cardinality(Limiter!Stuck') \in Nat
    BY <2>4, FS_CardinalityType
  <2>6. QED
    BY <1>a, <2>1, <2>3, <2>4, <2>5 DEF FewStuck
<1>6. CASE Limiter!Tick
  <2>1. \A c \in Addresses : life'[c] = Limiter!Forever /\ count'[c] > 0
                              => life[c] = Limiter!Forever /\ count[c] > 0
    BY <1>6, LimitsPositive DEF Limiter!Tick, Limiter!TypeOK, Limiter!Forever
  <2>2. Limiter!Stuck' \subseteq Limiter!Stuck
    BY <1>6, <2>1 DEF Limiter!Tick, Limiter!Stuck, Limiter!Forever
  <2>3. QED
    BY <1>6, <1>b, <2>2 DEF Limiter!Tick
<1>7. CASE UNCHANGED L
  <2>1. Limiter!Stuck' \subseteq Limiter!Stuck /\ reqFaults' = reqFaults
    BY <1>7 DEF L, Limiter!Stuck, Limiter!Forever
  <2>2. QED
    BY <1>b, <2>1
<1>8. QED
  BY <1>1, <1>2, <1>3, <1>4, <1>5, <1>6, <1>7 DEF Next, vars, Limiter!Next, Limiter!Step

(* ratelimit.go:58, for any clients, requests and limits: each failed       *)
(* command or lost request leaves at most one client blocked for good.      *)
THEOREM FewStuckForGood == Spec => []StuckBounded
<1>1. Spec => []Limiter!TypeOK
  BY LimiterInit, LimiterTypes, PTL DEF Spec
<1>2. Spec => []FewStuck
  BY <1>1, LimiterInit, FewStuckKept, PTL DEF Spec
<1>3. FewStuck => StuckBounded
  BY LimitCounting DEF FewStuck, StuckBounded, Limiter!StuckBounded
<1>4. QED
  BY <1>2, <1>3, PTL

-----------------------------------------------------------------------------
(* The client that resumes an upload. *)

ResumeTypes ==
    /\ size \in Sizes /\ done \subseteq Nat /\ stored \subseteq Nat /\ todo \subseteq Nat
    /\ client \in {"ask", "send", "complete", "refused"} /\ chunkFaults \in 0..ChunkFaults
    /\ connPc \in [Connections -> {"idle", "put", "record"}]
    /\ chunk \in [Connections -> Nat] /\ readList \in [Connections -> SUBSET Nat]

(* A request is under way only in a round of the client. *)
Active(c) == connPc[c] \in {"put", "record"}

(* What is listed, or was when a request read the list, is stored.          *)
Backed ==
    /\ done \subseteq stored
    /\ \A c \in Connections :
         /\ Active(c) => readList[c] \subseteq stored /\ client = "send"
         /\ connPc[c] = "record" => chunk[c] \in stored

(* What is under way or still to send is on no list, and is sent once in a  *)
(* round: so no failing request spoils a chunk that is listed.              *)
Disjoint ==
    /\ done \cap todo = {}
    /\ \A c \in Connections : Active(c) =>
         /\ readList[c] \cap todo = {} /\ chunk[c] \notin done \cup todo
         /\ \A d \in Connections : Active(d) =>
              chunk[c] \notin readList[d] /\ (chunk[c] = chunk[d] => c = d)

Resumed == Backed /\ Disjoint /\ (client = "complete" => Resume!Missing = {})

(* The budget of failures. *)
LEMMA ChunkFaultsBound == ChunkFaults \in Nat
BY ComponentsAssumption DEF ComponentsAssumption, Resume!ResumeAssumption

(* Nothing is stored or under way at first. *)
LEMMA ResumeInit == Init => ResumeTypes /\ Resumed
<1> SUFFICES ASSUME Init PROVE ResumeTypes /\ Resumed
  OBVIOUS
<1>1. /\ size \in Sizes /\ done = {} /\ stored = {} /\ client = "ask" /\ todo = {}
      /\ connPc = [c \in Connections |-> "idle"] /\ chunk = [c \in Connections |-> 0]
      /\ readList = [c \in Connections |-> {}] /\ chunkFaults = 0
  BY DEF Init, Resume!Init
<1>2. ResumeTypes
  BY <1>1, ChunkFaultsBound DEF ResumeTypes
<1>3. Resumed
  BY <1>1 DEF Resumed, Backed, Disjoint, Active
<1>4. QED
  BY <1>2, <1>3

(* Types and the invariant are kept, one step of the proof per action. *)
LEMMA ResumeStep == ResumeTypes /\ Resumed /\ [Next]_vars => ResumeTypes' /\ Resumed'
<1> SUFFICES ASSUME ResumeTypes, Resumed, [Next]_vars PROVE ResumeTypes' /\ Resumed'
  OBVIOUS
<1> USE DEF Resume!requests
<1>1. CASE Resume!Ask
  <2>1. /\ UNCHANGED <<size, done, stored, connPc, chunk, readList, chunkFaults>>
        /\ client = "ask" /\ client' \in {"send", "complete", "refused"}
        /\ todo' = IF client' = "send" THEN Resume!Missing ELSE {}
        /\ client' = "complete" => Resume!Missing = {}
    BY <1>1 DEF Resume!Ask
  <2>2. Resume!Missing' = Resume!Missing
    BY <2>1 DEF Resume!Missing, Resume!TotalChunks, Resume!StatusChunkSize
  <2>3. Resume!Missing \subseteq Nat /\ Resume!Missing \cap done = {}
    BY DEF Resume!Missing
  <2>4. \A c \in Connections : ~Active(c) /\ ~Active(c)'
    BY <2>1 DEF Resumed, Backed, Active
  <2>5. ResumeTypes'
    BY <2>1, <2>3 DEF ResumeTypes
  <2>6. Backed' /\ Disjoint'
    BY <2>1, <2>3, <2>4 DEF Resumed, Backed, Disjoint, Active
  <2>7. QED
    BY <2>1, <2>2, <2>5, <2>6 DEF Resumed
<1>2. ASSUME NEW c \in Connections, Resume!Send(c) PROVE ResumeTypes' /\ Resumed'
  <2>1. PICK i \in todo : chunk' = [chunk EXCEPT ![c] = i] /\ todo' = todo \ {i}
    BY <1>2 DEF Resume!Send
  <2>2. /\ client = "send" /\ connPc[c] = "idle"
        /\ readList' = [readList EXCEPT ![c] = done]
        /\ connPc' = [connPc EXCEPT ![c] = "put"]
        /\ UNCHANGED <<size, done, stored, client, chunkFaults>>
    BY <1>2 DEF Resume!Send
  <2>3. ResumeTypes'
    BY <2>1, <2>2 DEF ResumeTypes
  <2>4. chunk'[c] = i /\ readList'[c] = done /\ connPc'[c] = "put"
    BY <2>1, <2>2 DEF ResumeTypes
  <2>5. ASSUME NEW d \in Connections, d # c
        PROVE  /\ chunk'[d] = chunk[d] /\ readList'[d] = readList[d] /\ connPc'[d] = connPc[d]
               /\ Active(d)' <=> Active(d)
    BY <2>1, <2>2, <2>5 DEF ResumeTypes, Active
  <2>6. Backed'
    BY <2>2, <2>4, <2>5 DEF Resumed, Backed, Active
  <2>7. Disjoint'
    BY <2>1, <2>2, <2>4, <2>5 DEF Resumed, Disjoint
  <2>8. QED
    BY <2>2, <2>3, <2>6, <2>7 DEF Resumed
<1>3. ASSUME NEW c \in Connections, Resume!PutChunk(c) PROVE ResumeTypes' /\ Resumed'
  <2>1. /\ connPc[c] = "put" /\ stored' = stored \cup {chunk[c]}
        /\ connPc' = [connPc EXCEPT ![c] = "record"]
        /\ UNCHANGED <<size, done, client, todo, chunk, readList, chunkFaults>>
    BY <1>3 DEF Resume!PutChunk
  <2>2. ResumeTypes'
    BY <2>1 DEF ResumeTypes
  <2>3. \A d \in Connections : (Active(d)' <=> Active(d)) /\ (d # c => connPc'[d] = connPc[d])
    BY <2>1 DEF Active, ResumeTypes
  <2>4. Backed'
    BY <2>1, <2>3 DEF Resumed, Backed
  <2>5. Disjoint'
    BY <2>1, <2>3 DEF Resumed, Disjoint
  <2>6. Resume!Missing' = Resume!Missing
    BY <2>1 DEF Resume!Missing, Resume!TotalChunks, Resume!StatusChunkSize
  <2>7. QED
    BY <2>1, <2>2, <2>4, <2>5, <2>6 DEF Resumed
<1>4. ASSUME NEW c \in Connections, Resume!Record(c) PROVE ResumeTypes' /\ Resumed'
  <2>1. /\ connPc[c] = "record" /\ Active(c) /\ chunk[c] \notin readList[c]
        /\ done' = readList[c] \cup {chunk[c]}
        /\ connPc' = [connPc EXCEPT ![c] = "idle"]
        /\ UNCHANGED <<size, stored, client, todo, chunk, readList, chunkFaults>>
    BY <1>4 DEF Resume!Record, Resumed, Disjoint, Active
  <2>2. ResumeTypes'
    BY <2>1 DEF ResumeTypes
  <2>3. \A d \in Connections : /\ Active(d)' <=> Active(d) /\ d # c
                               /\ d # c => connPc'[d] = connPc[d]
    BY <2>1 DEF Active, ResumeTypes
  <2>4. Backed'
    BY <2>1, <2>3 DEF Resumed, Backed, ResumeTypes
  <2>5. Disjoint'
    BY <2>1, <2>3 DEF Resumed, Disjoint
  <2>6. client = "send"
    BY <2>1 DEF Resumed, Backed
  <2>7. QED
    BY <2>1, <2>2, <2>4, <2>5, <2>6 DEF Resumed
<1>5. ASSUME NEW c \in Connections, Resume!Fail(c) PROVE ResumeTypes' /\ Resumed'
  <2>1. /\ Active(c)
        /\ stored' = IF connPc[c] = "put" THEN stored \ {chunk[c]} ELSE stored
        /\ connPc' = [connPc EXCEPT ![c] = "idle"]
        /\ chunkFaults < ChunkFaults /\ chunkFaults' = chunkFaults + 1
        /\ UNCHANGED <<size, done, client, todo, chunk, readList>>
    BY <1>5 DEF Resume!Fail, Active, ResumeTypes
  <2>2. ResumeTypes'
    <3>1. chunkFaults' \in 0..ChunkFaults
      BY <2>1, ChunkFaultsBound DEF ResumeTypes
    <3>2. stored' \subseteq Nat
      BY <2>1 DEF ResumeTypes
    <3>3. QED
      BY <2>1, <3>1, <3>2 DEF ResumeTypes
  <2>3. \A d \in Connections : /\ Active(d)' <=> Active(d) /\ d # c
                               /\ d # c => connPc'[d] = connPc[d]
    BY <2>1 DEF Active, ResumeTypes
  <2>4. \A d \in Connections : connPc'[d] = "record" => connPc[d] = "record" /\ d # c
    BY <2>1 DEF ResumeTypes
  <2>5. Backed'
    BY <2>1, <2>3, <2>4 DEF Resumed, Backed, Disjoint, Active
  <2>6. Disjoint'
    BY <2>1, <2>3 DEF Resumed, Disjoint
  <2>7. client = "send"
    BY <2>1 DEF Resumed, Backed
  <2>8. QED
    BY <2>1, <2>2, <2>5, <2>6, <2>7 DEF Resumed
<1>6. CASE Resume!AskAgain
  <2>1. /\ \A c \in Connections : connPc[c] = "idle"
        /\ client' = "ask"
        /\ UNCHANGED <<size, done, stored, todo, connPc, chunk, readList, chunkFaults>>
    BY <1>6 DEF Resume!AskAgain
  <2>2. QED
    BY <2>1 DEF Resumed, Backed, Disjoint, Active, ResumeTypes
<1>7. CASE UNCHANGED R \/ Resume!Stop
  <2>1. UNCHANGED <<size, done, stored, client, todo, connPc, chunk, readList, chunkFaults>>
    BY <1>7 DEF R, Resume!Stop, Resume!vars
  <2>2. Resume!Missing' = Resume!Missing
    BY <2>1 DEF Resume!Missing, Resume!TotalChunks, Resume!StatusChunkSize
  <2>3. QED
    BY <2>1, <2>2 DEF Resumed, Backed, Disjoint, Active, ResumeTypes
<1>8. QED
  BY <1>1, <1>2, <1>3, <1>4, <1>5, <1>6, <1>7 DEF Next, vars, Resume!Next, Resume!ChunkStep

(* Integers that are not too large do not wrap. *)
LEMMA NoWrap == \A n \in 0..Resume!MaxInt : Resume!Wrap(n) = n
<1>1. Resume!MaxInt \in Nat
  BY ComponentsAssumption DEF ComponentsAssumption, Resume!ResumeAssumption
<1>2. \A a \in Nat, b \in Nat : a < b => a % b = a
  OBVIOUS
<1>3. ASSUME NEW m \in Nat, NEW n \in 0..m PROVE (n + m + 1) % (2 * (m + 1)) = n + m + 1
  <2>1. n + m + 1 \in Nat /\ 2 * (m + 1) \in Nat /\ n + m + 1 < 2 * (m + 1)
    OBVIOUS
  <2>2. QED
    BY <1>2, <2>1
<1>4. QED
  BY <1>1, <1>3 DEF Resume!Wrap

(* Where nothing wraps, Status counts the chunks that the client cuts. *)
LEMMA ChunksAreCounted ==
  ASSUME SendsChunkSize, size \in Sizes, size + ChunkSize <= Resume!MaxInt
  PROVE  Resume!Chunks = 0..(Resume!TotalChunks - 1)
<1>1. size \in Nat \ {0} /\ ChunkSize \in Nat \ {0} /\ Resume!MaxInt \in Nat
  BY ComponentsAssumption DEF ComponentsAssumption, Resume!ResumeAssumption
<1>2. Resume!StatusChunkSize = ChunkSize
  BY DEF Resume!StatusChunkSize
<1>3. Resume!Wrap(size + ChunkSize) = size + ChunkSize
  BY <1>1, NoWrap
<1>4. Resume!Wrap(size + ChunkSize - 1) = size + ChunkSize - 1
  BY <1>1, NoWrap
<1>5. Resume!TotalChunks = (size + ChunkSize - 1) \div ChunkSize
  BY <1>1, <1>2, <1>3, <1>4 DEF Resume!TotalChunks, Resume!Quo
<1>6. \A a \in Nat, b \in Nat \ {0} : (a + b) \div b = (a \div b) + 1 /\ a \div b \in Nat
  OBVIOUS
<1>7. (size - 1) + ChunkSize = size + ChunkSize - 1 /\ size - 1 \in Nat
  BY <1>1
<1>8. Resume!TotalChunks = ((size - 1) \div ChunkSize) + 1 /\ (size - 1) \div ChunkSize \in Nat
  BY <1>1, <1>5, <1>6, <1>7
<1>9. QED
  BY <1>8 DEF Resume!Chunks

(* multipart_service.go:199, for any file, connections and failures: when   *)
(* no chunk is reported as missing, the driver holds every one.  It takes   *)
(* a client that sends its chunk size, and sizes whose sum does not         *)
(* overflow: resume_default_size and resume_overflow show the other cases.  *)
THEOREM NoneMissingIsWhole ==
  ASSUME SendsChunkSize, \A n \in Sizes : n + ChunkSize <= Resume!MaxInt
  PROVE  Spec => []WholeWhenNoneMissing
<1>1. Spec => [](ResumeTypes /\ Resumed)
  BY ResumeInit, ResumeStep, PTL DEF Spec
<1>2. ResumeTypes /\ Resumed => WholeWhenNoneMissing
  <2> SUFFICES ASSUME ResumeTypes, Resumed, client = "complete"
               PROVE  Resume!Chunks \subseteq stored
    BY DEF WholeWhenNoneMissing, Resume!WholeWhenNoneMissing
  <2>1. Resume!Chunks = 0..(Resume!TotalChunks - 1)
    BY ChunksAreCounted DEF ResumeTypes
  <2>2. 0..(Resume!TotalChunks - 1) \subseteq done
    BY DEF Resumed, Resume!Missing
  <2>3. QED
    BY <2>1, <2>2 DEF Resumed, Backed
<1>3. QED
  BY <1>1, <1>2, PTL

-----------------------------------------------------------------------------
(* All components. *)

(* Every variable of every component has its type, for any constants: no    *)
(* bound that the models name is passed, and none stops what the code does  *)
(* not (a walk asks for one page per row at most, and one).                 *)
THEOREM ComponentTypes == Spec => []TypeOK
<1>1. Limiter!TypeOK /\ ResumeTypes => Limiter!TypeOK /\ Resume!TypeOK
  BY DEF ResumeTypes, Resume!TypeOK
<1>2. QuotaTypes => Quota!TypeOK
  BY DEF QuotaTypes, Quota!TypeOK
<1>3. ListingTypes => Pages!TypeOK
  BY DEF ListingTypes, Pages!TypeOK
<1>4. BusTypes => Bus!TypeOK
  BY DEF BusTypes, Bus!TypeOK, Bus!Deliveries
<1>5. MetricsTypes => Counters!TypeOK
  <2>1. ASSUME MetricsTypes PROVE \A f \in DOMAIN Counters!NoReply : reply[f] \in Nat
    BY <2>1 DEF MetricsTypes, Report, Counters!NoReply
  <2>2. QED
    BY <2>1 DEF MetricsTypes, Counters!TypeOK
<1>6. Limiter!TypeOK /\ QuotaTypes /\ ListingTypes /\ BusTypes /\ MetricsTypes /\ ResumeTypes
        => TypeOK
  BY <1>1, <1>2, <1>3, <1>4, <1>5 DEF TypeOK
<1>7. Spec => []Limiter!TypeOK
  BY LimiterInit, LimiterTypes, PTL DEF Spec
<1>8. Spec => []QuotaTypes
  BY QuotaInit, QuotaTypesKept, PTL DEF Spec
<1>9. Spec => [](ResumeTypes /\ Resumed)
  BY ResumeInit, ResumeStep, PTL DEF Spec
<1>10. QED
  BY <1>6, <1>7, <1>8, <1>9, ListingAlways, BusAlways, MetricsAlways, PTL

=============================================================================
