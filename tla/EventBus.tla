-------------------------------- MODULE EventBus --------------------------------
(***************************************************************************)
(* The in-process event bus (events/bus.go), for one event type.  The       *)
(* services publish after their last write; subscribers come and go.        *)
(* Publish copies the handlers under the lock and starts a goroutine for    *)
(* each; a handler may return, panic or never return.                       *)
(***************************************************************************)
EXTENDS Naturals, Sequences, FiniteSets

CONSTANTS
    Subscribers,   \* calls of Subscribe, each with a handler of its own
    Events         \* calls of Publish, each with an event of its own

EventBusAssumption ==
    IsFiniteSet(Subscribers) /\ IsFiniteSet(Events) /\ Subscribers \cap Events = {}

VARIABLES
    handlers,   \* b.handlers[t]
    sub,        \* what each subscriber has done with the bus
    pub,        \* the publisher of each event: its copy of the handlers, and
                \* how many goroutines it has started
    run,        \* the goroutine of each event and handler
    before      \* history: for each event, who had subscribed, and who had
                \* not unsubscribed, when it was published

vars == <<handlers, sub, pub, run, before>>

Unpublished == [copy |-> <<>>, started |-> 0, phase |-> "none"]
Deliveries == Events \X Subscribers

TypeOK ==
    /\ handlers \in Seq(Subscribers)
    /\ sub \in [Subscribers -> {"new", "subscribed", "unsubscribed"}]
    /\ \A e \in Events : pub[e].copy \in Seq(Subscribers) /\ pub[e].started \in 0..Len(pub[e].copy)
    /\ run \in [Deliveries -> {"none", "ready", "running", "returned", "recovered", "crashed"}]
    /\ before \in [Events -> [subscribed : SUBSET Subscribers, unsubscribed : SUBSET Subscribers]]

Init ==
    /\ handlers = <<>>
    /\ sub = [s \in Subscribers |-> "new"]
    /\ pub = [e \in Events |-> Unpublished]
    /\ run = [d \in Deliveries |-> "none"]
    /\ before = [e \in Events |-> [subscribed |-> {}, unsubscribed |-> {}]]

\* A panic that nothing recovers ends the process.
Alive == \A d \in Deliveries : run[d] # "crashed"

With(status) == {s \in Subscribers : sub[s] = status}

Subscribe(s) ==
    /\ Alive /\ sub[s] = "new"
    /\ handlers' = Append(handlers, s)
    /\ sub' = [sub EXCEPT ![s] = "subscribed"]
    /\ UNCHANGED <<pub, run, before>>

\* The returned function looks for an element at the address of its own h and
\* compares the address of the loop's variable with it, so that it finds none.
Unsubscribe(s) ==
    /\ Alive /\ sub[s] = "subscribed"
    /\ sub' = [sub EXCEPT ![s] = "unsubscribed"]
    /\ UNCHANGED <<handlers, pub, run, before>>

\* Publish, under the read lock ...
Snapshot(e) ==
    /\ Alive /\ pub[e].phase = "none"
    /\ pub' = [pub EXCEPT ![e] = [copy |-> handlers, started |-> 0, phase |-> "starting"]]
    /\ before' = [before EXCEPT ![e] = [subscribed |-> With("subscribed"),
                                        unsubscribed |-> With("unsubscribed")]]
    /\ UNCHANGED <<handlers, sub, run>>

\* It reads the list itself once more for each goroutine.
Start_Bug(e) ==
    /\ Alive /\ pub[e].phase = "starting" /\ pub[e].started < Len(handlers)
    /\ pub' = [pub EXCEPT ![e].started = @ + 1]
    /\ run' = [run EXCEPT ![<<e, handlers[pub[e].started + 1]>>] = "ready"]
    /\ UNCHANGED <<handlers, sub, before>>

\* ... and without it, one goroutine after the other.
Start(e) ==
    /\ Alive /\ pub[e].started < Len(pub[e].copy)
    /\ pub' = [pub EXCEPT ![e].started = @ + 1]
    /\ run' = [run EXCEPT ![<<e, pub[e].copy[pub[e].started + 1]>>] = "ready"]
    /\ UNCHANGED <<handlers, sub, before>>

Call(d) ==
    /\ Alive /\ run[d] = "ready"
    /\ run' = [run EXCEPT ![d] = "running"]
    /\ UNCHANGED <<handlers, sub, pub, before>>

HandlerReturns(d) ==
    /\ Alive /\ run[d] = "running"
    /\ run' = [run EXCEPT ![d] = "returned"]
    /\ UNCHANGED <<handlers, sub, pub, before>>

HandlerPanics_Bug(d) ==
    /\ Alive /\ run[d] = "running"
    /\ run' = [run EXCEPT ![d] = "crashed"]
    /\ UNCHANGED <<handlers, sub, pub, before>>

\* The deferred function recovers in the goroutine of that handler.
HandlerPanics(d) ==
    /\ Alive /\ run[d] = "running"
    /\ run' = [run EXCEPT ![d] = "recovered"]
    /\ UNCHANGED <<handlers, sub, pub, before>>

Next ==
    \/ \E s \in Subscribers : Subscribe(s) \/ Unsubscribe(s)
    \/ \E e \in Events : Snapshot(e) \/ Start(e)
    \/ \E d \in Deliveries : Call(d) \/ HandlerReturns(d) \/ HandlerPanics(d)

Spec == Init /\ [][Next]_vars

\* A started loop goes on and the runtime schedules every goroutine; a handler
\* need not return, and nobody need publish.
Fairness ==
    /\ \A e \in Events : WF_vars(Start(e))
    /\ \A d \in Deliveries : WF_vars(Call(d))

FairSpec == Spec /\ Fairness

-----------------------------------------------------------------------------
Called(e) == {s \in Subscribers : run[<<e, s>>] \notin {"none", "ready"}}

(* bus.go:66: an event reaches no handler that had not subscribed when it   *)
(* was published, however late its goroutine runs.                          *)
OnlyTheSnapshot ==
    \A e \in Events : Called(e) \subseteq before[e].subscribed \cup before[e].unsubscribed

(* bus.go:66 and 79: every handler that was subscribed when an event is     *)
(* published is called with it in the end, also when handlers of this or    *)
(* another event panic or never return.                                     *)
EveryHandlerCalled ==
    \A e \in Events, s \in Subscribers :
        pub[e].phase = "starting" /\ s \in before[e].subscribed ~> s \in Called(e)

(* bus.go:47: Subscribe "returns an unsubscribe func".  After it has        *)
(* returned, events published later do not reach the handler.               *)
UnsubscribeSilences ==
    \A e \in Events : Called(e) \cap before[e].unsubscribed = {}
================================================================================
