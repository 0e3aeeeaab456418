---------------------------- MODULE WriteOnceStore -----------------------------
(***************************************************************************)
(* What the blob service owes to the bytes that it was given, whatever the  *)
(* buckets, rows, copies and races: under each uuid they are stored once,   *)
(* never change, and never come back when they are gone.  One step stores   *)
(* or removes the bytes of one uuid at most.                                *)
(***************************************************************************)
CONSTANTS
    Ids,        \* uuids
    Contents,   \* the bytes of uploads
    None        \* nothing stored

VARIABLES
    stored,   \* the bytes under each uuid
    spent     \* the uuids under which bytes have been stored

vars == <<stored, spent>>

Init ==
    /\ stored \in [Ids -> Contents \cup {None}]
    /\ spent \in SUBSET Ids
    /\ \A i \in Ids \ spent : stored[i] = None

Store(i, content) ==
    /\ i \notin spent
    /\ spent' = spent \cup {i}
    /\ stored' = [stored EXCEPT ![i] = content]

Remove(i) ==
    /\ UNCHANGED spent
    /\ stored' = [stored EXCEPT ![i] = None]

Next == \E i \in Ids : Remove(i) \/ \E content \in Contents : Store(i, content)

Spec == Init /\ [][Next]_vars
================================================================================
