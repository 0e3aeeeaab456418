------------------------------ MODULE ObjectStore ------------------------------
(***************************************************************************)
(* What storage/driver.go promises to concurrent callers: the contract of   *)
(* StorageDriver, without directories and system calls.  A call is pending  *)
(* until its outcome is decided; what it does to the objects happens while  *)
(* it is pending, and only to the objects that it names.                    *)
(*                                                                          *)
(* The contract is for callers that do not write an object that another     *)
(* call under way names: uploads draw fresh uuids.  (MultipartUpload models *)
(* chunk requests, which do overlap, call by call.)  Removals and moves of  *)
(* one object may overlap.                                                  *)
(***************************************************************************)
CONSTANTS
    Callers,   \* goroutines that call the driver
    Objects,   \* bucket/key pairs
    Bodies,    \* contents of uploads
    None,      \* no object, no call
    Torn       \* the content of an object that is partly written, or empty

Contents == Bodies \cup {Torn}

\* A call: the objects it removes, the object it writes and with what.  The
\* body of a move is what it has read of its source, None at first.
Call == [op   : {"put", "create", "delete", "move", "removetree"},
         from : SUBSET Objects,
         to   : Objects \cup {None},
         body : Contents \cup {None}]

Put(o, v)     == [op |-> "put", from |-> {}, to |-> o, body |-> v]
Create(o)     == [op |-> "create", from |-> {}, to |-> o, body |-> Torn]
Delete(o)     == [op |-> "delete", from |-> {o}, to |-> None, body |-> None]
Move(o, d)    == [op |-> "move", from |-> {o}, to |-> d, body |-> None]
RemoveTree(S) == [op |-> "removetree", from |-> S, to |-> None, body |-> None]

Calls == {Put(o, v) : o \in Objects, v \in Bodies}
         \cup {Create(o) : o \in Objects}
         \cup {Delete(o) : o \in Objects}
         \cup {Move(o, d) : o, d \in Objects}
         \cup {RemoveTree(S) : S \in SUBSET Objects}

Touches(c) == (c.from \cup {c.to}) \ {None}
Compatible(c, d) == c.to \notin Touches(d) /\ d.to \notin Touches(c)

VARIABLES
    objects,   \* the content of each object, None if there is none
    calls,     \* the call that each caller is in
    outcome    \* what it returns: pending, ok or error

vars == <<objects, calls, outcome>>

ContractTypeOK ==
    /\ objects \in [Objects -> Contents \cup {None}]
    /\ calls \in [Callers -> Call \cup {None}]
    /\ outcome \in [Callers -> {"pending", "ok", "error"}]

Init ==
    /\ objects \in [Objects -> Bodies \cup {None}]
    /\ calls = [p \in Callers |-> None]
    /\ outcome = [p \in Callers |-> "ok"]

Invoke(p, c) ==
    /\ calls[p] = None
    /\ \A q \in Callers : calls[q] # None => Compatible(c, calls[q])
    /\ calls' = [calls EXCEPT ![p] = c]
    /\ outcome' = [outcome EXCEPT ![p] = "pending"]
    /\ UNCHANGED objects

Pending(p, ops) == calls[p] # None /\ calls[p].op \in ops /\ outcome[p] = "pending"
Decide(p, o) == outcome' = [outcome EXCEPT ![p] = o] /\ UNCHANGED calls

\* A Put, or a Move that copies, may show a torn object before the whole one.
Truncate(p) ==
    /\ Pending(p, {"put", "move"}) /\ calls[p].body # None
    /\ objects' = [objects EXCEPT ![calls[p].to] = Torn]
    /\ UNCHANGED <<calls, outcome>>

Store(p) ==
    /\ Pending(p, {"put", "move"}) /\ calls[p].body # None
    /\ objects' = [objects EXCEPT ![calls[p].to] = calls[p].body]
    /\ UNCHANGED <<calls, outcome>>

\* "Put stores a stream under bucket/key".
Stored(p) ==
    /\ Pending(p, {"put"})
    /\ objects[calls[p].to] = calls[p].body
    /\ Decide(p, "ok")
    /\ UNCHANGED objects

\* "Create opens a writer for bucket/key, overwriting any existing object."
Overwrite(p) ==
    /\ Pending(p, {"create"})
    /\ objects' = [objects EXCEPT ![calls[p].to] = Torn]
    /\ Decide(p, "ok")

\* "Move relocates an object between bucket/key pairs": at once, or by a copy
\* whose source goes only when the copy is complete.
Relocate(p) ==
    /\ Pending(p, {"move"})
    /\ \E o \in calls[p].from :
          /\ objects[o] # None
          /\ objects' = [objects EXCEPT ![o] = None, ![calls[p].to] = objects[o]]
    /\ Decide(p, "ok")

ReadSource(p) ==
    /\ Pending(p, {"move"})
    /\ \E o \in calls[p].from :
          /\ objects[o] # None
          /\ calls' = [calls EXCEPT ![p].body = objects[o]]
    /\ UNCHANGED <<objects, outcome>>

DropSource(p) ==
    /\ Pending(p, {"move"})
    /\ calls[p].body # None /\ objects[calls[p].to] = calls[p].body
    /\ \E o \in calls[p].from :
          objects[o] # None /\ objects' = [objects EXCEPT ![o] = None]
    /\ Decide(p, "ok")

\* "Delete removes a single object. Missing objects are not an error."
Remove(p) ==
    /\ Pending(p, {"delete", "removetree"})
    /\ objects' = [o \in Objects |-> IF o \in calls[p].from THEN None ELSE objects[o]]
    /\ Decide(p, "ok")

\* "RemoveTree deletes an object prefix recursively": one by one.
Shrink(p) ==
    /\ Pending(p, {"removetree"})
    /\ \E o \in calls[p].from : objects' = [objects EXCEPT ![o] = None]
    /\ UNCHANGED <<calls, outcome>>

\* A call may fail until it has succeeded; what it did so far stays.
Fail(p) ==
    /\ calls[p] # None /\ outcome[p] = "pending"
    /\ Decide(p, "error")
    /\ UNCHANGED objects

Return(p) ==
    /\ calls[p] # None /\ outcome[p] # "pending"
    /\ calls' = [calls EXCEPT ![p] = None]
    /\ UNCHANGED <<objects, outcome>>

Next == \E p \in Callers :
    \/ \E c \in Calls : Invoke(p, c)
    \/ Truncate(p) \/ Store(p) \/ Stored(p) \/ Overwrite(p)
    \/ Relocate(p) \/ ReadSource(p) \/ DropSource(p)
    \/ Remove(p) \/ Shrink(p) \/ Fail(p) \/ Return(p)

Spec == Init /\ [][Next]_vars
=============================================================================
