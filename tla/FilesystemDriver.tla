---------------------------- MODULE FilesystemDriver ---------------------------
(***************************************************************************)
(* storage/filesystem.go: the driver's calls as the system calls they make, *)
(* between which the calls of other goroutines run.  Nothing locks the      *)
(* tree: MkdirAll of one call and the pruning of another meet in the        *)
(* directories that they share.                                             *)
(*                                                                          *)
(* A directory is its path below the base, a sequence of names, so that     *)
(* buckets may be nested; an object is a key in a directory.  The rules of  *)
(* resolve for names are left out: the names here pass them.  MkdirAll,     *)
(* ReadDir and io.Copy are one step each; RemoveAll is a step per entry.    *)
(***************************************************************************)
EXTENDS Naturals, Sequences, FiniteSets

CONSTANTS
    Callers,     \* goroutines that call the driver
    Dirs,        \* the directories below the base, with all their parents
    Keys,        \* object keys
    Bodies,      \* contents of uploads
    None, Torn,  \* no object; an object partly written
    Standing,    \* the objects that are there at first
    OneVolume,   \* whether rename works between any two directories
    Ops,         \* the operations that the callers use
    MaxFaults    \* bound on system calls that fail by themselves

Base == <<>>
Parent(d) == SubSeq(d, 1, Len(d) - 1)
Above(d)  == {SubSeq(d, 1, n) : n \in 1..Len(d)}
Objects   == [dir : Dirs, key : Keys]
Below(d)  == {o \in Objects : d \in Above(o.dir)}

ASSUME DirsAssumption ==
    /\ Dirs \subseteq Seq(STRING) \ {Base}
    /\ \A d \in Dirs : Above(d) \subseteq Dirs
ASSUME BoundsAssumption ==
    /\ Standing \subseteq Objects /\ OneVolume \in BOOLEAN /\ MaxFaults \in Nat

VARIABLES
    dirs,      \* the directories that exist
    files,     \* the content of each file, None if there is none
    calls,     \* the call that each caller is in, as in ObjectStore
    outcome,   \* what it returns: pending, ok or error
    pc,        \* its next system call
    at,        \* the directory that it prunes, or the tree that it removes
    faults,    \* system calls that have failed by themselves
    excused    \* history: directories that a call may have left empty, because
               \* it failed, or removed a tree (which does not prune)

vars == <<dirs, files, calls, outcome, pc, at, faults, excused>>

Contract == INSTANCE ObjectStore WITH objects <- files

ASSUME NoneAssumption ==
    None \notin Bodies \cup {Torn} \cup Objects \cup Contract!Call

Steps == {"idle", "mkdir", "create", "copy", "sync", "rename", "open", "unlink",
          "readdir", "rmdir", "stat", "removeall", "return"}

TypeOK ==
    /\ Contract!ContractTypeOK
    /\ dirs \subseteq Dirs /\ excused \subseteq Dirs
    /\ pc \in [Callers -> Steps]
    /\ at \in [Callers -> Dirs \cup {Base}]
    /\ faults \in 0..MaxFaults

Init ==
    /\ Contract!Init
    /\ \A o \in Objects : files[o] # None <=> o \in Standing
    /\ dirs = UNION {Above(o.dir) : o \in Standing} /\ excused = {}
    /\ pc = [p \in Callers |-> "idle"]
    /\ at = [p \in Callers |-> Base]
    /\ faults = 0

-----------------------------------------------------------------------------
Empty(d) == /\ \A o \in Objects : o.dir = d => files[o] = None
            /\ \A e \in dirs : Parent(e) # d

Goto(p, step) == pc' = [pc EXCEPT ![p] = step]
Ends(p, o)    == Goto(p, "return") /\ outcome' = [outcome EXCEPT ![p] = o]
Source(p)     == CHOOSE o \in calls[p].from : TRUE
Target(p)     == calls[p].to
Write(o, v)   == files' = [files EXCEPT ![o] = v]

\* The directories that the call of p may leave empty if it fails.
Left(p) == CASE Target(p) # None -> Above(Target(p).dir)
             [] calls[p].op = "removetree" -> Above(at[p]) \cup {d \in Dirs : at[p] \in Above(d)}
             [] OTHER -> {}
\* A call fails: what it has done stays.
Error(p) == Ends(p, "error") /\ excused' = excused \cup Left(p)

\* The start of a call.  A RemoveTree is given the tree below d.
Begin(p, c, step, d) ==
    /\ pc[p] = "idle" /\ c.op \in Ops
    /\ Contract!Invoke(p, c)
    /\ Goto(p, step)
    /\ at' = [at EXCEPT ![p] = d]
    /\ UNCHANGED <<dirs, faults, excused>>

BeginPut(p) == \E o \in Objects, v \in Bodies : Begin(p, Contract!Put(o, v), "mkdir", Base)
BeginCreate(p) == \E o \in Objects : Begin(p, Contract!Create(o), "mkdir", Base)
BeginDelete(p) == \E o \in Objects : Begin(p, Contract!Delete(o), "unlink", o.dir)
BeginMove(p) == \E o, d \in Objects : Begin(p, Contract!Move(o, d), "mkdir", o.dir)
BeginRemoveTree(p) ==
    \E d \in Dirs : Begin(p, Contract!RemoveTree(Below(d)), "stat", d)

MkdirAll_Bug(p) ==
    /\ pc[p] = "mkdir"
    /\ dirs' = dirs \cup Above(Target(p).dir) \cup {Append(Target(p).dir, Target(p).key)}
    /\ Goto(p, IF calls[p].op = "move" THEN "rename" ELSE "create")
    /\ UNCHANGED <<files, calls, outcome, at, faults, excused>>

\* os.MkdirAll of the parent of the path to write.
MkdirAll(p) ==
    /\ pc[p] = "mkdir"
    /\ dirs' = dirs \cup Above(Target(p).dir)
    /\ Goto(p, IF calls[p].op = "move" THEN "rename" ELSE "create")
    /\ UNCHANGED <<files, calls, outcome, at, faults, excused>>

\* os.Create fails if the directory has gone; it truncates an existing file.
OsCreate(p) ==
    /\ pc[p] = "create"
    /\ \/ /\ Target(p).dir \in dirs
          /\ Write(Target(p), Torn)
          /\ IF calls[p].op = "create" THEN Ends(p, "ok")
                                       ELSE Goto(p, "copy") /\ UNCHANGED outcome
          /\ UNCHANGED excused
       \/ Target(p).dir \notin dirs /\ Error(p) /\ UNCHANGED files
    /\ UNCHANGED <<dirs, calls, at, faults>>

Copy_Bug(p) ==
    /\ pc[p] = "copy"
    /\ Goto(p, IF calls[p].op = "put" THEN "sync" ELSE "unlink")
    /\ UNCHANGED <<dirs, files, calls, outcome, at, faults, excused>>

Copy(p) ==
    /\ pc[p] = "copy"
    /\ Write(Target(p), calls[p].body)
    /\ Goto(p, IF calls[p].op = "put" THEN "sync" ELSE "unlink")
    /\ UNCHANGED <<dirs, calls, outcome, at, faults, excused>>

Sync(p) ==
    /\ pc[p] = "sync"
    /\ Ends(p, "ok")
    /\ UNCHANGED <<dirs, files, calls, at, faults, excused>>

\* os.Rename fails without the source, without the directory of the target, or
\* between volumes; whatever the reason, Move then tries to copy.
CanRename(p) ==
    /\ files[Source(p)] # None
    /\ Target(p).dir \in dirs
    /\ OneVolume \/ Target(p).dir = Source(p).dir

Rename(p) ==
    /\ pc[p] = "rename"
    /\ \/ /\ CanRename(p)
          /\ files' = [files EXCEPT ![Source(p)] = None, ![Target(p)] = files[Source(p)]]
          /\ outcome' = [outcome EXCEPT ![p] = "ok"]
          /\ Goto(p, "readdir")
       \/ /\ ~CanRename(p)
          /\ Goto(p, "open")
          /\ UNCHANGED <<files, outcome>>
    /\ UNCHANGED <<dirs, calls, at, faults, excused>>

OpenSource(p) ==
    /\ pc[p] = "open"
    /\ \/ /\ files[Source(p)] # None
          /\ calls' = [calls EXCEPT ![p].body = files[Source(p)]]
          /\ Goto(p, "create")
          /\ UNCHANGED <<outcome, excused>>
       \/ files[Source(p)] = None /\ Error(p) /\ UNCHANGED calls
    /\ UNCHANGED <<dirs, files, at, faults>>

\* os.Remove of the object: Delete ignores that it is missing, Move does not.
Unlink(p) ==
    /\ pc[p] = "unlink"
    /\ \/ /\ calls[p].op = "delete" \/ files[Source(p)] # None
          /\ Write(Source(p), None)
          /\ outcome' = [outcome EXCEPT ![p] = "ok"]
          /\ Goto(p, "readdir")
          /\ UNCHANGED excused
       \/ /\ calls[p].op = "move" /\ files[Source(p)] = None
          /\ Error(p)
          /\ UNCHANGED files
    /\ UNCHANGED <<dirs, calls, at, faults>>

\* pruneEmptyParents: ReadDir and Remove in turn, up to the base.
PruneRead(p) ==
    /\ pc[p] = "readdir"
    /\ Goto(p, IF at[p] \in dirs /\ Empty(at[p]) THEN "rmdir" ELSE "return")
    /\ UNCHANGED <<dirs, files, calls, outcome, at, faults, excused>>

PruneRemove_OneLevel(p) ==
    /\ pc[p] = "rmdir"
    /\ \/ /\ at[p] \in dirs /\ Empty(at[p])
          /\ dirs' = dirs \ {at[p]} /\ excused' = excused \ {at[p]}
       \/ ~(at[p] \in dirs /\ Empty(at[p])) /\ UNCHANGED <<dirs, excused>>
    /\ Goto(p, "return")
    /\ UNCHANGED <<files, calls, outcome, at, faults>>

PruneRemove_Bug(p) ==
    /\ pc[p] = "rmdir"
    /\ dirs' = {d \in dirs : at[p] \notin Above(d)}
    /\ files' = [o \in Objects |-> IF o \in Below(at[p]) THEN None ELSE files[o]]
    /\ excused' = excused \cap dirs'
    /\ at' = [at EXCEPT ![p] = Parent(@)]
    /\ Goto(p, "readdir")
    /\ UNCHANGED <<calls, outcome, faults>>

\* os.Remove refuses a directory that is not empty any more.
PruneRemove(p) ==
    /\ pc[p] = "rmdir"
    /\ \/ /\ at[p] \in dirs /\ Empty(at[p])
          /\ dirs' = dirs \ {at[p]} /\ excused' = excused \ {at[p]}
          /\ at' = [at EXCEPT ![p] = Parent(@)]
          /\ Goto(p, "readdir")
       \/ /\ ~(at[p] \in dirs /\ Empty(at[p]))
          /\ Goto(p, "return")
          /\ UNCHANGED <<dirs, excused, at>>
    /\ UNCHANGED <<files, calls, outcome, faults>>

TreeStat(p) ==
    /\ pc[p] = "stat"
    /\ \/ at[p] \in dirs /\ Goto(p, "removeall") /\ UNCHANGED outcome
       \/ at[p] \notin dirs /\ Ends(p, "ok")
    /\ UNCHANGED <<dirs, files, calls, at, faults, excused>>

\* os.RemoveAll: files and empty directories go one by one, the tree last.
TreeUnlink(p) ==
    /\ pc[p] = "removeall"
    /\ \E o \in Below(at[p]) : files[o] # None /\ Write(o, None)
    /\ UNCHANGED <<dirs, calls, outcome, pc, at, faults, excused>>

TreeRmdir(p) ==
    /\ pc[p] = "removeall"
    /\ \E d \in dirs : /\ at[p] \in Above(d) /\ Empty(d)
                       /\ dirs' = dirs \ {d}
                       /\ excused' = (excused \cup Above(at[p])) \ {d}
    /\ UNCHANGED <<files, calls, outcome, pc, at, faults>>

TreeGone(p) ==
    /\ pc[p] = "removeall" /\ at[p] \notin dirs
    /\ Ends(p, "ok")
    /\ UNCHANGED <<dirs, files, calls, at, faults, excused>>

\* A system call fails by itself.  Errors while pruning are dropped; an error
\* of Rename leads to the copy.  A stop of the server is an error that nobody
\* reads, of each call under way.
Fault(p) ==
    /\ pc[p] \notin {"idle", "return"} /\ faults < MaxFaults
    /\ faults' = faults + 1
    /\ \/ pc[p] # "rename" /\ outcome[p] = "pending" /\ Error(p)
       \/ /\ outcome[p] # "pending"
          /\ Goto(p, "return")
          /\ excused' = excused \cup Above(at[p])
          /\ UNCHANGED outcome
       \/ /\ pc[p] = "rename" /\ Target(p) # Source(p)
          /\ Goto(p, "open")
          /\ UNCHANGED <<outcome, excused>>
    /\ UNCHANGED <<dirs, files, calls, at>>

Return(p) ==
    /\ pc[p] = "return"
    /\ Contract!Return(p)
    /\ Goto(p, "idle")
    /\ UNCHANGED <<dirs, at, faults, excused>>

Next == \E p \in Callers :
    \/ BeginPut(p) \/ BeginCreate(p) \/ BeginDelete(p) \/ BeginMove(p) \/ BeginRemoveTree(p)
    \/ MkdirAll(p) \/ OsCreate(p) \/ Copy(p) \/ Sync(p)
    \/ Rename(p) \/ OpenSource(p) \/ Unlink(p) \/ PruneRead(p) \/ PruneRemove(p)
    \/ TreeStat(p) \/ TreeUnlink(p) \/ TreeRmdir(p) \/ TreeGone(p)
    \/ Fault(p) \/ Return(p)

Spec == Init /\ [][Next]_vars

-----------------------------------------------------------------------------
\* A file has its directory, a directory all those above it.
Rooted ==
    /\ \A o \in Objects : files[o] # None => o.dir \in dirs
    /\ \A d \in dirs : Above(d) \subseteq dirs

\* What each system call may rely on.
Shaped(c) ==
    \/ c.op = "put" /\ c.from = {} /\ c.to \in Objects /\ c.body \in Bodies
    \/ c.op = "create" /\ c.from = {} /\ c.to \in Objects /\ c.body = Torn
    \/ c.op = "delete" /\ (\E o \in Objects : c.from = {o}) /\ c.to = None
    \/ c.op = "move" /\ (\E o \in Objects : c.from = {o}) /\ c.to \in Objects
    \/ c.op = "removetree" /\ c.to = None

Progressed(p) ==
    LET c == calls[p] IN
    /\ Shaped(c)
    /\ pc[p] \in {"readdir", "rmdir"} => outcome[p] = "ok"
    /\ pc[p] = "return" => outcome[p] # "pending"
    /\ pc[p] \notin {"readdir", "rmdir", "return"} => outcome[p] = "pending"
    /\ pc[p] = "mkdir" => c.op \in {"put", "create", "move"}
    /\ pc[p] = "create" => c.op \in {"put", "create", "move"} /\ c.body # None
    /\ pc[p] = "copy" => c.op \in {"put", "move"} /\ c.body # None
                         /\ files[c.to] = Torn
    /\ pc[p] = "sync" => c.op = "put" /\ files[c.to] = c.body
    /\ pc[p] \in {"rename", "open"} => c.op = "move"
    /\ pc[p] = "unlink" =>
          \/ c.op = "delete"
          \/ c.op = "move" /\ c.body # None /\ files[c.to] = c.body
    /\ pc[p] \in {"stat", "removeall"} => c.op = "removetree" /\ c.from = Below(at[p])

(* What makes the driver keep its contract, an inductive invariant: files   *)
(* stand in a tree whose directories exist whatever is pruned meanwhile;    *)
(* calls under way do not write what another one names; each call has come  *)
(* to its next system call with what that one needs: the source of a move   *)
(* is removed only when the target holds the whole copy.                    *)
Orderly ==
    /\ Rooted
    /\ \A p \in Callers : pc[p] = "idle" <=> calls[p] = None
    /\ \A p \in Callers : calls[p] # None => Progressed(p)
    /\ \A p, q \in Callers : (p # q /\ calls[p] # None /\ calls[q] # None) =>
          Contract!Compatible(calls[p], calls[q])

(* The driver implements the contract of driver.go under every              *)
(* interleaving: no call changes an object that it does not name, no        *)
(* success is reported without its effect, and a move gives up its source   *)
(* only for a whole copy; pruning never costs an object.                    *)
ImplementsContract == Contract!Spec

(* filesystem.go:164: "deleting a file also cleans up empty bucket          *)
(* folders", also when several calls prune and fill one tree: at rest only  *)
(* failed calls, and removed trees, have left an empty directory.           *)
NoEmptyDirs ==
    (\A p \in Callers : pc[p] = "idle") => \A d \in dirs \ excused : ~Empty(d)

(* driver.go:16: "Put stores a stream under bucket/key".  No Put fails      *)
(* while every system call does what it is asked.                           *)
PutStores ==
    \A p \in Callers :
        (calls[p] # None /\ calls[p].op = "put" /\ outcome[p] = "error") => faults > 0

(* driver.go:36: "Move relocates an object between bucket/key pairs".  When *)
(* no call is under way, moves alone have not left more objects than there  *)
(* were: each is at the one place or at the other.                          *)
MoveLeavesOneCopy ==
    (Ops = {"move"} /\ \A p \in Callers : pc[p] = "idle") =>
        Cardinality({o \in Objects : files[o] # None}) <= Cardinality(Standing)
=============================================================================
