------------------------- MODULE FilesystemDriverProofs -------------------------
(* FilesystemDriver implements ObjectStore for every set of callers,         *)
(* directories, keys and bodies, one volume or several, any mix of           *)
(* operations and any number of faults.                                      *)
EXTENDS FilesystemDriver, SequenceTheorems, TLAPS

Inv == TypeOK /\ Orderly

-----------------------------------------------------------------------------
(* Paths. *)

(* A directory is above itself; what is above a directory that is above d is *)
(* above d.                                                                  *)
LEMMA AboveFacts ==
    ASSUME NEW d \in Dirs
    PROVE  /\ d \in Above(d)
           /\ \A e \in Above(d) : e \in Dirs /\ Above(e) \subseteq Above(d)
<1>1. d \in Seq(STRING) /\ d # Base /\ Len(d) \in Nat
  BY DirsAssumption
<1>2. Len(d) \in 1..Len(d) /\ SubSeq(d, 1, Len(d)) = d
  BY <1>1 DEF Base
<1>3. ASSUME NEW e \in Above(d), NEW f \in Above(e) PROVE f \in Above(d)
  <2>1. PICK n \in 1..Len(d) : e = SubSeq(d, 1, n)
    BY DEF Above
  <2>2. Len(e) = n
    BY <1>1, <2>1
  <2>3. PICK m \in 1..n : f = SubSeq(e, 1, m)
    BY <2>2 DEF Above
  <2>4. f = SubSeq(d, 1, m)
    BY <1>1, <2>1, <2>2, <2>3
  <2>5. QED
    BY <1>1, <2>3, <2>4 DEF Above
<1>4. QED
  BY <1>2, <1>3, DirsAssumption DEF Above

(* A directory between two others on a path has an entry towards the lower. *)
LEMMA NextBelow ==
    ASSUME NEW d \in Dirs, NEW e \in Above(d), e # d
    PROVE  \E f \in Above(d) : Parent(f) = e
<1>1. d \in Seq(STRING) /\ Len(d) \in Nat
  BY DirsAssumption
<1>2. PICK n \in 1..Len(d) : e = SubSeq(d, 1, n)
  BY DEF Above
<1>3. n + 1 \in 1..Len(d)
  BY <1>1, <1>2
<1> DEFINE f == SubSeq(d, 1, n + 1)
<1>4. f \in Above(d)
  BY <1>3 DEF Above
<1>5. Len(f) = n + 1 /\ f \in Seq(STRING)
  BY <1>1, <1>3
<1>6. SubSeq(f, 1, n) = SubSeq(d, 1, n)
  BY <1>1, <1>3, <1>5
<1>7. Len(f) - 1 = n
  BY <1>3, <1>5
<1>8. Parent(f) = e
  BY <1>2, <1>6, <1>7 DEF Parent
<1> QED
  BY <1>4, <1>8

(* The parent of a directory is one, or the base. *)
LEMMA ParentType == ASSUME NEW d \in Dirs PROVE Parent(d) \in Dirs \cup {Base}
<1>1. d \in Seq(STRING) /\ Len(d) \in Nat /\ d # Base
  BY DirsAssumption
<1>2. CASE Len(d) = 1
  BY <1>1, <1>2 DEF Parent, Base
<1>3. CASE Len(d) > 1
  <2>1. Len(d) - 1 \in 1..Len(d)
    BY <1>1, <1>3
  <2>2. QED
    BY <2>1, DirsAssumption DEF Parent, Above
<1>4. Len(d) # 0
  BY <1>1 DEF Base
<1>5. QED
  BY <1>1, <1>2, <1>3, <1>4

-----------------------------------------------------------------------------
(* Steps of one call. *)

(* Every call that a step begins has the shape of its operation. *)
LEMMA BeginFacts ==
    ASSUME NEW p \in Callers, Inv,
           BeginPut(p) \/ BeginCreate(p) \/ BeginDelete(p) \/ BeginMove(p) \/ BeginRemoveTree(p)
    PROVE  \E c \in Contract!Calls, step \in Steps \ {"idle"}, d \in Dirs \cup {Base} :
              Begin(p, c, step, d) /\ Shaped(c)
              /\ \/ step = "mkdir" /\ c.op \in {"put", "create", "move"}
                 \/ step = "unlink" /\ c.op = "delete"
                 \/ step = "stat" /\ c.op = "removetree" /\ c.from = Below(d)
<1>1. CASE BeginPut(p)
  <2>1. PICK o \in Objects, v \in Bodies : Begin(p, Contract!Put(o, v), "mkdir", Base)
    BY <1>1 DEF BeginPut
  <2>2. Shaped(Contract!Put(o, v)) /\ Contract!Put(o, v).op = "put"
    BY DEF Contract!Put, Shaped
  <2>3. QED
    BY <2>1, <2>2 DEF Contract!Calls, Steps
<1>2. CASE BeginCreate(p)
  <2>1. PICK o \in Objects : Begin(p, Contract!Create(o), "mkdir", Base)
    BY <1>2 DEF BeginCreate
  <2>2. Shaped(Contract!Create(o)) /\ Contract!Create(o).op = "create"
    BY DEF Contract!Create, Shaped
  <2>3. QED
    BY <2>1, <2>2 DEF Contract!Calls, Steps
<1>3. CASE BeginDelete(p)
  <2>1. PICK o \in Objects : Begin(p, Contract!Delete(o), "unlink", o.dir)
    BY <1>3 DEF BeginDelete
  <2>2. Shaped(Contract!Delete(o)) /\ Contract!Delete(o).op = "delete"
    BY DEF Contract!Delete, Shaped
  <2>3. o.dir \in Dirs
    BY DEF Objects
  <2>4. QED
    BY <2>1, <2>2, <2>3 DEF Contract!Calls, Steps
<1>4. CASE BeginMove(p)
  <2>1. PICK o \in Objects, d \in Objects : Begin(p, Contract!Move(o, d), "mkdir", o.dir)
    BY <1>4 DEF BeginMove
  <2>2. Shaped(Contract!Move(o, d)) /\ Contract!Move(o, d).op = "move"
    BY DEF Contract!Move, Shaped
  <2>3. o.dir \in Dirs
    BY DEF Objects
  <2>4. QED
    BY <2>1, <2>2, <2>3 DEF Contract!Calls, Steps
<1>5. CASE BeginRemoveTree(p)
  <2>1. PICK d \in Dirs : Begin(p, Contract!RemoveTree(Below(d)), "stat", d)
    BY <1>5 DEF BeginRemoveTree
  <2>2. /\ Shaped(Contract!RemoveTree(Below(d)))
        /\ Contract!RemoveTree(Below(d)).op = "removetree"
        /\ Contract!RemoveTree(Below(d)).from = Below(d)
    BY DEF Contract!RemoveTree, Shaped
  <2>3. Below(d) \in SUBSET Objects
    BY DEF Below
  <2>4. Contract!RemoveTree(Below(d)) \in Contract!Calls
    BY <2>3 DEF Contract!Calls
  <2>5. QED
    BY <2>1, <2>2, <2>4 DEF Steps
<1>6. QED
  BY <1>1, <1>2, <1>3, <1>4, <1>5

(* What every call that may begin has. *)
LEMMA CallsType ==
    ASSUME NEW c \in Contract!Calls PROVE c \in Contract!Call
<1>1. ASSUME NEW o \in Objects, NEW v \in Bodies PROVE Contract!Put(o, v) \in Contract!Call
  BY DEF Contract!Put, Contract!Call, Contract!Contents
<1>2. ASSUME NEW o \in Objects PROVE Contract!Create(o) \in Contract!Call
  BY DEF Contract!Create, Contract!Call, Contract!Contents
<1>3. ASSUME NEW o \in Objects PROVE Contract!Delete(o) \in Contract!Call
  BY DEF Contract!Delete, Contract!Call, Contract!Contents
<1>4. ASSUME NEW o \in Objects, NEW d \in Objects PROVE Contract!Move(o, d) \in Contract!Call
  BY DEF Contract!Move, Contract!Call, Contract!Contents
<1>5. ASSUME NEW S \in SUBSET Objects PROVE Contract!RemoveTree(S) \in Contract!Call
  BY DEF Contract!RemoveTree, Contract!Call, Contract!Contents
<1>6. QED
  BY <1>1, <1>2, <1>3, <1>4, <1>5 DEF Contract!Calls

(* A call under way and the objects that it names. *)
LEMMA CallFacts ==
    ASSUME NEW p \in Callers, Inv, pc[p] # "idle"
    PROVE  /\ calls[p] \in Contract!Call /\ calls[p] # None
           /\ Progressed(p) /\ Shaped(calls[p])
           /\ calls[p].op \in {"delete", "move"} =>
                 /\ Source(p) \in Objects /\ calls[p].from = {Source(p)}
                 /\ Source(p) \in Contract!Touches(calls[p])
           /\ calls[p].op \in {"put", "create", "move"} =>
                 /\ Target(p) \in Objects /\ Target(p) # None
                 /\ Target(p) \in Contract!Touches(calls[p])
                 /\ Target(p).dir \in Dirs
           /\ calls[p].op = "removetree" => Target(p) = None
<1>1. calls[p] # None /\ calls[p] \in Contract!Call
  BY DEF Inv, TypeOK, Orderly, Contract!ContractTypeOK
<1>2. Progressed(p) /\ Shaped(calls[p])
  BY <1>1 DEF Inv, Orderly, Progressed
<1>3. ASSUME calls[p].op \in {"delete", "move"}
      PROVE  /\ Source(p) \in Objects /\ calls[p].from = {Source(p)}
             /\ Source(p) \in Contract!Touches(calls[p])
  <2>1. PICK o \in Objects : calls[p].from = {o}
    BY <1>2, <1>3 DEF Shaped
  <2>2. Source(p) = o
    BY <2>1 DEF Source
  <2>3. o # None
    BY NoneAssumption
  <2>4. QED
    BY <2>1, <2>2, <2>3 DEF Contract!Touches
<1>4. ASSUME calls[p].op \in {"put", "create", "move"}
      PROVE  /\ Target(p) \in Objects /\ Target(p) # None
             /\ Target(p) \in Contract!Touches(calls[p])
             /\ Target(p).dir \in Dirs
  BY <1>2, <1>4, NoneAssumption DEF Shaped, Target, Contract!Touches, Objects
<1>5. calls[p].op = "removetree" => Target(p) = None
  BY <1>2 DEF Shaped, Target
<1>6. QED
  BY <1>1, <1>2, <1>3, <1>4, <1>5

\* A step of p: other calls stay as they are, p's goes on to name what it named,
\* and only the files that it names change.
Frame(p) ==
    /\ \A q \in Callers \ {p} :
          /\ calls'[q] = calls[q] /\ outcome'[q] = outcome[q]
          /\ pc'[q] = pc[q] /\ at'[q] = at[q]
    /\ pc'[p] # "idle" /\ calls'[p] # None
    /\ calls'[p].from = calls[p].from /\ calls'[p].to = calls[p].to
    /\ \A o \in Objects : files'[o] # files[o] => o \in Contract!Touches(calls[p])

(* The step of one call leaves what the others rely on. *)
LEMMA OthersKept ==
    ASSUME NEW p \in Callers, Inv, pc[p] # "idle", Frame(p),
           NEW q \in Callers, q # p, calls[q] # None
    PROVE  Progressed(q)'
<1>1. /\ Progressed(q) /\ calls'[q] = calls[q] /\ pc'[q] = pc[q]
      /\ outcome'[q] = outcome[q] /\ at'[q] = at[q] /\ calls[q] \in Contract!Call
  BY DEF Inv, Orderly, Frame, TypeOK, Contract!ContractTypeOK
<1>2. Contract!Compatible(calls[q], calls[p])
  BY CallFacts DEF Inv, Orderly
<1>3. ASSUME calls[q].to \in Objects PROVE files'[calls[q].to] = files[calls[q].to]
  BY <1>2, <1>3 DEF Contract!Compatible, Frame
<1>4. calls[q].op \in {"put", "move"} => calls[q].to \in Objects
  BY <1>1 DEF Progressed, Shaped
<1>5. Shaped(calls[q])
  BY <1>1 DEF Progressed
<1>6. QED
  BY <1>1, <1>3, <1>4, <1>5 DEF Progressed

(* A framed step that keeps the tree and its own progress keeps order. *)
LEMMA FramedStep ==
    ASSUME NEW p \in Callers, Inv, pc[p] # "idle", Frame(p), Rooted', Progressed(p)'
    PROVE  Orderly'
<1>1. ASSUME NEW q \in Callers PROVE (pc[q] = "idle" <=> calls[q] = None)'
  <2>1. CASE q = p
    BY <2>1 DEF Frame
  <2>2. CASE q # p
    BY <2>2 DEF Frame, Inv, Orderly
  <2>3. QED
    BY <2>1, <2>2
<1>2. ASSUME NEW q \in Callers, calls'[q] # None PROVE Progressed(q)'
  <2>1. CASE q = p
    BY <2>1
  <2>2. CASE q # p
    <3>1. calls[q] # None
      BY <1>2, <2>2 DEF Frame
    <3>2. QED
      BY <2>2, <3>1, OthersKept
  <2>3. QED
    BY <2>1, <2>2
<1>3. ASSUME NEW q \in Callers, NEW r \in Callers, q # r, calls'[q] # None, calls'[r] # None
      PROVE  Contract!Compatible(calls'[q], calls'[r])
  <2>1. ASSUME NEW x \in Callers, calls'[x] # None
        PROVE  /\ calls[x] # None
               /\ calls'[x].from = calls[x].from /\ calls'[x].to = calls[x].to
    <3>1. CASE x = p
      BY <3>1, CallFacts DEF Frame
    <3>2. CASE x # p
      BY <2>1, <3>2 DEF Frame
    <3>3. QED
      BY <3>1, <3>2
  <2>2. Contract!Compatible(calls[q], calls[r])
    BY <1>3, <2>1 DEF Inv, Orderly
  <2>3. QED
    BY <1>3, <2>1, <2>2 DEF Contract!Compatible, Contract!Touches
<1>4. QED
  BY <1>1, <1>2, <1>3 DEF Orderly

-----------------------------------------------------------------------------
(* Each step keeps the invariant, and is a step of the contract or none. *)

Simulates == [Contract!Next]_Contract!vars

(* Pruning removes only directories that nothing is left in. *)
LEMMA RmdirRooted ==
    ASSUME Inv, NEW d \in dirs, Empty(d), dirs' = dirs \ {d}, UNCHANGED files
    PROVE  Rooted'
<1>1. dirs \subseteq Dirs /\ Rooted
  BY DEF Inv, TypeOK, Orderly
<1>2. ASSUME NEW o \in Objects, files[o] # None PROVE o.dir \in dirs'
  BY <1>1, <1>2 DEF Empty, Rooted
<1>3. ASSUME NEW e \in dirs', NEW f \in Above(e) PROVE f \in dirs'
  <2>1. e \in dirs /\ e \in Dirs /\ f \in dirs /\ Above(e) \subseteq dirs
    BY <1>1, <1>3 DEF Rooted
  <2>2. ASSUME f = d PROVE FALSE
    <3>1. f # e
      BY <1>3, <2>2
    <3>2. PICK g \in Above(e) : Parent(g) = f
      BY <2>1, <3>1, NextBelow
    <3>3. QED
      BY <2>1, <2>2, <3>2 DEF Empty
  <2>3. QED
    BY <2>1, <2>2
<1>4. QED
  BY <1>2, <1>3 DEF Rooted

(* A step that changes neither directories nor files, except that it writes *)
(* a file whose directory exists, leaves the tree rooted.                    *)
LEMMA WriteRooted ==
    ASSUME Inv, UNCHANGED dirs,
           \A o \in Objects : files'[o] # None => files[o] # None \/ o.dir \in dirs
    PROVE  Rooted'
BY DEF Inv, Orderly, Rooted

(* A new call names nothing that a writer under way names, and starts well.  *)
LEMMA BeginStep ==
    ASSUME NEW p \in Callers, Inv,
           BeginPut(p) \/ BeginCreate(p) \/ BeginDelete(p) \/ BeginMove(p) \/ BeginRemoveTree(p)
    PROVE  Inv' /\ Simulates
<1>1. PICK c \in Contract!Calls, step \in Steps \ {"idle"}, d \in Dirs \cup {Base} :
          /\ Begin(p, c, step, d) /\ Shaped(c)
          /\ \/ step = "mkdir" /\ c.op \in {"put", "create", "move"}
             \/ step = "unlink" /\ c.op = "delete"
             \/ step = "stat" /\ c.op = "removetree" /\ c.from = Below(d)
  BY BeginFacts
<1>2. c \in Contract!Call /\ c # None
  BY CallsType, NoneAssumption
<1>3. /\ calls[p] = None /\ calls' = [calls EXCEPT ![p] = c]
      /\ outcome' = [outcome EXCEPT ![p] = "pending"] /\ UNCHANGED files
      /\ \A q \in Callers : calls[q] # None => Contract!Compatible(c, calls[q])
      /\ pc' = [pc EXCEPT ![p] = step] /\ at' = [at EXCEPT ![p] = d]
      /\ UNCHANGED <<dirs, faults, excused>>
  BY <1>1 DEF Begin, Contract!Invoke, Goto
<1>4. TypeOK'
  BY <1>2, <1>3 DEF Inv, TypeOK, Contract!ContractTypeOK
<1>5. /\ calls'[p] = c /\ outcome'[p] = "pending" /\ pc'[p] = step /\ at'[p] = d
      /\ \A q \in Callers \ {p} : /\ calls'[q] = calls[q] /\ outcome'[q] = outcome[q]
                                   /\ pc'[q] = pc[q] /\ at'[q] = at[q]
  BY <1>3 DEF Inv, TypeOK, Contract!ContractTypeOK
<1>6. Rooted'
  BY <1>3, WriteRooted
<1>7. ASSUME NEW q \in Callers PROVE (pc[q] = "idle" <=> calls[q] = None)'
  BY <1>2, <1>5 DEF Inv, Orderly
<1>8. ASSUME NEW q \in Callers, calls'[q] # None PROVE Progressed(q)'
  <2>1. CASE q = p
    <3>1. Shaped(c)
      BY <1>1
    <3>2. QED
      BY <1>1, <1>5, <2>1, <3>1 DEF Progressed
  <2>2. CASE q # p
    <3>1. Progressed(q)
      BY <1>5, <1>8, <2>2 DEF Inv, Orderly
    <3>2. QED
      BY <1>3, <1>5, <2>2, <3>1 DEF Progressed
  <2>3. QED
    BY <2>1, <2>2
<1>9. ASSUME NEW q \in Callers, NEW r \in Callers, q # r, calls'[q] # None, calls'[r] # None
      PROVE  Contract!Compatible(calls'[q], calls'[r])
  <2>1. CASE q = p
    BY <1>3, <1>5, <1>9, <2>1
  <2>2. CASE r = p
    BY <1>3, <1>5, <1>9, <2>2 DEF Contract!Compatible
  <2>3. CASE q # p /\ r # p
    BY <1>5, <1>9, <2>3 DEF Inv, Orderly
  <2>4. QED
    BY <2>1, <2>2, <2>3
<1>10. Orderly'
  BY <1>6, <1>7, <1>8, <1>9 DEF Orderly
<1>11. Contract!Next
  BY <1>1 DEF Begin, Contract!Next
<1>12. QED
  BY <1>4, <1>10, <1>11 DEF Inv, Simulates

(* What steps that only move p on, or change one file, leave in its type. *)
LEMMA StepType ==
    ASSUME NEW p \in Callers, Inv, NEW step \in Steps,
           pc' = [pc EXCEPT ![p] = step],
           \/ UNCHANGED outcome
           \/ \E o \in {"ok", "error"} : outcome' = [outcome EXCEPT ![p] = o],
           UNCHANGED calls, UNCHANGED at, UNCHANGED faults \/ faults' \in 0..MaxFaults,
           dirs' \subseteq Dirs, excused' \subseteq Dirs,
           files' \in [Objects -> Contract!Contents \cup {None}]
    PROVE  TypeOK'
BY DEF Inv, TypeOK, Contract!ContractTypeOK

(* The directories that a failed call may leave are directories. *)
LEMMA LeftType ==
    ASSUME NEW p \in Callers, Inv, pc[p] # "idle" PROVE Left(p) \subseteq Dirs
<1>1. CASE Target(p) # None
  <2>1. calls[p].op \in {"put", "create", "move"}
    BY <1>1, CallFacts DEF Shaped, Target
  <2>2. Target(p).dir \in Dirs
    BY <2>1, CallFacts
  <2>3. QED
    BY <1>1, <2>1, <2>2, DirsAssumption DEF Left
<1>2. CASE Target(p) = None /\ calls[p].op = "removetree"
  <2>1. at[p] \in Dirs \cup {Base}
    BY DEF Inv, TypeOK
  <2>2. Above(Base) = {}
    BY DEF Above, Base
  <2>3. QED
    BY <1>2, <2>1, <2>2, DirsAssumption DEF Left
<1>3. CASE Target(p) = None /\ calls[p].op # "removetree"
  BY <1>3 DEF Left
<1>4. QED
  BY <1>1, <1>2, <1>3

(* A failure is one that the contract allows. *)
LEMMA ErrorStep ==
    ASSUME NEW p \in Callers, Inv, pc[p] # "idle", outcome[p] = "pending", Error(p),
           UNCHANGED <<dirs, files, calls, at>>,
           UNCHANGED faults \/ faults' \in 0..MaxFaults
    PROVE  Inv' /\ Simulates
<1>1. /\ pc' = [pc EXCEPT ![p] = "return"] /\ outcome' = [outcome EXCEPT ![p] = "error"]
      /\ excused' = excused \cup Left(p)
  BY DEF Error, Ends, Goto
<1>2. TypeOK'
  <2>1. "return" \in Steps
    BY DEF Steps
  <2>2. excused' \subseteq Dirs /\ dirs' \subseteq Dirs
    BY <1>1, LeftType DEF Inv, TypeOK
  <2>3. files' \in [Objects -> Contract!Contents \cup {None}]
    BY DEF Inv, TypeOK, Contract!ContractTypeOK
  <2>4. QED
    BY <1>1, <2>1, <2>2, <2>3, StepType
<1>3. pc'[p] = "return" /\ outcome'[p] = "error" /\ calls[p] # None
  BY <1>1, CallFacts DEF Inv, TypeOK, Contract!ContractTypeOK
<1>4. Frame(p)
  BY <1>1, <1>3 DEF Frame
<1>5. Progressed(p)'
  <2>1. Progressed(p)
    BY CallFacts
  <2>2. QED
    BY <1>3, <2>1 DEF Progressed
<1>6. Orderly'
  BY <1>4, <1>5, FramedStep, WriteRooted
<1>7. Contract!Fail(p)
  BY <1>1, <1>3 DEF Contract!Fail, Contract!Decide
<1>8. QED
  BY <1>2, <1>6, <1>7 DEF Inv, Simulates, Contract!Next

(* The steps of a call that writes: directories, then the file. *)
LEMMA MkdirAllStep ==
    ASSUME NEW p \in Callers, Inv, MkdirAll(p) PROVE Inv' /\ Simulates
<1> DEFINE step == IF calls[p].op = "move" THEN "rename" ELSE "create"
<1>1. /\ pc[p] = "mkdir" /\ pc' = [pc EXCEPT ![p] = step]
      /\ dirs' = dirs \cup Above(Target(p).dir)
      /\ UNCHANGED <<files, calls, outcome, at, faults, excused>>
  BY DEF MkdirAll, Goto
<1>2. calls[p].op \in {"put", "create", "move"} /\ Progressed(p) /\ Shaped(calls[p])
  BY <1>1, CallFacts DEF Progressed
<1>3. Target(p).dir \in Dirs
  BY <1>1, <1>2, CallFacts
<1>4. step \in Steps
  BY DEF Steps
<1>5. TypeOK'
  <2>1. dirs' \subseteq Dirs
    BY <1>1, <1>3, DirsAssumption DEF Inv, TypeOK
  <2>2. excused' \subseteq Dirs /\ files' \in [Objects -> Contract!Contents \cup {None}]
    BY <1>1 DEF Inv, TypeOK, Contract!ContractTypeOK
  <2> HIDE DEF step
  <2>3. QED
    BY <1>1, <1>4, <2>1, <2>2, StepType
<1>6. pc'[p] = step /\ \A q \in Callers \ {p} : pc'[q] = pc[q]
  BY <1>1 DEF Inv, TypeOK
<1>7. Frame(p)
  BY <1>1, <1>6, CallFacts DEF Frame
<1>8. Rooted'
  <2>1. ASSUME NEW d \in dirs' PROVE Above(d) \subseteq dirs'
    BY <1>1, <1>3, <2>1, AboveFacts DEF Inv, Orderly, Rooted
  <2>2. QED
    BY <1>1, <2>1 DEF Inv, Orderly, Rooted
<1>9. Progressed(p)'
  <2>1. calls[p].op # "move" => calls[p].body # None
    BY <1>2, NoneAssumption DEF Shaped
  <2>2. QED
    BY <1>1, <1>2, <1>6, <2>1 DEF Progressed
<1>10. QED
  BY <1>1, <1>5, <1>7, <1>8, <1>9, FramedStep DEF Inv, Simulates, Contract!vars

(* A put or a copying move shows a torn file; a create that, for good. *)
LEMMA OsCreateStep ==
    ASSUME NEW p \in Callers, Inv, OsCreate(p) PROVE Inv' /\ Simulates
<1>1. pc[p] = "create" /\ UNCHANGED <<dirs, calls, at, faults>>
  BY DEF OsCreate
<1>2. /\ Progressed(p) /\ calls[p].op \in {"put", "create", "move"}
      /\ calls[p].body # None /\ outcome[p] = "pending"
      /\ Shaped(calls[p]) /\ calls[p] # None
  BY <1>1, CallFacts DEF Progressed
<1>3. Target(p) \in Objects /\ Target(p) \in Contract!Touches(calls[p])
  BY <1>1, <1>2, CallFacts
<1>4. CASE Target(p).dir \notin dirs /\ Error(p) /\ UNCHANGED files
  BY <1>1, <1>2, <1>4, ErrorStep
<1>5. CASE Target(p).dir \in dirs /\ Write(Target(p), Torn) /\ UNCHANGED excused
           /\ IF calls[p].op = "create" THEN Ends(p, "ok")
                                         ELSE Goto(p, "copy") /\ UNCHANGED outcome
  <2>1. files' = [files EXCEPT ![calls[p].to] = Torn]
    BY <1>5 DEF Write, Target
  <2>2. files' \in [Objects -> Contract!Contents \cup {None}]
    BY <1>5, <2>1 DEF Inv, TypeOK, Contract!ContractTypeOK, Contract!Contents
  <2>3. dirs' \subseteq Dirs /\ excused' \subseteq Dirs
    BY <1>1, <1>5 DEF Inv, TypeOK
  <2>4. \A o \in Objects : o # Target(p) => files'[o] = files[o]
    BY <2>1 DEF Inv, TypeOK, Contract!ContractTypeOK, Target
  <2>5. Rooted'
    BY <1>1, <1>5, <2>4, WriteRooted
  <2>6. CASE calls[p].op = "create"
    <3>1. pc' = [pc EXCEPT ![p] = "return"] /\ outcome' = [outcome EXCEPT ![p] = "ok"]
      BY <1>5, <2>6 DEF Ends, Goto
    <3>2. "return" \in Steps
      BY DEF Steps
    <3>3. TypeOK'
      BY <1>1, <2>2, <2>3, <3>1, <3>2, StepType
    <3>4. /\ pc'[p] = "return" /\ outcome'[p] = "ok"
          /\ \A q \in Callers \ {p} : pc'[q] = pc[q] /\ outcome'[q] = outcome[q]
      BY <3>1 DEF Inv, TypeOK, Contract!ContractTypeOK
    <3>5. Frame(p)
      BY <1>1, <1>2, <1>3, <2>4, <3>4 DEF Frame
    <3>6. Progressed(p)'
      BY <1>1, <1>2, <3>4 DEF Progressed
    <3>7. Contract!Overwrite(p)
      BY <1>1, <1>2, <2>1, <2>6, <3>1
      DEF Contract!Overwrite, Contract!Pending, Contract!Decide
    <3>8. QED
      BY <1>1, <2>5, <3>3, <3>5, <3>6, <3>7, FramedStep
      DEF Inv, Simulates, Contract!Next
  <2>7. CASE calls[p].op # "create"
    <3>1. pc' = [pc EXCEPT ![p] = "copy"] /\ UNCHANGED outcome
      BY <1>5, <2>7 DEF Goto
    <3>2. "copy" \in Steps
      BY DEF Steps
    <3>3. TypeOK'
      BY <1>1, <2>2, <2>3, <3>1, <3>2, StepType
    <3>4. pc'[p] = "copy" /\ \A q \in Callers \ {p} : pc'[q] = pc[q]
      BY <3>1 DEF Inv, TypeOK
    <3>5. Frame(p)
      BY <1>1, <1>2, <1>3, <2>4, <3>1, <3>4 DEF Frame
    <3>6. Progressed(p)'
      <4>1. files'[calls[p].to] = Torn
        BY <1>3, <2>1 DEF Inv, TypeOK, Contract!ContractTypeOK, Target
      <4>2. QED
        BY <1>1, <1>2, <2>7, <3>1, <3>4, <4>1 DEF Progressed
    <3>7. Contract!Truncate(p)
      BY <1>1, <1>2, <2>1, <2>7, <3>1 DEF Contract!Truncate, Contract!Pending
    <3>8. QED
      BY <1>1, <2>5, <3>3, <3>5, <3>6, <3>7, FramedStep
      DEF Inv, Simulates, Contract!Next
  <2>8. QED
    BY <2>6, <2>7
<1>6. QED
  BY <1>4, <1>5 DEF OsCreate

(* The copy is whole before a put syncs it, or a move gives up its source. *)
LEMMA CopyStep ==
    ASSUME NEW p \in Callers, Inv, Copy(p) PROVE Inv' /\ Simulates
<1> DEFINE step == IF calls[p].op = "put" THEN "sync" ELSE "unlink"
<1>1. /\ pc[p] = "copy" /\ pc' = [pc EXCEPT ![p] = step]
      /\ files' = [files EXCEPT ![calls[p].to] = calls[p].body]
      /\ UNCHANGED <<dirs, calls, outcome, at, faults, excused>>
  BY DEF Copy, Goto, Write, Target
<1>2. /\ Progressed(p) /\ calls[p].op \in {"put", "move"} /\ calls[p].body # None
      /\ outcome[p] = "pending" /\ Shaped(calls[p]) /\ calls[p] # None
      /\ calls[p] \in Contract!Call
  BY <1>1, CallFacts DEF Progressed
<1>3. calls[p].to \in Objects /\ calls[p].to \in Contract!Touches(calls[p])
  BY <1>1, <1>2, CallFacts DEF Target
<1>4. calls[p].body \in Contract!Contents
  BY <1>2 DEF Contract!Call
<1>5. files' \in [Objects -> Contract!Contents \cup {None}]
  BY <1>1, <1>4 DEF Inv, TypeOK, Contract!ContractTypeOK
<1>6. files'[calls[p].to] = calls[p].body
      /\ \A o \in Objects : o # calls[p].to => files'[o] = files[o]
  BY <1>1, <1>3 DEF Inv, TypeOK, Contract!ContractTypeOK
<1>7. step \in Steps
  BY DEF Steps
<1>8. pc'[p] = step /\ \A q \in Callers \ {p} : pc'[q] = pc[q]
  BY <1>1 DEF Inv, TypeOK
<1>9. TypeOK'
  <2>1. dirs' \subseteq Dirs /\ excused' \subseteq Dirs
    BY <1>1 DEF Inv, TypeOK
  <2> HIDE DEF step
  <2>2. QED
    BY <1>1, <1>5, <1>7, <2>1, StepType
<1>10. Frame(p)
  BY <1>1, <1>2, <1>3, <1>6, <1>8 DEF Frame
<1>11. Progressed(p)'
  BY <1>1, <1>2, <1>6, <1>8 DEF Progressed
<1>12. Contract!Store(p)
  BY <1>1, <1>2 DEF Contract!Store, Contract!Pending
<1>13. Rooted'
  <2>1. files[calls[p].to] = Torn /\ Torn # None
    BY <1>1, <1>2, NoneAssumption DEF Progressed
  <2>2. QED
    BY <1>1, <1>6, <2>1, WriteRooted
<1>14. QED
  BY <1>1, <1>9, <1>10, <1>11, <1>12, <1>13, FramedStep DEF Inv, Simulates, Contract!Next

(* A step that only moves p on, without a decision, is no step of the contract. *)
LEMMA QuietStep ==
    ASSUME NEW p \in Callers, Inv, pc[p] # "idle", NEW step \in Steps \ {"idle"},
           pc' = [pc EXCEPT ![p] = step], Progressed(p)',
           UNCHANGED <<dirs, files, calls, outcome, at>>, excused' \subseteq Dirs,
           UNCHANGED faults \/ faults' \in 0..MaxFaults
    PROVE  Inv' /\ Simulates
<1>1. TypeOK'
  <2>1. dirs' \subseteq Dirs /\ files' \in [Objects -> Contract!Contents \cup {None}]
    BY DEF Inv, TypeOK, Contract!ContractTypeOK
  <2>2. QED
    BY <2>1, StepType
<1>2. pc'[p] = step /\ \A q \in Callers \ {p} : pc'[q] = pc[q]
  BY DEF Inv, TypeOK
<1>3. Frame(p)
  BY <1>2, CallFacts DEF Frame
<1>4. QED
  BY <1>1, <1>3, FramedStep, WriteRooted DEF Inv, Simulates, Contract!vars

(* A put that has synced returns success: the file is whole. *)
LEMMA SyncStep ==
    ASSUME NEW p \in Callers, Inv, Sync(p) PROVE Inv' /\ Simulates
<1>1. /\ pc[p] = "sync" /\ pc' = [pc EXCEPT ![p] = "return"]
      /\ outcome' = [outcome EXCEPT ![p] = "ok"]
      /\ UNCHANGED <<dirs, files, calls, at, faults, excused>>
  BY DEF Sync, Ends, Goto
<1>2. /\ Progressed(p) /\ calls[p].op = "put" /\ files[calls[p].to] = calls[p].body
      /\ outcome[p] = "pending" /\ Shaped(calls[p]) /\ calls[p] # None
  BY <1>1, CallFacts DEF Progressed
<1>3. TypeOK'
  <2>1. dirs' \subseteq Dirs /\ excused' \subseteq Dirs /\ "return" \in Steps
        /\ files' \in [Objects -> Contract!Contents \cup {None}]
    BY <1>1 DEF Inv, TypeOK, Contract!ContractTypeOK, Steps
  <2>2. QED
    BY <1>1, <2>1, StepType
<1>4. /\ pc'[p] = "return" /\ outcome'[p] = "ok"
      /\ \A q \in Callers \ {p} : pc'[q] = pc[q] /\ outcome'[q] = outcome[q]
  BY <1>1 DEF Inv, TypeOK, Contract!ContractTypeOK
<1>5. Frame(p)
  BY <1>1, <1>2, <1>4 DEF Frame
<1>6. Progressed(p)'
  BY <1>1, <1>2, <1>4 DEF Progressed
<1>7. Contract!Stored(p)
  BY <1>1, <1>2 DEF Contract!Stored, Contract!Pending, Contract!Decide
<1>8. QED
  BY <1>1, <1>3, <1>5, <1>6, <1>7, FramedStep, WriteRooted DEF Inv, Simulates, Contract!Next

(* Rename relocates the object at once, or leaves it to the copy. *)
LEMMA RenameStep ==
    ASSUME NEW p \in Callers, Inv, Rename(p) PROVE Inv' /\ Simulates
<1>1. pc[p] = "rename" /\ UNCHANGED <<dirs, calls, at, faults, excused>>
  BY DEF Rename
<1>2. /\ Progressed(p) /\ calls[p].op = "move" /\ outcome[p] = "pending"
      /\ Shaped(calls[p]) /\ calls[p] # None
  BY <1>1, CallFacts DEF Progressed
<1>3. /\ Source(p) \in Objects /\ calls[p].from = {Source(p)}
      /\ Source(p) \in Contract!Touches(calls[p])
      /\ Target(p) \in Objects /\ Target(p) \in Contract!Touches(calls[p])
      /\ Target(p) = calls[p].to
  BY <1>1, <1>2, CallFacts DEF Target
<1>4. CASE ~CanRename(p) /\ Goto(p, "open") /\ UNCHANGED <<files, outcome>>
  <2>1. pc' = [pc EXCEPT ![p] = "open"]
    BY <1>4 DEF Goto
  <2>2. "open" \in Steps \ {"idle"} /\ excused' \subseteq Dirs
    BY <1>1 DEF Steps, Inv, TypeOK
  <2>3. pc'[p] = "open"
    BY <2>1 DEF Inv, TypeOK
  <2>4. Progressed(p)'
    BY <1>1, <1>2, <1>4, <2>3 DEF Progressed
  <2>5. QED
    BY <1>1, <1>4, <2>1, <2>2, <2>4, QuietStep
<1>5. CASE /\ CanRename(p) /\ Goto(p, "readdir")
           /\ files' = [files EXCEPT ![Source(p)] = None, ![Target(p)] = files[Source(p)]]
           /\ outcome' = [outcome EXCEPT ![p] = "ok"]
  <2>1. pc' = [pc EXCEPT ![p] = "readdir"] /\ "readdir" \in Steps
    BY <1>5 DEF Goto, Steps
  <2>2. files[Source(p)] # None /\ Target(p).dir \in dirs
    BY <1>5 DEF CanRename
  <2>3. files' \in [Objects -> Contract!Contents \cup {None}]
    BY <1>3, <1>5 DEF Inv, TypeOK, Contract!ContractTypeOK
  <2>4. TypeOK'
    <3>1. dirs' \subseteq Dirs /\ excused' \subseteq Dirs
      BY <1>1 DEF Inv, TypeOK
    <3>2. QED
      BY <1>1, <1>5, <2>1, <2>3, <3>1, StepType
  <2>5. \A o \in Objects : o # Source(p) /\ o # Target(p) => files'[o] = files[o]
    BY <1>5 DEF Inv, TypeOK, Contract!ContractTypeOK
  <2>6. \A o \in Objects : files'[o] # None => files[o] # None \/ o.dir \in dirs
    BY <2>2, <2>5
  <2>7. /\ pc'[p] = "readdir" /\ outcome'[p] = "ok"
        /\ \A q \in Callers \ {p} : pc'[q] = pc[q] /\ outcome'[q] = outcome[q]
    BY <1>5, <2>1 DEF Inv, TypeOK, Contract!ContractTypeOK
  <2>8. Frame(p)
    BY <1>1, <1>2, <1>3, <2>5, <2>7 DEF Frame
  <2>9. Progressed(p)'
    BY <1>1, <1>2, <2>7 DEF Progressed
  <2>10. Contract!Relocate(p)
    BY <1>1, <1>2, <1>3, <1>5, <2>2
    DEF Contract!Relocate, Contract!Pending, Contract!Decide
  <2>11. Rooted'
    BY <1>1, <2>6, WriteRooted
  <2>12. QED
    BY <1>1, <2>4, <2>8, <2>9, <2>10, <2>11, FramedStep DEF Inv, Simulates, Contract!Next
<1>6. QED
  BY <1>4, <1>5 DEF Rename

(* The copy starts from what the source holds. *)
LEMMA OpenSourceStep ==
    ASSUME NEW p \in Callers, Inv, OpenSource(p) PROVE Inv' /\ Simulates
<1>1. pc[p] = "open" /\ UNCHANGED <<dirs, files, at, faults>>
  BY DEF OpenSource
<1>2. /\ Progressed(p) /\ calls[p].op = "move" /\ outcome[p] = "pending"
      /\ Shaped(calls[p]) /\ calls[p] # None /\ calls[p] \in Contract!Call
  BY <1>1, CallFacts DEF Progressed
<1>3. Source(p) \in Objects /\ calls[p].from = {Source(p)}
  BY <1>1, <1>2, CallFacts
<1>4. CASE files[Source(p)] = None /\ Error(p) /\ UNCHANGED calls
  BY <1>1, <1>2, <1>4, ErrorStep
<1>5. CASE /\ files[Source(p)] # None /\ Goto(p, "create")
           /\ calls' = [calls EXCEPT ![p].body = files[Source(p)]]
           /\ UNCHANGED <<outcome, excused>>
  <2>1. pc' = [pc EXCEPT ![p] = "create"]
    BY <1>5 DEF Goto
  <2> DEFINE c == [calls[p] EXCEPT !.body = files[Source(p)]]
  <2>2. files[Source(p)] \in Contract!Contents
    BY <1>3, <1>5 DEF Inv, TypeOK, Contract!ContractTypeOK
  <2>3. /\ c \in Contract!Call /\ c.op = "move" /\ c.from = calls[p].from
        /\ c.to = calls[p].to /\ c.body = files[Source(p)]
    BY <1>2, <2>2 DEF Contract!Call
  <2>4. calls' = [calls EXCEPT ![p] = c]
    BY <1>5
  <2> HIDE DEF c
  <2>5. calls' \in [Callers -> Contract!Call \cup {None}]
    BY <2>3, <2>4 DEF Inv, TypeOK, Contract!ContractTypeOK
  <2>6. TypeOK'
    BY <1>1, <1>5, <2>1, <2>5 DEF Inv, TypeOK, Contract!ContractTypeOK, Steps
  <2>7. /\ pc'[p] = "create" /\ calls'[p] = c
        /\ \A q \in Callers \ {p} : pc'[q] = pc[q] /\ calls'[q] = calls[q]
    BY <2>1, <2>4 DEF Inv, TypeOK, Contract!ContractTypeOK
  <2>8. c # None
    BY <2>3, NoneAssumption
  <2>9. Frame(p)
    BY <1>1, <1>5, <2>3, <2>7, <2>8 DEF Frame
  <2>10. Shaped(c)
    BY <1>2, <2>3 DEF Shaped
  <2>11. Progressed(p)'
    BY <1>1, <1>2, <1>5, <2>3, <2>7, <2>10 DEF Progressed
  <2>12. Contract!ReadSource(p)
    BY <1>1, <1>2, <1>3, <1>5 DEF Contract!ReadSource, Contract!Pending
  <2>13. QED
    BY <1>1, <2>6, <2>9, <2>11, <2>12, FramedStep, WriteRooted
    DEF Inv, Simulates, Contract!Next
<1>6. QED
  BY <1>4, <1>5 DEF OpenSource

(* The removal of a file: a delete's object, or a moved source whose copy is whole. *)
LEMMA UnlinkStep ==
    ASSUME NEW p \in Callers, Inv, Unlink(p) PROVE Inv' /\ Simulates
<1>1. pc[p] = "unlink" /\ UNCHANGED <<dirs, calls, at, faults>>
  BY DEF Unlink
<1>2. /\ Progressed(p) /\ outcome[p] = "pending" /\ Shaped(calls[p]) /\ calls[p] # None
      /\ \/ calls[p].op = "delete"
         \/ /\ calls[p].op = "move" /\ calls[p].body # None
            /\ files[calls[p].to] = calls[p].body
  BY <1>1, CallFacts DEF Progressed
<1>3. /\ Source(p) \in Objects /\ calls[p].from = {Source(p)}
      /\ Source(p) \in Contract!Touches(calls[p])
  BY <1>1, <1>2, CallFacts
<1>4. CASE calls[p].op = "move" /\ files[Source(p)] = None /\ Error(p) /\ UNCHANGED files
  BY <1>1, <1>2, <1>4, ErrorStep
<1>5. CASE /\ calls[p].op = "delete" \/ files[Source(p)] # None
           /\ Write(Source(p), None) /\ Goto(p, "readdir")
           /\ outcome' = [outcome EXCEPT ![p] = "ok"] /\ UNCHANGED excused
  <2>1. pc' = [pc EXCEPT ![p] = "readdir"] /\ "readdir" \in Steps
        /\ files' = [files EXCEPT ![Source(p)] = None]
    BY <1>5 DEF Goto, Steps, Write
  <2>2. files' \in [Objects -> Contract!Contents \cup {None}]
    BY <2>1 DEF Inv, TypeOK, Contract!ContractTypeOK
  <2>3. TypeOK'
    <3>1. dirs' \subseteq Dirs /\ excused' \subseteq Dirs
      BY <1>1, <1>5 DEF Inv, TypeOK
    <3>2. QED
      BY <1>1, <1>5, <2>1, <2>2, <3>1, StepType
  <2>4. /\ files'[Source(p)] = None
        /\ \A o \in Objects : o # Source(p) => files'[o] = files[o]
    BY <1>3, <2>1 DEF Inv, TypeOK, Contract!ContractTypeOK
  <2>5. Rooted'
    BY <1>1, <2>4, WriteRooted
  <2>6. /\ pc'[p] = "readdir" /\ outcome'[p] = "ok"
        /\ \A q \in Callers \ {p} : pc'[q] = pc[q] /\ outcome'[q] = outcome[q]
    BY <1>5, <2>1 DEF Inv, TypeOK, Contract!ContractTypeOK
  <2>7. Frame(p)
    BY <1>1, <1>2, <1>3, <2>4, <2>6 DEF Frame
  <2>8. Progressed(p)'
    BY <1>1, <1>2, <2>6 DEF Progressed
  <2>9. Contract!Remove(p) \/ Contract!DropSource(p)
    <3>1. CASE calls[p].op = "delete"
      <4>1. files' = [o \in Objects |-> IF o \in calls[p].from THEN None ELSE files[o]]
        BY <1>3, <2>2, <2>4
      <4>2. QED
        BY <1>1, <1>2, <1>5, <3>1, <4>1 DEF Contract!Remove, Contract!Pending, Contract!Decide
    <3>2. CASE calls[p].op # "delete"
      BY <1>1, <1>2, <1>3, <1>5, <2>1, <3>2
      DEF Contract!DropSource, Contract!Pending, Contract!Decide
    <3>3. QED
      BY <3>1, <3>2
  <2>10. QED
    BY <1>1, <2>3, <2>5, <2>7, <2>8, <2>9, FramedStep DEF Inv, Simulates, Contract!Next
<1>6. QED
  BY <1>4, <1>5 DEF Unlink

(* Pruning changes no object: it removes directories that are empty. *)
LEMMA PruneStep ==
    ASSUME NEW p \in Callers, Inv, PruneRead(p) \/ PruneRemove(p) PROVE Inv' /\ Simulates
<1>1. /\ pc[p] \in {"readdir", "rmdir"}
      /\ UNCHANGED <<files, calls, outcome, faults>>
  BY DEF PruneRead, PruneRemove
<1>2. /\ Progressed(p) /\ outcome[p] = "ok" /\ Shaped(calls[p]) /\ calls[p] # None
      /\ pc[p] # "idle"
  BY <1>1, CallFacts DEF Progressed
<1>3. ASSUME NEW step \in {"readdir", "rmdir", "return"}, pc' = [pc EXCEPT ![p] = step]
      PROVE  Progressed(p)'
  <2>1. pc'[p] = step
    BY <1>3 DEF Inv, TypeOK
  <2>2. QED
    BY <1>1, <1>2, <1>3, <2>1 DEF Progressed
<1>4. CASE UNCHANGED <<dirs, at, excused>>
           /\ \E step \in {"readdir", "rmdir", "return"} : Goto(p, step)
  <2>1. PICK step \in {"readdir", "rmdir", "return"} : pc' = [pc EXCEPT ![p] = step]
    BY <1>4 DEF Goto
  <2>2. step \in Steps \ {"idle"} /\ excused' \subseteq Dirs
    BY <1>4 DEF Steps, Inv, TypeOK
  <2>3. QED
    BY <1>1, <1>2, <1>3, <1>4, <2>1, <2>2, QuietStep
<1>5. CASE /\ at[p] \in dirs /\ Empty(at[p])
           /\ dirs' = dirs \ {at[p]} /\ excused' = excused \ {at[p]}
           /\ at' = [at EXCEPT ![p] = Parent(@)]
           /\ Goto(p, "readdir")
  <2>1. pc' = [pc EXCEPT ![p] = "readdir"] /\ "readdir" \in Steps
    BY <1>5 DEF Goto, Steps
  <2>2. Parent(at[p]) \in Dirs \cup {Base}
    BY <1>5, ParentType DEF Inv, TypeOK
  <2>3. TypeOK'
    BY <1>1, <1>5, <2>1, <2>2 DEF Inv, TypeOK, Contract!ContractTypeOK
  <2>4. Rooted'
    BY <1>1, <1>5, RmdirRooted
  <2>5. /\ pc'[p] = "readdir"
        /\ \A q \in Callers \ {p} : pc'[q] = pc[q] /\ at'[q] = at[q]
    BY <1>5, <2>1 DEF Inv, TypeOK
  <2>6. Frame(p)
    BY <1>1, <1>2, <2>5 DEF Frame
  <2>7. QED
    BY <1>1, <1>2, <1>3, <2>1, <2>3, <2>4, <2>6, FramedStep
    DEF Inv, Simulates, Contract!vars
<1>6. QED
  BY <1>4, <1>5 DEF PruneRead, PruneRemove

(* A tree that does not exist holds no object. *)
LEMMA NoTreeNoFiles ==
    ASSUME Inv, NEW d \in Dirs \cup {Base}, d \notin dirs
    PROVE  \A o \in Below(d) : files[o] = None
<1>1. ASSUME NEW o \in Below(d), files[o] # None PROVE FALSE
  <2>1. o \in Objects /\ d \in Above(o.dir)
    BY DEF Below
  <2>2. o.dir \in dirs /\ Above(o.dir) \subseteq dirs
    BY <1>1, <2>1 DEF Inv, Orderly, Rooted
  <2>3. QED
    BY <2>1, <2>2
<1>2. QED
  BY <1>1

(* RemoveTree reports success when nothing is left of the tree. *)
LEMMA TreeDoneStep ==
    ASSUME NEW p \in Callers, Inv, pc[p] \in {"stat", "removeall"}, at[p] \notin dirs,
           Ends(p, "ok"), UNCHANGED <<dirs, files, calls, at, faults, excused>>
    PROVE  Inv' /\ Simulates
<1>1. pc' = [pc EXCEPT ![p] = "return"] /\ outcome' = [outcome EXCEPT ![p] = "ok"]
  BY DEF Ends, Goto
<1>2. /\ Progressed(p) /\ calls[p].op = "removetree" /\ calls[p].from = Below(at[p])
      /\ outcome[p] = "pending" /\ Shaped(calls[p]) /\ calls[p] # None /\ pc[p] # "idle"
  BY CallFacts DEF Progressed
<1>3. TypeOK'
  <2>1. dirs' \subseteq Dirs /\ excused' \subseteq Dirs /\ "return" \in Steps
        /\ files' \in [Objects -> Contract!Contents \cup {None}]
    BY DEF Inv, TypeOK, Contract!ContractTypeOK, Steps
  <2>2. QED
    BY <1>1, <2>1, StepType
<1>4. /\ pc'[p] = "return" /\ outcome'[p] = "ok"
      /\ \A q \in Callers \ {p} : pc'[q] = pc[q] /\ outcome'[q] = outcome[q]
  BY <1>1 DEF Inv, TypeOK, Contract!ContractTypeOK
<1>5. Frame(p)
  BY <1>2, <1>4 DEF Frame
<1>6. Progressed(p)'
  BY <1>2, <1>4 DEF Progressed
<1>7. Contract!Remove(p)
  <2>1. \A o \in calls[p].from : files[o] = None
    BY <1>2, NoTreeNoFiles DEF Inv, TypeOK
  <2>2. files' = [o \in Objects |-> IF o \in calls[p].from THEN None ELSE files[o]]
    BY <2>1 DEF Inv, TypeOK, Contract!ContractTypeOK
  <2>3. QED
    BY <1>1, <1>2, <2>2 DEF Contract!Remove, Contract!Pending, Contract!Decide
<1>8. QED
  BY <1>3, <1>5, <1>6, <1>7, FramedStep, WriteRooted DEF Inv, Simulates, Contract!Next

(* RemoveAll takes files of its own tree, and directories with nothing in them. *)
LEMMA TreeStep ==
    ASSUME NEW p \in Callers, Inv,
           TreeStat(p) \/ TreeUnlink(p) \/ TreeRmdir(p) \/ TreeGone(p)
    PROVE  Inv' /\ Simulates
<1>1. pc[p] \in {"stat", "removeall"} /\ UNCHANGED <<calls, at, faults>>
  BY DEF TreeStat, TreeUnlink, TreeRmdir, TreeGone
<1>2. /\ Progressed(p) /\ calls[p].op = "removetree" /\ calls[p].from = Below(at[p])
      /\ outcome[p] = "pending" /\ Shaped(calls[p]) /\ calls[p] # None /\ pc[p] # "idle"
  BY <1>1, CallFacts DEF Progressed
<1>3. CASE TreeGone(p) \/ (TreeStat(p) /\ at[p] \notin dirs /\ Ends(p, "ok"))
  BY <1>3, TreeDoneStep DEF TreeGone, TreeStat
<1>4. CASE TreeStat(p) /\ Goto(p, "removeall") /\ UNCHANGED outcome
  <2>1. pc' = [pc EXCEPT ![p] = "removeall"] /\ "removeall" \in Steps \ {"idle"}
    BY <1>4 DEF Goto, Steps
  <2>2. UNCHANGED <<dirs, files, excused>>
    BY <1>4 DEF TreeStat
  <2>3. pc'[p] = "removeall" /\ excused' \subseteq Dirs
    BY <2>1, <2>2 DEF Inv, TypeOK
  <2>4. Progressed(p)'
    BY <1>1, <1>2, <1>4, <2>2, <2>3 DEF Progressed
  <2>5. QED
    BY <1>1, <1>2, <1>4, <2>1, <2>2, <2>3, <2>4, QuietStep
<1>5. CASE TreeUnlink(p)
  <2>1. PICK o \in Below(at[p]) : files' = [files EXCEPT ![o] = None]
    BY <1>5 DEF TreeUnlink, Write
  <2>2. UNCHANGED <<dirs, outcome, pc, excused>>
    BY <1>5 DEF TreeUnlink
  <2>3. o \in Objects /\ o \in Contract!Touches(calls[p])
    BY <1>2, NoneAssumption DEF Below, Contract!Touches
  <2>4. TypeOK'
    BY <1>1, <2>1, <2>2 DEF Inv, TypeOK, Contract!ContractTypeOK
  <2>5. /\ files'[o] = None
        /\ \A x \in Objects : x # o => files'[x] = files[x]
    BY <2>1, <2>3 DEF Inv, TypeOK, Contract!ContractTypeOK
  <2>6. Rooted'
    BY <2>2, <2>5, WriteRooted
  <2>7. Frame(p)
    BY <1>1, <1>2, <2>2, <2>3, <2>5 DEF Frame
  <2>8. Progressed(p)'
    BY <1>1, <1>2, <2>2 DEF Progressed
  <2>9. Contract!Shrink(p)
    BY <1>1, <1>2, <2>1, <2>2 DEF Contract!Shrink, Contract!Pending
  <2>10. QED
    BY <1>2, <2>4, <2>6, <2>7, <2>8, <2>9, FramedStep DEF Inv, Simulates, Contract!Next
<1>6. CASE TreeRmdir(p)
  <2>1. PICK d \in dirs : /\ at[p] \in Above(d) /\ Empty(d) /\ dirs' = dirs \ {d}
                          /\ excused' = (excused \cup Above(at[p])) \ {d}
    BY <1>6 DEF TreeRmdir
  <2>2. UNCHANGED <<files, outcome, pc>>
    BY <1>6 DEF TreeRmdir
  <2>3. d \in Dirs /\ at[p] \in Dirs
    BY <2>1, DirsAssumption DEF Inv, TypeOK
  <2>4. TypeOK'
    BY <1>1, <2>1, <2>2, <2>3, DirsAssumption DEF Inv, TypeOK, Contract!ContractTypeOK
  <2>5. Rooted'
    BY <2>1, <2>2, RmdirRooted
  <2>6. Frame(p)
    BY <1>1, <1>2, <2>2 DEF Frame
  <2>7. Progressed(p)'
    BY <1>1, <1>2, <2>2 DEF Progressed
  <2>8. QED
    BY <1>1, <1>2, <2>2, <2>4, <2>5, <2>6, <2>7, FramedStep DEF Inv, Simulates, Contract!vars
<1>7. QED
  BY <1>3, <1>4, <1>5, <1>6 DEF TreeStat

(* A system call that fails by itself. *)
LEMMA FaultStep ==
    ASSUME NEW p \in Callers, Inv, Fault(p) PROVE Inv' /\ Simulates
<1>1. /\ pc[p] \notin {"idle", "return"} /\ UNCHANGED <<dirs, files, calls, at>>
      /\ faults' \in 0..MaxFaults
  BY BoundsAssumption DEF Fault, Inv, TypeOK
<1>2. Progressed(p) /\ Shaped(calls[p])
  BY <1>1, CallFacts
<1>3. CASE outcome[p] = "pending" /\ Error(p)
  BY <1>1, <1>3, ErrorStep
<1>4. CASE /\ outcome[p] # "pending" /\ Goto(p, "return")
           /\ excused' = excused \cup Above(at[p]) /\ UNCHANGED outcome
  <2>1. pc' = [pc EXCEPT ![p] = "return"] /\ "return" \in Steps \ {"idle"}
    BY <1>4 DEF Goto, Steps
  <2>2. Above(Base) = {}
    BY DEF Above, Base
  <2>3. pc'[p] = "return" /\ excused' \subseteq Dirs
    BY <1>4, <2>1, <2>2, DirsAssumption DEF Inv, TypeOK
  <2>4. Progressed(p)'
    BY <1>1, <1>2, <1>4, <2>3 DEF Progressed
  <2>5. QED
    BY <1>1, <1>4, <2>1, <2>3, <2>4, QuietStep
<1>5. CASE pc[p] = "rename" /\ Goto(p, "open") /\ UNCHANGED <<outcome, excused>>
  <2>1. pc' = [pc EXCEPT ![p] = "open"] /\ "open" \in Steps \ {"idle"}
    BY <1>5 DEF Goto, Steps
  <2>2. pc'[p] = "open" /\ excused' \subseteq Dirs
    BY <1>5, <2>1 DEF Inv, TypeOK
  <2>3. Progressed(p)'
    BY <1>1, <1>2, <1>5, <2>2 DEF Progressed
  <2>4. QED
    BY <1>1, <1>5, <2>1, <2>2, <2>3, QuietStep
<1>6. QED
  BY <1>3, <1>4, <1>5 DEF Fault

(* A call that returns names nothing any more. *)
LEMMA ReturnStep ==
    ASSUME NEW p \in Callers, Inv, Return(p) PROVE Inv' /\ Simulates
<1>1. /\ pc[p] = "return" /\ Contract!Return(p) /\ pc' = [pc EXCEPT ![p] = "idle"]
      /\ calls' = [calls EXCEPT ![p] = None]
      /\ UNCHANGED <<dirs, files, outcome, at, faults, excused>>
  BY DEF Return, Goto, Contract!Return
<1>2. TypeOK'
  BY <1>1 DEF Inv, TypeOK, Contract!ContractTypeOK, Steps
<1>3. /\ pc'[p] = "idle" /\ calls'[p] = None
      /\ \A q \in Callers \ {p} : pc'[q] = pc[q] /\ calls'[q] = calls[q]
  BY <1>1 DEF Inv, TypeOK, Contract!ContractTypeOK
<1>4. ASSUME NEW q \in Callers, calls'[q] # None PROVE Progressed(q)'
  <2>1. q # p /\ Progressed(q)
    BY <1>3, <1>4 DEF Inv, Orderly
  <2>2. QED
    BY <1>1, <1>3, <2>1 DEF Progressed
<1>5. ASSUME NEW q \in Callers PROVE (pc[q] = "idle" <=> calls[q] = None)'
  BY <1>3 DEF Inv, Orderly
<1>6. ASSUME NEW q \in Callers, NEW r \in Callers, q # r, calls'[q] # None, calls'[r] # None
      PROVE  Contract!Compatible(calls'[q], calls'[r])
  BY <1>3, <1>6 DEF Inv, Orderly
<1>7. Orderly'
  BY <1>1, <1>4, <1>5, <1>6, WriteRooted DEF Orderly
<1>8. QED
  BY <1>1, <1>2, <1>7 DEF Inv, Simulates, Contract!Next

-----------------------------------------------------------------------------
(* The initial tree is in order. *)
LEMMA InitInv == Init => Inv
<1> SUFFICES ASSUME Init PROVE Inv
  OBVIOUS
<1>1. \A o \in Standing : o \in Objects /\ o.dir \in Dirs
  BY BoundsAssumption DEF Objects
<1>2. dirs \subseteq Dirs
  BY <1>1, DirsAssumption DEF Init
<1>3. TypeOK
  BY <1>2, BoundsAssumption
  DEF Init, Contract!Init, TypeOK, Contract!ContractTypeOK, Contract!Contents, Steps
<1>4. Rooted
  <2>1. ASSUME NEW o \in Objects, files[o] # None PROVE o.dir \in dirs
    BY <1>1, <2>1, AboveFacts DEF Init
  <2>2. ASSUME NEW d \in dirs PROVE Above(d) \subseteq dirs
    <3>1. PICK o \in Standing : d \in Above(o.dir)
      BY DEF Init
    <3>2. Above(d) \subseteq Above(o.dir)
      BY <1>1, <3>1, AboveFacts
    <3>3. QED
      BY <3>2 DEF Init
  <2>3. QED
    BY <2>1, <2>2 DEF Rooted
<1>5. QED
  BY <1>3, <1>4 DEF Inv, Orderly, Init, Contract!Init

(* Each step keeps the invariant and is allowed by the contract. *)
LEMMA StepInv == Inv /\ [Next]_vars => Inv' /\ Simulates
<1> SUFFICES ASSUME Inv, [Next]_vars PROVE Inv' /\ Simulates
  OBVIOUS
<1>1. CASE UNCHANGED vars
  <2>1. TypeOK'
    BY <1>1 DEF Inv, TypeOK, Contract!ContractTypeOK, vars
  <2>2. Rooted'
    BY <1>1 DEF Inv, Orderly, Rooted, vars
  <2>3. ASSUME NEW p \in Callers, calls'[p] # None PROVE Progressed(p)'
    BY <1>1, <2>3 DEF Inv, Orderly, Progressed, vars
  <2>4. Orderly'
    BY <1>1, <2>2, <2>3 DEF Inv, Orderly, vars
  <2>5. QED
    BY <1>1, <2>1, <2>4 DEF Inv, Simulates, Contract!vars, vars
<1>2. ASSUME NEW p \in Callers,
             \/ BeginPut(p) \/ BeginCreate(p) \/ BeginDelete(p)
             \/ BeginMove(p) \/ BeginRemoveTree(p)
      PROVE  Inv' /\ Simulates
  BY <1>2, BeginStep
<1>3. ASSUME NEW p \in Callers, MkdirAll(p) \/ OsCreate(p) \/ Copy(p) \/ Sync(p)
      PROVE  Inv' /\ Simulates
  BY <1>3, MkdirAllStep, OsCreateStep, CopyStep, SyncStep
<1>4. ASSUME NEW p \in Callers, Rename(p) \/ OpenSource(p) \/ Unlink(p)
      PROVE  Inv' /\ Simulates
  BY <1>4, RenameStep, OpenSourceStep, UnlinkStep
<1>5. ASSUME NEW p \in Callers, PruneRead(p) \/ PruneRemove(p) PROVE Inv' /\ Simulates
  BY <1>5, PruneStep
<1>6. ASSUME NEW p \in Callers,
             TreeStat(p) \/ TreeUnlink(p) \/ TreeRmdir(p) \/ TreeGone(p)
      PROVE  Inv' /\ Simulates
  BY <1>6, TreeStep
<1>7. ASSUME NEW p \in Callers, Fault(p) \/ Return(p) PROVE Inv' /\ Simulates
  BY <1>7, FaultStep, ReturnStep
<1>8. QED
  BY <1>1, <1>2, <1>3, <1>4, <1>5, <1>6, <1>7 DEF Next

(* The driver's state has its types and its calls are in order, always:      *)
(* filesystem.go under every interleaving of its system calls.               *)
THEOREM OrderlyAlways == Spec => [](TypeOK /\ Orderly)
<1>1. Inv /\ [Next]_vars => Inv'
  BY StepInv
<1>2. Inv <=> TypeOK /\ Orderly
  BY DEF Inv
<1>3. QED
  BY InitInv, <1>1, <1>2, PTL DEF Spec

(* filesystem.go keeps the contract of driver.go: each of its steps is a     *)
(* step of ObjectStore, or changes nothing there.                            *)
THEOREM DriverImplementsContract == Spec => ImplementsContract
<1>1. Init => Contract!Init
  BY DEF Init
<1>2. Inv /\ [Next]_vars => Inv' /\ [Contract!Next]_Contract!vars
  BY StepInv DEF Simulates
<1>3. QED
  BY <1>1, <1>2, InitInv, PTL DEF Spec, ImplementsContract, Contract!Spec

(* The driver's state has its types under every interleaving.                *)
THEOREM TypeCorrect == Spec => []TypeOK
BY OrderlyAlways, PTL

-----------------------------------------------------------------------------
(* Empty directories.  An empty directory that is not excused has a call     *)
(* under way that answers for it: one that has made it and not yet put its   *)
(* file there, one that is about to prune it, or one that removes a tree     *)
(* around it.                                                                *)
Answers(p, d) ==
    \/ pc[p] \in {"create", "rename", "open"} /\ d \in Above(Target(p).dir)
    \/ pc[p] \in {"readdir", "rmdir"} /\ d = at[p]
    \/ pc[p] = "removeall" /\ at[p] \in Above(d)
Answered == \A d \in dirs \ excused : Empty(d) => \E p \in Callers : Answers(p, d)

(* Pruning starts where the removed object stood.                            *)
AtSource(p) ==
    /\ pc[p] \in {"mkdir", "create", "copy", "rename", "open", "unlink"}
    /\ calls[p].op \in {"delete", "move"}
    => at[p] = Source(p).dir

Pruned == Answered /\ \A p \in Callers : AtSource(p)

(* In a rooted tree no directory on the way to a file is empty.              *)
LEMMA OccupiedAbove ==
    ASSUME NEW D, NEW F, NEW o \in Objects, F[o] # None, NEW d \in Above(o.dir),
           \A x \in Objects : F[x] # None => x.dir \in D,
           \A e \in D : Above(e) \subseteq D,
           \A x \in Objects : x.dir = d => F[x] = None
    PROVE  \E e \in D : Parent(e) = d
<1>1. o.dir \in Dirs /\ o.dir \in D /\ d # o.dir
  BY DEF Objects
<1>2. PICK f \in Above(o.dir) : Parent(f) = d
  BY <1>1, NextBelow
<1>3. QED
  BY <1>1, <1>2

(* What is above a directory, but for itself, is above its parent.           *)
LEMMA AboveParent ==
    ASSUME NEW x \in Dirs, NEW a \in Above(x), a # x
    PROVE  a \in Above(Parent(x))
<1>1. x \in Seq(STRING) /\ Len(x) \in Nat
  BY DirsAssumption
<1>2. PICK n \in 1..Len(x) : a = SubSeq(x, 1, n)
  BY DEF Above
<1>3. n # Len(x)
  BY <1>1, <1>2
<1>4. n \in 1..(Len(x) - 1) /\ Len(x) - 1 \in 1..Len(x)
  BY <1>1, <1>2, <1>3
<1>5. Len(Parent(x)) = Len(x) - 1 /\ SubSeq(Parent(x), 1, n) = SubSeq(x, 1, n)
  BY <1>1, <1>4 DEF Parent
<1>6. QED
  BY <1>2, <1>4, <1>5 DEF Above

(* An answer is lost only by a step of its own call, and a directory becomes *)
(* empty, or loses its excuse, only by the step of the call that answers.    *)
LEMMA OneStepAnswered ==
    ASSUME Answered, NEW p \in Callers,
           \A q \in Callers \ {p} : pc'[q] = pc[q] /\ at'[q] = at[q] /\ calls'[q] = calls[q],
           \A d \in dirs' \ excused' :
              Empty(d)' /\ (d \in dirs \ excused /\ Empty(d) => Answers(p, d)) => Answers(p, d)'
    PROVE  Answered'
<1> SUFFICES ASSUME NEW d \in dirs' \ excused', Empty(d)'
             PROVE  \E q \in Callers : Answers(q, d)'
  BY DEF Answered
<1>1. CASE d \in dirs \ excused /\ Empty(d)
  <2>1. PICK q \in Callers : Answers(q, d)
    BY <1>1 DEF Answered
  <2>2. CASE q = p
    BY <2>1, <2>2
  <2>3. CASE q # p
    BY <2>1, <2>3 DEF Answers, Target
  <2>4. QED
    BY <2>2, <2>3
<1>2. CASE ~(d \in dirs \ excused /\ Empty(d))
  BY <1>2
<1>3. QED
  BY <1>1, <1>2

(* The calls whose step of p changes none but p. *)
Alone(p) == \A q \in Callers \ {p} : /\ pc'[q] = pc[q] /\ at'[q] = at[q]
                                     /\ calls'[q] = calls[q]

(* A step of one call leaves the others where they prune. *)
LEMMA OthersAtSource ==
    ASSUME Pruned, NEW p \in Callers, Alone(p), AtSource(p)'
    PROVE  \A q \in Callers : AtSource(q)'
<1> SUFFICES ASSUME NEW q \in Callers, q # p PROVE AtSource(q)'
  OBVIOUS
<1>1. AtSource(q)
  BY DEF Pruned
<1>2. QED
  BY <1>1 DEF AtSource, Source, Alone

(* A step that leaves the tree, and whose call answers for nothing before or *)
(* goes on to answer for what it answered for.                               *)
LEMMA SameTree ==
    ASSUME Pruned, NEW p \in Callers, Alone(p), AtSource(p)',
           UNCHANGED <<dirs, files>>, excused \subseteq excused',
           \A d \in dirs \ excused' : Empty(d) /\ Answers(p, d) => Answers(p, d)'
    PROVE  Pruned'
<1>1. \A d : Empty(d)' <=> Empty(d)
  BY DEF Empty
<1>2. ASSUME NEW d \in dirs' \ excused', Empty(d)',
             d \in dirs \ excused /\ Empty(d) => Answers(p, d)
      PROVE  Answers(p, d)'
  BY <1>1, <1>2
<1>3. Answered'
  BY <1>2, OneStepAnswered DEF Pruned, Alone
<1>4. QED
  BY <1>3, OthersAtSource DEF Pruned

(* A call that begins has pruned nothing yet. *)
LEMMA BeginPruned ==
    ASSUME Inv, Pruned, NEW p \in Callers,
           BeginPut(p) \/ BeginCreate(p) \/ BeginDelete(p) \/ BeginMove(p) \/ BeginRemoveTree(p)
    PROVE  Pruned'
<1>1. ASSUME NEW c, NEW step, NEW d, Begin(p, c, step, d)
      PROVE  /\ Alone(p) /\ UNCHANGED <<dirs, files, excused>> /\ pc[p] = "idle"
             /\ calls'[p] = c /\ at'[p] = d
  BY <1>1 DEF Begin, Contract!Invoke, Alone, Goto, Inv, TypeOK, Contract!ContractTypeOK
<1>2. Alone(p) /\ UNCHANGED <<dirs, files, excused>> /\ pc[p] = "idle"
  BY <1>1 DEF BeginPut, BeginCreate, BeginDelete, BeginMove, BeginRemoveTree
<1>3. AtSource(p)'
  <2>1. ASSUME BeginPut(p) \/ BeginCreate(p) \/ BeginRemoveTree(p)
        PROVE  calls'[p].op \in {"put", "create", "removetree"}
    <3>1. \/ \E o \in Objects, v \in Bodies : calls'[p] = Contract!Put(o, v)
          \/ \E o \in Objects : calls'[p] = Contract!Create(o)
          \/ \E d \in Dirs : calls'[p] = Contract!RemoveTree(Below(d))
      BY <1>1, <2>1 DEF BeginPut, BeginCreate, BeginRemoveTree
    <3>2. ASSUME NEW o, NEW v, NEW S
          PROVE  /\ Contract!Put(o, v).op = "put" /\ Contract!Create(o).op = "create"
                 /\ Contract!RemoveTree(S).op = "removetree"
      BY DEF Contract!Put, Contract!Create, Contract!RemoveTree
    <3>3. QED
      BY <3>1, <3>2
  <2>2. ASSUME BeginDelete(p) \/ BeginMove(p)
        PROVE  \E o \in Objects : calls'[p].from = {o} /\ at'[p] = o.dir
    <3>1. \E o \in Objects :
             /\ at'[p] = o.dir
             /\ \/ calls'[p] = Contract!Delete(o)
                \/ \E d \in Objects : calls'[p] = Contract!Move(o, d)
      BY <1>1, <2>2 DEF BeginDelete, BeginMove
    <3>2. ASSUME NEW o, NEW d
          PROVE  Contract!Delete(o).from = {o} /\ Contract!Move(o, d).from = {o}
      BY DEF Contract!Delete, Contract!Move
    <3>3. QED
      BY <3>1, <3>2
  <2>3. QED
    BY <2>1, <2>2 DEF AtSource, Source
<1>4. \A d : ~Answers(p, d)
  BY <1>2 DEF Answers
<1>5. QED
  BY <1>2, <1>3, <1>4, SameTree

(* An empty directory that a write has made waits for its file. *)
LEMMA WritePruned ==
    ASSUME Inv, Inv', Pruned, NEW p \in Callers, MkdirAll(p) \/ OsCreate(p) \/ Copy(p) \/ Sync(p)
    PROVE  Pruned'
<1>1. /\ Alone(p) /\ at'[p] = at[p] /\ calls' = calls
      /\ pc[p] \in {"mkdir", "create", "copy", "sync"}
  BY DEF MkdirAll, OsCreate, Copy, Sync, Alone, Goto, Ends, Error, Inv, TypeOK
<1>2. AtSource(p)'
  <2>1. AtSource(p)
    BY DEF Pruned
  <2>2. pc[p] \in {"mkdir", "create", "copy"} \/ pc'[p] = "return"
    BY <1>1 DEF Sync, MkdirAll, OsCreate, Copy, Ends, Goto, Inv, TypeOK
  <2>3. QED
    BY <1>1, <2>1, <2>2 DEF AtSource, Source
<1>3. /\ Target(p) \in Objects /\ Target(p) # None /\ Target(p)' = Target(p)
      /\ Target(p).dir \in Dirs
      /\ (calls[p].body # None \/ pc[p] # "copy")
      /\ calls[p].op \in {"put", "create", "move"}
  BY <1>1, CallFacts DEF Progressed, Target
<1>4. ASSUME MkdirAll(p) PROVE Pruned'
  <2>1. /\ pc[p] = "mkdir" /\ pc'[p] \in {"rename", "create"} /\ excused' = excused
        /\ dirs' = dirs \cup Above(Target(p).dir) /\ files' = files
    BY <1>4 DEF MkdirAll, Goto, Inv, TypeOK
  <2>2. ASSUME NEW d \in dirs' \ excused', Empty(d)',
               d \in dirs \ excused /\ Empty(d) => Answers(p, d)
        PROVE  Answers(p, d)'
    <3>1. ~Answers(p, d)
      BY <2>1 DEF Answers
    <3>2. d \in dirs => Empty(d)
      BY <2>1, <2>2 DEF Empty
    <3>3. d \in Above(Target(p).dir)
      BY <2>1, <2>2, <3>1, <3>2
    <3>4. QED
      BY <1>3, <2>1, <3>3 DEF Answers
  <2>3. Answered'
    BY <1>1, <2>2, OneStepAnswered DEF Pruned, Alone
  <2>4. QED
    BY <1>1, <1>2, <2>3, OthersAtSource DEF Pruned
<1>5. ASSUME NEW v, v # None, files' = [files EXCEPT ![Target(p)] = v],
             UNCHANGED <<dirs, excused>>, pc[p] \in {"create", "copy"}
      PROVE  Pruned'
  <2>1. files'[Target(p)] # None /\ \A o \in Objects : files'[o] = None => files[o] = None
    BY <1>3, <1>5 DEF Inv, TypeOK, Contract!ContractTypeOK
  <2>2. ASSUME NEW d \in dirs, Empty(d)', Answers(p, d) PROVE FALSE
    <3>1. Target(p) \in Objects /\ d \in Above(Target(p).dir) /\ files'[Target(p)] # None
      BY <1>3, <1>5, <2>1, <2>2 DEF Answers
    <3>2. /\ \A x \in Objects : files'[x] # None => x.dir \in dirs'
          /\ \A e \in dirs' : Above(e) \subseteq dirs'
      BY DEF Inv, Orderly, Rooted
    <3>3. /\ \A x \in Objects : x.dir = d => files'[x] = None
          /\ \A e \in dirs' : Parent(e) # d
      BY <2>2 DEF Empty
    <3>4. \E e \in dirs' : Parent(e) = d
      BY ONLY <3>1, <3>2, <3>3, OccupiedAbove
    <3>5. QED
      BY <3>3, <3>4
  <2>3. \A d : Empty(d)' => Empty(d)
    BY <1>5, <2>1 DEF Empty
  <2>4. Answered'
    BY <1>1, <1>5, <2>2, <2>3, OneStepAnswered DEF Pruned, Alone
  <2>5. QED
    BY <1>1, <1>2, <2>4, OthersAtSource DEF Pruned
<1>6. ASSUME OsCreate(p) PROVE Pruned'
  <2>1. CASE Target(p).dir \in dirs
    <3>1. /\ pc[p] = "create" /\ UNCHANGED <<dirs, excused>>
          /\ files' = [files EXCEPT ![Target(p)] = Torn]
      BY <1>6, <2>1 DEF OsCreate, Write
    <3>2. Torn # None
      BY NoneAssumption
    <3>3. QED
      BY <1>5, <3>1, <3>2
  <2>2. CASE Target(p).dir \notin dirs
    <3>1. /\ pc[p] = "create" /\ UNCHANGED <<dirs, files>>
          /\ excused' = excused \cup Above(Target(p).dir)
      BY <1>3, <1>6, <2>2 DEF OsCreate, Error, Left
    <3>2. \A d : Answers(p, d) => d \in excused'
      BY <3>1 DEF Answers
    <3>3. QED
      BY <1>1, <1>2, <3>1, <3>2, SameTree
  <2>3. QED
    BY <2>1, <2>2
<1>7. ASSUME Copy(p) PROVE Pruned'
  BY <1>3, <1>5, <1>7 DEF Copy, Write
<1>8. ASSUME Sync(p) PROVE Pruned'
  <2>1. pc[p] = "sync" /\ UNCHANGED <<dirs, files, excused>>
    BY <1>8 DEF Sync
  <2>2. \A d : ~Answers(p, d)
    BY <2>1 DEF Answers
  <2>3. QED
    BY <1>1, <1>2, <2>1, <2>2, SameTree
<1>9. QED
  BY <1>4, <1>6, <1>7, <1>8

(* A Move that has taken the source away prunes next. *)
LEMMA MovePruned ==
    ASSUME Inv, Inv', Pruned, NEW p \in Callers, Rename(p) \/ OpenSource(p) \/ Unlink(p)
    PROVE  Pruned'
<1>1. /\ Alone(p) /\ at'[p] = at[p] /\ UNCHANGED dirs
      /\ calls'[p].from = calls[p].from /\ calls'[p].to = calls[p].to
      /\ calls'[p].op = calls[p].op
      /\ pc[p] \in {"rename", "open", "unlink"} /\ calls[p] # None
  BY CallFacts DEF Rename, OpenSource, Unlink, Alone, Goto, Ends, Error, Inv, TypeOK,
                   Contract!ContractTypeOK, Contract!Call
<1>2. /\ Source(p) \in Objects /\ at[p] = Source(p).dir
      /\ Source(p)' = Source(p) /\ Target(p)' = Target(p)
  BY <1>1, CallFacts DEF Pruned, AtSource, Progressed, Source, Target
<1>3. AtSource(p)'
  BY <1>1, <1>2 DEF AtSource
<1>4. /\ calls[p].op = "move" => /\ Target(p) \in Objects /\ Target(p) # None
                                 /\ Target(p).dir \in Dirs
      /\ pc[p] \in {"rename", "open"} => calls[p].op = "move"
  BY <1>1, CallFacts DEF Progressed
<1>5. ASSUME pc'[p] = "readdir", excused' = excused,
             \A o \in Objects \ {Source(p)} : files'[o] = None => files[o] = None,
             NEW d \in dirs \ excused, Empty(d)', ~Empty(d)
      PROVE  Answers(p, d)'
  <2>1. Source(p).dir = d
    BY <1>1, <1>5 DEF Empty
  <2>2. QED
    BY <1>1, <1>2, <1>5, <2>1 DEF Answers
<1>6. ASSUME Rename(p) PROVE Pruned'
  <2>1. CASE CanRename(p)
    <3>1. /\ pc'[p] = "readdir" /\ excused' = excused /\ pc[p] = "rename"
          /\ files' = [files EXCEPT ![Source(p)] = None, ![Target(p)] = files[Source(p)]]
          /\ files[Source(p)] # None
      BY <1>6, <2>1 DEF Rename, CanRename, Goto, Inv, TypeOK
    <3>2. files'[Target(p)] # None
      BY <1>4, <3>1 DEF Inv, TypeOK, Contract!ContractTypeOK
    <3>3. \A o \in Objects \ {Source(p)} : files'[o] = None => files[o] = None
      BY <3>1, <3>2 DEF Inv, TypeOK, Contract!ContractTypeOK
    <3>4. ASSUME NEW d \in dirs, Empty(d)', Answers(p, d) PROVE FALSE
      <4>1. Target(p) \in Objects /\ d \in Above(Target(p).dir)
        BY <1>4, <3>1, <3>4 DEF Answers
      <4>2. /\ \A x \in Objects : files'[x] # None => x.dir \in dirs'
            /\ \A e \in dirs' : Above(e) \subseteq dirs'
        BY DEF Inv, Orderly, Rooted
      <4>3. /\ \A x \in Objects : x.dir = d => files'[x] = None
            /\ \A e \in dirs' : Parent(e) # d
        BY <3>4 DEF Empty
      <4>4. \E e \in dirs' : Parent(e) = d
        BY ONLY <3>2, <4>1, <4>2, <4>3, OccupiedAbove
      <4>5. QED
        BY <4>3, <4>4
    <3>5. Answered'
      BY <1>1, <1>5, <3>1, <3>3, <3>4, OneStepAnswered DEF Pruned, Alone
    <3>6. QED
      BY <1>1, <1>3, <3>5, OthersAtSource DEF Pruned
  <2>2. CASE ~CanRename(p)
    <3>1. /\ pc[p] = "rename" /\ pc'[p] = "open" /\ UNCHANGED <<dirs, files, excused>>
      BY <1>6, <2>2 DEF Rename, Goto, Inv, TypeOK
    <3>2. \A d : Answers(p, d) => Answers(p, d)'
      BY <1>2, <3>1 DEF Answers
    <3>3. QED
      BY <1>1, <1>3, <3>1, <3>2, SameTree
  <2>3. QED
    BY <2>1, <2>2
<1>7. ASSUME OpenSource(p) PROVE Pruned'
  <2>1. /\ pc[p] = "open" /\ UNCHANGED <<dirs, files>>
        /\ \/ pc'[p] = "create" /\ excused' = excused
           \/ excused' = excused \cup Above(Target(p).dir)
    BY <1>4, <1>7 DEF OpenSource, Goto, Error, Left, Inv, TypeOK
  <2>2. \A d \in dirs \ excused' : Answers(p, d) => Answers(p, d)'
    BY <1>2, <2>1 DEF Answers
  <2>3. QED
    BY <1>1, <1>3, <2>1, <2>2, SameTree
<1>8. ASSUME Unlink(p) PROVE Pruned'
  <2>1. \A d : ~Answers(p, d)
    BY <1>8 DEF Unlink, Answers
  <2>2. CASE pc'[p] = "readdir" /\ files' = [files EXCEPT ![Source(p)] = None] /\ excused' = excused
    <3>1. \A o \in Objects \ {Source(p)} : files'[o] = None => files[o] = None
      BY <2>2 DEF Inv, TypeOK, Contract!ContractTypeOK
    <3>2. Answered'
      BY <1>1, <1>5, <2>1, <2>2, <3>1, OneStepAnswered DEF Pruned, Alone
    <3>3. QED
      BY <1>1, <1>3, <3>2, OthersAtSource DEF Pruned
  <2>3. CASE UNCHANGED files /\ excused \subseteq excused'
    BY <1>1, <1>3, <2>1, <2>3, SameTree
  <2>4. QED
    BY <1>8, <2>2, <2>3 DEF Unlink, Write, Goto, Error, Inv, TypeOK
<1>9. QED
  BY <1>6, <1>7, <1>8

(* Pruning goes up, and leaves off only at what is not empty. *)
LEMMA PrunePruned ==
    ASSUME Inv, Pruned, NEW p \in Callers, PruneRead(p) \/ PruneRemove(p)
    PROVE  Pruned'
<1>1. /\ Alone(p) /\ calls' = calls /\ files' = files
      /\ pc'[p] \in {"readdir", "rmdir", "return"}
  BY DEF PruneRead, PruneRemove, Alone, Goto, Inv, TypeOK
<1>2. AtSource(p)'
  BY <1>1 DEF AtSource
<1>3. ASSUME PruneRead(p) PROVE Pruned'
  <2>1. /\ pc[p] = "readdir" /\ UNCHANGED <<dirs, files, at, excused>>
        /\ at[p] \in dirs /\ Empty(at[p]) => pc'[p] = "rmdir"
    BY <1>3 DEF PruneRead, Goto, Inv, TypeOK
  <2>2. \A d \in dirs \ excused' : Empty(d) /\ Answers(p, d) => Answers(p, d)'
    BY <2>1 DEF Answers
  <2>3. QED
    BY <1>1, <1>2, <2>1, <2>2, SameTree
<1>4. ASSUME PruneRemove(p) PROVE Pruned'
  <2>1. CASE at[p] \in dirs /\ Empty(at[p])
    <3>1. /\ dirs' = dirs \ {at[p]} /\ excused' = excused \ {at[p]}
          /\ at'[p] = Parent(at[p]) /\ pc'[p] = "readdir" /\ pc[p] = "rmdir"
      BY <1>4, <2>1 DEF PruneRemove, Goto, Inv, TypeOK
    <3>2. ASSUME NEW d \in dirs' \ excused', Empty(d)',
                 d \in dirs \ excused /\ Empty(d) => Answers(p, d)
          PROVE  Answers(p, d)'
      <4>1. d \in dirs \ excused /\ d # at[p]
        BY <3>1, <3>2
      <4>2. ~Empty(d)
        BY <3>1, <3>2, <4>1 DEF Answers
      <4>3. d = Parent(at[p])
        BY <1>1, <3>1, <3>2, <4>2 DEF Empty
      <4>4. QED
        BY <3>1, <4>3 DEF Answers
    <3>3. Answered'
      BY <1>1, <3>2, OneStepAnswered DEF Pruned, Alone
    <3>4. QED
      BY <1>1, <1>2, <3>3, OthersAtSource DEF Pruned
  <2>2. CASE ~(at[p] \in dirs /\ Empty(at[p]))
    <3>1. pc[p] = "rmdir" /\ UNCHANGED <<dirs, files, excused>>
      BY <1>4, <2>2 DEF PruneRemove
    <3>2. \A d \in dirs \ excused' : ~(Empty(d) /\ Answers(p, d))
      BY <2>2, <3>1 DEF Answers
    <3>3. QED
      BY <1>1, <1>2, <3>1, <3>2, SameTree
  <2>3. QED
    BY <2>1, <2>2
<1>5. QED
  BY <1>3, <1>4

(* RemoveTree takes what it names with everything in it. *)
LEMMA TreePruned ==
    ASSUME Inv, Pruned, NEW p \in Callers,
           TreeStat(p) \/ TreeUnlink(p) \/ TreeRmdir(p) \/ TreeGone(p)
    PROVE  Pruned'
<1>1. /\ Alone(p) /\ calls' = calls /\ at' = at /\ pc[p] \in {"stat", "removeall"}
      /\ pc'[p] \in {"removeall", "return"}
  BY DEF TreeStat, TreeUnlink, TreeRmdir, TreeGone, Alone, Goto, Ends, Inv, TypeOK
<1>2. AtSource(p)'
  BY <1>1 DEF AtSource
<1>3. /\ dirs \subseteq Dirs /\ \A e \in dirs : Above(e) \subseteq dirs
  BY DEF Inv, TypeOK, Orderly, Rooted
<1>4. ASSUME TreeStat(p) PROVE Pruned'
  <2>1. (\A d : ~Answers(p, d)) /\ UNCHANGED <<dirs, files, excused>>
    BY <1>4 DEF TreeStat, Answers
  <2>2. QED
    BY <1>1, <1>2, <2>1, SameTree
<1>5. ASSUME TreeUnlink(p) PROVE Pruned'
  <2>1. PICK o \in Below(at[p]) : files' = [files EXCEPT ![o] = None]
    BY <1>5 DEF TreeUnlink, Write
  <2>2. UNCHANGED <<dirs, excused, pc>> /\ pc[p] = "removeall"
    BY <1>5 DEF TreeUnlink
  <2>3. ASSUME NEW d \in dirs \ excused, Empty(d)', Empty(d) => Answers(p, d)
        PROVE  Answers(p, d)'
    <3>1. CASE Empty(d)
      BY <1>1, <2>2, <2>3, <3>1 DEF Answers
    <3>2. CASE ~Empty(d)
      <4>1. d = o.dir
        BY <2>1, <2>2, <2>3, <3>2 DEF Empty, Inv, TypeOK, Contract!ContractTypeOK
      <4>2. QED
        BY <1>1, <2>2, <4>1 DEF Answers, Below
    <3>3. QED
      BY <3>1, <3>2
  <2>4. Answered'
    BY <1>1, <2>2, <2>3, OneStepAnswered DEF Pruned, Alone
  <2>5. QED
    BY <1>1, <1>2, <2>4, OthersAtSource DEF Pruned
<1>6. ASSUME TreeRmdir(p) PROVE Pruned'
  <2>1. PICK x \in dirs : /\ at[p] \in Above(x) /\ dirs' = dirs \ {x}
                          /\ excused' = (excused \cup Above(at[p])) \ {x}
    BY <1>6 DEF TreeRmdir
  <2>2. UNCHANGED <<files, pc>> /\ pc[p] = "removeall"
    BY <1>6 DEF TreeRmdir
  <2>3. ASSUME NEW d \in dirs' \ excused', Empty(d)',
               d \in dirs \ excused /\ Empty(d) => Answers(p, d)
        PROVE  Answers(p, d)'
    <3>1. d \in dirs \ excused /\ d \notin Above(at[p]) /\ d # x
      BY <2>1, <2>3
    <3>2. CASE Empty(d)
      BY <1>1, <2>2, <2>3, <3>1, <3>2 DEF Answers
    <3>3. CASE ~Empty(d)
      <4>1. d = Parent(x)
        BY <2>1, <2>2, <2>3, <3>3 DEF Empty
      <4>2. x \in Dirs /\ at[p] \in Dirs
        BY <1>3, <2>1, DirsAssumption
      <4>3. at[p] # x
        <5>1. ASSUME at[p] = x PROVE d \in Above(x)
          <6>1. d \in Above(d) /\ d \in Dirs
            BY <1>3, <3>1, AboveFacts
          <6>2. Len(x) \in Nat /\ x \in Seq(STRING) /\ d # Base
            BY <4>2, <6>1, DirsAssumption
          <6>3. Len(x) - 1 \in 1..Len(x)
            BY <4>1, <6>2 DEF Parent, Base
          <6>4. QED
            BY <4>1, <6>3 DEF Parent, Above
        <5>2. QED
          BY <3>1, <5>1
      <4>4. at[p] \in Above(d)
        BY <2>1, <4>1, <4>2, <4>3, AboveParent
      <4>5. QED
        BY <1>1, <2>2, <4>4 DEF Answers
    <3>4. QED
      BY <3>2, <3>3
  <2>4. Answered'
    BY <1>1, <2>3, OneStepAnswered DEF Pruned, Alone
  <2>5. QED
    BY <1>1, <1>2, <2>4, OthersAtSource DEF Pruned
<1>7. ASSUME TreeGone(p) PROVE Pruned'
  <2>1. pc[p] = "removeall" /\ at[p] \notin dirs /\ UNCHANGED <<dirs, files, excused>>
    BY <1>7 DEF TreeGone
  <2>2. \A d \in dirs : ~Answers(p, d)
    BY <1>3, <2>1 DEF Answers
  <2>3. QED
    BY <1>1, <1>2, <2>1, <2>2, SameTree
<1>8. QED
  BY <1>4, <1>5, <1>6, <1>7

(* A call that ends early excuses the directories it answered for. *)
LEMMA FaultPruned ==
    ASSUME Inv, Pruned, NEW p \in Callers, Fault(p) \/ Return(p)
    PROVE  Pruned'
<1>1. Alone(p) /\ at' = at /\ UNCHANGED <<dirs, files>>
  BY DEF Fault, Return, Contract!Return, Error, Ends, Goto, Alone, Inv, TypeOK,
         Contract!ContractTypeOK
<1>2. dirs \subseteq Dirs /\ \A d \in Dirs : d \in Above(d)
  BY AboveFacts DEF Inv, TypeOK
<1>3. ASSUME Return(p) PROVE Pruned'
  <2>1. (\A d : ~Answers(p, d)) /\ excused' = excused /\ pc'[p] = "idle"
    BY <1>3 DEF Return, Answers, Goto, Inv, TypeOK
  <2>2. AtSource(p)'
    BY <2>1 DEF AtSource
  <2>3. QED
    BY <1>1, <2>1, <2>2, SameTree
<1>4. ASSUME Fault(p) PROVE Pruned'
  <2>1. /\ pc[p] \notin {"idle", "return"} /\ calls' = calls
        /\ \/ /\ pc[p] # "rename" /\ outcome[p] = "pending"
              /\ pc'[p] = "return" /\ excused' = excused \cup Left(p)
           \/ /\ outcome[p] # "pending" /\ pc'[p] = "return"
              /\ excused' = excused \cup Above(at[p])
           \/ pc[p] = "rename" /\ pc'[p] = "open" /\ excused' = excused
    BY <1>4 DEF Fault, Error, Ends, Goto, Inv, TypeOK
  <2>2. AtSource(p)'
    BY <1>1, <2>1 DEF Pruned, AtSource, Source
  <2>3. ASSUME NEW d \in dirs \ excused', Answers(p, d) PROVE Answers(p, d)'
    <3>1. CASE pc[p] \in {"create", "rename", "open"}
      <4>1. /\ Target(p) # None /\ calls[p].op # "removetree"
            /\ outcome[p] = "pending"
        BY <3>1, CallFacts DEF Progressed
      <4>2. d \in Above(Target(p).dir) /\ Left(p) = Above(Target(p).dir)
        BY <2>3, <3>1, <4>1 DEF Answers, Left
      <4>3. QED
        BY <2>1, <2>3, <4>1, <4>2 DEF Answers, Target
    <3>2. CASE pc[p] \in {"readdir", "rmdir"}
      <4>1. outcome[p] # "pending"
        BY <3>2, CallFacts DEF Progressed
      <4>2. d \in Above(at[p])
        BY <1>2, <2>3, <3>2 DEF Answers
      <4>3. QED
        BY <2>1, <2>3, <3>2, <4>1, <4>2
    <3>3. CASE pc[p] = "removeall"
      <4>1. /\ Target(p) = None /\ calls[p].op = "removetree" /\ outcome[p] = "pending"
        BY <3>3, CallFacts DEF Progressed
      <4>2. d \in Left(p)
        BY <1>2, <2>3, <3>3, <4>1 DEF Answers, Left
      <4>3. QED
        BY <2>1, <2>3, <3>3, <4>1, <4>2
    <3>4. QED
      BY <2>3, <3>1, <3>2, <3>3 DEF Answers
  <2>4. QED
    BY <1>1, <2>1, <2>2, <2>3, SameTree
<1>5. QED
  BY <1>3, <1>4

(* The first tree holds the standing objects and nothing else.               *)
LEMMA InitPruned == Init => Pruned
<1> SUFFICES ASSUME Init PROVE Pruned
  OBVIOUS
<1>1. ASSUME NEW d \in dirs, Empty(d) PROVE FALSE
  <2>1. PICK o \in Standing : d \in Above(o.dir)
    BY DEF Init
  <2>2. o \in Objects /\ files[o] # None
    BY BoundsAssumption DEF Init
  <2>3. /\ \A x \in Objects : files[x] # None => x.dir \in dirs
        /\ \A e \in dirs : Above(e) \subseteq dirs
    BY InitInv DEF Inv, Orderly, Rooted
  <2>4. /\ \A x \in Objects : x.dir = d => files[x] = None
        /\ \A e \in dirs : Parent(e) # d
    BY <1>1 DEF Empty
  <2>5. \E e \in dirs : Parent(e) = d
    BY ONLY <2>1, <2>2, <2>3, <2>4, OccupiedAbove
  <2>6. QED
    BY <2>4, <2>5
<1>2. QED
  BY <1>1 DEF Pruned, Answered, AtSource, Init

(* Every step keeps it. *)
LEMMA NextPruned == Inv /\ Inv' /\ Pruned /\ [Next]_vars => Pruned'
<1> SUFFICES ASSUME Inv, Inv', Pruned, [Next]_vars PROVE Pruned'
  OBVIOUS
<1>1. CASE UNCHANGED vars
  BY <1>1 DEF vars, Pruned, Answered, Answers, AtSource, Source, Target, Empty
<1>2. CASE Next
  BY <1>2, BeginPruned, WritePruned, MovePruned, PrunePruned, TreePruned, FaultPruned DEF Next
<1>3. QED
  BY <1>1, <1>2

(* filesystem.go:164: when no call is under way, the only empty directories  *)
(* are those that failed calls and removed trees have left, for any number   *)
(* of calls that prune and fill one tree.                                    *)
THEOREM NoEmptyDirsLeft == Spec => []NoEmptyDirs
<1>1. Pruned => NoEmptyDirs
  BY DEF Pruned, Answered, Answers, NoEmptyDirs
<1>2. Inv /\ [Next]_vars => Inv'
  BY StepInv
<1>3. QED
  BY <1>1, <1>2, InitInv, InitPruned, NextPruned, PTL DEF Spec
=============================================================================
