------------------------- MODULE MultipartUploadProofs -------------------------
(* Theorems about MultipartUpload for every set of sessions, chunk indices,  *)
(* request and worker slots, either driver, and any number of faults.        *)
EXTENDS MultipartUpload, FiniteSetTheorems, SequenceTheorems, TLAPS

-----------------------------------------------------------------------------
(* Files. *)

(* A file with one more block written is a file. *)
LEMMA WriteAtType ==
  ASSUME NEW file \in Seq(Blocks), NEW k \in Nat \ {0}, NEW block \in Blocks
  PROVE  WriteAt(file, k, block) \in Seq(Blocks)
<1> DEFINE len == IF Len(file) < k THEN k ELSE Len(file)
<1>1. len \in Nat
  OBVIOUS
<1>2. ASSUME NEW n \in 1..len
      PROVE  (IF n = k THEN block ELSE IF n <= Len(file) THEN file[n] ELSE Lost) \in Blocks
  <2>1. Lost \in Blocks
    BY DEF Blocks
  <2>2. QED
    BY <2>1
<1>3. WriteAt(file, k, block) \in [1..len -> Blocks]
  BY <1>2 DEF WriteAt
<1>4. QED
  BY <1>1, <1>3, SeqDef

(* The client's file is one, and no file is a missing one. *)
LEMMA WholeType == Whole \in Seq(Blocks) /\ Whole # None
<1>1. \A k \in 1..NumChunks : k - 1 \in Blocks
  BY ChunksAssumption DEF Blocks
<1>2. Whole \in [1..NumChunks -> Blocks]
  BY <1>1 DEF Whole
<1>3. QED
  BY <1>2, SeqDef, ChunksAssumption, MissingAssumption

(* A block of a chunk copied into a file leaves a file. *)
LEMMA ExtendedType ==
  ASSUME TypeOK, NEW h \in Procs, NEW i \in Indices, NEW file \in Seq(Blocks)
  PROVE  Extended(file, h, i) \in Seq(Blocks)
<1>1. copied[h] + 1 \in Nat \ {0}
  BY DEF TypeOK
<1>2. (IF chunks[target[h]][i] = GoodChunk THEN i ELSE Lost) \in Blocks
  BY DEF Blocks
<1>3. QED
  BY <1>1, <1>2, WriteAtType DEF Extended

(* What is written to a chunk is a chunk file, and not a missing one. *)
LEMMA ChunkFiles ==
  /\ \A b \in Bodies : <<b>> \in ChunkFile /\ <<b>> # None
  /\ \A f \in ChunkFile, b \in Bodies : <<f[1], b>> \in ChunkFile /\ <<f[1], b>> # None
<1>1. \A b \in Bodies : <<b>> \in ChunkFile
  BY DEF ChunkFile
<1>2. ASSUME NEW f \in ChunkFile, NEW b \in Bodies PROVE <<f[1], b>> \in ChunkFile
  BY DEF ChunkFile
<1>3. None \notin ChunkFile
  BY MissingAssumption
<1>4. QED
  BY <1>1, <1>2, <1>3

(* A crash adds a finite number of interrupted calls. *)
LEMMA BusyFinite == Cardinality(Busy) \in Nat
<1>1. IsFiniteSet(Procs)
  BY SlotsAssumption, FS_Union DEF Procs
<1>2. Busy \subseteq Procs
  BY DEF Busy
<1>3. QED
  BY <1>1, <1>2, FS_Subset, FS_CardinalityType

-----------------------------------------------------------------------------
(* Type correctness. *)

(* The types, without what a process holds at its next call. *)
TablesType ==
    /\ sessions \in [Sessions -> Session \cup {None}]
    /\ ids \in [Sessions -> {"new", "used", "known"}]
    /\ overlapped \subseteq Sessions
    /\ blobs \subseteq Sessions
StoreType ==
    /\ chunks \in [Sessions -> [Indices -> ChunkFile \cup {None}]]
    /\ final \in [Sessions -> Seq(Blocks) \cup {None}]
    /\ promoted \in [Sessions -> Seq(Blocks) \cup {None}]
LocalsType ==
    /\ faults \in Nat
    /\ pc \in [Procs -> {"idle", "next", "ensure"} \cup ChunkCalls
                          \cup CompleteCalls \cup CleanupCalls]
    /\ target \in [Procs -> Sessions \cup {None}]
    /\ index \in [Procs -> Indices \cup {None}]
    /\ body \in [Procs -> Bodies \cup {None}]
    /\ listed \in [Procs -> SUBSET Indices]
    /\ copied \in [Procs -> Nat]
    /\ handle \in [Procs -> Places \cup {None}]
    /\ abandoned \in [Workers -> SUBSET Sessions]
Types == TablesType /\ StoreType /\ LocalsType

(* Nothing is under way at first. *)
LEMMA InitType == Init => TypeOK
  BY MissingAssumption
     DEF Init, TypeOK, ControlOK, ChunkCalls, CompleteCalls, CleanupCalls, Places

(* The chunk files of a session stay so when one is written or removed. *)
LEMMA ChunkSetType ==
  ASSUME StoreType, NEW s \in Sessions, NEW i \in Indices, NEW f \in ChunkFile \cup {None}
  PROVE  [chunks EXCEPT ![s][i] = f] \in [Sessions -> [Indices -> ChunkFile \cup {None}]]
<1>1. [chunks[s] EXCEPT ![i] = f] \in [Indices -> ChunkFile \cup {None}]
  BY DEF StoreType
<1>2. QED
  BY <1>1 DEF StoreType

(* The other chunk files stay as they are. *)
LEMMA ChunkSetOther ==
  ASSUME StoreType, NEW s \in Sessions, NEW i \in Indices, NEW f,
         NEW t \in Sessions, NEW j \in Indices, ~(t = s /\ j = i)
  PROVE  [chunks EXCEPT ![s][i] = f][t][j] = chunks[t][j]
<1>1. CASE t = s
  <2>1. [chunks EXCEPT ![s][i] = f][t] = [chunks[s] EXCEPT ![i] = f]
    BY <1>1 DEF StoreType
  <2>2. QED
    BY <1>1, <2>1 DEF StoreType
<1>2. CASE t # s
  BY <1>2 DEF StoreType
<1>3. QED
  BY <1>1, <1>2

(* The removal of a tree leaves a store. *)
LEMMA TreeRemovedType ==
  ASSUME StoreType, NEW s \in Sessions, TreeRemoved(s), promoted' = promoted
  PROVE  StoreType'
<1>1. [i \in Indices |-> None] \in [Indices -> ChunkFile \cup {None}]
  OBVIOUS
<1>2. chunks' \in [Sessions -> [Indices -> ChunkFile \cup {None}]]
  BY <1>1 DEF TreeRemoved, StoreType
<1>3. QED
  BY <1>2 DEF TreeRemoved, StoreType

(* Every step keeps the types of the variables: one step per action. *)
LEMMA NextTypes == TypeOK /\ [Next]_vars => Types'
<1> SUFFICES ASSUME TypeOK, [Next]_vars PROVE Types'
  OBVIOUS
<1>0. Types /\ Handlers \subseteq Procs /\ Workers \subseteq Procs /\ \A p \in Procs : ControlOK(p)
  BY DEF TypeOK, Types, TablesType, StoreType, LocalsType, Procs
<1>1. ASSUME NEW h \in Handlers, InitiateCreate(h) PROVE Types'
  <2>1. TablesType'
    BY <1>0, <1>1 DEF InitiateCreate, Types, TablesType, Session
  <2>2. StoreType'
    BY <1>0, <1>1 DEF InitiateCreate, store, Types, StoreType
  <2>3. LocalsType'
    BY <1>0, <1>1 DEF InitiateCreate, Goto, Types, LocalsType
  <2> QED
    BY <2>1, <2>2, <2>3 DEF Types
<1>2. ASSUME NEW h \in Handlers, InitiateEnsure(h) PROVE Types'
  <2>1. TablesType'
    BY <1>0, <1>2 DEF InitiateEnsure, Types, TablesType
  <2>2. StoreType'
    BY <1>0, <1>2 DEF InitiateEnsure, store, Types, StoreType
  <2>3. LocalsType'
    BY <1>0, <1>2 DEF InitiateEnsure, Goto, Forget, Finish, Types, LocalsType
  <2> QED
    BY <2>1, <2>2, <2>3 DEF Types
<1>3. ASSUME NEW h \in Handlers, ChunkBegin(h) PROVE Types'
  <2>1. TablesType'
    BY <1>0, <1>3 DEF ChunkBegin, tables, Types, TablesType
  <2>2. StoreType'
    BY <1>0, <1>3 DEF ChunkBegin, store, Types, StoreType
  <2>3. LocalsType'
    <3>1. PICK s \in Sessions, i \in Indices, b \in Bodies :
            /\ sessions[s] # None
            /\ target' = [target EXCEPT ![h] = s] /\ index' = [index EXCEPT ![h] = i]
            /\ body' = [body EXCEPT ![h] = b]
            /\ listed' = [listed EXCEPT ![h] = sessions[s].done]
      BY <1>3 DEF ChunkBegin
    <3>2. sessions[s].done \subseteq Indices
      BY <1>0, <3>1 DEF Types, TablesType, Session
    <3>3. QED
      BY <1>0, <1>3, <3>1, <3>2 DEF ChunkBegin, Goto, Types, LocalsType, ChunkCalls
  <2> QED
    BY <2>1, <2>2, <2>3 DEF Types
<1>4. ASSUME NEW h \in Handlers, ChunkPut(h) PROVE Types'
  <2>1. TablesType'
    BY <1>0, <1>4 DEF ChunkPut, tables, Types, TablesType
  <2>2. StoreType'
    BY <1>0, <1>4, ChunkFiles
       DEF ChunkPut, Goto, tables, Types, StoreType, LocalsType, ControlOK,
           ChunkCalls, CompleteCalls
  <2>3. LocalsType'
    BY <1>0, <1>4
       DEF ChunkPut, Goto, Types, LocalsType, ChunkCalls, CompleteCalls, CleanupCalls,
           Places
  <2> QED
    BY <2>1, <2>2, <2>3 DEF Types
<1>5. ASSUME NEW h \in Handlers, ChunkWrite(h) PROVE Types'
  <2>1. TablesType'
    BY <1>0, <1>5 DEF ChunkWrite, tables, Types, TablesType
  <2>2. StoreType'
    <3>1. CASE chunks' = chunks
      BY <1>0, <1>5, <3>1 DEF ChunkWrite, Types, StoreType
    <3>2. CASE chunks' # chunks
      <4>1. /\ target[h] \in Sessions /\ index[h] \in Indices /\ body[h] \in Bodies
            /\ chunks[target[h]][index[h]] # None
            /\ chunks' = [chunks EXCEPT ![target[h]][index[h]] = <<@[1], body[h]>>]
        BY <1>0, <1>5, <3>2 DEF ChunkWrite, ControlOK, ChunkCalls
      <4>2. chunks[target[h]][index[h]] \in ChunkFile
        BY <1>0, <4>1 DEF Types, StoreType
      <4>3. <<chunks[target[h]][index[h]][1], body[h]>> \in ChunkFile
        BY <4>1, <4>2, ChunkFiles
      <4>4. QED
        BY <1>0, <1>5, <4>1, <4>3 DEF ChunkWrite, Types, StoreType
    <3>3. QED
      BY <3>1, <3>2
  <2>3. LocalsType'
    BY <1>0, <1>5
       DEF ChunkWrite, Goto, Forget, Finish, Types, LocalsType, ChunkCalls,
           CompleteCalls, CleanupCalls, Places
  <2> QED
    BY <2>1, <2>2, <2>3 DEF Types
<1>6. ASSUME NEW h \in Handlers, ChunkStat(h) PROVE Types'
  <2>1. TablesType'
    BY <1>0, <1>6 DEF ChunkStat, tables, Types, TablesType
  <2>2. StoreType'
    BY <1>0, <1>6 DEF ChunkStat, store, Types, StoreType
  <2>3. LocalsType'
    BY <1>0, <1>6
       DEF ChunkStat, Goto, Fault, locals, Types, LocalsType, ChunkCalls,
           CompleteCalls, CleanupCalls, Places
  <2> QED
    BY <2>1, <2>2, <2>3 DEF Types
<1>7. ASSUME NEW h \in Handlers, ChunkLimit(h) PROVE Types'
  <2>1. TablesType'
    BY <1>0, <1>7 DEF ChunkLimit, tables, Types, TablesType
  <2>2. StoreType'
    BY <1>0, <1>7 DEF ChunkLimit, store, Types, StoreType
  <2>3. LocalsType'
    <3>1. PICK missed \in SUBSET (Counted(h) \ {index[h]}) :
            /\ faults' = faults + Cardinality(missed)
            /\ \/ Goto(h, "discard") /\ UNCHANGED locals
               \/ Finish(h)
               \/ Goto(h, "record") /\ UNCHANGED locals
      BY <1>7 DEF ChunkLimit
    <3>2. missed \subseteq Indices /\ abandoned' = abandoned
      BY <1>0, <1>7, <3>1
         DEF ChunkLimit, Counted, Types, LocalsType, ControlOK, ChunkCalls
    <3>3. Cardinality(missed) \in Nat
      BY <3>2, ChunksAssumption, FS_Subset, FS_CardinalityType
    <3>4. faults' \in Nat
      BY <1>0, <3>1, <3>3 DEF Types, LocalsType
    <3>5. QED
      BY <1>0, <3>1, <3>2, <3>4
         DEF Goto, Forget, Finish, locals, Types, LocalsType, ChunkCalls, Places
  <2> QED
    BY <2>1, <2>2, <2>3 DEF Types
<1>8. ASSUME NEW h \in Handlers, ChunkRecord(h) PROVE Types'
  <2>1. TablesType'
    <3>1. CASE sessions[target[h]] = None
      BY <1>0, <1>8, <3>1 DEF ChunkRecord, Types, TablesType
    <3>2. CASE sessions[target[h]] # None
      <4>1. target[h] \in Sessions /\ listed[h] \cup {index[h]} \in SUBSET Indices
        BY <1>0, <1>8 DEF ChunkRecord, ControlOK, ChunkCalls, Types, LocalsType
      <4>2. sessions[target[h]] \in Session
        BY <1>0, <3>2, <4>1 DEF Types, TablesType
      <4>3. [sessions[target[h]] EXCEPT !.done = listed[h] \cup {index[h]}] \in Session
        BY <4>1, <4>2 DEF Session
      <4>4. QED
        BY <1>0, <1>8, <3>2, <4>1, <4>3 DEF ChunkRecord, Types, TablesType
    <3>3. QED
      BY <3>1, <3>2
  <2>2. StoreType'
    BY <1>0, <1>8 DEF ChunkRecord, store, Types, StoreType
  <2>3. LocalsType'
    BY <1>0, <1>8 DEF ChunkRecord, Goto, Forget, Finish, Types, LocalsType
  <2> QED
    BY <2>1, <2>2, <2>3 DEF Types
<1>9. ASSUME NEW h \in Handlers, ChunkDiscard(h) PROVE Types'
  <2>1. TablesType'
    BY <1>0, <1>9 DEF ChunkDiscard, tables, Types, TablesType
  <2>2. StoreType'
    <3>1. target[h] \in Sessions /\ index[h] \in Indices
      BY <1>0, <1>9 DEF ChunkDiscard, ControlOK, ChunkCalls
    <3>2. chunks' \in {chunks, [chunks EXCEPT ![target[h]][index[h]] = None]}
      BY <1>9 DEF ChunkDiscard
    <3>3. final' = final /\ promoted' = promoted
      BY <1>9 DEF ChunkDiscard
    <3>4. [chunks EXCEPT ![target[h]][index[h]] = None]
            \in [Sessions -> [Indices -> ChunkFile \cup {None}]]
      BY <1>0, <3>1, ChunkSetType DEF Types
    <3>5. QED
      BY <1>0, <3>2, <3>3, <3>4 DEF Types, StoreType
  <2>3. LocalsType'
    BY <1>0, <1>9 DEF ChunkDiscard, Goto, Forget, Fault, Redirected, Types, LocalsType
  <2> QED
    BY <2>1, <2>2, <2>3 DEF Types
<1>10. ASSUME NEW h \in Handlers, CompleteBegin(h) PROVE Types'
  <2>1. TablesType'
    BY <1>0, <1>10 DEF CompleteBegin, Types, TablesType
  <2>2. StoreType'
    BY <1>0, <1>10 DEF CompleteBegin, store, Types, StoreType
  <2>3. LocalsType'
    <3>1. PICK s \in Sessions :
            /\ sessions[s] # None
            /\ target' = [target EXCEPT ![h] = s]
            /\ listed' = [listed EXCEPT ![h] = sessions[s].done]
      BY <1>10 DEF CompleteBegin
    <3>2. sessions[s].done \subseteq Indices
      BY <1>0, <3>1 DEF Types, TablesType, Session
    <3>3. QED
      BY <1>0, <1>10, <3>1, <3>2
         DEF CompleteBegin, Goto, Types, LocalsType, CompleteCalls
  <2> QED
    BY <2>1, <2>2, <2>3 DEF Types
<1>11. ASSUME NEW h \in Handlers, CompleteCreate(h) PROVE Types'
  <2>1. TablesType'
    BY <1>0, <1>11 DEF CompleteCreate, tables, Types, TablesType
  <2>2. StoreType'
    BY <1>0, <1>11 DEF CompleteCreate, Types, StoreType, ControlOK, ChunkCalls
  <2>3. LocalsType'
    BY <1>0, <1>11
       DEF CompleteCreate, Goto, Types, LocalsType, ChunkCalls, CompleteCalls,
           CleanupCalls, Places
  <2> QED
    BY <2>1, <2>2, <2>3 DEF Types
<1>12. ASSUME NEW h \in Handlers, CompleteCopy(h) PROVE Types'
  <2>1. TablesType'
    BY <1>0, <1>12 DEF CompleteCopy, tables, Types, TablesType
  <2>2. StoreType'
    <3>1. target[h] \in Sessions /\ chunks' = chunks
      BY <1>0, <1>12 DEF CompleteCopy, ControlOK, CompleteCalls
    <3>2. CASE UNCHANGED <<final, promoted>>
      BY <1>0, <3>1, <3>2 DEF Types, StoreType
    <3>3. CASE ~UNCHANGED <<final, promoted>>
      <4>1. PICK i \in Indices :
              /\ final' = IF handle[h] = "tmp"
                           THEN [final EXCEPT ![target[h]] = Extended(@, h, i)]
                           ELSE final
              /\ promoted' = IF handle[h] = "bucket"
                              THEN [promoted EXCEPT ![target[h]] = Extended(@, h, i)]
                              ELSE promoted
        BY <1>12, <3>3 DEF CompleteCopy
      <4>2. CASE handle[h] = "tmp"
        <5>1. final[target[h]] \in Seq(Blocks)
          BY <1>0, <1>12, <3>1, <4>2 DEF CompleteCopy, ControlOK, Types, StoreType
        <5>2. Extended(final[target[h]], h, i) \in Seq(Blocks)
          BY <1>0, <5>1, ExtendedType
        <5>3. QED
          BY <1>0, <3>1, <4>1, <4>2, <5>2 DEF Types, StoreType
      <4>3. CASE handle[h] = "bucket"
        <5>1. promoted[target[h]] \in Seq(Blocks)
          BY <1>0, <3>1, <4>3 DEF ControlOK, Types, StoreType
        <5>2. Extended(promoted[target[h]], h, i) \in Seq(Blocks)
          BY <1>0, <5>1, ExtendedType
        <5>3. QED
          BY <1>0, <3>1, <4>1, <4>3, <5>2 DEF Types, StoreType
      <4>4. QED
        BY <3>3, <4>1, <4>2, <4>3
    <3>4. QED
      BY <3>2, <3>3
  <2>3. LocalsType'
    BY <1>0, <1>12
       DEF CompleteCopy, Goto, CloseWithError, Types, LocalsType, ChunkCalls,
           CompleteCalls, CleanupCalls, Places
  <2> QED
    BY <2>1, <2>2, <2>3 DEF Types
<1>13. ASSUME NEW h \in Handlers, CompleteClose(h) PROVE Types'
  <2>1. TablesType'
    BY <1>0, <1>13 DEF CompleteClose, tables, Types, TablesType
  <2>2. StoreType'
    BY <1>0, <1>13 DEF CompleteClose, store, Types, StoreType
  <2>3. LocalsType'
    BY <1>0, <1>13
       DEF CompleteClose, Goto, Types, LocalsType, ChunkCalls, CompleteCalls,
           CleanupCalls, Places
  <2> QED
    BY <2>1, <2>2, <2>3 DEF Types
<1>14. ASSUME NEW h \in Handlers, CompleteInspect(h) PROVE Types'
  <2>1. TablesType'
    BY <1>0, <1>14 DEF CompleteInspect, tables, Types, TablesType
  <2>2. StoreType'
    BY <1>0, <1>14 DEF CompleteInspect, store, Types, StoreType
  <2>3. LocalsType'
    BY <1>0, <1>14
       DEF CompleteInspect, Goto, locals, Types, LocalsType, ChunkCalls,
           CompleteCalls, CleanupCalls, Places
  <2> QED
    BY <2>1, <2>2, <2>3 DEF Types
<1>15. ASSUME NEW h \in Handlers, CompleteMove(h) PROVE Types'
  <2>1. TablesType'
    BY <1>0, <1>15 DEF CompleteMove, tables, Types, TablesType
  <2>2. StoreType'
    BY <1>0, <1>15 DEF CompleteMove, Types, StoreType
  <2>3. LocalsType'
    BY <1>0, <1>15
       DEF CompleteMove, Goto, Types, LocalsType, ChunkCalls, CompleteCalls,
           CleanupCalls, Places
  <2> QED
    BY <2>1, <2>2, <2>3 DEF Types
<1>16. ASSUME NEW h \in Handlers, CompleteRow(h) PROVE Types'
  <2>1. TablesType'
    <3>1. target[h] \in Sessions
      BY <1>0, <1>16 DEF CompleteRow, ControlOK, CompleteCalls
    <3>2. QED
      BY <1>0, <1>16, <3>1 DEF CompleteRow, Types, TablesType
  <2>2. StoreType'
    BY <1>0, <1>16 DEF CompleteRow, store, Types, StoreType
  <2>3. LocalsType'
    BY <1>0, <1>16
       DEF CompleteRow, Goto, Forget, Finish, locals, Types, LocalsType, ChunkCalls,
           CompleteCalls, CleanupCalls, Places
  <2> QED
    BY <2>1, <2>2, <2>3 DEF Types
<1>17. ASSUME NEW h \in Handlers, CompleteMark(h) PROVE Types'
  <2>1. TablesType'
    BY <1>0, <1>17 DEF CompleteMark, Types, TablesType, Session
  <2>2. StoreType'
    BY <1>0, <1>17 DEF CompleteMark, store, Types, StoreType
  <2>3. LocalsType'
    BY <1>0, <1>17
       DEF CompleteMark, Goto, locals, Types, LocalsType, ChunkCalls, CompleteCalls,
           CleanupCalls, Places
  <2> QED
    BY <2>1, <2>2, <2>3 DEF Types
<1>18. ASSUME NEW h \in Handlers, CompleteSweep(h) PROVE Types'
  <2>1. TablesType'
    BY <1>0, <1>18 DEF CompleteSweep, tables, Types, TablesType
  <2>2. StoreType'
    <3>1. target[h] \in Sessions
      BY <1>0, <1>18 DEF CompleteSweep, ControlOK, CompleteCalls, CleanupCalls
    <3>2. /\ TreeRemoved(target[h]) \/ UNCHANGED <<chunks, final>>
          /\ promoted' = promoted
      BY <1>18 DEF CompleteSweep
    <3>3. QED
      BY <1>0, <3>1, <3>2, TreeRemovedType DEF Types, StoreType
  <2>3. LocalsType'
    BY <1>0, <1>18
       DEF CompleteSweep, Goto, Forget, Fault, Redirected, Types, LocalsType
  <2> QED
    BY <2>1, <2>2, <2>3 DEF Types
<1>19. ASSUME NEW h \in Handlers, CompleteDrop(h) PROVE Types'
  <2>1. TablesType'
    BY <1>0, <1>19 DEF CompleteDrop, tables, Types, TablesType
  <2>2. StoreType'
    BY <1>0, <1>19 DEF CompleteDrop, Types, StoreType
  <2>3. LocalsType'
    BY <1>0, <1>19
       DEF CompleteDrop, Goto, Forget, Fault, Redirected, Types, LocalsType
  <2> QED
    BY <2>1, <2>2, <2>3 DEF Types
<1>20. ASSUME NEW h \in Handlers, CompleteFails(h) PROVE Types'
  <2>1. TablesType'
    BY <1>0, <1>20 DEF CompleteFails, tables, Types, TablesType
  <2>2. StoreType'
    BY <1>0, <1>20 DEF CompleteFails, store, Types, StoreType
  <2>3. LocalsType'
    BY <1>0, <1>20
       DEF CompleteFails, Goto, Fault, CloseWithError, Types, LocalsType, ChunkCalls,
           CompleteCalls, CleanupCalls, Places
  <2> QED
    BY <2>1, <2>2, <2>3 DEF Types
<1>21. ASSUME NEW w \in Workers, CleanupFind(w) PROVE Types'
  <2>1. TablesType'
    BY <1>0, <1>21 DEF CleanupFind, tables, Types, TablesType
  <2>2. StoreType'
    BY <1>0, <1>21 DEF CleanupFind, store, Types, StoreType
  <2>3. LocalsType'
    BY <1>0, <1>21 DEF CleanupFind, Goto, locals, Types, LocalsType
  <2> QED
    BY <2>1, <2>2, <2>3 DEF Types
<1>22. ASSUME NEW w \in Workers, CleanupNext(w) PROVE Types'
  <2>1. TablesType'
    BY <1>0, <1>22 DEF CleanupNext, tables, Types, TablesType
  <2>2. StoreType'
    BY <1>0, <1>22 DEF CleanupNext, store, Types, StoreType
  <2>3. LocalsType'
    BY <1>0, <1>22
       DEF CleanupNext, Goto, Types, LocalsType, ChunkCalls, CompleteCalls,
           CleanupCalls, Places
  <2> QED
    BY <2>1, <2>2, <2>3 DEF Types
<1>23. ASSUME NEW w \in Workers, CleanupDone(w) PROVE Types'
  <2>1. TablesType'
    BY <1>0, <1>23 DEF CleanupDone, tables, Types, TablesType
  <2>2. StoreType'
    BY <1>0, <1>23 DEF CleanupDone, store, Types, StoreType
  <2>3. LocalsType'
    BY <1>0, <1>23 DEF CleanupDone, Goto, locals, Types, LocalsType
  <2> QED
    BY <2>1, <2>2, <2>3 DEF Types
<1>24. ASSUME NEW w \in Workers, CleanupTree(w) PROVE Types'
  <2>1. TablesType'
    BY <1>0, <1>24 DEF CleanupTree, tables, Types, TablesType
  <2>2. StoreType'
    <3>1. target[w] \in Sessions
      BY <1>0, <1>24 DEF CleanupTree, ControlOK, CompleteCalls, CleanupCalls
    <3>2. /\ TreeRemoved(target[w]) \/ UNCHANGED <<chunks, final>>
          /\ promoted' = promoted
      BY <1>24 DEF CleanupTree
    <3>3. QED
      BY <1>0, <3>1, <3>2, TreeRemovedType DEF Types, StoreType
  <2>3. LocalsType'
    BY <1>0, <1>24
       DEF CleanupTree, Goto, Fault, Redirected, Types, LocalsType, ChunkCalls,
           CompleteCalls, CleanupCalls, Places
  <2> QED
    BY <2>1, <2>2, <2>3 DEF Types
<1>25. ASSUME NEW w \in Workers, CleanupForget(w) PROVE Types'
  <2>1. TablesType'
    BY <1>0, <1>25 DEF CleanupForget, Types, TablesType
  <2>2. StoreType'
    BY <1>0, <1>25 DEF CleanupForget, store, Types, StoreType
  <2>3. LocalsType'
    BY <1>0, <1>25 DEF CleanupForget, Goto, Forget, Finish, Types, LocalsType
  <2> QED
    BY <2>1, <2>2, <2>3 DEF Types
<1>26. ASSUME NEW p \in Procs, CallRefused(p) PROVE Types'
  <2>1. TablesType'
    BY <1>0, <1>26 DEF CallRefused, tables, Types, TablesType
  <2>2. StoreType'
    BY <1>0, <1>26 DEF CallRefused, store, Types, StoreType
  <2>3. LocalsType'
    BY <1>0, <1>26 DEF CallRefused, Goto, Forget, Finish, Fault, Types, LocalsType
  <2> QED
    BY <2>1, <2>2, <2>3 DEF Types
<1>27. ASSUME Crash PROVE Types'
  <2>1. TablesType'
    BY <1>0, <1>27 DEF Crash, tables, Types, TablesType
  <2>2. StoreType'
    BY <1>0, <1>27 DEF Crash, store, Types, StoreType
  <2>3. LocalsType'
    BY <1>0, <1>27, BusyFinite
       DEF Crash, store, tables, Types, LocalsType, ChunkCalls, CompleteCalls,
           CleanupCalls, Places
  <2> QED
    BY <2>1, <2>2, <2>3 DEF Types
<1>28. ASSUME Age PROVE Types'
  <2>1. TablesType'
    BY <1>0, <1>28 DEF Age, Types, TablesType, Session
  <2>2. StoreType'
    BY <1>0, <1>28 DEF Age, store, Types, StoreType
  <2>3. LocalsType'
    BY <1>0, <1>28 DEF Age, locals, Types, LocalsType
  <2> QED
    BY <2>1, <2>2, <2>3 DEF Types
<1>29. ASSUME UNCHANGED vars PROVE Types'
  BY <1>0, <1>29 DEF vars, Types, TablesType, StoreType, LocalsType
<1> QED
  BY <1>1, <1>2, <1>3, <1>4, <1>5, <1>6, <1>7, <1>8, <1>9, <1>10, <1>11, <1>12, <1>13,
     <1>14, <1>15, <1>16, <1>17, <1>18, <1>19, <1>20, <1>21, <1>22, <1>23, <1>24,
     <1>25, <1>26, <1>27, <1>28, <1>29
     DEF Next, Request, ChunkStep, CompleteStep, CleanupStep

(* A copied block goes to a file that is there and stays. *)
LEMMA CopiesStay ==
  ASSUME TypeOK, NEW h \in Handlers, CompleteCopy(h), NEW s \in Sessions
  PROVE  /\ final[s] # None => final'[s] # None
         /\ promoted[s] # None => promoted'[s] # None
<1>1. h \in Procs
  BY DEF Procs
<1>2. PICK i \in Indices :
        /\ final' = final \/ final' = [final EXCEPT ![target[h]] = Extended(@, h, i)]
        /\ \/ promoted' = promoted
           \/ promoted' = [promoted EXCEPT ![target[h]] = Extended(@, h, i)]
  BY DEF CompleteCopy
<1>3. ASSUME NEW file \in Seq(Blocks) PROVE Extended(file, h, i) # None
  BY <1>1, ExtendedType, MissingAssumption
<1>4. QED
  BY <1>2, <1>3 DEF TypeOK

(* A request that has been answered holds nothing. *)
LEMMA IdleControl ==
  ASSUME NEW p \in Procs, handle'[p] = None,
         pc'[p] = "idle" \/ (pc'[p] = "next" /\ p \in Workers)
  PROVE  ControlOK(p)'
  BY MissingAssumption DEF ControlOK, ChunkCalls, CompleteCalls, CleanupCalls, Places

(* A call that ends leaves nothing behind in its handler. *)
LEMMA ForgetControl ==
  ASSUME Types, NEW p \in Procs, Forget(p), handle'[p] = None
  PROVE  ControlOK(p)'
<1>1. pc'[p] = IF p \in Workers THEN "next" ELSE "idle"
  BY DEF Forget, Goto, Types, LocalsType
<1>2. QED
  BY <1>1, IdleControl

(* A process whose own state a step leaves alone keeps what it holds if the *)
(* file that it has open is still where its handle says.                    *)
LEMMA OthersControl ==
  ASSUME NEW p \in Procs, ControlOK(p),
         pc'[p] = pc[p], target'[p] = target[p], index'[p] = index[p], body'[p] = body[p],
         handle'[p] # None => pc[p] \in {"write", "copy"},
         pc[p] = "write" /\ handle'[p] = "tmp" => chunks'[target[p]][index[p]] # None,
         pc[p] = "copy" /\ handle'[p] = "tmp" => final'[target[p]] # None,
         handle'[p] = "bucket" => pc[p] = "copy" /\ promoted'[target[p]] # None
  PROVE  ControlOK(p)'
  BY DEF ControlOK

(* What the processes hold at their next call stays there: a step of one     *)
(* process redirects the open files of the others that it moves or unlinks.  *)
LEMMA NextControl == TypeOK /\ Types' /\ [Next]_vars => \A p \in Procs : ControlOK(p)'
<1> SUFFICES ASSUME TypeOK, Types', [Next]_vars, NEW p \in Procs PROVE ControlOK(p)'
  OBVIOUS
<1>0. /\ Handlers \subseteq Procs /\ Workers \subseteq Procs
      /\ Types /\ \A q \in Procs : ControlOK(q)
  BY DEF TypeOK, Types, TablesType, StoreType, LocalsType, Procs
<1>1. ASSUME NEW h \in Handlers, InitiateCreate(h) PROVE ControlOK(p)'
  <2>1. CASE p = h
    BY <1>0, <1>1, <2>1, MissingAssumption
       DEF InitiateCreate, Goto, store, Types, LocalsType, ControlOK, ChunkCalls,
           CompleteCalls, CleanupCalls, Places
  <2>2. CASE p # h
    BY <1>0, <1>1, <2>2, MissingAssumption
       DEF InitiateCreate, Goto, store, Types, LocalsType, ControlOK, ChunkCalls,
           CompleteCalls, CleanupCalls, Places
  <2> QED
    BY <2>1, <2>2
<1>2. ASSUME NEW h \in Handlers, InitiateEnsure(h) PROVE ControlOK(p)'
  <2>1. CASE p = h
    BY <1>0, <1>2, <2>1, MissingAssumption
       DEF InitiateEnsure, Goto, Forget, Finish, store, Types, LocalsType, ControlOK,
           ChunkCalls, CompleteCalls, CleanupCalls, Places
  <2>2. CASE p # h
    BY <1>0, <1>2, <2>2, MissingAssumption
       DEF InitiateEnsure, Goto, Forget, Finish, store, Types, LocalsType, ControlOK,
           ChunkCalls, CompleteCalls, CleanupCalls, Places
  <2> QED
    BY <2>1, <2>2
<1>3. ASSUME NEW h \in Handlers, ChunkBegin(h) PROVE ControlOK(p)'
  <2>1. CASE p = h
    <3>1. /\ pc'[h] = "put" /\ target'[h] \in Sessions
          /\ index'[h] \in Indices /\ body'[h] \in Bodies
      BY <1>0, <1>3 DEF ChunkBegin, Goto, Types, LocalsType
    <3>2. handle'[h] = None
      BY <1>0, <1>3 DEF ChunkBegin, ControlOK
    <3>3. QED
      BY <1>3, <2>1, <3>1, <3>2, MissingAssumption
         DEF ControlOK, ChunkCalls, CompleteCalls, CleanupCalls, Places
  <2>2. CASE p # h
    BY <1>0, <1>3, <2>2, MissingAssumption
       DEF ChunkBegin, Goto, store, Types, LocalsType, ControlOK, ChunkCalls,
           CompleteCalls, CleanupCalls, Places
  <2> QED
    BY <2>1, <2>2
<1>4. ASSUME NEW h \in Handlers, ChunkPut(h) PROVE ControlOK(p)'
  <2>1. CASE p = h
    <3>1. /\ pc'[h] = "write" /\ handle'[h] = "tmp"
          /\ target'[h] = target[h] /\ target[h] \in Sessions
          /\ index'[h] = index[h] /\ index[h] \in Indices
          /\ body'[h] = body[h] /\ body[h] \in Bodies
      BY <1>0, <1>4 DEF ChunkPut, Goto, Types, LocalsType, ControlOK, ChunkCalls
    <3>2. chunks'[target[h]][index[h]] = <<body[h]>>
      BY <1>0, <1>4, <3>1 DEF ChunkPut, Types, StoreType
    <3>3. QED
      BY <1>4, <2>1, <3>1, <3>2, ChunkFiles
         DEF ControlOK, ChunkCalls, CompleteCalls, CleanupCalls
  <2>2. CASE p # h
    BY <1>0, <1>4, <2>2, MissingAssumption, ChunkFiles
       DEF ChunkPut, Goto, Types, StoreType, LocalsType, ControlOK, ChunkCalls,
           CompleteCalls, CleanupCalls, Places
  <2> QED
    BY <2>1, <2>2
<1>5. ASSUME NEW h \in Handlers, ChunkWrite(h) PROVE ControlOK(p)'
  <2>1. CASE p = h
    BY <1>0, <1>5, <2>1, MissingAssumption
       DEF ChunkWrite, Goto, Forget, Finish, Types, LocalsType, ControlOK, ChunkCalls,
           CompleteCalls, CleanupCalls, Places
  <2>2. CASE p # h
    <3>1. target[h] \in Sessions /\ index[h] \in Indices /\ body[h] \in Bodies
      BY <1>0, <1>5 DEF ChunkWrite, ControlOK, ChunkCalls
    <3>2. /\ pc'[p] = pc[p] /\ target'[p] = target[p] /\ index'[p] = index[p]
          /\ body'[p] = body[p] /\ handle'[p] = handle[p]
          /\ final' = final /\ promoted' = promoted
      BY <1>0, <1>5, <2>2 DEF ChunkWrite, Goto, Forget, Finish, Types, LocalsType
    <3>3. ASSUME chunks' # chunks
          PROVE  <<chunks[target[h]][index[h]][1], body[h]>> # None
      <4>1. chunks[target[h]][index[h]] # None
        BY <1>0, <1>5, <3>3 DEF ChunkWrite, ControlOK
      <4>2. chunks[target[h]][index[h]] \in ChunkFile
        BY <1>0, <3>1, <4>1 DEF Types, StoreType
      <4>3. QED
        BY <3>1, <4>2, ChunkFiles
    <3>4. ASSUME pc[p] = "write", handle[p] = "tmp"
          PROVE  chunks'[target[p]][index[p]] # None
      <4>1. /\ target[p] \in Sessions /\ index[p] \in Indices
            /\ chunks[target[p]][index[p]] # None
        BY <1>0, <3>4 DEF ControlOK, ChunkCalls
      <4>2. CASE chunks' = chunks
        BY <4>1, <4>2
      <4>3. CASE chunks' # chunks
        <5>1. chunks' = [chunks EXCEPT ![target[h]][index[h]] = <<@[1], body[h]>>]
          BY <1>5, <4>3 DEF ChunkWrite
        <5>2. chunks'[target[p]][index[p]] \in
                {chunks[target[p]][index[p]], <<chunks[target[h]][index[h]][1], body[h]>>}
          BY <1>0, <3>1, <4>1, <5>1 DEF Types
        <5>3. QED
          BY <3>3, <4>1, <4>3, <5>2
      <4>4. QED
        BY <4>2, <4>3
    <3>5. QED
      BY <1>0, <3>2, <3>4, OthersControl DEF ControlOK
  <2> QED
    BY <2>1, <2>2
<1>6. ASSUME NEW h \in Handlers, ChunkStat(h) PROVE ControlOK(p)'
  <2>1. CASE p = h
    BY <1>0, <1>6, <2>1, MissingAssumption
       DEF ChunkStat, Goto, Fault, store, locals, Types, LocalsType, ControlOK,
           ChunkCalls, CompleteCalls, CleanupCalls, Places
  <2>2. CASE p # h
    BY <1>0, <1>6, <2>2, MissingAssumption
       DEF ChunkStat, Goto, Fault, store, locals, Types, LocalsType, ControlOK,
           ChunkCalls, CompleteCalls, CleanupCalls, Places
  <2> QED
    BY <2>1, <2>2
<1>7. ASSUME NEW h \in Handlers, ChunkLimit(h) PROVE ControlOK(p)'
  <2>1. CASE p = h
    <3>1. \/ Goto(h, "discard") /\ UNCHANGED locals
          \/ Finish(h)
          \/ Goto(h, "record") /\ UNCHANGED locals
      BY <1>7 DEF ChunkLimit
    <3>2. CASE Finish(h)
      BY <1>0, <2>1, <3>2, ForgetControl DEF Finish, Types, LocalsType
    <3>3. CASE ~Finish(h)
      <4>1. pc'[h] \in {"discard", "record"} /\ UNCHANGED locals
        BY <1>0, <3>1, <3>3 DEF Goto, Types, LocalsType
      <4>2. /\ target[h] \in Sessions /\ index[h] \in Indices
            /\ body[h] \in Bodies /\ handle[h] = None
        BY <1>0, <1>7 DEF ChunkLimit, ControlOK, ChunkCalls
      <4>3. QED
        BY <1>7, <2>1, <4>1, <4>2, MissingAssumption
           DEF locals, ControlOK, ChunkCalls, CompleteCalls, CleanupCalls, Places
    <3>4. QED
      BY <3>2, <3>3
  <2>2. CASE p # h
    BY <1>0, <1>7, <2>2, MissingAssumption
       DEF ChunkLimit, Goto, Forget, Finish, store, locals, Types, LocalsType,
           ControlOK, ChunkCalls, CompleteCalls, CleanupCalls, Places
  <2> QED
    BY <2>1, <2>2
<1>8. ASSUME NEW h \in Handlers, ChunkRecord(h) PROVE ControlOK(p)'
  <2>1. CASE p = h
    BY <1>0, <1>8, <2>1, MissingAssumption
       DEF ChunkRecord, Goto, Forget, Finish, store, Types, LocalsType, ControlOK,
           ChunkCalls, CompleteCalls, CleanupCalls, Places
  <2>2. CASE p # h
    BY <1>0, <1>8, <2>2, MissingAssumption
       DEF ChunkRecord, Goto, Forget, Finish, store, Types, LocalsType, ControlOK,
           ChunkCalls, CompleteCalls, CleanupCalls, Places
  <2> QED
    BY <2>1, <2>2
<1>9. ASSUME NEW h \in Handlers, ChunkDiscard(h) PROVE ControlOK(p)'
  <2>1. CASE p = h
    <3>1. Forget(h) /\ handle[h] = None
      BY <1>0, <1>9 DEF ChunkDiscard, ControlOK
    <3>2. handle'[h] = None
      BY <1>0, <1>9, <3>1 DEF ChunkDiscard, Redirected
    <3>3. QED
      BY <1>0, <2>1, <3>1, <3>2, ForgetControl
  <2>2. CASE p # h
    <3>1. target[h] \in Sessions /\ index[h] \in Indices
      BY <1>0, <1>9 DEF ChunkDiscard, ControlOK, ChunkCalls
    <3>2. /\ pc'[p] = pc[p] /\ target'[p] = target[p] /\ index'[p] = index[p]
          /\ body'[p] = body[p] /\ final' = final /\ promoted' = promoted
      BY <1>0, <1>9, <2>2 DEF ChunkDiscard, Goto, Forget, Types, LocalsType
    <3>3. handle'[p] \in {handle[p], None}
      BY <1>0, <1>9 DEF ChunkDiscard, Redirected
    <3>4. ASSUME pc[p] = "write", handle'[p] = "tmp"
          PROVE  chunks'[target[p]][index[p]] # None
      <4>1. /\ target[p] \in Sessions /\ index[p] \in Indices
            /\ chunks[target[p]][index[p]] # None /\ handle[p] = "tmp"
        BY <1>0, <3>3, <3>4, MissingAssumption DEF ControlOK, ChunkCalls, Places
      <4>2. CASE target[p] = target[h] /\ index[p] = index[h]
        BY <1>0, <1>9, <3>4, <4>1, <4>2, MissingAssumption
           DEF ChunkDiscard, Redirected, WritersOf, Places
      <4>3. CASE ~(target[p] = target[h] /\ index[p] = index[h])
        <5>1. chunks' \in {chunks, [chunks EXCEPT ![target[h]][index[h]] = None]}
          BY <1>9 DEF ChunkDiscard
        <5>2. StoreType /\ ~(target[p] = target[h] /\ index[p] = index[h])
          BY <1>0, <4>3 DEF Types
        <5>3. [chunks EXCEPT ![target[h]][index[h]] = None][target[p]][index[p]]
                = chunks[target[p]][index[p]]
          BY <3>1, <4>1, <5>2, ChunkSetOther
        <5>4. QED
          BY <4>1, <5>1, <5>3
      <4>4. QED
        BY <4>2, <4>3
    <3>5. QED
      BY <1>0, <3>2, <3>3, <3>4, MissingAssumption, OthersControl
         DEF ControlOK, Places
  <2> QED
    BY <2>1, <2>2
<1>10. ASSUME NEW h \in Handlers, CompleteBegin(h) PROVE ControlOK(p)'
  <2>1. CASE p = h
    <3>1. pc'[h] = "create" /\ target'[h] \in Sessions
      BY <1>0, <1>10 DEF CompleteBegin, Goto, Types, LocalsType
    <3>2. handle'[h] = None
      BY <1>0, <1>10 DEF CompleteBegin, ControlOK
    <3>3. QED
      BY <1>10, <2>1, <3>1, <3>2, MissingAssumption
         DEF ControlOK, ChunkCalls, CompleteCalls, CleanupCalls, Places
  <2>2. CASE p # h
    BY <1>0, <1>10, <2>2, MissingAssumption
       DEF CompleteBegin, Goto, store, Types, LocalsType, ControlOK, ChunkCalls,
           CompleteCalls, CleanupCalls, Places
  <2> QED
    BY <2>1, <2>2
<1>11. ASSUME NEW h \in Handlers, CompleteCreate(h) PROVE ControlOK(p)'
  <2>1. CASE p = h
    <3>1. target[h] \in Sessions
      BY <1>0, <1>11 DEF CompleteCreate, ControlOK, CompleteCalls
    <3>2. <<>> \in Seq(Blocks) /\ <<>> # None
      BY EmptySeq, MissingAssumption
    <3>3. pc'[h] = "copy" /\ target'[h] = target[h] /\ handle'[h] = "tmp"
          /\ final'[target[h]] = <<>>
      BY <1>0, <1>11, <3>1 DEF CompleteCreate, Goto, Types, LocalsType, StoreType
    <3>4. QED
      BY <1>11, <2>1, <3>1, <3>2, <3>3
         DEF ControlOK, ChunkCalls, CompleteCalls, CleanupCalls
  <2>2. CASE p # h
    <3>1. target[h] \in Sessions
      BY <1>0, <1>11 DEF CompleteCreate, ControlOK, CompleteCalls
    <3>2. <<>> \in Seq(Blocks) /\ <<>> # None
      BY EmptySeq, MissingAssumption
    <3>3. /\ pc'[p] = pc[p] /\ target'[p] = target[p] /\ index'[p] = index[p]
          /\ body'[p] = body[p] /\ handle'[p] = handle[p]
          /\ chunks' = chunks /\ promoted' = promoted
      BY <1>0, <1>11, <2>2 DEF CompleteCreate, Goto, Types, LocalsType
    <3>4. \A s \in Sessions : final[s] # None => final'[s] # None
      BY <1>0, <1>11, <3>1, <3>2 DEF CompleteCreate, Types
    <3>5. QED
      BY <1>0, <3>3, <3>4, OthersControl DEF ControlOK, CompleteCalls
  <2> QED
    BY <2>1, <2>2
<1>12. ASSUME NEW h \in Handlers, CompleteCopy(h) PROVE ControlOK(p)'
  <2>1. CASE p = h
    <3>1. target[h] \in Sessions /\ target' = target
      BY <1>0, <1>12 DEF CompleteCopy, ControlOK, CompleteCalls
    <3>2. CASE CloseWithError(h)
      <4>1. pc'[h] = "drop" /\ handle'[h] = None
        BY <1>0, <3>2 DEF CloseWithError, Goto, Types, LocalsType
      <4>2. QED
        BY <1>12, <2>1, <3>1, <4>1, MissingAssumption
           DEF ControlOK, ChunkCalls, CompleteCalls, CleanupCalls, Places
    <3>3. CASE ~CloseWithError(h)
      <4>1. UNCHANGED <<pc, handle, index, body, chunks>>
        BY <1>12, <3>3 DEF CompleteCopy
      <4>2. handle[h] = "tmp" => final'[target[h]] # None
        BY <1>0, <1>12, <3>1, CopiesStay DEF CompleteCopy, ControlOK
      <4>3. handle[h] = "bucket" => promoted'[target[h]] # None
        BY <1>0, <1>12, <3>1, CopiesStay DEF ControlOK
      <4>4. QED
        BY <1>0, <1>12, <2>1, <3>1, <4>1, <4>2, <4>3, OthersControl
           DEF CompleteCopy, ControlOK
    <3>4. QED
      BY <3>2, <3>3
  <2>2. CASE p # h
    <3>1. /\ pc'[p] = pc[p] /\ target' = target /\ index' = index /\ body' = body
          /\ handle'[p] = handle[p] /\ chunks' = chunks
      BY <1>0, <1>12, <2>2 DEF CompleteCopy, CloseWithError, Goto, Types, LocalsType
    <3>2. \A s \in Sessions : /\ final[s] # None => final'[s] # None
                              /\ promoted[s] # None => promoted'[s] # None
      BY <1>12, CopiesStay
    <3>3. QED
      BY <1>0, <3>1, <3>2, OthersControl DEF ControlOK, CompleteCalls
  <2> QED
    BY <2>1, <2>2
<1>13. ASSUME NEW h \in Handlers, CompleteClose(h) PROVE ControlOK(p)'
  <2>1. CASE p = h
    BY <1>0, <1>13, <2>1, MissingAssumption
       DEF CompleteClose, Goto, store, Types, LocalsType, ControlOK, ChunkCalls,
           CompleteCalls, CleanupCalls, Places
  <2>2. CASE p # h
    BY <1>0, <1>13, <2>2, MissingAssumption
       DEF CompleteClose, Goto, store, Types, LocalsType, ControlOK, ChunkCalls,
           CompleteCalls, CleanupCalls, Places
  <2> QED
    BY <2>1, <2>2
<1>14. ASSUME NEW h \in Handlers, CompleteInspect(h) PROVE ControlOK(p)'
  <2>1. CASE p = h
    BY <1>0, <1>14, <2>1, MissingAssumption
       DEF CompleteInspect, Goto, store, locals, Types, LocalsType, ControlOK,
           ChunkCalls, CompleteCalls, CleanupCalls, Places
  <2>2. CASE p # h
    BY <1>0, <1>14, <2>2, MissingAssumption
       DEF CompleteInspect, Goto, store, locals, Types, LocalsType, ControlOK,
           ChunkCalls, CompleteCalls, CleanupCalls, Places
  <2> QED
    BY <2>1, <2>2
<1>15. ASSUME NEW h \in Handlers, CompleteMove(h) PROVE ControlOK(p)'
  <2>1. CASE p = h
    BY <1>0, <1>15, <2>1, MissingAssumption
       DEF CompleteMove, Goto, Types, LocalsType, ControlOK, ChunkCalls,
           CompleteCalls, CleanupCalls, Places
  <2>2. CASE p # h
    BY <1>0, <1>15, <2>2, MissingAssumption, ChunkFiles
       DEF CompleteMove, Goto, WritersOf, tables, Types, StoreType, LocalsType,
           ControlOK, ChunkCalls, CompleteCalls, CleanupCalls, Places
  <2> QED
    BY <2>1, <2>2
<1>16. ASSUME NEW h \in Handlers, CompleteRow(h) PROVE ControlOK(p)'
  <2>1. CASE p = h
    BY <1>0, <1>16, <2>1, MissingAssumption
       DEF CompleteRow, Goto, Forget, Finish, store, locals, Types, LocalsType,
           ControlOK, ChunkCalls, CompleteCalls, CleanupCalls, Places
  <2>2. CASE p # h
    BY <1>0, <1>16, <2>2, MissingAssumption
       DEF CompleteRow, Goto, Forget, Finish, store, locals, Types, LocalsType,
           ControlOK, ChunkCalls, CompleteCalls, CleanupCalls, Places
  <2> QED
    BY <2>1, <2>2
<1>17. ASSUME NEW h \in Handlers, CompleteMark(h) PROVE ControlOK(p)'
  <2>1. CASE p = h
    BY <1>0, <1>17, <2>1, MissingAssumption
       DEF CompleteMark, Goto, store, locals, Types, LocalsType, ControlOK,
           ChunkCalls, CompleteCalls, CleanupCalls, Places
  <2>2. CASE p # h
    BY <1>0, <1>17, <2>2, MissingAssumption
       DEF CompleteMark, Goto, store, locals, Types, LocalsType, ControlOK,
           ChunkCalls, CompleteCalls, CleanupCalls, Places
  <2> QED
    BY <2>1, <2>2
<1>18. ASSUME NEW h \in Handlers, CompleteSweep(h) PROVE ControlOK(p)'
  <2>1. CASE p = h
    <3>1. Forget(h) /\ handle[h] = None
      BY <1>0, <1>18 DEF CompleteSweep, ControlOK
    <3>2. handle'[h] = None
      BY <1>0, <1>18, <3>1 DEF CompleteSweep, Redirected
    <3>3. QED
      BY <1>0, <2>1, <3>1, <3>2, ForgetControl
  <2>2. CASE p # h
    BY <1>0, <1>18, <2>2, MissingAssumption, ChunkFiles
       DEF CompleteSweep, Goto, Forget, Fault, Redirected, TreeRemoved, WritersOf,
           tables, Types, StoreType, LocalsType, ControlOK, ChunkCalls, CompleteCalls,
           CleanupCalls, Places
  <2> QED
    BY <2>1, <2>2
<1>19. ASSUME NEW h \in Handlers, CompleteDrop(h) PROVE ControlOK(p)'
  <2>1. CASE p = h
    <3>1. Forget(h) /\ handle[h] = None
      BY <1>0, <1>19 DEF CompleteDrop, ControlOK
    <3>2. handle'[h] = None
      BY <1>0, <1>19, <3>1 DEF CompleteDrop, Redirected
    <3>3. QED
      BY <1>0, <2>1, <3>1, <3>2, ForgetControl
  <2>2. CASE p # h
    BY <1>0, <1>19, <2>2, MissingAssumption, ChunkFiles
       DEF CompleteDrop, Goto, Forget, Fault, Redirected, WritersOf, tables, Types,
           StoreType, LocalsType, ControlOK, ChunkCalls, CompleteCalls, CleanupCalls,
           Places
  <2> QED
    BY <2>1, <2>2
<1>20. ASSUME NEW h \in Handlers, CompleteFails(h) PROVE ControlOK(p)'
  <2>1. CASE p = h
    BY <1>0, <1>20, <2>1, MissingAssumption
       DEF CompleteFails, Goto, Fault, CloseWithError, store, Types, LocalsType,
           ControlOK, ChunkCalls, CompleteCalls, CleanupCalls, Places
  <2>2. CASE p # h
    BY <1>0, <1>20, <2>2, MissingAssumption
       DEF CompleteFails, Goto, Fault, CloseWithError, store, Types, LocalsType,
           ControlOK, ChunkCalls, CompleteCalls, CleanupCalls, Places
  <2> QED
    BY <2>1, <2>2
<1>21. ASSUME NEW w \in Workers, CleanupFind(w) PROVE ControlOK(p)'
  <2>1. CASE p = w
    BY <1>0, <1>21, <2>1, MissingAssumption
       DEF CleanupFind, Goto, store, locals, Types, LocalsType, ControlOK, ChunkCalls,
           CompleteCalls, CleanupCalls, Places
  <2>2. CASE p # w
    BY <1>0, <1>21, <2>2, MissingAssumption
       DEF CleanupFind, Goto, store, locals, Types, LocalsType, ControlOK, ChunkCalls,
           CompleteCalls, CleanupCalls, Places
  <2> QED
    BY <2>1, <2>2
<1>22. ASSUME NEW w \in Workers, CleanupNext(w) PROVE ControlOK(p)'
  <2>1. CASE p = w
    BY <1>0, <1>22, <2>1, MissingAssumption, SlotsAssumption
       DEF CleanupNext, Goto, store, Types, StoreType, LocalsType, ControlOK,
           ChunkCalls, CompleteCalls, CleanupCalls, Places
  <2>2. CASE p # w
    BY <1>0, <1>22, <2>2, MissingAssumption
       DEF CleanupNext, Goto, store, Types, LocalsType, ControlOK, ChunkCalls,
           CompleteCalls, CleanupCalls, Places
  <2> QED
    BY <2>1, <2>2
<1>23. ASSUME NEW w \in Workers, CleanupDone(w) PROVE ControlOK(p)'
  <2>1. CASE p = w
    BY <1>0, <1>23, <2>1, MissingAssumption
       DEF CleanupDone, Goto, store, locals, Types, LocalsType, ControlOK, ChunkCalls,
           CompleteCalls, CleanupCalls, Places
  <2>2. CASE p # w
    BY <1>0, <1>23, <2>2, MissingAssumption
       DEF CleanupDone, Goto, store, locals, Types, LocalsType, ControlOK, ChunkCalls,
           CompleteCalls, CleanupCalls, Places
  <2> QED
    BY <2>1, <2>2
<1>24. ASSUME NEW w \in Workers, CleanupTree(w) PROVE ControlOK(p)'
  <2>1. CASE p = w
    <3>1. target[w] \in Sessions /\ handle[w] = None
      BY <1>0, <1>24 DEF CleanupTree, ControlOK, CleanupCalls
    <3>2. pc'[w] = "forget" /\ target'[w] = target[w] /\ handle'[w] = None
      BY <1>0, <1>24, <3>1 DEF CleanupTree, Goto, Redirected, Types, LocalsType
    <3>3. QED
      BY <1>24, <2>1, <3>1, <3>2, MissingAssumption
         DEF ControlOK, ChunkCalls, CompleteCalls, CleanupCalls, Places
  <2>2. CASE p # w
    BY <1>0, <1>24, <2>2, MissingAssumption, ChunkFiles
       DEF CleanupTree, Goto, Fault, Redirected, TreeRemoved, WritersOf, tables,
           Types, StoreType, LocalsType, ControlOK, ChunkCalls, CompleteCalls,
           CleanupCalls, Places
  <2> QED
    BY <2>1, <2>2
<1>25. ASSUME NEW w \in Workers, CleanupForget(w) PROVE ControlOK(p)'
  <2>1. CASE p = w
    BY <1>0, <1>25, <2>1, MissingAssumption
       DEF CleanupForget, Goto, Forget, Finish, store, Types, LocalsType, ControlOK,
           ChunkCalls, CompleteCalls, CleanupCalls, Places
  <2>2. CASE p # w
    BY <1>0, <1>25, <2>2, MissingAssumption
       DEF CleanupForget, Goto, Forget, Finish, store, Types, LocalsType, ControlOK,
           ChunkCalls, CompleteCalls, CleanupCalls, Places
  <2> QED
    BY <2>1, <2>2
<1>26. ASSUME NEW q \in Procs, CallRefused(q) PROVE ControlOK(p)'
  <2>1. CASE p = q
    BY <1>0, <1>26, <2>1, MissingAssumption
       DEF CallRefused, Goto, Forget, Finish, Fault, store, Types, LocalsType,
           ControlOK, ChunkCalls, CompleteCalls, CleanupCalls, Places
  <2>2. CASE p # q
    BY <1>0, <1>26, <2>2, MissingAssumption
       DEF CallRefused, Goto, Forget, Finish, Fault, store, Types, LocalsType,
           ControlOK, ChunkCalls, CompleteCalls, CleanupCalls, Places
  <2> QED
    BY <2>1, <2>2
<1>27. ASSUME Crash PROVE ControlOK(p)'
  BY <1>0, <1>27, MissingAssumption
     DEF Crash, store, Types, LocalsType, ControlOK, ChunkCalls, CompleteCalls,
         CleanupCalls, Places
<1>28. ASSUME Age PROVE ControlOK(p)'
  BY <1>0, <1>28, MissingAssumption
     DEF Age, store, locals, Types, LocalsType, ControlOK, ChunkCalls, CompleteCalls,
         CleanupCalls, Places
<1>29. ASSUME UNCHANGED vars PROVE ControlOK(p)'
  BY <1>0, <1>29 DEF vars, ControlOK
<1> QED
  BY <1>1, <1>2, <1>3, <1>4, <1>5, <1>6, <1>7, <1>8, <1>9, <1>10, <1>11, <1>12, <1>13,
     <1>14, <1>15, <1>16, <1>17, <1>18, <1>19, <1>20, <1>21, <1>22, <1>23, <1>24,
     <1>25, <1>26, <1>27, <1>28, <1>29
     DEF Next, Request, ChunkStep, CompleteStep, CleanupStep

(* Every reachable state has its types, and no call of a request or cleanup *)
(* task goes through a file or a session that another one took away.        *)
THEOREM TypeCorrect == Spec => []TypeOK
<1>1. Init => TypeOK
  BY InitType
<1>2. TypeOK /\ [Next]_vars => TypeOK'
  BY NextTypes, NextControl DEF Types, TablesType, StoreType, LocalsType, TypeOK
<1>3. QED
  BY <1>1, <1>2, PTL DEF Spec

-----------------------------------------------------------------------------
(* Completions. *)

(* Past the insert: the answer will be that the blob is there. *)
Inserted(h) == pc[h] \in {"mark", "sweep"}

(* A request gets past the insert only with the row that it has inserted     *)
(* itself, so never two of one session.                                      *)
InsertOnce ==
    /\ \A h \in Handlers : Inserted(h) => target[h] \in blobs
    /\ \A h, g \in Handlers :
         Inserted(h) /\ Inserted(g) /\ target[h] = target[g] => h = g

(* A row comes after its file, which no step takes away again. *)
RowsHaveFiles ==
    /\ \A s \in blobs : promoted[s] # None
    /\ \A h \in Handlers : pc[h] = "row" => promoted[target[h]] # None
    /\ \A s \in Sessions :
         sessions[s] # None /\ sessions[s].completed => s \in blobs

(* A completion that never had company works alone: nobody else writes the   *)
(* final file between its inspection and its promotion, or the promoted file *)
(* after that.                                                               *)
Alone ==
    \A h, g \in Handlers :
        /\ pc[h] \in CompleteCalls /\ pc[g] \in CompleteCalls
        /\ target[h] = target[g] /\ target[h] \notin overlapped
        => h = g

Verified ==
    \A h \in Handlers : target[h] \notin overlapped =>
        /\ handle[h] # "bucket"
        /\ pc[h] = "move" => final[target[h]] \in {Whole, None}
        /\ pc[h] = "row" => promoted[target[h]] = Whole

Completion == InsertOnce /\ RowsHaveFiles /\ Alone /\ Verified /\ PromotedWhole

(* Nothing is completed at first. *)
LEMMA InitCompletion == Init => Completion
  BY MissingAssumption
     DEF Init, Completion, InsertOnce, RowsHaveFiles, Alone, Verified, PromotedWhole,
         Inserted, CompleteCalls, Procs, Places

(* A step that promotes nothing, inserts and marks no row, inspects no file  *)
(* and writes none that has been inspected.                                  *)
LEMMA QuietStep ==
  ASSUME TypeOK, TypeOK', Completion,
         blobs' = blobs, promoted' = promoted, overlapped' = overlapped,
         \A s \in Sessions : sessions'[s] # None /\ sessions'[s].completed
            => sessions[s] # None /\ sessions[s].completed,
         \A h \in Handlers : pc'[h] \in CompleteCalls =>
            /\ pc[h] \in CompleteCalls /\ target'[h] = target[h]
            /\ pc'[h] # pc[h] => pc'[h] \in {"copy", "inspect", "sweep", "drop"}
            /\ pc'[h] = "sweep" => Inserted(h),
         \A h \in Handlers :
            handle'[h] = "bucket" => handle[h] = "bucket" /\ target'[h] = target[h],
         \A h \in Handlers : pc[h] = "move" /\ pc'[h] = "move" /\ target[h] \notin overlapped
            => final'[target[h]] \in {final[target[h]], None}
  PROVE  Completion'
<1>1. InsertOnce'
  BY DEF Completion, InsertOnce, Inserted, CompleteCalls
<1>2. RowsHaveFiles'
  BY DEF Completion, RowsHaveFiles, CompleteCalls
<1>3. Alone'
  BY DEF Completion, Alone, CompleteCalls
<1>4. Verified'
  <2> SUFFICES ASSUME NEW h \in Handlers, target'[h] \notin overlapped
               PROVE  /\ handle'[h] # "bucket"
                      /\ pc'[h] = "move" => final'[target'[h]] \in {Whole, None}
                      /\ pc'[h] = "row" => promoted'[target'[h]] = Whole
    BY DEF Verified, Whole
  <2>1. handle'[h] # "bucket"
    BY DEF Completion, Verified
  <2>2. pc'[h] = "move" => final'[target'[h]] \in {Whole, None}
    BY DEF Completion, Verified, CompleteCalls
  <2>3. pc'[h] = "row" => promoted'[target'[h]] = Whole
    BY DEF Completion, Verified, CompleteCalls
  <2>4. QED
    BY <2>1, <2>2, <2>3
<1>5. PromotedWhole'
  BY DEF Completion, PromotedWhole, Whole
<1>6. QED
  BY <1>1, <1>2, <1>3, <1>4, <1>5 DEF Completion

(* Every step keeps the agreement of completions, rows and files. *)
LEMMA NextCompletion == TypeOK /\ TypeOK' /\ Completion /\ [Next]_vars => Completion'
<1> SUFFICES ASSUME TypeOK, TypeOK', Completion, [Next]_vars PROVE Completion'
  OBVIOUS
<1>0. Types /\ Handlers \subseteq Procs /\ Workers \subseteq Procs
  BY DEF TypeOK, Types, TablesType, StoreType, LocalsType, Procs
<1>h. \A p \in Procs : handle[p] # None => pc[p] \in {"write", "copy"}
  BY DEF TypeOK, ControlOK
<1> DEFINE Quiet ==
      /\ blobs' = blobs /\ promoted' = promoted /\ overlapped' = overlapped
      /\ \A s \in Sessions : sessions'[s] # None /\ sessions'[s].completed
            => sessions[s] # None /\ sessions[s].completed
      /\ \A g \in Handlers : pc'[g] \in CompleteCalls =>
            /\ pc[g] \in CompleteCalls /\ target'[g] = target[g]
            /\ pc'[g] # pc[g] => pc'[g] \in {"copy", "inspect", "sweep", "drop"}
            /\ pc'[g] = "sweep" => Inserted(g)
      /\ \A g \in Handlers :
            handle'[g] = "bucket" => handle[g] = "bucket" /\ target'[g] = target[g]
      /\ \A g \in Handlers : pc[g] = "move" /\ pc'[g] = "move" /\ target[g] \notin overlapped
            => final'[target[g]] \in {final[target[g]], None}
<1>1. ASSUME Quiet PROVE Completion'
  BY <1>1, QuietStep
<1> HIDE DEF Quiet
<1>2. ASSUME NEW h \in Handlers, InitiateCreate(h) PROVE Completion'
  <2>1. /\ pc' = [pc EXCEPT ![h] = "ensure"] /\ handle' = handle /\ handle[h] = None
        /\ \A g \in Handlers : g # h => target'[g] = target[g]
    BY <1>0, <1>h, <1>2 DEF InitiateCreate, Goto, Types, LocalsType
  <2>2. \A s \in Sessions : sessions'[s] = sessions[s] \/ sessions'[s].completed = FALSE
    BY <1>0, <1>2 DEF InitiateCreate, Types
  <2>3. UNCHANGED <<blobs, promoted, final, overlapped>>
    BY <1>2 DEF InitiateCreate, store
  <2>4. Quiet
    BY <1>0, <2>1, <2>2, <2>3, MissingAssumption
       DEF Quiet, Inserted, CompleteCalls, Places, Types, LocalsType
  <2>5. QED
    BY <1>1, <2>4
<1>3. ASSUME NEW h \in Handlers, InitiateEnsure(h) PROVE Completion'
  BY <1>0, <1>1, <1>3, MissingAssumption, SlotsAssumption
     DEF InitiateEnsure, Goto, Forget, Finish, store, Types, LocalsType, TablesType,
         StoreType, CompleteCalls, Places, Inserted, Quiet
<1>4. ASSUME NEW h \in Handlers, ChunkBegin(h) PROVE Completion'
  BY <1>0, <1>h, <1>1, <1>4, MissingAssumption, SlotsAssumption
     DEF ChunkBegin, Goto, store, tables, Types, LocalsType, TablesType, StoreType,
         CompleteCalls, Places, Inserted, Quiet
<1>5. ASSUME NEW h \in Handlers, ChunkPut(h) PROVE Completion'
  BY <1>0, <1>1, <1>5, MissingAssumption, SlotsAssumption
     DEF ChunkPut, Goto, tables, Types, LocalsType, TablesType, StoreType,
         CompleteCalls, Places, Inserted, Quiet
<1>6. ASSUME NEW h \in Handlers, ChunkWrite(h) PROVE Completion'
  BY <1>0, <1>1, <1>6, MissingAssumption, SlotsAssumption
     DEF ChunkWrite, Goto, Forget, Finish, tables, Types, LocalsType, TablesType,
         StoreType, CompleteCalls, Places, Inserted, Quiet
<1>7. ASSUME NEW h \in Handlers, ChunkStat(h) PROVE Completion'
  BY <1>0, <1>1, <1>7, MissingAssumption, SlotsAssumption
     DEF ChunkStat, Goto, store, tables, locals, Types, LocalsType, TablesType,
         StoreType, CompleteCalls, Places, Inserted, Quiet
<1>8. ASSUME NEW h \in Handlers, ChunkLimit(h) PROVE Completion'
  BY <1>0, <1>1, <1>8, MissingAssumption, SlotsAssumption
     DEF ChunkLimit, Goto, Forget, Finish, store, tables, locals, Types, LocalsType,
         TablesType, StoreType, CompleteCalls, Places, Inserted, Quiet
<1>9. ASSUME NEW h \in Handlers, ChunkRecord(h) PROVE Completion'
  BY <1>0, <1>1, <1>9, MissingAssumption, SlotsAssumption
     DEF ChunkRecord, Goto, Forget, Finish, store, Types, LocalsType, TablesType,
         StoreType, CompleteCalls, Places, Inserted, Quiet
<1>10. ASSUME NEW h \in Handlers, ChunkDiscard(h) PROVE Completion'
  <2>1. /\ pc'[h] \notin CompleteCalls /\ handle[h] = None
        /\ \A g \in Handlers : g # h => pc'[g] = pc[g] /\ target'[g] = target[g]
    BY <1>0, <1>h, <1>10
       DEF ChunkDiscard, Forget, Goto, CompleteCalls, Types, LocalsType
  <2>2. \A g \in Procs : handle'[g] \in {handle[g], None}
    BY <1>0, <1>10 DEF ChunkDiscard, Redirected
  <2>3. \A s \in Sessions : final'[s] \in {final[s], None}
    BY <1>0, <1>10 DEF ChunkDiscard, Types
  <2>4. UNCHANGED <<sessions, blobs, promoted, overlapped>>
    BY <1>10 DEF ChunkDiscard, tables
  <2>5. \A g \in Handlers : pc[g] = "move" => target[g] \in Sessions
    BY <1>0 DEF TypeOK, ControlOK, CompleteCalls
  <2>6. Quiet
    BY <1>0, <2>1, <2>2, <2>3, <2>4, <2>5, MissingAssumption
       DEF Quiet, Inserted, CompleteCalls, Places
  <2>7. QED
    BY <1>1, <2>6
<1>11. ASSUME NEW h \in Handlers, CompleteCreate(h) PROVE Completion'
  BY <1>0, <1>h, <1>1, <1>11, MissingAssumption, SlotsAssumption
     DEF CompleteCreate, Goto, tables, Types, LocalsType, TablesType, StoreType,
         CompleteCalls, Places, Inserted, Quiet, Completion, Alone, ControlOK
<1>12. ASSUME NEW h \in Handlers, CompleteClose(h) PROVE Completion'
  BY <1>0, <1>1, <1>12, MissingAssumption, SlotsAssumption
     DEF CompleteClose, Goto, store, tables, Types, LocalsType, TablesType, StoreType,
         CompleteCalls, Places, Inserted, Quiet
<1>13. ASSUME NEW h \in Handlers, CompleteFails(h) PROVE Completion'
  BY <1>0, <1>1, <1>13, MissingAssumption, SlotsAssumption
     DEF CompleteFails, Goto, CloseWithError, store, tables, Types, LocalsType,
         TablesType, StoreType, CompleteCalls, Places, Inserted, Quiet
<1>14. ASSUME NEW h \in Handlers, CompleteSweep(h) PROVE Completion'
  <2>1. /\ pc'[h] \notin CompleteCalls /\ handle[h] = None
        /\ \A g \in Handlers : g # h => pc'[g] = pc[g] /\ target'[g] = target[g]
    BY <1>0, <1>h, <1>14
       DEF CompleteSweep, Forget, Goto, CompleteCalls, Types, LocalsType
  <2>2. \A g \in Procs : handle'[g] \in {handle[g], None}
    BY <1>0, <1>14 DEF CompleteSweep, Redirected
  <2>3. \A s \in Sessions : final'[s] \in {final[s], None}
    BY <1>0, <1>14 DEF CompleteSweep, TreeRemoved, Types, StoreType
  <2>4. UNCHANGED <<sessions, blobs, promoted, overlapped>>
    BY <1>14 DEF CompleteSweep, tables
  <2>5. \A g \in Handlers : pc[g] = "move" => target[g] \in Sessions
    BY <1>0 DEF TypeOK, ControlOK, CompleteCalls
  <2>6. Quiet
    BY <1>0, <2>1, <2>2, <2>3, <2>4, <2>5, MissingAssumption
       DEF Quiet, Inserted, CompleteCalls, Places
  <2>7. QED
    BY <1>1, <2>6
<1>15. ASSUME NEW h \in Handlers, CompleteDrop(h) PROVE Completion'
  <2>1. /\ pc'[h] \notin CompleteCalls /\ handle[h] = None
        /\ \A g \in Handlers : g # h => pc'[g] = pc[g] /\ target'[g] = target[g]
    BY <1>0, <1>h, <1>15
       DEF CompleteDrop, Forget, Goto, CompleteCalls, Types, LocalsType
  <2>2. \A g \in Procs : handle'[g] \in {handle[g], None}
    BY <1>0, <1>15 DEF CompleteDrop, Redirected
  <2>3. \A s \in Sessions : final'[s] \in {final[s], None}
    BY <1>0, <1>15 DEF CompleteDrop, Types, StoreType
  <2>4. UNCHANGED <<sessions, blobs, promoted, overlapped>>
    BY <1>15 DEF CompleteDrop, tables
  <2>5. \A g \in Handlers : pc[g] = "move" => target[g] \in Sessions
    BY <1>0 DEF TypeOK, ControlOK, CompleteCalls
  <2>6. Quiet
    BY <1>0, <2>1, <2>2, <2>3, <2>4, <2>5, MissingAssumption
       DEF Quiet, Inserted, CompleteCalls, Places
  <2>7. QED
    BY <1>1, <2>6
<1>16. ASSUME NEW w \in Workers, CleanupFind(w) PROVE Completion'
  BY <1>0, <1>1, <1>16, MissingAssumption, SlotsAssumption
     DEF CleanupFind, Goto, store, tables, locals, Types, LocalsType, TablesType,
         StoreType, CompleteCalls, Places, Inserted, Quiet
<1>17. ASSUME NEW w \in Workers, CleanupNext(w) PROVE Completion'
  BY <1>0, <1>1, <1>17, MissingAssumption, SlotsAssumption
     DEF CleanupNext, Goto, store, tables, Types, LocalsType, TablesType, StoreType,
         CompleteCalls, Places, Inserted, Quiet
<1>18. ASSUME NEW w \in Workers, CleanupDone(w) PROVE Completion'
  BY <1>0, <1>1, <1>18, MissingAssumption, SlotsAssumption
     DEF CleanupDone, Goto, store, tables, locals, Types, LocalsType, TablesType,
         StoreType, CompleteCalls, Places, Inserted, Quiet
<1>19. ASSUME NEW w \in Workers, CleanupTree(w) PROVE Completion'
  <2>1. target' = target /\ \A g \in Handlers : pc'[g] = pc[g]
    BY <1>0, <1>19, SlotsAssumption DEF CleanupTree, Goto, Types, LocalsType
  <2>2. \A g \in Procs : handle'[g] \in {handle[g], None}
    BY <1>0, <1>19 DEF CleanupTree, Redirected
  <2>3. \A s \in Sessions : final'[s] \in {final[s], None}
    BY <1>0, <1>19 DEF CleanupTree, TreeRemoved, Types, StoreType
  <2>4. UNCHANGED <<sessions, blobs, promoted, overlapped>>
    BY <1>19 DEF CleanupTree, tables
  <2>5. \A g \in Handlers : pc[g] = "move" => target[g] \in Sessions
    BY <1>0 DEF TypeOK, ControlOK, CompleteCalls
  <2>6. Quiet
    BY <1>0, <2>1, <2>2, <2>3, <2>4, <2>5, MissingAssumption
       DEF Quiet, Inserted, CompleteCalls, Places
  <2>7. QED
    BY <1>1, <2>6
<1>20. ASSUME NEW w \in Workers, CleanupForget(w) PROVE Completion'
  BY <1>0, <1>1, <1>20, MissingAssumption, SlotsAssumption
     DEF CleanupForget, Goto, Forget, Finish, store, Types, LocalsType, TablesType,
         StoreType, CompleteCalls, Places, Inserted, Quiet
<1>21. ASSUME NEW p \in Procs, CallRefused(p) PROVE Completion'
  BY <1>0, <1>1, <1>21, MissingAssumption, SlotsAssumption
     DEF CallRefused, Goto, Forget, Finish, store, tables, Types, LocalsType,
         TablesType, StoreType, CompleteCalls, Places, Inserted, Quiet
<1>22. ASSUME Crash PROVE Completion'
  BY <1>0, <1>1, <1>22, MissingAssumption, SlotsAssumption
     DEF Crash, store, tables, Types, LocalsType, TablesType, StoreType,
         CompleteCalls, Places, Inserted, Quiet
<1>23. ASSUME Age PROVE Completion'
  BY <1>0, <1>1, <1>23, MissingAssumption, SlotsAssumption
     DEF Age, store, locals, Types, LocalsType, TablesType, StoreType, CompleteCalls,
         Places, Inserted, Quiet
<1>24. ASSUME NEW h \in Handlers, CompleteBegin(h) PROVE Completion'
  <2>1. InsertOnce'
    BY <1>0, <1>24, MissingAssumption
       DEF CompleteBegin, Goto, store, Completion, InsertOnce, Inserted, Types,
           LocalsType, TablesType, StoreType, CompleteCalls, Places
  <2>2. RowsHaveFiles'
    BY <1>0, <1>24
       DEF CompleteBegin, Goto, store, Completion, RowsHaveFiles, Types, LocalsType,
           CompleteCalls
  <2>3. Alone'
    BY <1>0, <1>24, MissingAssumption
       DEF CompleteBegin, Goto, store, Completion, Alone, Inserted, Types, LocalsType,
           TablesType, StoreType, CompleteCalls, Places, Completing, Whole, Session
  <2>4. Verified'
    <3>1. /\ pc'[h] = "create" /\ handle' = handle /\ handle[h] = None
          /\ overlapped \subseteq overlapped' /\ final' = final /\ promoted' = promoted
          /\ \A g \in Handlers : g # h => pc'[g] = pc[g] /\ target'[g] = target[g]
      BY <1>0, <1>h, <1>24 DEF CompleteBegin, Goto, store, Types, LocalsType
    <3>2. QED
      BY <3>1, MissingAssumption DEF Completion, Verified, Places
  <2>5. PromotedWhole'
    BY <1>0, <1>24
       DEF CompleteBegin, Goto, store, Completion, PromotedWhole, Types, LocalsType,
           CompleteCalls
  <2> QED
    BY <2>1, <2>2, <2>3, <2>4, <2>5 DEF Completion
<1>25. ASSUME NEW h \in Handlers, CompleteCopy(h) PROVE Completion'
  <2>0. /\ \A g \in Handlers : g # h => pc'[g] = pc[g] /\ handle'[g] = handle[g]
        /\ pc'[h] \in {"copy", "drop"} /\ handle'[h] \in {handle[h], None}
        /\ UNCHANGED <<target, blobs, sessions, overlapped>>
    BY <1>0, <1>25 DEF CompleteCopy, CloseWithError, Goto, tables, Types, LocalsType
  <2>1. InsertOnce'
    <3>1. \A g \in Handlers : Inserted(g)' => Inserted(g)
      BY <2>0 DEF Inserted
    <3>2. QED
      BY <2>0, <3>1 DEF Completion, InsertOnce
  <2>2. RowsHaveFiles'
    <3>1. \A s \in Sessions : promoted[s] # None => promoted'[s] # None
      BY <1>25, CopiesStay
    <3>2. \A g \in Handlers : pc[g] = "row" => target[g] \in Sessions
      BY <1>0 DEF TypeOK, ControlOK, CompleteCalls
    <3>3. QED
      BY <1>0, <2>0, <3>1, <3>2 DEF Completion, RowsHaveFiles, Types, TablesType
  <2>3. Alone'
    BY <1>0, <1>25
       DEF CompleteCopy, Goto, CloseWithError, tables, Completion, Alone, Types,
           LocalsType, CompleteCalls
  <2>4. Verified'
    <3> SUFFICES ASSUME NEW g \in Handlers, target[g] \notin overlapped
                 PROVE  /\ handle'[g] # "bucket"
                        /\ pc'[g] = "move" => final'[target[g]] \in {Whole, None}
                        /\ pc'[g] = "row" => promoted'[target[g]] = Whole
      BY <2>0 DEF Verified
    <3>1. handle'[g] # "bucket"
      BY <2>0, MissingAssumption DEF Completion, Verified, Places
    <3>2. ASSUME pc'[g] \in {"move", "row"}
          PROVE  /\ pc[g] = pc'[g] /\ final'[target[g]] = final[target[g]]
                 /\ promoted'[target[g]] = promoted[target[g]]
      <4>1. pc[g] = pc'[g] /\ g # h
        BY <2>0, <3>2
      <4>2. target[g] # target[h]
        BY <1>25, <3>2, <4>1 DEF CompleteCopy, Completion, Alone, CompleteCalls
      <4>3. target[g] \in Sessions
        BY <1>0, <3>2, <4>1 DEF TypeOK, ControlOK, CompleteCalls
      <4>4. QED
        BY <1>0, <1>25, <4>1, <4>2, <4>3 DEF CompleteCopy, Types, StoreType
    <3>3. QED
      BY <3>1, <3>2 DEF Completion, Verified
  <2>5. PromotedWhole'
    BY <1>0, <1>25, MissingAssumption
       DEF CompleteCopy, Goto, CloseWithError, tables, Completion, InsertOnce,
           RowsHaveFiles, Alone, Verified, PromotedWhole, Inserted, Types, LocalsType,
           TablesType, StoreType, CompleteCalls, Places
  <2> QED
    BY <2>1, <2>2, <2>3, <2>4, <2>5 DEF Completion
<1>26. ASSUME NEW h \in Handlers, CompleteInspect(h) PROVE Completion'
  <2>1. InsertOnce'
    BY <1>0, <1>26, MissingAssumption
       DEF CompleteInspect, Goto, store, tables, locals, Completion, InsertOnce,
           Inserted, Types, LocalsType, TablesType, StoreType, CompleteCalls, Places
  <2>2. RowsHaveFiles'
    BY <1>0, <1>26
       DEF CompleteInspect, Goto, store, tables, locals, Completion, RowsHaveFiles,
           Types, LocalsType, CompleteCalls
  <2>3. Alone'
    BY <1>0, <1>26
       DEF CompleteInspect, Goto, store, tables, locals, Completion, Alone, Types,
           LocalsType, CompleteCalls
  <2>4. Verified'
    BY <1>0, <1>26
       DEF CompleteInspect, Goto, store, tables, locals, Completion, Verified, Types,
           LocalsType, CompleteCalls
  <2>5. PromotedWhole'
    BY <1>0, <1>26
       DEF CompleteInspect, Goto, store, tables, locals, Completion, PromotedWhole,
           Types, LocalsType, CompleteCalls
  <2> QED
    BY <2>1, <2>2, <2>3, <2>4, <2>5 DEF Completion
<1>27. ASSUME NEW h \in Handlers, CompleteMove(h) PROVE Completion'
  <2>0. /\ \A g \in Handlers : g # h => pc'[g] = pc[g]
        /\ pc'[h] \in {"row", "drop"} /\ target[h] \in Sessions
        /\ UNCHANGED <<target, blobs, sessions, overlapped>>
    BY <1>0, <1>27
       DEF CompleteMove, Goto, tables, Types, LocalsType, TypeOK, ControlOK,
           CompleteCalls
  <2>f. \/ pc'[h] = "drop" /\ UNCHANGED <<final, promoted, handle>>
        \/ /\ final[target[h]] # None
           /\ promoted' = [promoted EXCEPT ![target[h]] = final[target[h]]]
           /\ final' = [final EXCEPT ![target[h]] = None]
    BY <1>0, <1>27 DEF CompleteMove, Goto, Types, LocalsType
  <2>1. InsertOnce'
    BY <2>0 DEF Completion, InsertOnce, Inserted
  <2>2. RowsHaveFiles'
    <3>1. \A s \in Sessions : promoted[s] # None => promoted'[s] # None
      BY <1>0, <2>0, <2>f DEF Types, StoreType
    <3>2. pc'[h] = "row" => promoted'[target[h]] # None
      BY <1>0, <2>0, <2>f DEF Types, StoreType
    <3>3. \A g \in Handlers : pc[g] = "row" => target[g] \in Sessions
      BY <1>0 DEF TypeOK, ControlOK, CompleteCalls
    <3>4. QED
      BY <1>0, <2>0, <3>1, <3>2, <3>3 DEF Completion, RowsHaveFiles, Types, TablesType
  <2>3. Alone'
    BY <1>0, <1>27
       DEF CompleteMove, Goto, tables, Completion, Alone, Types, LocalsType,
           CompleteCalls
  <2>4. Verified'
    <3> SUFFICES ASSUME NEW g \in Handlers, target[g] \notin overlapped
                 PROVE  /\ handle'[g] # "bucket"
                        /\ pc'[g] = "move" => final'[target[g]] \in {Whole, None}
                        /\ pc'[g] = "row" => promoted'[target[g]] = Whole
      BY <2>0 DEF Verified
    <3>1. ASSUME g # h, pc[g] \in CompleteCalls PROVE target[g] # target[h]
      BY <1>27, <3>1 DEF CompleteMove, Completion, Alone, CompleteCalls
    <3>2. handle'[g] # "bucket"
      <4>1. handle[g] # "bucket"
        BY DEF Completion, Verified
      <4>2. ~(g \in WritersOf(target[h], "tmp") /\ pc[g] = "copy")
        BY <1>27, <3>1 DEF CompleteMove, WritersOf, CompleteCalls
      <4>3. QED
        BY <1>0, <1>27, <4>1, <4>2, MissingAssumption DEF CompleteMove, Places
    <3>3. ASSUME g # h, pc'[g] \in {"move", "row"}
          PROVE  /\ pc[g] = pc'[g] /\ final'[target[g]] = final[target[g]]
                 /\ promoted'[target[g]] = promoted[target[g]]
      <4>1. pc[g] = pc'[g]
        BY <2>0, <3>3
      <4>2. target[g] # target[h]
        BY <3>1, <3>3, <4>1 DEF CompleteCalls
      <4>3. target[g] \in Sessions
        BY <1>0, <3>3, <4>1 DEF TypeOK, ControlOK, CompleteCalls
      <4>4. QED
        BY <1>0, <2>0, <2>f, <4>1, <4>2, <4>3 DEF Types, StoreType
    <3>4. ASSUME g = h, pc'[h] = "row" PROVE promoted'[target[h]] = Whole
      <4>1. final[target[h]] = Whole
        BY <1>27, <2>f, <3>4 DEF CompleteMove, Completion, Verified
      <4>2. QED
        BY <1>0, <2>0, <2>f, <3>4, <4>1 DEF Types, StoreType
    <3>5. QED
      BY <2>0, <3>2, <3>3, <3>4 DEF Completion, Verified
  <2>5. PromotedWhole'
    BY <1>0, <1>27, MissingAssumption
       DEF CompleteMove, Goto, tables, Completion, InsertOnce, RowsHaveFiles, Alone,
           Verified, PromotedWhole, Inserted, Types, LocalsType, TablesType,
           StoreType, CompleteCalls, Places
  <2> QED
    BY <2>1, <2>2, <2>3, <2>4, <2>5 DEF Completion
<1>28. ASSUME NEW h \in Handlers, CompleteRow(h) PROVE Completion'
  <2>0. /\ \A g \in Handlers : g # h =>
              /\ pc'[g] = pc[g] /\ target'[g] = target[g] /\ handle'[g] = handle[g]
        /\ target[h] \in Sessions /\ handle[h] = None
        /\ UNCHANGED <<sessions, overlapped, final, promoted>>
    BY <1>0, <1>h, <1>28
       DEF CompleteRow, Goto, Forget, Finish, store, locals, Types, LocalsType,
           TypeOK, ControlOK, CompleteCalls
  <2>f. \/ pc'[h] = "idle" /\ blobs' = blobs /\ handle'[h] = None
        \/ /\ target[h] \notin blobs /\ blobs' = blobs \cup {target[h]}
           /\ pc'[h] = "mark" /\ target'[h] = target[h] /\ handle'[h] = None
    BY <1>0, <2>0, <1>28, SlotsAssumption
       DEF CompleteRow, Goto, Forget, Finish, locals, Types, LocalsType
  <2>1. InsertOnce'
    BY <2>0, <2>f DEF Completion, InsertOnce, Inserted
  <2>2. RowsHaveFiles'
    BY <1>28, <2>0, <2>f DEF CompleteRow, Completion, RowsHaveFiles
  <2>3. Alone'
    BY <1>0, <1>28
       DEF CompleteRow, Goto, Forget, Finish, store, locals, Completion, Alone, Types,
           LocalsType, CompleteCalls
  <2>4. Verified'
    BY <2>0, <2>f, MissingAssumption DEF Completion, Verified, Places
  <2>5. PromotedWhole'
    BY <1>0, <1>28
       DEF CompleteRow, Goto, Forget, Finish, store, locals, Completion, InsertOnce,
           RowsHaveFiles, Alone, Verified, PromotedWhole, Types, LocalsType,
           CompleteCalls
  <2> QED
    BY <2>1, <2>2, <2>3, <2>4, <2>5 DEF Completion
<1>29. ASSUME NEW h \in Handlers, CompleteMark(h) PROVE Completion'
  <2>1. InsertOnce'
    BY <1>0, <1>29, MissingAssumption
       DEF CompleteMark, Goto, store, locals, Completion, InsertOnce, Inserted, Types,
           LocalsType, TablesType, StoreType, CompleteCalls, Places
  <2>2. RowsHaveFiles'
    BY <1>0, <1>29, MissingAssumption
       DEF CompleteMark, Goto, store, locals, Completion, InsertOnce, RowsHaveFiles,
           Alone, Verified, PromotedWhole, Inserted, Types, LocalsType, TablesType,
           StoreType, CompleteCalls, Places
  <2>3. Alone'
    BY <1>0, <1>29
       DEF CompleteMark, Goto, store, locals, Completion, Alone, Types, LocalsType,
           CompleteCalls
  <2>4. Verified'
    BY <1>0, <1>29
       DEF CompleteMark, Goto, store, locals, Completion, Verified, Types, LocalsType,
           CompleteCalls
  <2>5. PromotedWhole'
    BY <1>0, <1>29
       DEF CompleteMark, Goto, store, locals, Completion, PromotedWhole, Types,
           LocalsType, CompleteCalls
  <2> QED
    BY <2>1, <2>2, <2>3, <2>4, <2>5 DEF Completion
<1>30. ASSUME UNCHANGED vars PROVE Completion'
  BY <1>30
     DEF vars, Completion, InsertOnce, RowsHaveFiles, Alone, Verified, PromotedWhole,
         Inserted
<1> QED
  BY <1>2, <1>3, <1>4, <1>5, <1>6, <1>7, <1>8, <1>9, <1>10, <1>11, <1>12, <1>13,
     <1>14, <1>15, <1>16, <1>17, <1>18, <1>19, <1>20, <1>21, <1>22, <1>23, <1>24,
     <1>25, <1>26, <1>27, <1>28, <1>29, <1>30
     DEF Next, Request, ChunkStep, CompleteStep, CleanupStep

(* The inductive invariant: a completion that works alone promotes what it   *)
(* has verified, a row comes after its file, and the request that inserts it *)
(* is the only one that goes on.                                             *)
THEOREM CompletionAlways == Spec => []Completion
<1>1. Init => Completion
  BY InitCompletion
<1>2. TypeOK /\ TypeOK' /\ Completion /\ [Next]_vars => Completion'
  BY NextCompletion
<1>3. QED
  BY <1>1, <1>2, TypeCorrect, PTL DEF Spec

(* The blob of a session that was never completed twice at a time has the    *)
(* bytes that X-Final-Hash vouched for, whatever chunk uploads, cleanups,    *)
(* retries, failures and crashes surround its completion.                    *)
THEOREM BlobsAreWhole == Spec => []PromotedWhole
<1>1. Completion => PromotedWhole
  BY DEF Completion
<1>2. QED
  BY <1>1, CompletionAlways, PTL

(* A session counts as completed only once it is a blob with a file. *)
THEOREM CompletedSessionsAreBlobs == Spec => []CompletedHasBlob
<1>1. Completion => CompletedHasBlob
  BY DEF Completion, RowsHaveFiles, CompletedHasBlob
<1>2. QED
  BY <1>1, CompletionAlways, PTL

(* However many completions of a session overlap, one at most is answered    *)
(* with the blob.                                                            *)
THEOREM OneCompletionSucceeds == Spec => []OneSuccess
<1>1. Completion => OneSuccess
  <2> SUFFICES ASSUME Completion, NEW s \in Sessions
               PROVE  Cardinality({h \in Handlers : target[h] = s
                                       /\ pc[h] \in {"mark", "sweep"}}) <= 1
    BY DEF OneSuccess
  <2> DEFINE W == {h \in Handlers : target[h] = s /\ pc[h] \in {"mark", "sweep"}}
  <2>1. \A h, g \in W : h = g
    BY DEF Completion, InsertOnce, Inserted
  <2>2. CASE W = {}
    BY <2>2, FS_EmptySet
  <2>3. CASE W # {}
    <3>1. PICK h \in W : TRUE
      BY <2>3
    <3>2. W = {h}
      BY <2>1, <3>1
    <3> HIDE DEF W
    <3>3. Cardinality(W) = 1
      BY <3>2, FS_Singleton
    <3>4. QED
      BY <3>3 DEF W
  <2>4. QED
    BY <2>2, <2>3
<1>2. QED
  BY <1>1, CompletionAlways, PTL

-----------------------------------------------------------------------------
(* Chunks. *)

(* A session that its cleanup may remove stays one: no step makes it young, *)
(* and its id is not given out again.                                       *)
Expired(s) ==
    /\ ids[s] # "new"
    /\ sessions[s] = None \/ sessions[s].old

Removing(w) == abandoned[w] \cup {s \in Sessions : pc[w] = "tree" /\ target[w] = s}

(* The cleanup task removes expired sessions only. *)
RemovesExpired ==
    /\ \A s \in Sessions : sessions[s] # None => ids[s] # "new"
    /\ \A w \in Workers : \A s \in Removing(w) : Expired(s)

(* The steps that touch a session's row or what is known of its id. *)
LEMMA RowSteps ==
  ASSUME [Next]_vars
  PROVE  \/ UNCHANGED <<sessions, ids>>
         \/ \E h \in Handlers : InitiateCreate(h) \/ InitiateEnsure(h)
                                  \/ ChunkRecord(h) \/ CompleteMark(h)
         \/ \E w \in Workers : CleanupForget(w)
         \/ Age
  BY DEF Next, Request, ChunkStep, CompleteStep, CleanupStep, vars, tables,
         ChunkBegin, ChunkPut, ChunkWrite, ChunkStat, ChunkLimit, ChunkDiscard,
         CompleteBegin, CompleteCreate, CompleteCopy, CompleteClose, CompleteInspect,
         CompleteMove, CompleteRow, CompleteSweep, CompleteDrop, CompleteFails,
         CleanupFind, CleanupNext, CleanupDone, CleanupTree, CallRefused, Crash

(* A session that has expired stays so, whoever else works on it. *)
LEMMA ExpiredStays ==
  ASSUME TypeOK, [Next]_vars, NEW s \in Sessions, Expired(s)
  PROVE  Expired(s)'
<1>0. /\ sessions \in [Sessions -> Session \cup {None}]
      /\ ids \in [Sessions -> {"new", "used", "known"}]
      /\ Handlers \subseteq Procs /\ Workers \subseteq Procs
  BY DEF TypeOK, Procs
<1>1. CASE UNCHANGED <<sessions, ids>>
  BY <1>1 DEF Expired
<1>2. ASSUME NEW h \in Handlers, InitiateCreate(h) PROVE Expired(s)'
  BY <1>0, <1>2 DEF InitiateCreate, Expired
<1>3. ASSUME NEW h \in Handlers, InitiateEnsure(h) PROVE Expired(s)'
  BY <1>0, <1>3 DEF InitiateEnsure, Expired
<1>4. ASSUME NEW h \in Handlers, ChunkRecord(h) PROVE Expired(s)'
  BY <1>0, <1>4 DEF ChunkRecord, Expired, Session
<1>5. ASSUME NEW h \in Handlers, CompleteMark(h) PROVE Expired(s)'
  BY <1>0, <1>5 DEF CompleteMark, Expired, Session
<1>6. ASSUME NEW w \in Workers, CleanupForget(w) PROVE Expired(s)'
  BY <1>0, <1>6 DEF CleanupForget, Expired
<1>7. ASSUME Age PROVE Expired(s)'
  BY <1>0, <1>7 DEF Age, Expired, Session
<1>8. QED
  BY <1>1, <1>2, <1>3, <1>4, <1>5, <1>6, <1>7, RowSteps

(* A list of abandoned sessions, old as it may be, names expired ones only. *)
LEMMA NextRemovesExpired == TypeOK /\ TypeOK' /\ RemovesExpired /\ [Next]_vars => RemovesExpired'
<1> SUFFICES ASSUME TypeOK, TypeOK', RemovesExpired, [Next]_vars PROVE RemovesExpired'
  OBVIOUS
<1>0. Types /\ Handlers \subseteq Procs /\ Workers \subseteq Procs
  BY DEF TypeOK, Types, TablesType, StoreType, LocalsType, Procs
<1>1. ASSUME NEW s \in Sessions, sessions'[s] # None PROVE ids'[s] # "new"
  <2>1. CASE UNCHANGED <<sessions, ids>>
    BY <1>1, <2>1 DEF RemovesExpired
  <2>2. ASSUME NEW h \in Handlers, InitiateCreate(h) PROVE ids'[s] # "new"
    BY <1>0, <1>1, <2>2 DEF InitiateCreate, RemovesExpired, Types, TablesType
  <2>3. ASSUME NEW h \in Handlers, InitiateEnsure(h) PROVE ids'[s] # "new"
    BY <1>0, <1>1, <2>3 DEF InitiateEnsure, RemovesExpired, Types, TablesType
  <2>4. ASSUME NEW h \in Handlers, ChunkRecord(h) PROVE ids'[s] # "new"
    BY <1>0, <1>1, <2>4 DEF ChunkRecord, RemovesExpired, Types, TablesType
  <2>5. ASSUME NEW h \in Handlers, CompleteMark(h) PROVE ids'[s] # "new"
    BY <1>0, <1>1, <2>5 DEF CompleteMark, tables, RemovesExpired, Types, TablesType
  <2>6. ASSUME NEW w \in Workers, CleanupForget(w) PROVE ids'[s] # "new"
    BY <1>0, <1>1, <2>6 DEF CleanupForget, RemovesExpired, Types, TablesType
  <2>7. ASSUME Age PROVE ids'[s] # "new"
    BY <1>0, <1>1, <2>7 DEF Age, RemovesExpired, Types, TablesType
  <2>8. QED
    BY <2>1, <2>2, <2>3, <2>4, <2>5, <2>6, <2>7, RowSteps
<1>2. ASSUME NEW w \in Workers, NEW s \in Removing(w)' PROVE s \in Removing(w) \/ Expired(s)
  <2>0. s \in Sessions /\ w \in Procs
    BY <1>0, <1>2 DEF TypeOK, Removing
  <2>1. CASE pc'[w] = pc[w] /\ target'[w] = target[w] /\ abandoned'[w] = abandoned[w]
    BY <1>2, <2>1 DEF Removing
  <2>2. CASE CleanupFind(w)
    BY <1>0, <1>2, <2>0, <2>2
       DEF CleanupFind, IncompleteOld, Goto, Removing, Expired, RemovesExpired, Types,
           LocalsType
  <2>3. CASE CleanupNext(w)
    BY <1>0, <1>2, <2>0, <2>3 DEF CleanupNext, Goto, Removing, Types, LocalsType
  <2>4. CASE pc'[w] # "tree" /\ abandoned'[w] \subseteq abandoned[w]
    BY <1>2, <2>4 DEF Removing
  <2>h. \A h \in Handlers : h # w
    BY SlotsAssumption
  <2>5. ASSUME NEW h \in Handlers,
               \/ Request(h) \/ InitiateEnsure(h) \/ ChunkStep(h)
               \/ CompleteStep(h) \/ CompleteFails(h)
        PROVE  pc'[w] = pc[w] /\ target'[w] = target[w] /\ abandoned'[w] = abandoned[w]
    <3>1. CASE InitiateCreate(h) \/ InitiateEnsure(h)
      BY <1>0, <2>0, <2>h, <3>1
         DEF InitiateCreate, InitiateEnsure, Goto, store, Forget, Finish, Types,
             LocalsType
    <3>2. CASE ChunkBegin(h) \/ ChunkStep(h)
      BY <1>0, <2>0, <2>h, <3>2
         DEF ChunkBegin, ChunkStep, ChunkPut, ChunkWrite, ChunkStat, ChunkLimit,
             ChunkRecord, ChunkDiscard, Goto, store, tables, Forget, Finish, locals,
             Types, LocalsType
    <3>3. CASE CompleteBegin(h)
      BY <1>0, <2>0, <2>h, <3>3 DEF CompleteBegin, Goto, store, Types, LocalsType
    <3>4. CASE \/ CompleteCreate(h) \/ CompleteCopy(h) \/ CompleteClose(h)
               \/ CompleteInspect(h) \/ CompleteMove(h)
      BY <1>0, <2>0, <2>h, <3>4
         DEF CompleteCreate, CompleteCopy, CompleteClose, CompleteInspect,
             CompleteMove, Goto, tables, CloseWithError, store, locals, Types,
             LocalsType
    <3>5. CASE \/ CompleteRow(h) \/ CompleteMark(h) \/ CompleteSweep(h)
               \/ CompleteDrop(h) \/ CompleteFails(h)
      BY <1>0, <2>0, <2>h, <3>5
         DEF CompleteRow, CompleteMark, CompleteSweep, CompleteDrop, CompleteFails,
             Goto, Forget, Finish, store, locals, tables, CloseWithError, Types,
             LocalsType
    <3>6. QED
      BY <2>5, <3>1, <3>2, <3>3, <3>4, <3>5 DEF Request, CompleteStep
  <2>6. ASSUME NEW v \in Workers, CleanupStep(v), v # w
        PROVE  pc'[w] = pc[w] /\ target'[w] = target[w] /\ abandoned'[w] = abandoned[w]
    BY <1>0, <2>0, <2>6
       DEF CleanupStep, CleanupFind, CleanupNext, CleanupDone, CleanupTree,
           CleanupForget, Finish, Forget, Goto, locals, Types, LocalsType
  <2>7. ASSUME NEW p \in Procs, CallRefused(p)
        PROVE  \/ pc'[w] = pc[w] /\ target'[w] = target[w] /\ abandoned'[w] = abandoned[w]
               \/ pc'[w] # "tree" /\ abandoned'[w] \subseteq abandoned[w]
    BY <1>0, <2>0, <2>7 DEF CallRefused, Finish, Forget, Goto, Types, LocalsType
  <2>8. ASSUME CleanupDone(w) \/ CleanupTree(w) \/ CleanupForget(w) \/ Crash
        PROVE  pc'[w] # "tree" /\ abandoned'[w] \subseteq abandoned[w]
    BY <1>0, <2>0, <2>8
       DEF CleanupDone, CleanupTree, CleanupForget, Crash, Finish, Forget, Goto,
           Types, LocalsType
  <2>9. ASSUME Age \/ UNCHANGED vars
        PROVE  pc'[w] = pc[w] /\ target'[w] = target[w] /\ abandoned'[w] = abandoned[w]
    BY <2>9 DEF Age, vars, locals
  <2>10. QED
    BY <2>1, <2>2, <2>3, <2>4, <2>5, <2>6, <2>7, <2>8, <2>9 DEF Next, CleanupStep
<1>3. ASSUME NEW w \in Workers, NEW s \in Removing(w)' PROVE Expired(s)'
  <2>1. s \in Sessions
    BY <1>0, <1>3 DEF TypeOK, Removing
  <2>2. Expired(s)
    BY <1>2, <1>3 DEF RemovesExpired
  <2>3. QED
    BY <2>1, <2>2, ExpiredStays
<1>4. QED
  BY <1>1, <1>3 DEF RemovesExpired

(* A failed completion can be tried again: chunks go by a request for the    *)
(* same index, by the cleanup of an old session, or with the session's blob. *)
THEOREM ChunksAreKept == Spec => ChunksKept
<1> DEFINE Excused(s, i) ==
             \/ s \in blobs
             \/ sessions[s] = None \/ sessions[s].old
             \/ \E h \in Handlers : pc[h] = "discard" /\ target[h] = s /\ index[h] = i
           Kept == \A s \in Sessions, i \in Indices :
                     chunks[s][i] # None /\ chunks'[s][i] = None => Excused(s, i)
<1>1. TypeOK /\ Completion /\ RemovesExpired /\ [Next]_vars => Kept
  <2> SUFFICES ASSUME TypeOK, Completion, RemovesExpired, [Next]_vars,
                      NEW s \in Sessions, NEW i \in Indices,
                      chunks[s][i] # None, chunks'[s][i] = None
               PROVE  Excused(s, i)
    OBVIOUS
  <2>0. Types /\ StoreType /\ Handlers \subseteq Procs /\ Workers \subseteq Procs
    BY DEF TypeOK, Types, TablesType, StoreType, LocalsType, Procs
  <2>1. ASSUME NEW t \in Sessions, NEW j \in Indices, NEW f \in ChunkFile \cup {None},
               chunks' = [chunks EXCEPT ![t][j] = f]
        PROVE  t = s /\ j = i /\ f = None
    <3>1. t = s /\ j = i
      BY <2>0, <2>1, ChunkSetOther
    <3>2. chunks'[s][i] = f
      <4>1. chunks'[s] = [chunks[s] EXCEPT ![i] = f]
        BY <2>0, <2>1, <3>1 DEF StoreType
      <4>2. QED
        BY <2>0, <4>1 DEF StoreType
    <3>3. QED
      BY <3>1, <3>2
  <2>2. ASSUME NEW h \in Handlers, ChunkPut(h) PROVE FALSE
    <3>1. target[h] \in Sessions /\ index[h] \in Indices /\ body[h] \in Bodies
      BY <2>0, <2>2 DEF ChunkPut, TypeOK, ControlOK, ChunkCalls
    <3>2. <<body[h]>> \in ChunkFile /\ <<body[h]>> # None
      BY <3>1, ChunkFiles
    <3>3. QED
      BY <2>1, <2>2, <3>1, <3>2 DEF ChunkPut
  <2>3. ASSUME NEW h \in Handlers, ChunkWrite(h), chunks' # chunks PROVE FALSE
    <3>1. /\ target[h] \in Sessions /\ index[h] \in Indices /\ body[h] \in Bodies
          /\ chunks[target[h]][index[h]] # None
          /\ chunks' = [chunks EXCEPT ![target[h]][index[h]] =
                          <<chunks[target[h]][index[h]][1], body[h]>>]
      BY <2>0, <2>3 DEF ChunkWrite, TypeOK, ControlOK, ChunkCalls
    <3>2. chunks[target[h]][index[h]] \in ChunkFile
      BY <2>0, <3>1 DEF StoreType
    <3>3. <<chunks[target[h]][index[h]][1], body[h]>> \in ChunkFile
          /\ <<chunks[target[h]][index[h]][1], body[h]>> # None
      BY <3>1, <3>2, ChunkFiles
    <3>4. QED
      BY <2>1, <3>1, <3>3
  <2>4. ASSUME NEW h \in Handlers, ChunkDiscard(h), chunks' # chunks PROVE Excused(s, i)
    <3>1. /\ target[h] \in Sessions /\ index[h] \in Indices
          /\ chunks' = [chunks EXCEPT ![target[h]][index[h]] = None]
      BY <2>0, <2>4 DEF ChunkDiscard, TypeOK, ControlOK, ChunkCalls
    <3>2. target[h] = s /\ index[h] = i
      BY <2>1, <3>1
    <3>3. QED
      BY <2>4, <3>2 DEF ChunkDiscard
  <2>5. ASSUME NEW t \in Sessions, TreeRemoved(t) PROVE t = s
    BY <2>0, <2>5 DEF TreeRemoved, StoreType
  <2>6. ASSUME NEW h \in Handlers, CompleteSweep(h), chunks' # chunks PROVE Excused(s, i)
    <3>1. target[h] \in Sessions /\ TreeRemoved(target[h])
      BY <2>0, <2>6 DEF CompleteSweep, TypeOK, ControlOK, CompleteCalls
    <3>2. target[h] = s
      BY <2>5, <3>1
    <3>3. QED
      BY <2>6, <3>2 DEF CompleteSweep, Completion, InsertOnce, Inserted
  <2>7. ASSUME NEW w \in Workers, CleanupTree(w), chunks' # chunks PROVE Excused(s, i)
    <3>1. target[w] \in Sessions /\ TreeRemoved(target[w])
      BY <2>0, <2>7 DEF CleanupTree, TypeOK, ControlOK, CleanupCalls
    <3>2. target[w] = s
      BY <2>5, <3>1
    <3>3. s \in Removing(w)
      BY <2>7, <3>2 DEF CleanupTree, Removing
    <3>4. QED
      BY <3>3 DEF RemovesExpired, Expired
  <2>8. \/ chunks' = chunks
        \/ \E h \in Handlers : ChunkPut(h) \/ ChunkWrite(h) \/ ChunkDiscard(h) \/ CompleteSweep(h)
        \/ \E w \in Workers : CleanupTree(w)
    BY DEF Next, Request, ChunkStep, CompleteStep, CleanupStep, vars, store,
           InitiateCreate, InitiateEnsure, ChunkBegin, ChunkStat, ChunkLimit,
           ChunkRecord, CompleteBegin, CompleteCreate, CompleteCopy, CompleteClose,
           CompleteInspect, CompleteMove, CompleteRow, CompleteMark, CompleteDrop,
           CompleteFails, CleanupFind, CleanupNext, CleanupDone, CleanupForget,
           CallRefused, Crash, Age
  <2>9. QED
    BY <2>2, <2>3, <2>4, <2>6, <2>7, <2>8
<1>2. Init => RemovesExpired
  BY DEF Init, RemovesExpired, Removing, Procs
<1>3. TypeOK /\ TypeOK' /\ RemovesExpired /\ [Next]_vars => RemovesExpired'
  BY NextRemovesExpired
<1>4. QED
  BY <1>1, <1>2, <1>3, TypeCorrect, CompletionAlways, PTL DEF Spec, ChunksKept

=============================================================================
