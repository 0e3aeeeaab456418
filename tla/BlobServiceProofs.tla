--------------------------- MODULE BlobServiceProofs ---------------------------
(* Theorems about BlobService for every set of ids, buckets, contents,      *)
(* handlers and workers, and every value of the bounds.                     *)
EXTENDS BlobService, Functions, FiniteSetTheorems, TLAPS

-----------------------------------------------------------------------------
(* Type correctness. *)

(* The initial state has the right types. *)
LEMMA InitType == Init => TypeOK
<1> SUFFICES ASSUME Init PROVE TypeOK
  OBVIOUS
<1>1. PICK owner \in [Stored -> Stored], bucketOf \in [Stored -> Buckets],
           hashOf \in [Stored -> Contents], expOf \in [Stored -> Dates \cup {None}] :
        Populated(owner, bucketOf, hashOf, expOf)
  BY DEF Init
<1>2. rows \in [Ids -> Row \cup {None}]
  <2>1. ASSUME NEW i \in Ids PROVE rows[i] \in Row \cup {None}
    <3>1. CASE i \in Stored
      <4> DEFINE row == [bucket |-> bucketOf[i],
                         path |-> OwnPath(bucketOf[owner[i]], owner[i]),
                         hash |-> hashOf[i], exp |-> expOf[i],
                         count |-> 0, created |-> 0]
      <4>1. OwnPath(bucketOf[owner[i]], owner[i]) \in Paths
        BY <3>1, StoredAssumption DEF OwnPath, Paths
      <4>2. expOf[i] \in Times \cup {None}
        BY <3>1, BoundsAssumption
      <4> HIDE DEF row
      <4>3. 0 \in Times
        BY BoundsAssumption DEF Times
      <4>4. row \in Row
        BY <3>1, <4>1, <4>2, <4>3 DEF Row, row
      <4>5. rows[i] = row
        BY <1>1, <3>1 DEF Populated, row
      <4>6. QED
        BY <4>4, <4>5
    <3>2. CASE i \notin Stored
      BY <1>1, <3>2 DEF Populated
    <3>3. QED
      BY <3>1, <3>2
  <2>2. QED
    BY <1>1, <2>1 DEF Populated
<1>3. files \in [Paths -> Contents \cup {None, Torn}]
  BY <1>1 DEF Populated
<1>4. written \in [Ids -> Contents \cup {None, Torn}]
  BY <1>1 DEF Populated
<1>5. now \in Times /\ faults \in Nat /\ served \in [Ids -> Nat]
  BY BoundsAssumption DEF Init, Times
<1>6. /\ pc \in [Procs -> {"idle", "next"} \cup HandlerCalls \cup RemovalCalls]
      /\ target \in [Procs -> Ids \cup {None}]
      /\ blob \in [Procs -> Row \cup {None}]
      /\ seen \in [Procs -> Row \cup {None}]
      /\ expired \in [Workers -> [Ids -> Row \cup {None}]]
  BY DEF Init
<1>7. ASSUME NEW p \in Procs PROVE ControlOK(p)
  BY DEF Init, ControlOK, HandlerCalls, HoldsBlob, HoldsSeen
<1>8. QED
  BY <1>2, <1>3, <1>4, <1>5, <1>6, <1>7 DEF TypeOK

(* What ends an operation leaves the process without rows to act on. *)
LEMMA FinishType ==
  ASSUME TypeOK, NEW p \in Procs, Finish(p)
  PROVE  /\ pc' \in [Procs -> {"idle", "next"} \cup HandlerCalls \cup RemovalCalls]
         /\ target' \in [Procs -> Ids \cup {None}]
         /\ blob' \in [Procs -> Row \cup {None}]
         /\ seen' \in [Procs -> Row \cup {None}]
         /\ \A q \in Procs : ControlOK(q)'
<1>1. /\ pc' \in [Procs -> {"idle", "next"} \cup HandlerCalls \cup RemovalCalls]
      /\ target' \in [Procs -> Ids \cup {None}]
      /\ blob' \in [Procs -> Row \cup {None}]
      /\ seen' \in [Procs -> Row \cup {None}]
  BY DEF TypeOK, Finish, Goto
<1>2. ASSUME NEW q \in Procs PROVE ControlOK(q)'
  BY DEF TypeOK, Finish, Goto, ControlOK, HandlerCalls, HoldsBlob, HoldsSeen
<1>3. QED
  BY <1>1, <1>2

(* A crash adds a finite number of interrupted calls. *)
LEMMA BusyFinite == TypeOK => Cardinality(Busy) \in Nat
<1>1. IsFiniteSet(Procs)
  BY SlotsAssumption, FS_Union DEF Procs
<1>2. Busy \subseteq Procs
  BY DEF Busy
<1>3. QED
  BY <1>1, <1>2, FS_Subset, FS_CardinalityType

(* Rows stay rows when one column gets a value of its type. *)
LEMMA RowColumns ==
  ASSUME NEW r \in Row
  PROVE  /\ \A t \in Times : [r EXCEPT !.created = t] \in Row
         /\ \A e \in Times \cup {None} : [r EXCEPT !.exp = e] \in Row
         /\ \A f \in Paths : [r EXCEPT !.path = f] \in Row
         /\ \A v \in Buckets, f \in Paths :
              [r EXCEPT !.bucket = v, !.path = f] \in Row
         /\ Counted(r) \in Row
<1>1. ASSUME NEW t \in Times PROVE [r EXCEPT !.created = t] \in Row
  BY DEF Row
<1>2. ASSUME NEW e \in Times \cup {None} PROVE [r EXCEPT !.exp = e] \in Row
  BY DEF Row
<1>3. ASSUME NEW v \in Buckets, NEW f \in Paths
      PROVE  [r EXCEPT !.bucket = v, !.path = f] \in Row
  BY DEF Row
<1>4. ASSUME NEW f \in Paths PROVE [r EXCEPT !.path = f] \in Row
  BY DEF Row
<1>5. Counted(r) \in Row
  BY DEF Row, Counted
<1>6. QED
  BY <1>1, <1>2, <1>3, <1>4, <1>5

(* The row of a new upload is one. *)
LEMMA NewRow ==
  ASSUME TypeOK, NEW id \in Ids, NEW bucket \in Buckets, NEW content \in Contents,
         NEW exp \in Expiries
  PROVE  NewBlob(id, bucket, content, exp) \in Row
<1>1. OwnPath(bucket, id) \in Paths
  BY DEF OwnPath, Paths
<1>2. exp \in Times \cup {None} /\ now \in Times
  BY BoundsAssumption DEF Expiries, TypeOK
<1>3. QED
  BY <1>1, <1>2 DEF Row, NewBlob

(* Every step keeps the types: one step of the proof per action. *)
LEMMA NextType == TypeOK /\ [Next]_vars => TypeOK'
<1> SUFFICES ASSUME TypeOK, [Next]_vars PROVE TypeOK'
  OBVIOUS
<1> DEFINE TablesOK  == /\ rows \in [Ids -> Row \cup {None}]
                        /\ files \in [Paths -> Contents \cup {None, Torn}]
                        /\ written \in [Ids -> Contents \cup {None, Torn}]
           ScalarsOK == now \in Times /\ faults \in Nat /\ served \in [Ids -> Nat]
           LocalsOK  == /\ pc \in [Procs -> {"idle", "next"} \cup HandlerCalls
                                              \cup RemovalCalls]
                        /\ target \in [Procs -> Ids \cup {None}]
                        /\ blob \in [Procs -> Row \cup {None}]
                        /\ seen \in [Procs -> Row \cup {None}]
           ListsOK   == expired \in [Workers -> [Ids -> Row \cup {None}]]
           ControlsOK == \A q \in Procs : ControlOK(q)
<1> USE DEF locals
<1>a. TypeOK' <=> (TablesOK /\ ScalarsOK /\ LocalsOK /\ ListsOK /\ ControlsOK)'
  BY DEF TypeOK
<1>b. Handlers \subseteq Procs /\ Workers \subseteq Procs
  BY DEF Procs
<1>1. ASSUME NEW h \in Handlers, UploadBegin(h) PROVE TypeOK'
  <2>1. h \in Procs
    BY <1>b
  <2>2. TablesOK' /\ ScalarsOK' /\ ListsOK'
    BY <1>1 DEF TypeOK, UploadBegin
  <2>3. PICK id \in Ids, bucket \in Buckets, content \in Contents, exp \in Expiries :
          /\ written[id] = None
          /\ written' = [written EXCEPT ![id] = Torn]
          /\ target' = [target EXCEPT ![h] = id]
          /\ blob' = [blob EXCEPT ![h] = NewBlob(id, bucket, content, exp)]
    BY <1>1 DEF UploadBegin
  <2>4. blob' \in [Procs -> Row \cup {None}] /\ blob'[h] \in Row
    BY <2>1, <2>3, NewRow DEF TypeOK
  <2>5. LocalsOK'
    BY <1>1, <2>4 DEF TypeOK, UploadBegin, Goto, HandlerCalls
  <2>6. ASSUME NEW q \in Procs PROVE ControlOK(q)'
    <3>1. CASE q = h
      BY <1>1, <2>4 DEF TypeOK, UploadBegin, Goto, ControlOK, HoldsSeen
    <3>2. CASE q # h
      BY <1>1, <3>2 DEF TypeOK, UploadBegin, Goto, ControlOK
    <3>3. QED
      BY <3>1, <3>2
  <2>7. QED
    BY <1>a, <2>2, <2>5, <2>6
<1>2. ASSUME NEW h \in Handlers, UploadEnsure(h) PROVE TypeOK'
  <2>1. h \in Procs
    BY <1>b
  <2>2. TablesOK' /\ ScalarsOK' /\ ListsOK'
    BY <1>2 DEF TypeOK, UploadEnsure
  <2>3. CASE Finish(h)
    BY <1>a, <2>1, <2>2, <2>3, FinishType
  <2>4. CASE ~Finish(h)
    <3>1. LocalsOK'
      BY <1>2, <2>4 DEF TypeOK, UploadEnsure, Goto, HandlerCalls
    <3>2. ASSUME NEW q \in Procs PROVE ControlOK(q)'
      BY <1>2, <2>4 DEF TypeOK, UploadEnsure, Goto, ControlOK, HoldsBlob, HoldsSeen
    <3>3. QED
      BY <1>a, <2>2, <3>1, <3>2
  <2>5. QED
    BY <2>3, <2>4
<1>3. ASSUME NEW h \in Handlers, UploadPut(h) PROVE TypeOK'
  <2>1. h \in Procs
    BY <1>b
  <2>2. TablesOK' /\ ScalarsOK' /\ ListsOK'
    BY <1>3, <2>1 DEF TypeOK, UploadPut, ControlOK, HoldsBlob, Row
  <2>3. LocalsOK'
    BY <1>3 DEF TypeOK, UploadPut, Goto, HandlerCalls
  <2>4. ASSUME NEW q \in Procs PROVE ControlOK(q)'
    BY <1>3 DEF TypeOK, UploadPut, Goto, ControlOK, HoldsBlob, HoldsSeen
  <2>5. QED
    BY <1>a, <2>2, <2>3, <2>4
<1>4. ASSUME NEW h \in Handlers, UploadPutTorn(h) PROVE TypeOK'
  <2>1. h \in Procs
    BY <1>b
  <2>2. TablesOK' /\ ScalarsOK' /\ ListsOK'
    BY <1>4, <2>1 DEF TypeOK, UploadPutTorn, ControlOK, HoldsBlob, Row, Fault
  <2>3. LocalsOK' /\ ControlsOK'
    BY <1>4, <2>1, FinishType DEF UploadPutTorn
  <2>4. QED
    BY <1>a, <2>2, <2>3
<1>5. ASSUME NEW h \in Handlers, UploadLookup(h) PROVE TypeOK'
  <2>1. TablesOK' /\ ScalarsOK' /\ ListsOK'
    BY <1>5 DEF TypeOK, UploadLookup, Fault
  <2>2. LocalsOK'
    BY <1>5 DEF TypeOK, UploadLookup, Goto, HandlerCalls, LatestWithHash, LiveIds
  <2>3. ASSUME NEW q \in Procs PROVE ControlOK(q)'
    BY <1>5
       DEF TypeOK, UploadLookup, Goto, LatestWithHash, LiveIds, ControlOK,
           HoldsBlob, HoldsSeen
  <2>4. QED
    BY <1>a, <2>1, <2>2, <2>3
<1>6. ASSUME NEW h \in Handlers, UploadProbe(h) PROVE TypeOK'
  <2>1. TablesOK' /\ ScalarsOK' /\ ListsOK'
    BY <1>6 DEF TypeOK, UploadProbe, Fault
  <2>2. LocalsOK'
    BY <1>6 DEF TypeOK, UploadProbe, Goto, HandlerCalls
  <2>3. ASSUME NEW q \in Procs PROVE ControlOK(q)'
    BY <1>6 DEF TypeOK, UploadProbe, Goto, ControlOK, HoldsBlob, HoldsSeen
  <2>4. QED
    BY <1>a, <2>1, <2>2, <2>3
<1>7. ASSUME NEW h \in Handlers, UploadDropCopy(h) PROVE TypeOK'
  <2>1. h \in Procs
    BY <1>b
  <2>2. TablesOK'
    BY <1>7 DEF TypeOK, UploadDropCopy
  <2>3. ScalarsOK' /\ ListsOK'
    BY <1>7 DEF TypeOK, UploadDropCopy, Fault
  <2>4. LocalsOK'
    BY <1>7, <2>1, BoundsAssumption
       DEF TypeOK, UploadDropCopy, Goto, HandlerCalls, RemovalCalls, ControlOK,
           HoldsBlob, HoldsSeen, Row
  <2>5. ASSUME NEW q \in Procs PROVE ControlOK(q)'
    BY <1>7, <2>1, <2>4, NoneAssumption, SlotsAssumption
       DEF TypeOK, UploadDropCopy, Goto, Row, ControlOK, HandlerCalls, RemovalCalls,
           HoldsBlob, HoldsSeen
  <2>6. QED
    BY <1>a, <2>2, <2>3, <2>4, <2>5
<1>8. ASSUME NEW h \in Handlers, UploadCreate(h) PROVE TypeOK'
  <2>1. h \in Procs
    BY <1>b
  <2>2. TablesOK'
    <3>1. [blob[h] EXCEPT !.created = now] \in Row
      BY <1>8, <2>1, RowColumns DEF TypeOK, UploadCreate, ControlOK, HoldsBlob
    <3>2. QED
      BY <1>8, <3>1 DEF TypeOK, UploadCreate
  <2>3. ScalarsOK' /\ ListsOK'
    BY <1>8 DEF TypeOK, UploadCreate
  <2>4. LocalsOK' /\ ControlsOK'
    BY <1>8, <2>1, FinishType DEF UploadCreate
  <2>5. QED
    BY <1>a, <2>2, <2>3, <2>4
<1>9. ASSUME NEW h \in Handlers, EditLoad(h) PROVE TypeOK'
  <2>1. h \in Procs
    BY <1>b
  <2>2. TablesOK' /\ ScalarsOK' /\ ListsOK'
    BY <1>9, <2>1 DEF TypeOK, EditLoad
  <2>3. PICK id \in LiveIds, bucket \in Buckets \cup {None}, exp \in Expiries :
          /\ target' = [target EXCEPT ![h] = id]
          /\ seen' = [seen EXCEPT ![h] = rows[id]]
          /\ blob' = [blob EXCEPT ![h] = Edited(id, bucket, exp)]
          /\ Goto(h, IF bucket = None THEN "save" ELSE "move")
    BY <1>9 DEF EditLoad
  <2>4. id \in Ids /\ rows[id] \in Row
    BY <2>3 DEF LiveIds, TypeOK
  <2>5. Edited(id, bucket, exp) \in Row
    <3> DEFINE dated == [rows[id] EXCEPT
                           !.exp = IF exp = None THEN rows[id].exp ELSE exp]
    <3>1. (IF exp = None THEN rows[id].exp ELSE exp) \in Times \cup {None}
      BY <2>4, BoundsAssumption DEF Expiries, Row
    <3>2. dated \in Row
      BY <2>4, <3>1, RowColumns
    <3>3. bucket # None => OwnPath(bucket, id) \in Paths /\ bucket \in Buckets
      BY <2>4 DEF OwnPath, Paths
    <3> HIDE DEF dated
    <3>4. bucket # None => [dated EXCEPT !.bucket = bucket,
                                         !.path = OwnPath(bucket, id)] \in Row
      BY <3>2, <3>3, RowColumns
    <3>5. QED
      BY <3>2, <3>4 DEF Edited, dated
  <2>6. LocalsOK'
    BY <2>3, <2>4, <2>5 DEF TypeOK, Goto, HandlerCalls
  <2>7. ASSUME NEW q \in Procs PROVE ControlOK(q)'
    BY <2>3, <2>4, <2>5 DEF TypeOK, Goto, ControlOK
  <2>8. QED
    BY <1>a, <2>2, <2>6, <2>7
<1>10. ASSUME NEW h \in Handlers, EditMove(h) PROVE TypeOK'
  <2>1. h \in Procs
    BY <1>b
  <2>2. TablesOK'
    <3>1. CASE files[EditSource(h)] # None
      <4>1. EditSource(h) \in Paths /\ blob[h].path \in Paths
        BY <1>10, <2>1 DEF TypeOK, EditMove, EditSource, OwnPath, Paths,
                          ControlOK, HoldsBlob, HoldsSeen, Row
      <4>2. files' = Moved(EditSource(h), blob[h].path)
        BY <1>10, <3>1 DEF EditMove
      <4>3. files' \in [Paths -> Contents \cup {None, Torn}]
        BY <4>1, <4>2 DEF TypeOK, Moved
      <4>4. QED
        BY <1>10, <4>3 DEF TypeOK, EditMove
    <3>2. CASE files[EditSource(h)] = None
      BY <1>10, <3>2 DEF TypeOK, EditMove
    <3>3. QED
      BY <3>1, <3>2
  <2>3. ScalarsOK' /\ ListsOK'
    BY <1>10 DEF TypeOK, EditMove
  <2>4. CASE Finish(h)
    BY <1>a, <2>1, <2>2, <2>3, <2>4, FinishType
  <2>5. CASE ~Finish(h)
    <3>1. LocalsOK'
      BY <1>10, <2>5 DEF TypeOK, EditMove, Goto, HandlerCalls
    <3>2. ASSUME NEW q \in Procs PROVE ControlOK(q)'
      BY <1>10, <2>5 DEF TypeOK, EditMove, Goto, ControlOK, HoldsBlob, HoldsSeen
    <3>3. QED
      BY <1>a, <2>2, <2>3, <3>1, <3>2
  <2>6. QED
    BY <2>4, <2>5
<1>11. ASSUME NEW h \in Handlers, EditSave(h) PROVE TypeOK'
  <2>1. h \in Procs
    BY <1>b
  <2>2. TablesOK' /\ ScalarsOK' /\ ListsOK'
    BY <1>11, <2>1 DEF TypeOK, EditSave
  <2>3. LocalsOK' /\ ControlsOK'
    BY <1>11, <2>1, FinishType DEF EditSave
  <2>4. QED
    BY <1>a, <2>2, <2>3
<1>12. ASSUME NEW h \in Handlers, DeleteLoad(h) PROVE TypeOK'
  <2>1. h \in Procs
    BY <1>b
  <2>2. TablesOK' /\ ScalarsOK' /\ ListsOK'
    BY <1>12 DEF TypeOK, DeleteLoad
  <2>3. LocalsOK'
    BY <1>12, <2>1 DEF TypeOK, DeleteLoad, Goto, RemovalCalls, LiveIds
  <2>4. ASSUME NEW q \in Procs PROVE ControlOK(q)'
    BY <1>12 DEF TypeOK, DeleteLoad, Goto, LiveIds, ControlOK, HoldsSeen
  <2>5. QED
    BY <1>a, <2>2, <2>3, <2>4
<1>13. ASSUME NEW h \in Handlers, OpenLoad(h) PROVE TypeOK'
  <2>1. h \in Procs
    BY <1>b
  <2>2. TablesOK' /\ ScalarsOK' /\ ListsOK'
    BY <1>13, <2>1 DEF TypeOK, OpenLoad
  <2>3. LocalsOK'
    BY <1>13, <2>1 DEF TypeOK, OpenLoad, Goto, HandlerCalls, LiveIds
  <2>4. ASSUME NEW q \in Procs PROVE ControlOK(q)'
    BY <1>13 DEF TypeOK, OpenLoad, Goto, LiveIds, ControlOK, HoldsBlob
  <2>5. QED
    BY <1>a, <2>2, <2>3, <2>4
<1>14. ASSUME NEW h \in Handlers, OpenReload(h) PROVE TypeOK'
  <2>1. h \in Procs
    BY <1>b
  <2>2. TablesOK' /\ ScalarsOK' /\ ListsOK'
    BY <1>14 DEF TypeOK, OpenReload
  <2>3. CASE Finish(h)
    BY <1>a, <2>1, <2>2, <2>3, FinishType
  <2>4. CASE ~Finish(h)
    <3>1. LocalsOK'
      <4>1. rows[target[h]] # None
        BY <1>14, <2>4 DEF OpenReload
      <4>2. rows[target[h]] \in Row
        BY <1>14, <4>1, <2>1 DEF TypeOK, OpenReload, ControlOK
      <4>3. QED
        BY <1>14, <4>1, <4>2 DEF TypeOK, OpenReload, Goto, HandlerCalls
    <3>2. ASSUME NEW q \in Procs PROVE ControlOK(q)'
      BY <1>14, <2>4 DEF TypeOK, OpenReload, Goto, ControlOK, HoldsSeen
    <3>3. QED
      BY <1>a, <2>2, <3>1, <3>2
  <2>5. QED
    BY <2>3, <2>4
<1>15. ASSUME NEW h \in Handlers, OpenFile(h) PROVE TypeOK'
  <2>1. h \in Procs
    BY <1>b
  <2>2. TablesOK' /\ ScalarsOK' /\ ListsOK'
    BY <1>15, <2>1 DEF TypeOK, OpenFile
  <2>3. CASE Finish(h)
    BY <1>a, <2>1, <2>2, <2>3, FinishType
  <2>4. CASE ~Finish(h)
    <3>1. LocalsOK'
      BY <1>15, <2>4 DEF TypeOK, OpenFile, Goto, HandlerCalls
    <3>2. ASSUME NEW q \in Procs PROVE ControlOK(q)'
      BY <1>15, <2>4 DEF TypeOK, OpenFile, Goto, ControlOK, HoldsBlob, HoldsSeen
    <3>3. QED
      BY <1>a, <2>2, <3>1, <3>2
  <2>5. QED
    BY <2>3, <2>4
<1>16. ASSUME NEW h \in Handlers, BumpCounter(h) PROVE TypeOK'
  <2>1. h \in Procs
    BY <1>b
  <2>2. TablesOK'
    <3>1. target[h] \in Ids
      BY <1>16, <2>1 DEF TypeOK, BumpCounter, ControlOK
    <3>2. rows[target[h]] # None => Counted(rows[target[h]]) \in Row
      BY <3>1, RowColumns DEF TypeOK
    <3>3. QED
      BY <1>16, <3>2 DEF TypeOK, BumpCounter
  <2>3. ScalarsOK' /\ ListsOK'
    BY <1>16 DEF TypeOK, BumpCounter, Fault
  <2>4. LocalsOK' /\ ControlsOK'
    BY <1>16, <2>1, FinishType DEF BumpCounter
  <2>5. QED
    BY <1>a, <2>2, <2>3, <2>4
<1>17. ASSUME NEW p \in Procs, CountSharers(p) PROVE TypeOK'
  <2>1. TablesOK' /\ ScalarsOK' /\ ListsOK'
    BY <1>17 DEF TypeOK, CountSharers
  <2>2. LocalsOK'
    BY <1>17 DEF TypeOK, CountSharers, Goto, RemovalCalls
  <2>3. ASSUME NEW q \in Procs PROVE ControlOK(q)'
    BY <1>17
       DEF TypeOK, CountSharers, Goto, ControlOK, HandlerCalls, HoldsBlob, HoldsSeen
  <2>4. QED
    BY <1>a, <2>1, <2>2, <2>3
<1>18. ASSUME NEW p \in Procs, Unlink(p) PROVE TypeOK'
  <2>1. TablesOK' /\ ScalarsOK' /\ ListsOK'
    BY <1>18 DEF TypeOK, Unlink
  <2>2. LocalsOK'
    BY <1>18 DEF TypeOK, Unlink, Goto, RemovalCalls
  <2>3. ASSUME NEW q \in Procs PROVE ControlOK(q)'
    BY <1>18 DEF TypeOK, Unlink, Goto, ControlOK, HandlerCalls, HoldsBlob, HoldsSeen
  <2>4. QED
    BY <1>a, <2>1, <2>2, <2>3
<1>19. ASSUME NEW p \in Procs, DropRow(p) PROVE TypeOK'
  <2>1. p \in Procs
    BY <1>b
  <2>2. TablesOK' /\ ScalarsOK' /\ ListsOK'
    BY <1>19, <2>1 DEF TypeOK, DropRow
  <2>3. LocalsOK' /\ ControlsOK'
    BY <1>19, FinishType DEF DropRow
  <2>4. QED
    BY <1>a, <2>2, <2>3
<1>20. ASSUME NEW p \in Procs, CallRefused(p) PROVE TypeOK'
  <2>1. TablesOK' /\ ScalarsOK' /\ ListsOK'
    BY <1>20 DEF TypeOK, CallRefused, Fault, Refused
  <2>2. LocalsOK' /\ ControlsOK'
    BY <1>20, FinishType DEF CallRefused, Refused
  <2>3. QED
    BY <1>a, <2>1, <2>2
<1>21. ASSUME NEW w \in Workers, PurgeFind(w) PROVE TypeOK'
  <2>1. w \in Procs
    BY <1>b
  <2>2. TablesOK' /\ ScalarsOK' /\ ListsOK'
    BY <1>21, <2>1 DEF TypeOK, PurgeFind
  <2>3. LocalsOK'
    BY <1>21 DEF TypeOK, PurgeFind, Goto
  <2>4. ASSUME NEW q \in Procs PROVE ControlOK(q)'
    BY <1>21 DEF TypeOK, PurgeFind, Goto, ControlOK, HandlerCalls, HoldsBlob, HoldsSeen
  <2>5. QED
    BY <1>a, <2>2, <2>3, <2>4
<1>22. ASSUME NEW w \in Workers, PurgeNext(w) PROVE TypeOK'
  <2>1. w \in Procs
    BY <1>b
  <2>2. TablesOK' /\ ScalarsOK' /\ ListsOK'
    BY <1>22, <2>1 DEF TypeOK, PurgeNext
  <2>3. LocalsOK'
    BY <1>22, <2>1 DEF TypeOK, PurgeNext, Goto, RemovalCalls
  <2>4. ASSUME NEW q \in Procs PROVE ControlOK(q)'
    BY <1>22 DEF TypeOK, PurgeNext, Goto, ControlOK, HandlerCalls, HoldsSeen
  <2>5. QED
    BY <1>a, <2>2, <2>3, <2>4
<1>23. ASSUME NEW w \in Workers, PurgeDone(w) PROVE TypeOK'
  <2>1. w \in Procs
    BY <1>b
  <2>2. TablesOK' /\ ScalarsOK' /\ ListsOK'
    BY <1>23, <2>1 DEF TypeOK, PurgeDone
  <2>3. LocalsOK'
    BY <1>23 DEF TypeOK, PurgeDone, Goto
  <2>4. ASSUME NEW q \in Procs PROVE ControlOK(q)'
    BY <1>23 DEF TypeOK, PurgeDone, Goto, ControlOK, HandlerCalls, HoldsBlob, HoldsSeen
  <2>5. QED
    BY <1>a, <2>2, <2>3, <2>4
<1>24. ASSUME Crash PROVE TypeOK'
  <2>1. TablesOK'
    BY <1>24 DEF TypeOK, Crash
  <2>2. ScalarsOK'
    BY <1>24, BusyFinite DEF TypeOK, Crash
  <2>3. LocalsOK' /\ ListsOK'
    BY <1>24 DEF TypeOK, Crash
  <2>4. ASSUME NEW q \in Procs PROVE ControlOK(q)'
    BY <1>24 DEF Crash, ControlOK, HandlerCalls, HoldsBlob, HoldsSeen
  <2>5. QED
    BY <1>a, <2>1, <2>2, <2>3, <2>4
<1>25. ASSUME Tick PROVE TypeOK'
  <2>1. TablesOK' /\ ListsOK' /\ LocalsOK'
    BY <1>25 DEF TypeOK, Tick
  <2>2. ScalarsOK'
    BY <1>25, BoundsAssumption DEF TypeOK, Tick, Times
  <2>3. ASSUME NEW q \in Procs PROVE ControlOK(q)'
    BY <1>25 DEF TypeOK, Tick, ControlOK
  <2>4. QED
    BY <1>a, <2>1, <2>2, <2>3
<1>26. ASSUME UNCHANGED vars PROVE TypeOK'
  <2>1. TablesOK' /\ ListsOK' /\ LocalsOK' /\ ScalarsOK'
    BY <1>26 DEF TypeOK, vars
  <2>2. ASSUME NEW q \in Procs PROVE ControlOK(q)'
    BY <1>26 DEF TypeOK, vars, ControlOK
  <2>3. QED
    BY <1>a, <2>1, <2>2
<1> HIDE DEF locals
<1>27. QED
  BY <1>1, <1>2, <1>3, <1>4, <1>5, <1>6, <1>7, <1>8, <1>9, <1>10, <1>11, <1>12,
     <1>13, <1>14, <1>15, <1>16, <1>17, <1>18, <1>19, <1>20, <1>21, <1>22, <1>23,
     <1>24, <1>25, <1>26
     DEF Next, Request, UploadStep, EditStep, OpenStep, RemoveStep, PurgeStep

-----------------------------------------------------------------------------
(* Consistency of the tables, the files and what processes hold.            *)

(* A step that changes neither files nor written keeps what is said of them. *)
LEMMA FilesKept ==
  ASSUME Consistent, UNCHANGED <<files, written>>
  PROVE  FilesMatch' /\ SingleCopy'
  BY DEF Consistent, FilesMatch, SingleCopy

(* A step that changes neither rows nor written keeps what rows say. *)
LEMMA RowsKept ==
  ASSUME Consistent, UNCHANGED <<rows, written>>
  PROVE  RowsMatch'
  BY DEF Consistent, RowsMatch, Matches, LiveIds

(* A step that changes neither purge lists nor written keeps what lists say. *)
LEMMA ListsKept ==
  ASSUME Consistent, UNCHANGED <<expired, written>>
  PROVE  ListsMatch'
  BY DEF Consistent, ListsMatch, Matches

(* The three together: a step of memory only keeps what the store says. *)
LEMMA StoreKept ==
  ASSUME Consistent, UNCHANGED <<rows, files, written>>
  PROVE  FilesMatch' /\ RowsMatch' /\ SingleCopy'
  BY FilesKept, RowsKept

(* Every step keeps the agreement: one step of the proof per action. *)
LEMMA NextConsistent ==
  TypeOK /\ TypeOK' /\ Consistent /\ [Next]_vars => Consistent'
<1> SUFFICES ASSUME TypeOK, TypeOK', Consistent, [Next]_vars PROVE Consistent'
  OBVIOUS
<1> USE DEF locals
<1>b. Handlers \subseteq Procs /\ Workers \subseteq Procs
  BY DEF Procs
<1>1. ASSUME NEW h \in Handlers, UploadBegin(h) PROVE Consistent'
  <2>1. FilesMatch'
    BY <1>1 DEF FilesMatch, Consistent, UploadBegin
  <2>2. RowsMatch'
    BY <1>1, NoneAssumption
       DEF RowsMatch, Matches, LiveIds, Consistent, Row, TypeOK, UploadBegin
  <2>3. SingleCopy'
    BY <1>1 DEF SingleCopy, Consistent, UploadBegin
  <2>4. ListsMatch'
    BY <1>1, NoneAssumption
       DEF ListsMatch, Matches, Consistent, Row, TypeOK, UploadBegin
  <2>5. ASSUME NEW q \in Procs PROVE HeldMatch(q)'
    BY <1>1, NoneAssumption
       DEF Matches, HeldMatch, Consistent, Row, TypeOK, ControlOK, HoldsBlob,
           HoldsSeen, Goto, UploadBegin, NewBlob, OwnPath
  <2>6. ASSUME NEW q \in Procs PROVE PutPending(q)'
    BY <1>1 DEF FilesMatch, PutPending, Consistent, TypeOK, BeforePut, Goto, UploadBegin
  <2>7. UuidsDistinct'
    BY <1>1, TornAssumption
       DEF PutPending, UuidsDistinct, Consistent, TypeOK, BeforePut, Goto,
           UploadBegin
  <2>8. QED
    BY <2>1, <2>2, <2>3, <2>4, <2>5, <2>6, <2>7 DEF Consistent
<1>2. ASSUME NEW h \in Handlers, UploadEnsure(h) PROVE Consistent'
  <2>1. FilesMatch' /\ RowsMatch' /\ SingleCopy'
    BY <1>2, StoreKept DEF UploadEnsure
  <2>2. ListsMatch'
    BY <1>2, ListsKept DEF UploadEnsure
  <2>3. ASSUME NEW q \in Procs PROVE HeldMatch(q)'
    BY <1>2, NoneAssumption
       DEF Matches, HeldMatch, Consistent, TypeOK, ControlOK, Goto, UploadEnsure,
           Finish
  <2>4. ASSUME NEW q \in Procs PROVE PutPending(q)'
    BY <1>2 DEF PutPending, Consistent, TypeOK, BeforePut, Goto, UploadEnsure, Finish
  <2>5. UuidsDistinct'
    BY <1>2 DEF UuidsDistinct, Consistent, TypeOK, BeforePut, Goto, UploadEnsure, Finish
  <2>6. QED
    BY <2>1, <2>2, <2>3, <2>4, <2>5 DEF Consistent
<1>3. ASSUME NEW h \in Handlers, UploadPut(h) PROVE Consistent'
  <2>1. h \in Procs
    BY <1>b
  <2>2. FilesMatch'
    BY <1>3, <2>1
       DEF FilesMatch, HeldMatch, PutPending, Consistent, TypeOK, BeforePut,
           UploadPut
  <2>3. RowsMatch'
    BY <1>3, <2>1, TornAssumption
       DEF RowsMatch, Matches, LiveIds, PutPending, Consistent, Row, TypeOK,
           BeforePut, UploadPut
  <2>4. SingleCopy'
    BY <1>3, <2>1
       DEF SingleCopy, HeldMatch, PutPending, Consistent, BeforePut, UploadPut
  <2>5. ListsMatch'
    BY <1>3, <2>1, TornAssumption
       DEF ListsMatch, Matches, PutPending, Consistent, Row, TypeOK, BeforePut,
           UploadPut
  <2>6. ASSUME NEW q \in Procs PROVE HeldMatch(q)'
    BY <1>3, TornAssumption
       DEF Matches, HeldMatch, PutPending, Consistent, Row, TypeOK, ControlOK,
           HoldsBlob, HoldsSeen, BeforePut, Goto, UploadPut
  <2>7. ASSUME NEW q \in Procs PROVE PutPending(q)'
    BY <1>3
       DEF HeldMatch, PutPending, UuidsDistinct, Consistent, TypeOK, BeforePut,
           Goto, UploadPut
  <2>8. UuidsDistinct'
    BY <1>3 DEF UuidsDistinct, Consistent, BeforePut, Goto, UploadPut
  <2>9. QED
    BY <2>2, <2>3, <2>4, <2>5, <2>6, <2>7, <2>8 DEF Consistent
<1>4. ASSUME NEW h \in Handlers, UploadPutTorn(h) PROVE Consistent'
  <2>1. h \in Procs
    BY <1>b
  <2>2. RowsMatch'
    BY <1>4, RowsKept DEF UploadPutTorn
  <2>3. FilesMatch'
    BY <1>4, <2>1
       DEF FilesMatch, HeldMatch, PutPending, Consistent, BeforePut, UploadPutTorn
  <2>4. SingleCopy'
    BY <1>4, <2>1
       DEF SingleCopy, HeldMatch, PutPending, Consistent, BeforePut, UploadPutTorn
  <2>5. ListsMatch'
    BY <1>4, ListsKept DEF UploadPutTorn
  <2>6. ASSUME NEW q \in Procs PROVE HeldMatch(q)'
    BY <1>4, NoneAssumption
       DEF Matches, HeldMatch, Consistent, TypeOK, ControlOK, Goto, UploadPutTorn,
           Finish
  <2>7. ASSUME NEW q \in Procs PROVE PutPending(q)'
    BY <1>4
       DEF HeldMatch, PutPending, UuidsDistinct, Consistent, TypeOK, BeforePut,
           Goto, UploadPutTorn, Finish
  <2>8. UuidsDistinct'
    BY <1>4
       DEF UuidsDistinct, Consistent, TypeOK, BeforePut, Goto, UploadPutTorn, Finish
  <2>9. QED
    BY <2>2, <2>3, <2>4, <2>5, <2>6, <2>7, <2>8 DEF Consistent
<1>5. ASSUME NEW h \in Handlers, UploadLookup(h) PROVE Consistent'
  <2>1. FilesMatch' /\ RowsMatch' /\ SingleCopy'
    BY <1>5, StoreKept DEF UploadLookup
  <2>2. ListsMatch'
    BY <1>5, ListsKept DEF UploadLookup
  <2>3. ASSUME NEW q \in Procs PROVE HeldMatch(q)'
    BY <1>5
       DEF RowsMatch, Matches, HeldMatch, Consistent, TypeOK, HoldsBlob, Goto,
           UploadLookup, LatestWithHash
  <2>4. ASSUME NEW q \in Procs PROVE PutPending(q)'
    BY <1>5 DEF PutPending, Consistent, TypeOK, BeforePut, Goto, UploadLookup
  <2>5. UuidsDistinct'
    BY <1>5 DEF UuidsDistinct, Consistent, TypeOK, BeforePut, Goto, UploadLookup
  <2>6. QED
    BY <2>1, <2>2, <2>3, <2>4, <2>5 DEF Consistent
<1>6. ASSUME NEW h \in Handlers, UploadProbe(h) PROVE Consistent'
  <2>1. FilesMatch' /\ RowsMatch' /\ SingleCopy'
    BY <1>6, StoreKept DEF UploadProbe
  <2>2. ListsMatch'
    BY <1>6, ListsKept DEF UploadProbe
  <2>3. ASSUME NEW q \in Procs PROVE HeldMatch(q)'
    BY <1>6 DEF Matches, HeldMatch, Consistent, TypeOK, HoldsBlob, Goto, UploadProbe
  <2>4. ASSUME NEW q \in Procs PROVE PutPending(q)'
    BY <1>6 DEF PutPending, Consistent, TypeOK, BeforePut, Goto, UploadProbe
  <2>5. UuidsDistinct'
    BY <1>6 DEF UuidsDistinct, Consistent, TypeOK, BeforePut, Goto, UploadProbe
  <2>6. QED
    BY <2>1, <2>2, <2>3, <2>4, <2>5 DEF Consistent
<1>7. ASSUME NEW h \in Handlers, UploadDropCopy(h) PROVE Consistent'
  <2>1. RowsMatch'
    BY <1>7, RowsKept DEF UploadDropCopy
  <2>2. FilesMatch'
    BY <1>7 DEF FilesMatch, Consistent, TypeOK, UploadDropCopy
  <2>3. SingleCopy'
    BY <1>7 DEF SingleCopy, Consistent, TypeOK, UploadDropCopy
  <2>4. ListsMatch'
    BY <1>7, ListsKept DEF UploadDropCopy
  <2>5. ASSUME NEW q \in Procs PROVE HeldMatch(q)'
    BY <1>7 DEF Matches, HeldMatch, Consistent, HoldsBlob, Goto, UploadDropCopy
  <2>6. ASSUME NEW q \in Procs PROVE PutPending(q)'
    BY <1>7 DEF PutPending, Consistent, TypeOK, BeforePut, Goto, UploadDropCopy
  <2>7. UuidsDistinct'
    BY <1>7 DEF UuidsDistinct, Consistent, BeforePut, Goto, UploadDropCopy
  <2>8. QED
    BY <2>1, <2>2, <2>3, <2>4, <2>5, <2>6, <2>7 DEF Consistent
<1>8. ASSUME NEW h \in Handlers, UploadCreate(h) PROVE Consistent'
  <2>1. h \in Procs
    BY <1>b
  <2>2. FilesMatch' /\ SingleCopy'
    BY <1>8, FilesKept DEF UploadCreate
  <2>3. RowsMatch'
    BY <1>8, <2>1
       DEF RowsMatch, Matches, LiveIds, HeldMatch, Consistent, HoldsBlob,
           UploadCreate
  <2>4. ListsMatch'
    BY <1>8, ListsKept DEF UploadCreate
  <2>5. ASSUME NEW q \in Procs PROVE HeldMatch(q)'
    BY <1>8, NoneAssumption
       DEF Matches, HeldMatch, Consistent, TypeOK, ControlOK, Goto, UploadCreate,
           Finish
  <2>6. ASSUME NEW q \in Procs PROVE PutPending(q)'
    BY <1>8 DEF PutPending, Consistent, BeforePut, Goto, UploadCreate, Finish
  <2>7. UuidsDistinct'
    BY <1>8 DEF UuidsDistinct, Consistent, BeforePut, Goto, UploadCreate, Finish
  <2>8. QED
    BY <2>2, <2>3, <2>4, <2>5, <2>6, <2>7 DEF Consistent
<1>9. ASSUME NEW h \in Handlers, EditLoad(h) PROVE Consistent'
  <2>1. FilesMatch' /\ RowsMatch' /\ SingleCopy'
    BY <1>9, StoreKept DEF EditLoad
  <2>2. ListsMatch'
    BY <1>9, ListsKept DEF EditLoad
  <2>3. ASSUME NEW q \in Procs PROVE HeldMatch(q)'
    BY <1>9
       DEF RowsMatch, Matches, HeldMatch, Consistent, TypeOK, Goto, EditLoad,
           Edited, OwnPath
  <2>4. ASSUME NEW q \in Procs PROVE PutPending(q)'
    BY <1>9 DEF PutPending, Consistent, BeforePut, Goto, EditLoad
  <2>5. UuidsDistinct'
    BY <1>9 DEF UuidsDistinct, Consistent, BeforePut, Goto, EditLoad
  <2>6. QED
    BY <2>1, <2>2, <2>3, <2>4, <2>5 DEF Consistent
<1>10. ASSUME NEW h \in Handlers, EditMove(h) PROVE Consistent'
  <2>1. h \in Procs
    BY <1>b
  <2>2. RowsMatch'
    BY <1>10, RowsKept DEF EditMove
  <2>3. FilesMatch'
    BY <1>10, <2>1
       DEF FilesMatch, HeldMatch, Consistent, Row, Paths, TypeOK, ControlOK,
           HoldsSeen, EditMove, Moved, EditSource, OwnPath
  <2>4. SingleCopy'
    BY <1>10, <2>1
       DEF SingleCopy, HeldMatch, Consistent, Row, Paths, TypeOK, ControlOK,
           HoldsSeen, EditMove, Moved, EditSource, OwnPath
  <2>5. ListsMatch'
    BY <1>10, ListsKept DEF EditMove
  <2>6. ASSUME NEW q \in Procs PROVE HeldMatch(q)'
    BY <1>10
       DEF Matches, HeldMatch, Consistent, TypeOK, HoldsBlob, Goto, EditMove, Finish
  <2>7. ASSUME NEW q \in Procs PROVE PutPending(q)'
    BY <1>10, <2>1, TornAssumption
       DEF HeldMatch, PutPending, Consistent, Row, TypeOK, ControlOK, HoldsSeen,
           BeforePut, Goto, EditMove, Finish, Moved
  <2>8. UuidsDistinct'
    BY <1>10 DEF UuidsDistinct, Consistent, TypeOK, BeforePut, Goto, EditMove, Finish
  <2>9. QED
    BY <2>2, <2>3, <2>4, <2>5, <2>6, <2>7, <2>8 DEF Consistent
<1>11. ASSUME NEW h \in Handlers, EditSave(h) PROVE Consistent'
  <2>1. h \in Procs
    BY <1>b
  <2>2. FilesMatch' /\ SingleCopy'
    BY <1>11, FilesKept DEF EditSave
  <2>3. RowsMatch'
    BY <1>11, <2>1
       DEF RowsMatch, Matches, LiveIds, HeldMatch, Consistent, HoldsBlob, EditSave
  <2>4. ListsMatch'
    BY <1>11, ListsKept DEF EditSave
  <2>5. ASSUME NEW q \in Procs PROVE HeldMatch(q)'
    BY <1>11, NoneAssumption
       DEF Matches, HeldMatch, Consistent, TypeOK, ControlOK, Goto, EditSave, Finish
  <2>6. ASSUME NEW q \in Procs PROVE PutPending(q)'
    BY <1>11 DEF PutPending, Consistent, BeforePut, Goto, EditSave, Finish
  <2>7. UuidsDistinct'
    BY <1>11 DEF UuidsDistinct, Consistent, BeforePut, Goto, EditSave, Finish
  <2>8. QED
    BY <2>2, <2>3, <2>4, <2>5, <2>6, <2>7 DEF Consistent
<1>12. ASSUME NEW h \in Handlers, DeleteLoad(h) PROVE Consistent'
  <2>1. FilesMatch' /\ RowsMatch' /\ SingleCopy'
    BY <1>12, StoreKept DEF DeleteLoad
  <2>2. ListsMatch'
    BY <1>12, ListsKept DEF DeleteLoad
  <2>3. ASSUME NEW q \in Procs PROVE HeldMatch(q)'
    BY <1>12 DEF RowsMatch, Matches, HeldMatch, Consistent, TypeOK, Goto, DeleteLoad
  <2>4. ASSUME NEW q \in Procs PROVE PutPending(q)'
    BY <1>12 DEF PutPending, Consistent, BeforePut, Goto, DeleteLoad
  <2>5. UuidsDistinct'
    BY <1>12 DEF UuidsDistinct, Consistent, BeforePut, Goto, DeleteLoad
  <2>6. QED
    BY <2>1, <2>2, <2>3, <2>4, <2>5 DEF Consistent
<1>13. ASSUME NEW h \in Handlers, OpenLoad(h) PROVE Consistent'
  <2>1. FilesMatch' /\ RowsMatch' /\ SingleCopy'
    BY <1>13, StoreKept DEF OpenLoad
  <2>2. ListsMatch'
    BY <1>13, ListsKept DEF OpenLoad
  <2>3. ASSUME NEW q \in Procs PROVE HeldMatch(q)'
    BY <1>13
       DEF RowsMatch, Matches, HeldMatch, Consistent, TypeOK, HoldsBlob, Goto,
           OpenLoad
  <2>4. ASSUME NEW q \in Procs PROVE PutPending(q)'
    BY <1>13 DEF PutPending, Consistent, BeforePut, Goto, OpenLoad
  <2>5. UuidsDistinct'
    BY <1>13 DEF UuidsDistinct, Consistent, BeforePut, Goto, OpenLoad
  <2>6. QED
    BY <2>1, <2>2, <2>3, <2>4, <2>5 DEF Consistent
<1>14. ASSUME NEW h \in Handlers, OpenReload(h) PROVE Consistent'
  <2>1. FilesMatch' /\ RowsMatch' /\ SingleCopy'
    BY <1>14, StoreKept DEF OpenReload
  <2>2. ListsMatch'
    BY <1>14, ListsKept DEF OpenReload
  <2>3. ASSUME NEW q \in Procs PROVE HeldMatch(q)'
    BY <1>14, NoneAssumption
       DEF RowsMatch, Matches, LiveIds, HeldMatch, Consistent, TypeOK, ControlOK,
           Goto, OpenReload, Finish
  <2>4. ASSUME NEW q \in Procs PROVE PutPending(q)'
    BY <1>14 DEF PutPending, Consistent, TypeOK, BeforePut, Goto, OpenReload, Finish
  <2>5. UuidsDistinct'
    BY <1>14 DEF UuidsDistinct, Consistent, TypeOK, BeforePut, Goto, OpenReload, Finish
  <2>6. QED
    BY <2>1, <2>2, <2>3, <2>4, <2>5 DEF Consistent
<1>15. ASSUME NEW h \in Handlers, OpenFile(h) PROVE Consistent'
  <2>1. FilesMatch' /\ RowsMatch' /\ SingleCopy'
    BY <1>15, StoreKept DEF OpenFile
  <2>2. ListsMatch'
    BY <1>15, ListsKept DEF OpenFile
  <2>3. ASSUME NEW q \in Procs PROVE HeldMatch(q)'
    BY <1>15
       DEF Matches, HeldMatch, Consistent, TypeOK, HoldsBlob, Goto, OpenFile, Finish
  <2>4. ASSUME NEW q \in Procs PROVE PutPending(q)'
    BY <1>15 DEF PutPending, Consistent, TypeOK, BeforePut, Goto, OpenFile, Finish
  <2>5. UuidsDistinct'
    BY <1>15 DEF UuidsDistinct, Consistent, TypeOK, BeforePut, Goto, OpenFile, Finish
  <2>6. QED
    BY <2>1, <2>2, <2>3, <2>4, <2>5 DEF Consistent
<1>16. ASSUME NEW h \in Handlers, BumpCounter(h) PROVE Consistent'
  <2>1. h \in Procs
    BY <1>b
  <2>2. FilesMatch' /\ SingleCopy'
    BY <1>16, FilesKept DEF BumpCounter
  <2>3. RowsMatch'
    BY <1>16, <2>1, TornAssumption
       DEF RowsMatch, Matches, LiveIds, Consistent, Row, TypeOK, BumpCounter,
           Counted
  <2>4. ListsMatch'
    BY <1>16, ListsKept DEF BumpCounter
  <2>5. ASSUME NEW q \in Procs PROVE HeldMatch(q)'
    BY <1>16, NoneAssumption
       DEF Matches, HeldMatch, Consistent, TypeOK, ControlOK, Goto, BumpCounter,
           Finish
  <2>6. ASSUME NEW q \in Procs PROVE PutPending(q)'
    BY <1>16 DEF PutPending, Consistent, BeforePut, Goto, BumpCounter, Finish
  <2>7. UuidsDistinct'
    BY <1>16 DEF UuidsDistinct, Consistent, BeforePut, Goto, BumpCounter, Finish
  <2>8. QED
    BY <2>2, <2>3, <2>4, <2>5, <2>6, <2>7 DEF Consistent
<1>17. ASSUME NEW p \in Procs, CountSharers(p) PROVE Consistent'
  <2>1. FilesMatch' /\ RowsMatch' /\ SingleCopy'
    BY <1>17, StoreKept DEF CountSharers
  <2>2. ListsMatch'
    BY <1>17, ListsKept DEF CountSharers
  <2>3. ASSUME NEW q \in Procs PROVE HeldMatch(q)'
    BY <1>17 DEF Matches, HeldMatch, Consistent, HoldsBlob, Goto, CountSharers
  <2>4. ASSUME NEW q \in Procs PROVE PutPending(q)'
    BY <1>17 DEF PutPending, Consistent, BeforePut, Goto, CountSharers
  <2>5. UuidsDistinct'
    BY <1>17 DEF UuidsDistinct, Consistent, BeforePut, Goto, CountSharers
  <2>6. QED
    BY <2>1, <2>2, <2>3, <2>4, <2>5 DEF Consistent
<1>18. ASSUME NEW p \in Procs, Unlink(p) PROVE Consistent'
  <2>1. RowsMatch'
    BY <1>18, RowsKept DEF Unlink
  <2>2. FilesMatch'
    BY <1>18 DEF FilesMatch, Consistent, Unlink
  <2>3. SingleCopy'
    BY <1>18 DEF SingleCopy, Consistent, Unlink
  <2>4. ListsMatch'
    BY <1>18, ListsKept DEF Unlink
  <2>5. ASSUME NEW q \in Procs PROVE HeldMatch(q)'
    BY <1>18 DEF Matches, HeldMatch, Consistent, HoldsBlob, Goto, Unlink
  <2>6. ASSUME NEW q \in Procs PROVE PutPending(q)'
    BY <1>18 DEF PutPending, Consistent, BeforePut, Goto, Unlink
  <2>7. UuidsDistinct'
    BY <1>18 DEF UuidsDistinct, Consistent, BeforePut, Goto, Unlink
  <2>8. QED
    BY <2>1, <2>2, <2>3, <2>4, <2>5, <2>6, <2>7 DEF Consistent
<1>19. ASSUME NEW p \in Procs, DropRow(p) PROVE Consistent'
  <2>1. FilesMatch' /\ SingleCopy'
    BY <1>19, FilesKept DEF DropRow
  <2>2. RowsMatch'
    BY <1>19 DEF RowsMatch, Matches, LiveIds, Consistent, DropRow
  <2>3. ListsMatch'
    BY <1>19, ListsKept DEF DropRow
  <2>4. ASSUME NEW q \in Procs PROVE HeldMatch(q)'
    BY <1>19, NoneAssumption
       DEF Matches, HeldMatch, Consistent, TypeOK, ControlOK, Goto, DropRow, Finish
  <2>5. ASSUME NEW q \in Procs PROVE PutPending(q)'
    BY <1>19 DEF PutPending, Consistent, BeforePut, Goto, DropRow, Finish
  <2>6. UuidsDistinct'
    BY <1>19 DEF UuidsDistinct, Consistent, BeforePut, Goto, DropRow, Finish
  <2>7. QED
    BY <2>1, <2>2, <2>3, <2>4, <2>5, <2>6 DEF Consistent
<1>20. ASSUME NEW p \in Procs, CallRefused(p) PROVE Consistent'
  <2>1. FilesMatch' /\ RowsMatch' /\ SingleCopy'
    BY <1>20, StoreKept DEF CallRefused, Refused
  <2>2. ListsMatch'
    BY <1>20, ListsKept DEF CallRefused, Refused
  <2>3. ASSUME NEW q \in Procs PROVE HeldMatch(q)'
    BY <1>20, NoneAssumption
       DEF Matches, HeldMatch, Consistent, TypeOK, ControlOK, Goto, CallRefused,
           Refused, Finish
  <2>4. ASSUME NEW q \in Procs PROVE PutPending(q)'
    BY <1>20
       DEF PutPending, Consistent, TypeOK, BeforePut, Goto, CallRefused, Refused,
           Finish
  <2>5. UuidsDistinct'
    BY <1>20
       DEF UuidsDistinct, Consistent, TypeOK, BeforePut, Goto, CallRefused, Refused,
           Finish
  <2>6. QED
    BY <2>1, <2>2, <2>3, <2>4, <2>5 DEF Consistent
<1>21. ASSUME NEW w \in Workers, PurgeFind(w) PROVE Consistent'
  <2>1. FilesMatch' /\ RowsMatch' /\ SingleCopy'
    BY <1>21, StoreKept DEF PurgeFind
  <2>2. ListsMatch'
    BY <1>21 DEF ListsMatch, RowsMatch, Matches, LiveIds, Consistent, PurgeFind
  <2>3. ASSUME NEW q \in Procs PROVE HeldMatch(q)'
    BY <1>21 DEF Matches, HeldMatch, Consistent, HoldsBlob, Goto, PurgeFind
  <2>4. ASSUME NEW q \in Procs PROVE PutPending(q)'
    BY <1>21 DEF PutPending, Consistent, BeforePut, Goto, PurgeFind
  <2>5. UuidsDistinct'
    BY <1>21 DEF UuidsDistinct, Consistent, BeforePut, Goto, PurgeFind
  <2>6. QED
    BY <2>1, <2>2, <2>3, <2>4, <2>5 DEF Consistent
<1>22. ASSUME NEW w \in Workers, PurgeNext(w) PROVE Consistent'
  <2>1. FilesMatch' /\ RowsMatch' /\ SingleCopy'
    BY <1>22, StoreKept DEF PurgeNext
  <2>2. ListsMatch'
    BY <1>22 DEF ListsMatch, Matches, Consistent, PurgeNext
  <2>3. ASSUME NEW q \in Procs PROVE HeldMatch(q)'
    BY <1>22 DEF ListsMatch, Matches, HeldMatch, Consistent, TypeOK, Goto, PurgeNext
  <2>4. ASSUME NEW q \in Procs PROVE PutPending(q)'
    BY <1>22 DEF PutPending, Consistent, BeforePut, Goto, PurgeNext
  <2>5. UuidsDistinct'
    BY <1>22 DEF UuidsDistinct, Consistent, BeforePut, Goto, PurgeNext
  <2>6. QED
    BY <2>1, <2>2, <2>3, <2>4, <2>5 DEF Consistent
<1>23. ASSUME NEW w \in Workers, PurgeDone(w) PROVE Consistent'
  <2>1. FilesMatch' /\ RowsMatch' /\ SingleCopy'
    BY <1>23, StoreKept DEF PurgeDone
  <2>2. ListsMatch'
    BY <1>23, ListsKept DEF PurgeDone
  <2>3. ASSUME NEW q \in Procs PROVE HeldMatch(q)'
    BY <1>23 DEF Matches, HeldMatch, Consistent, HoldsBlob, Goto, PurgeDone
  <2>4. ASSUME NEW q \in Procs PROVE PutPending(q)'
    BY <1>23 DEF PutPending, Consistent, BeforePut, Goto, PurgeDone
  <2>5. UuidsDistinct'
    BY <1>23 DEF UuidsDistinct, Consistent, BeforePut, Goto, PurgeDone
  <2>6. QED
    BY <2>1, <2>2, <2>3, <2>4, <2>5 DEF Consistent
<1>24. ASSUME Crash PROVE Consistent'
  <2>1. FilesMatch' /\ RowsMatch' /\ SingleCopy'
    BY <1>24 DEF Crash, Consistent, FilesMatch, RowsMatch, Matches, LiveIds, SingleCopy
  <2>2. ListsMatch'
    BY <1>24 DEF Crash, ListsMatch
  <2>3. ASSUME NEW q \in Procs PROVE HeldMatch(q)' /\ PutPending(q)'
    BY <1>24 DEF Crash, HeldMatch, PutPending, BeforePut, HoldsBlob
  <2>4. UuidsDistinct'
    BY <1>24 DEF Crash, UuidsDistinct, BeforePut
  <2>5. QED
    BY <2>1, <2>2, <2>3, <2>4 DEF Consistent
<1>25. ASSUME Tick \/ UNCHANGED vars PROVE Consistent'
  <2>1. UNCHANGED <<rows, files, written, pc, target, blob, seen, expired>>
    BY <1>25 DEF Tick, vars
  <2>2. FilesMatch' /\ RowsMatch' /\ ListsMatch' /\ SingleCopy'
    BY <2>1
       DEF Consistent, FilesMatch, RowsMatch, ListsMatch, Matches, LiveIds,
           SingleCopy
  <2>3. ASSUME NEW q \in Procs PROVE HeldMatch(q)' /\ PutPending(q)'
    BY <2>1 DEF Consistent, HeldMatch, Matches, PutPending, BeforePut
  <2>4. UuidsDistinct'
    BY <2>1 DEF Consistent, UuidsDistinct, BeforePut
  <2>5. QED
    BY <2>2, <2>3, <2>4 DEF Consistent
<1> HIDE DEF locals
<1>26. QED
  BY <1>1, <1>2, <1>3, <1>4, <1>5, <1>6, <1>7, <1>8, <1>9, <1>10, <1>11, <1>12,
     <1>13, <1>14, <1>15, <1>16, <1>17, <1>18, <1>19, <1>20, <1>21, <1>22, <1>23,
     <1>24, <1>25
     DEF Next, Request, UploadStep, EditStep, OpenStep, RemoveStep, PurgeStep

(* The agreement holds when the server starts. *)
LEMMA InitConsistent == Init => Consistent
<1> SUFFICES ASSUME Init PROVE Consistent
  OBVIOUS
<1>1. PICK owner \in [Stored -> Stored], bucketOf \in [Stored -> Buckets],
           hashOf \in [Stored -> Contents], expOf \in [Stored -> Dates \cup {None}] :
        Populated(owner, bucketOf, hashOf, expOf)
  BY DEF Init
<1>2. FilesMatch
  BY <1>1 DEF FilesMatch, Populated, Paths
<1>3. RowsMatch
  <2>1. ASSUME NEW i \in LiveIds PROVE Matches(i, rows[i])
    <3>1. i \in Stored
      BY <1>1 DEF LiveIds, Populated
    <3>2. /\ rows[i].hash = hashOf[i]
          /\ rows[i].path.key = owner[i]
          /\ written[i] = hashOf[i]
      BY <1>1, <3>1, StoredAssumption DEF Populated, OwnPath
    <3>3. owner[i] \in Stored /\ written[owner[i]] = hashOf[owner[i]]
      BY <1>1, <3>1, StoredAssumption DEF Populated
    <3>4. hashOf[owner[i]] = hashOf[i]
      BY <1>1, <3>1 DEF Populated
    <3>5. QED
      BY <3>2, <3>3, <3>4 DEF Matches
  <2>2. QED
    BY <2>1 DEF RowsMatch
<1>4. SingleCopy
  BY <1>1 DEF SingleCopy, Populated, Paths
<1>5. ListsMatch
  BY DEF Init, ListsMatch
<1>6. ASSUME NEW p \in Procs PROVE HeldMatch(p) /\ ~BeforePut(p)
  BY DEF Init, HeldMatch, BeforePut, HoldsBlob
<1>7. QED
  BY <1>2, <1>3, <1>4, <1>5, <1>6 DEF Consistent, PutPending, UuidsDistinct

-----------------------------------------------------------------------------
(* The theorems. *)

(* Every reachable state has its types, and no call is made without the row *)
(* that it needs, whatever fails and whenever the server stops.             *)
THEOREM TypeCorrect == Spec => []TypeOK
<1>1. Init => TypeOK
  BY InitType
<1>2. TypeOK /\ [Next]_vars => TypeOK'
  BY NextType
<1>3. QED
  BY <1>1, <1>2, PTL DEF Spec

(* The inductive invariant: files, rows, purge lists and rows held in       *)
(* memory agree on the bytes that were uploaded under each uuid.            *)
THEOREM ConsistentAlways == Spec => []Consistent
<1>1. Init => Consistent
  BY InitConsistent
<1>2. TypeOK /\ TypeOK' /\ Consistent /\ [Next]_vars => Consistent'
  BY NextConsistent
<1>3. QED
  BY <1>1, <1>2, TypeCorrect, PTL DEF Spec

(* A row never names a torn file or a file with other bytes: for any number *)
(* of buckets, blobs, requests, purge tasks, failed calls and crashes.      *)
THEOREM IntegrityHolds == Spec => []ContentIntegrity
<1>1. TypeOK /\ Consistent => ContentIntegrity
  BY DEF TypeOK, Consistent, FilesMatch, RowsMatch, Matches, LiveIds, Row,
         ContentIntegrity
<1>2. QED
  BY <1>1, TypeCorrect, ConsistentAlways, PTL

(* What a download opens through its second read of the row is what the row *)
(* of its first read described.                                             *)
THEOREM DownloadsMatchTheirRow == Spec => []ServedContent
<1>1. TypeOK /\ Consistent => ServedContent
  <2> SUFFICES ASSUME TypeOK, Consistent, NEW h \in Handlers, pc[h] = "open"
               PROVE  files[blob[h].path] \in {None, seen[h].hash}
    BY DEF ServedContent
  <2>1. h \in Procs
    BY DEF Procs
  <2>2. blob[h].path \in Paths
    BY <2>1 DEF TypeOK, ControlOK, HoldsBlob, Row
  <2>3. files[blob[h].path] \in {None, written[blob[h].path.key]}
    BY <2>2 DEF Consistent, FilesMatch
  <2>4. Matches(target[h], blob[h]) /\ written[target[h]] = seen[h].hash
    BY <2>1 DEF Consistent, HeldMatch, HoldsBlob
  <2>5. QED
    BY <2>3, <2>4 DEF Matches
<1>2. QED
  BY <1>1, TypeCorrect, ConsistentAlways, PTL

(* No interleaving of edits leaves the bytes of a blob in two buckets. *)
THEOREM OneBucketPerBlob == Spec => []SingleCopy
<1>1. Consistent => SingleCopy
  BY DEF Consistent
<1>2. QED
  BY <1>1, ConsistentAlways, PTL

(* Whole bytes leave the store only when their own path is removed: by a    *)
(* removal that has counted, or by the upload that made the copy.           *)
THEOREM BytesAreKept == Spec => BytesKept
<1> DEFINE Given(key) == \E p \in Procs : /\ pc[p] \in {"unlink", "dropcopy"}
                                          /\ blob[p].path.key = key
           Kept == \A key \in Ids : Held(key) /\ ~Held(key)' => Given(key)
<1>1. TypeOK /\ TypeOK' /\ Consistent /\ [Next]_vars => Kept
  <2> SUFFICES ASSUME TypeOK, TypeOK', Consistent, [Next]_vars,
                      NEW key \in Ids, Held(key), ~Held(key)'
               PROVE  Given(key)
    OBVIOUS
  <2>1. PICK f \in Paths : f.key = key /\ files[f] \in Contents
    BY DEF Held
  <2>2. files'[f] \notin Contents
    BY <2>1 DEF Held
  <2>3. files'[f] # files[f]
    BY <2>1, <2>2
  <2>4. Handlers \subseteq Procs
    BY DEF Procs
  <2>5. ASSUME NEW h \in Handlers, UploadPut(h) PROVE FALSE
    BY <2>1, <2>2, <2>4, <2>5 DEF UploadPut, TypeOK, ControlOK, HoldsBlob, Row
  <2>6. ASSUME NEW h \in Handlers, UploadPutTorn(h) PROVE FALSE
    <3>1. blob[h].path \in Paths /\ blob[h].path.key = target[h]
      BY <2>4, <2>6 DEF UploadPutTorn, TypeOK, ControlOK, HoldsBlob, Row,
                        Consistent, HeldMatch
    <3>2. files[blob[h].path] = None
      BY <2>4, <2>6, <3>1 DEF UploadPutTorn, Consistent, PutPending, BeforePut
    <3>3. f = blob[h].path
      BY <2>1, <2>3, <2>6, <3>1 DEF UploadPutTorn, TypeOK
    <3>4. QED
      BY <2>1, <3>2, <3>3, NoneAssumption
  <2>7. ASSUME NEW h \in Handlers, UploadDropCopy(h) PROVE Given(key)
    <3>1. f = blob[h].path
      BY <2>1, <2>3, <2>4, <2>7 DEF UploadDropCopy, TypeOK
    <3>2. QED
      BY <2>1, <2>4, <2>7, <3>1 DEF UploadDropCopy
  <2>8. ASSUME NEW h \in Handlers, EditMove(h) PROVE FALSE
    <3> DEFINE src == EditSource(h)
               dst == blob[h].path
    <3>1. /\ dst \in Paths /\ dst.key = target[h]
          /\ src \in Paths /\ src.key = target[h]
      BY <2>4, <2>8 DEF EditMove, EditSource, OwnPath, Paths, TypeOK, ControlOK,
                        HoldsBlob, HoldsSeen, Row, Consistent, HeldMatch
    <3>2. /\ files[src] # None
          /\ files' = [files EXCEPT ![src] = None, ![dst] = files[src]]
      BY <2>3, <2>8 DEF EditMove, Moved
    <3>3. f = src \/ f = dst
      BY <2>1, <2>3, <3>1, <3>2 DEF TypeOK
    <3>4. f = src
      BY <2>1, <3>1, <3>2, <3>3, NoneAssumption DEF Consistent, SingleCopy
    <3>5. files'[dst] \in Contents /\ dst.key = key
      BY <2>1, <3>1, <3>2, <3>4 DEF TypeOK
    <3>6. QED
      BY <3>1, <3>5 DEF Held
  <2>9. ASSUME NEW p \in Procs, Unlink(p) PROVE Given(key)
    <3>1. f = blob[p].path
      BY <2>1, <2>3, <2>9 DEF Unlink, TypeOK
    <3>2. QED
      BY <2>1, <2>9, <3>1 DEF Unlink
  <2>10. \/ files' = files
         \/ \E h \in Handlers : \/ UploadPut(h) \/ UploadPutTorn(h)
                                \/ UploadDropCopy(h) \/ EditMove(h)
         \/ \E p \in Procs : Unlink(p)
    BY DEF Next, Request, UploadStep, EditStep, OpenStep, RemoveStep, PurgeStep,
           UploadBegin, UploadEnsure, UploadLookup, UploadProbe, UploadCreate,
           EditLoad, EditSave, DeleteLoad, CountSharers, DropRow, PurgeFind,
           PurgeNext, PurgeDone, OpenLoad, OpenReload, OpenFile, BumpCounter,
           CallRefused, Refused, Crash, Tick, vars
  <2>11. QED
    BY <2>3, <2>5, <2>6, <2>7, <2>8, <2>9, <2>10
<1>3. QED
  BY <1>1, TypeCorrect, ConsistentAlways, PTL DEF Spec, BytesKept

-----------------------------------------------------------------------------
(* The refinement of the write-once store. *)

(* What the files F hold under each uuid, and the bytes W of those held. *)
StoredIn(F) ==
    [key \in Ids |->
        LET whole == {v \in Buckets : F[OwnPath(v, key)] \in Contents}
        IN IF whole = {} THEN None ELSE F[OwnPath(CHOOSE v \in whole : TRUE, key)]]
UploadedIn(F, W) ==
    [key \in Ids |-> IF \E f \in Paths : f.key = key /\ F[f] \in Contents THEN W[key] ELSE None]

(* Files that match W hold its bytes or nothing. *)
LEMMA StoredOf ==
  ASSUME NEW F, NEW W, \A f \in Paths : F[f] \in {None, W[f.key]}
  PROVE  StoredIn(F) = UploadedIn(F, W)
<1> DEFINE whole(key) == {v \in Buckets : F[OwnPath(v, key)] \in Contents}
           value(key) == IF whole(key) = {} THEN None
                         ELSE F[OwnPath(CHOOSE v \in whole(key) : TRUE, key)]
           held(key) == \E f \in Paths : f.key = key /\ F[f] \in Contents
<1>1. ASSUME NEW key \in Ids PROVE value(key) = IF held(key) THEN W[key] ELSE None
  <2>1. \A v \in Buckets : OwnPath(v, key) \in Paths /\ OwnPath(v, key).key = key
    BY DEF OwnPath, Paths
  <2>2. \A f \in Paths : f.key = key => f.bucket \in Buckets /\ f = OwnPath(f.bucket, key)
    BY DEF OwnPath, Paths
  <2>3. held(key) <=> whole(key) # {}
    BY <2>1, <2>2
  <2>4. CASE whole(key) = {}
    BY <2>3, <2>4
  <2>5. CASE whole(key) # {}
    <3> DEFINE v == CHOOSE v \in whole(key) : TRUE
    <3>1. v \in whole(key)
      BY <2>5
    <3>2. OwnPath(v, key) \in Paths /\ OwnPath(v, key).key = key /\ F[OwnPath(v, key)] \in Contents
      BY <2>1, <3>1
    <3>3. F[OwnPath(v, key)] = W[key]
      BY <3>2, NoneAssumption
    <3> HIDE DEF v
    <3>4. value(key) = F[OwnPath(v, key)]
      BY <2>5 DEF v
    <3>5. QED
      BY <2>3, <2>5, <3>3, <3>4
  <2>6. QED
    BY <2>4, <2>5
<1>2. QED
  BY <1>1 DEF StoredIn, UploadedIn

(* Under a uuid that has a whole file are the bytes uploaded under it. *)
Uploaded == [key \in Ids |-> IF Held(key) THEN written[key] ELSE None]
LEMMA StoredIsUploaded ==
  /\ FilesMatch => StoredBytes = Uploaded
  /\ FilesMatch' => StoredBytes' = Uploaded'
<1>1. /\ StoredBytes = StoredIn(files) /\ StoredBytes' = StoredIn(files')
      /\ Uploaded = UploadedIn(files, written) /\ Uploaded' = UploadedIn(files', written')
  BY DEF StoredBytes, StoredIn, Uploaded, UploadedIn, Held
<1>2. FilesMatch => StoredIn(files) = UploadedIn(files, written)
  BY StoredOf DEF FilesMatch
<1>3. FilesMatch' => StoredIn(files') = UploadedIn(files', written')
  BY StoredOf DEF FilesMatch
<1>4. QED
  BY <1>1, <1>2, <1>3

(* Nothing is stored under a uuid whose Put has not returned. *)
LEMMA HeldIsSpent ==
  ASSUME TypeOK, FilesMatch
  PROVE  \A key \in Ids : Held(key) => written[key] \in Contents
BY NoneAssumption DEF TypeOK, FilesMatch, Held

(* What a store of rows and files that have run for a while has stored. *)
LEMMA InitStored == Init => Store!Init
<1> SUFFICES ASSUME Init PROVE Store!Init
  OBVIOUS
<1>1. TypeOK /\ FilesMatch
  BY InitType, InitConsistent DEF Consistent
<1>2. StoredBytes = Uploaded
  BY <1>1, StoredIsUploaded
<1>3. \A key \in Ids : Uploaded[key] # None => written[key] \in Contents /\ Uploaded[key] = written[key]
  BY <1>1, HeldIsSpent DEF Uploaded
<1>4. Uploaded \in [Ids -> Contents \cup {None}]
  BY <1>3 DEF Uploaded
<1>5. QED
  BY <1>2, <1>3, <1>4 DEF Store!Init, Spent

(* A step that leaves whole files under the same uuids, and the same bytes   *)
(* uploaded under them, stores and removes nothing.                          *)
LEMMA SameStored ==
  ASSUME FilesMatch, FilesMatch', Spent' = Spent,
         \A key \in Ids : (Held(key)' <=> Held(key)) /\ (Held(key) => written'[key] = written[key])
  PROVE  UNCHANGED Store!vars
<1>1. Uploaded' = Uploaded
  BY DEF Uploaded
<1>2. QED
  BY <1>1, StoredIsUploaded DEF Store!vars

(* A step that clears one path removes what was stored under its uuid. *)
LEMMA ClearedPath ==
  ASSUME TypeOK, FilesMatch, FilesMatch', written' = written, NEW f \in Paths,
         files' = [files EXCEPT ![f] = None]
  PROVE  [Store!Next]_Store!vars
<1>1. Spent' = Spent
  BY DEF Spent
<1>2. f.key \in Ids /\ \A g \in Paths : g # f => files'[g] = files[g]
  BY DEF Paths, TypeOK
<1>3. files'[f] \notin Contents
  BY NoneAssumption DEF TypeOK
<1>4. \A key \in Ids : /\ Held(key)' => Held(key)
                       /\ key # f.key => (Held(key) => Held(key)')
  BY <1>2, <1>3 DEF Held
<1>5. CASE Held(f.key) => Held(f.key)'
  <2>1. \A key \in Ids : (Held(key)' <=> Held(key))
    BY <1>4, <1>5 DEF Held
  <2>2. QED
    BY <1>1, <2>1, SameStored
<1>6. CASE ~(Held(f.key) => Held(f.key)')
  <2>1. Uploaded' = [Uploaded EXCEPT ![f.key] = None]
    <3>1. \A key \in Ids : Uploaded'[key] = IF key = f.key THEN None ELSE Uploaded[key]
      BY <1>4, <1>6 DEF Uploaded
    <3>2. QED
      BY <3>1 DEF Uploaded
  <2>2. StoredBytes' = [StoredBytes EXCEPT ![f.key] = None]
    BY <2>1, StoredIsUploaded
  <2>3. QED
    BY <1>1, <1>2, <2>2 DEF Store!Next, Store!Remove
<1>7. QED
  BY <1>5, <1>6

(* Put stores the bytes of its uuid, under which there were none. *)
LEMMA PutStores ==
  ASSUME TypeOK, Consistent, Consistent', NEW h \in Handlers, UploadPut(h)
  PROVE  Store!Next
<1> DEFINE path == blob[h].path
<1>1. h \in Procs /\ target[h] \in Ids
  BY DEF Procs, UploadPut, TypeOK, ControlOK
<1> PICK id \in Ids : id = target[h]
  BY <1>1
<1>2. /\ pc[h] = "put" /\ blob[h] \in Row /\ path \in Paths /\ path.key = id
      /\ blob[h].hash \in Contents
  BY <1>1 DEF UploadPut, TypeOK, ControlOK, HoldsBlob, Row, Consistent, HeldMatch
<1>3. files' = [files EXCEPT ![path] = blob[h].hash]
      /\ written' = [written EXCEPT ![id] = blob[h].hash]
  BY DEF UploadPut
<1>4. written[id] = Torn /\ ~Held(id)
  BY <1>1, <1>2, NoneAssumption DEF Consistent, PutPending, BeforePut, Held
<1>5. id \notin Spent /\ Spent' = Spent \cup {id}
  BY <1>2, <1>3, <1>4, TornAssumption DEF Spent, TypeOK
<1>6. Held(id)' /\ \A key \in Ids \ {id} : (Held(key)' <=> Held(key))
  <2>1. files'[path] = blob[h].hash /\ \A g \in Paths : g # path => files'[g] = files[g]
    BY <1>2, <1>3 DEF TypeOK
  <2>2. Held(id)'
    <3>1. path \in Paths /\ path.key = id /\ files'[path] \in Contents
      BY <1>2, <2>1
    <3>2. QED
      BY <3>1 DEF Held
  <2>3. ASSUME NEW key \in Ids \ {id} PROVE (Held(key)' <=> Held(key))
    BY <1>2, <2>1 DEF Held
  <2>4. QED
    BY <2>2, <2>3
<1>7. Uploaded' = [Uploaded EXCEPT ![id] = blob[h].hash]
  <2>1. written'[id] = blob[h].hash /\ \A key \in Ids \ {id} : written'[key] = written[key]
    BY <1>2, <1>3 DEF TypeOK
  <2>2. \A key \in Ids : Uploaded'[key] = IF key = id THEN blob[h].hash ELSE Uploaded[key]
    <3>1. Uploaded'[id] = blob[h].hash
      BY <1>2, <1>6, <2>1 DEF Uploaded
    <3>2. ASSUME NEW key \in Ids \ {id} PROVE Uploaded'[key] = Uploaded[key]
      BY <1>6, <2>1 DEF Uploaded
    <3>3. QED
      BY <3>1, <3>2
  <2>3. QED
    BY <1>2, <2>2 DEF Uploaded
<1>8. StoredBytes' = [StoredBytes EXCEPT ![id] = blob[h].hash]
  BY <1>7, StoredIsUploaded DEF Consistent
<1>9. Store!Store(id, blob[h].hash)
  BY <1>5, <1>8 DEF Store!Store
<1>10. QED
  BY <1>2, <1>9 DEF Store!Next

(* Moving a file between buckets leaves what is stored. *)
LEMMA MoveStoresNothing ==
  ASSUME TypeOK, Consistent, Consistent', NEW h \in Handlers, EditMove(h)
  PROVE  UNCHANGED Store!vars
<1> DEFINE src == EditSource(h)
           dst == blob[h].path
<1>1. h \in Procs
  BY DEF Procs
<1>2. Spent' = Spent /\ written' = written
  BY DEF EditMove, Spent
<1>3. CASE files[src] = None
  <2>1. files' = files
    BY <1>3 DEF EditMove
  <2>2. QED
    BY <1>2, <2>1, SameStored DEF Consistent, Held
<1>4. CASE files[src] # None
  <2>1. /\ dst \in Paths /\ dst.key = target[h]
        /\ src \in Paths /\ src.key = target[h]
    BY <1>1 DEF EditMove, EditSource, OwnPath, Paths, TypeOK, ControlOK, HoldsBlob, HoldsSeen,
                Row, Consistent, HeldMatch
  <2>2. files' = [files EXCEPT ![src] = None, ![dst] = files[src]]
    BY <1>4 DEF EditMove, Moved
  <2>3. files'[dst] = files[src]
    BY <2>1, <2>2 DEF TypeOK
  <2>4. /\ src # dst => files'[src] = None
        /\ \A g \in Paths \ {src, dst} : files'[g] = files[g]
    BY <2>1, <2>2 DEF TypeOK
  <2>5. \A g \in Paths \ {src} : g.key = target[h] => files[g] = None
    BY <1>4, <2>1 DEF Consistent, SingleCopy
  <2> PICK id \in Ids : id = target[h]
    BY <1>1 DEF EditMove, TypeOK, ControlOK
  <2>6. \A key \in Ids : (Held(key)' <=> Held(key))
    <3>1. ASSUME NEW key \in Ids \ {id} PROVE (Held(key)' <=> Held(key))
      BY <2>1, <2>4 DEF Held
    <3>2. Held(id) <=> files[src] \in Contents
      BY <2>1, <2>5, NoneAssumption DEF Held
    <3>3. Held(id)' <=> files'[dst] \in Contents
      <4>1. \A g \in Paths \ {dst} : g.key = id => files'[g] = None
        BY <2>1, <2>4, <2>5
      <4>2. \A g \in Paths \ {dst} : g.key = id => files'[g] \notin Contents
        BY <4>1, NoneAssumption
      <4> HIDE DEF dst
      <4>3. QED
        BY <2>1, <4>2 DEF Held
    <3>4. Held(id)' <=> Held(id)
      BY <2>3, <3>2, <3>3
    <3>5. QED
      BY <3>1, <3>4
  <2>7. QED
    BY <1>2, <2>6, SameStored DEF Consistent
<1>5. QED
  BY <1>3, <1>4

(* A Put that fails leaves torn bytes, where there were none. *)
LEMMA TornPutStoresNothing ==
  ASSUME TypeOK, Consistent, Consistent', NEW h \in Handlers, UploadPutTorn(h)
  PROVE  UNCHANGED Store!vars
<1>1. h \in Procs
  BY DEF Procs
<1>2. /\ blob[h].path \in Paths /\ blob[h].path.key = target[h]
      /\ files[blob[h].path] = None
  <2>1. blob[h].path \in Paths /\ blob[h].path.key = target[h]
    BY <1>1 DEF UploadPutTorn, TypeOK, ControlOK, HoldsBlob, Row, Consistent, HeldMatch
  <2>2. QED
    BY <1>1, <2>1 DEF UploadPutTorn, Consistent, PutPending, BeforePut
<1>3. files' = [files EXCEPT ![blob[h].path] = Torn] /\ written' = written
  BY DEF UploadPutTorn
<1>4. /\ files'[blob[h].path] = Torn
      /\ \A g \in Paths : g # blob[h].path => files'[g] = files[g]
  BY <1>2, <1>3 DEF TypeOK
<1>5. \A g \in Paths : files'[g] \in Contents <=> files[g] \in Contents
  BY <1>2, <1>4, NoneAssumption, TornAssumption
<1>6. \A key \in Ids : (Held(key)' <=> Held(key))
  BY <1>5 DEF Held
<1>7. QED
  BY <1>3, <1>6, SameStored DEF Consistent, Spent

(* A uuid that an upload draws has no bytes and gets none. *)
LEMMA DrawStoresNothing ==
  ASSUME TypeOK, Consistent, Consistent', NEW h \in Handlers, UploadBegin(h)
  PROVE  UNCHANGED Store!vars
<1>1. PICK id \in Ids : written[id] = None /\ written' = [written EXCEPT ![id] = Torn]
  BY DEF UploadBegin
<1>2. \A key \in Ids \ {id} : written'[key] = written[key]
  BY <1>1 DEF TypeOK
<1>3. written'[id] = Torn
  BY <1>1 DEF TypeOK
<1>4. Spent' = Spent
  BY <1>1, <1>2, <1>3, NoneAssumption, TornAssumption DEF Spent
<1>5. files' = files
  BY DEF UploadBegin
<1>6. \A key \in Ids : (Held(key)' <=> Held(key))
  BY <1>5 DEF Held
<1>7. ~Held(id)
  BY <1>1, HeldIsSpent, NoneAssumption DEF Consistent
<1>8. \A key \in Ids : Held(key) => written'[key] = written[key]
  BY <1>2, <1>7
<1>9. QED
  BY <1>4, <1>6, <1>8, SameStored DEF Consistent

(* The service implements the write-once store: under each uuid bytes are    *)
(* stored by the Put of its upload and by nothing else, they never change,   *)
(* and once gone they are gone, for any number of requests, purge tasks,     *)
(* failed calls and crashes, with deduplication or without it.               *)
THEOREM ServiceWritesOnce == Spec => WritesOnce
<1>1. TypeOK /\ Consistent /\ Consistent' /\ [Next]_vars => [Store!Next]_Store!vars
  <2> SUFFICES ASSUME TypeOK, Consistent, Consistent', [Next]_vars
               PROVE  [Store!Next]_Store!vars
    OBVIOUS
  <2>1. FilesMatch /\ FilesMatch'
    BY DEF Consistent
  <2>2. ASSUME NEW h \in Handlers, UploadBegin(h) PROVE UNCHANGED Store!vars
    BY <2>2, DrawStoresNothing
  <2>3. ASSUME NEW h \in Handlers, UploadPut(h) PROVE Store!Next
    BY <2>3, PutStores
  <2>4. ASSUME NEW h \in Handlers, UploadPutTorn(h) PROVE UNCHANGED Store!vars
    BY <2>4, TornPutStoresNothing
  <2>5. ASSUME NEW h \in Handlers, UploadDropCopy(h) PROVE [Store!Next]_Store!vars
    <3>1. blob[h].path \in Paths
      BY <2>5 DEF UploadDropCopy, Procs, TypeOK, ControlOK, HoldsBlob, Row
    <3>2. CASE files' = [files EXCEPT ![blob[h].path] = None]
      BY <2>1, <2>5, <3>1, <3>2, ClearedPath DEF UploadDropCopy
    <3>3. CASE files' = files
      BY <2>1, <2>5, <3>3, SameStored DEF UploadDropCopy, Held, Spent
    <3>4. QED
      BY <2>5, <3>2, <3>3 DEF UploadDropCopy
  <2>6. ASSUME NEW h \in Handlers, EditMove(h) PROVE UNCHANGED Store!vars
    BY <2>6, MoveStoresNothing
  <2>7. ASSUME NEW p \in Procs, Unlink(p) PROVE [Store!Next]_Store!vars
    <3>1. blob[p].path \in Paths
      BY <2>7 DEF Unlink, TypeOK, ControlOK, HoldsBlob, Row
    <3>2. QED
      BY <2>1, <2>7, <3>1, ClearedPath DEF Unlink
  <2>8. CASE files' = files /\ written' = written
    BY <2>1, <2>8, SameStored DEF Held, Spent
  <2>9. \/ files' = files /\ written' = written
        \/ \E h \in Handlers : \/ UploadBegin(h) \/ UploadPut(h) \/ UploadPutTorn(h)
                               \/ UploadDropCopy(h) \/ EditMove(h)
        \/ \E p \in Procs : Unlink(p)
    BY DEF Next, Request, UploadStep, EditStep, OpenStep, RemoveStep, PurgeStep,
           UploadEnsure, UploadLookup, UploadProbe, UploadCreate,
           EditLoad, EditSave, DeleteLoad, CountSharers, DropRow, PurgeFind,
           PurgeNext, PurgeDone, OpenLoad, OpenReload, OpenFile, BumpCounter,
           CallRefused, Refused, Crash, Tick, vars
  <2>10. QED
    BY <2>2, <2>3, <2>4, <2>5, <2>6, <2>7, <2>8, <2>9
<1>2. QED
  BY <1>1, InitStored, TypeCorrect, ConsistentAlways, PTL DEF Spec, WritesOnce, Store!Spec

-----------------------------------------------------------------------------
(* The download counter.  What the counter of a row may still be bumped by  *)
(* requests under way is covered by downloads, and so is every copy of a    *)
(* row that an edit will write back.                                        *)
Bumping(i) == {h \in Handlers : pc[h] = "bump" /\ target[h] = i}
Covered(i, row) == row.count + Cardinality(Bumping(i)) <= served[i]

Tallied ==
    /\ \A i \in Ids : Cardinality(Bumping(i)) <= served[i]
    /\ \A i \in LiveIds : Covered(i, rows[i])
    /\ \A h \in Handlers :
         /\ pc[h] \in {"move", "save"} => Covered(target[h], blob[h])
         /\ pc[h] \in {"ensure", "put", "lookup", "probe", "dropcopy", "create"} =>
              blob[h].count = 0

(* Requests that wait to count a download can be counted. *)
LEMMA BumpingFinite ==
  ASSUME NEW i
  PROVE  IsFiniteSet(Bumping(i)) /\ Cardinality(Bumping(i)) \in Nat
<1>1. Bumping(i) \subseteq Handlers
  BY DEF Bumping
<1>2. QED
  BY <1>1, SlotsAssumption, FS_Subset, FS_CardinalityType

(* While no download gets its file, what is covered stays covered. *)
LEMMA StillCovered ==
  ASSUME TypeOK, served' = served,
         \A h \in Handlers : pc'[h] = "bump" => pc[h] = "bump" /\ target'[h] = target[h]
  PROVE  \A i \in Ids : /\ Cardinality(Bumping(i))' \in Nat
                        /\ Cardinality(Bumping(i))' <= Cardinality(Bumping(i))
<1> SUFFICES ASSUME NEW i \in Ids
             PROVE  /\ Cardinality(Bumping(i))' \in Nat
                    /\ Cardinality(Bumping(i))' <= Cardinality(Bumping(i))
  OBVIOUS
<1>1. Bumping(i)' \subseteq Bumping(i)
  BY DEF Bumping
<1>2. QED
  BY <1>1, BumpingFinite, FS_Subset, FS_CardinalityType

(* So rows and copies that come from what was covered are. *)
LEMMA CopiesCovered ==
  ASSUME TypeOK, TypeOK', Tallied, served' = served,
         \A h \in Handlers : pc'[h] = "bump" => pc[h] = "bump" /\ target'[h] = target[h],
         \A i \in Ids : \/ rows'[i] \in {None, rows[i]}
                        \/ rows'[i].count = 0
                        \/ \E h \in Handlers : /\ pc[h] = "save" /\ target[h] = i
                                               /\ rows'[i] = blob[h],
         \A h \in Handlers :
           /\ pc'[h] \in {"move", "save"} =>
                \/ /\ pc[h] \in {"move", "save"}
                   /\ target'[h] = target[h] /\ blob'[h] = blob[h]
                \/ /\ target'[h] \in LiveIds
                   /\ blob'[h].count = rows[target'[h]].count
           /\ pc'[h] \in {"ensure", "put", "lookup", "probe", "dropcopy", "create"} =>
                \/ blob'[h].count = 0
                \/ /\ pc[h] \in {"ensure", "put", "lookup", "probe", "dropcopy", "create"}
                   /\ blob'[h].count = blob[h].count
  PROVE  Tallied'
<1> DEFINE Waiting(i) == Cardinality(Bumping(i))
<1>1. \A i \in Ids : /\ Waiting(i) \in Nat /\ served[i] \in Nat
                     /\ Waiting(i)' \in Nat /\ Waiting(i)' <= Waiting(i)
  BY StillCovered, BumpingFinite DEF TypeOK
<1>2. \A i \in Ids : Waiting(i) <= served[i]
  BY DEF Tallied
<1>3. \A i \in Ids : Waiting(i)' <= served'[i]
  BY <1>1, <1>2
<1>h. Handlers \subseteq Procs
  BY DEF Procs
<1>4. ASSUME NEW i \in LiveIds' PROVE Covered(i, rows[i])'
  <2>1. i \in Ids /\ rows'[i] # None /\ rows'[i].count \in Nat
    BY <1>4 DEF LiveIds, TypeOK, Row
  <2>2. CASE rows'[i] = rows[i]
    <3>1. rows[i].count + Waiting(i) <= served[i]
      BY <2>1, <2>2 DEF Tallied, LiveIds, Covered
    <3>2. QED
      BY <1>1, <2>1, <2>2, <3>1 DEF Covered
  <2>3. CASE rows'[i].count = 0
    BY <1>1, <1>3, <2>1, <2>3 DEF Covered
  <2>4. ASSUME NEW h \in Handlers, pc[h] = "save", target[h] = i, rows'[i] = blob[h]
        PROVE  Covered(i, rows[i])'
    <3>1. blob[h].count + Waiting(i) <= served[i]
      BY <2>4 DEF Tallied, Covered
    <3>2. QED
      BY <1>1, <2>1, <2>4, <3>1 DEF Covered
  <2>5. QED
    BY <2>1, <2>2, <2>3, <2>4
<1>5. ASSUME NEW h \in Handlers, pc'[h] \in {"move", "save"}
      PROVE  Covered(target[h], blob[h])'
  <2>1. target'[h] \in Ids /\ blob'[h].count \in Nat
    BY <1>5, <1>h DEF TypeOK, ControlOK, HoldsBlob, Row
  <2>2. CASE pc[h] \in {"move", "save"} /\ target'[h] = target[h] /\ blob'[h] = blob[h]
    <3>1. blob[h].count + Waiting(target[h]) <= served[target[h]]
      BY <2>2 DEF Tallied, Covered
    <3>2. Waiting(target[h])' <= Waiting(target[h])
      BY <1>1, <2>1, <2>2
    <3>3. blob'[h].count + Waiting(target[h])' <= served'[target[h]]
      BY <1>1, <2>1, <2>2, <3>1, <3>2
    <3>4. QED
      BY <2>2, <3>3 DEF Covered, Bumping
  <2>3. CASE target'[h] \in LiveIds /\ blob'[h].count = rows[target'[h]].count
    <3>1. PICK i \in LiveIds : target'[h] = i
      BY <2>3
    <3>2. rows[i].count + Waiting(i) <= served[i]
      BY DEF Tallied, Covered
    <3>3. i \in Ids
      BY DEF LiveIds
    <3>4. blob'[h].count + Waiting(i)' <= served'[i]
      BY <1>1, <2>1, <2>3, <3>1, <3>2, <3>3
    <3>5. QED
      BY <3>1, <3>4 DEF Covered, Bumping
  <2>4. QED
    BY <1>5, <2>2, <2>3
<1>6. ASSUME NEW h \in Handlers,
             pc'[h] \in {"ensure", "put", "lookup", "probe", "dropcopy", "create"}
      PROVE  blob'[h].count = 0
  BY <1>6 DEF Tallied
<1>7. QED
  BY <1>3, <1>4, <1>5, <1>6 DEF Tallied

(* A step of one process that writes no row, and keeps the count of the one *)
(* that it holds.                                                           *)
LEMMA StepCovered ==
  ASSUME TypeOK, TypeOK', Tallied, served' = served, rows' = rows,
         NEW p \in Procs, NEW step,
         pc' = [pc EXCEPT ![p] = step], step # "bump",
         \A q \in Procs : q # p => target'[q] = target[q] /\ blob'[q] = blob[q],
         step \in {"move", "save"} =>
           pc[p] \in {"move", "save"} /\ target'[p] = target[p] /\ blob'[p] = blob[p],
         step \in {"ensure", "put", "lookup", "probe", "dropcopy", "create"} =>
           /\ pc[p] \in {"ensure", "put", "lookup", "probe", "dropcopy", "create"}
           /\ blob'[p].count = blob[p].count
  PROVE  Tallied'
<1>h. Handlers \subseteq Procs
  BY DEF Procs
<1>1. pc'[p] = step /\ \A q \in Procs : q # p => pc'[q] = pc[q]
  BY DEF TypeOK
<1>2. \A h \in Handlers : pc'[h] = "bump" => pc[h] = "bump" /\ target'[h] = target[h]
  BY <1>h, <1>1
<1>3. ASSUME NEW h \in Handlers, pc'[h] \in {"move", "save"}
      PROVE  pc[h] \in {"move", "save"} /\ target'[h] = target[h] /\ blob'[h] = blob[h]
  BY <1>h, <1>1, <1>3
<1>4. ASSUME NEW h \in Handlers,
             pc'[h] \in {"ensure", "put", "lookup", "probe", "dropcopy", "create"}
      PROVE  /\ pc[h] \in {"ensure", "put", "lookup", "probe", "dropcopy", "create"}
             /\ blob'[h].count = blob[h].count
  BY <1>h, <1>1, <1>4
<1>5. QED
  BY <1>2, <1>3, <1>4, CopiesCovered

(* Every step keeps the counters covered. *)
LEMMA NextTallied ==
  TypeOK /\ TypeOK' /\ Tallied /\ [Next]_vars => Tallied'
<1> SUFFICES ASSUME TypeOK, TypeOK', Tallied, [Next]_vars PROVE Tallied'
  OBVIOUS
<1> USE DEF locals
<1>b. Handlers \subseteq Procs /\ Workers \subseteq Procs
  BY DEF Procs
<1>1. ASSUME NEW h \in Handlers, UploadBegin(h) PROVE Tallied'
  <2>1. blob'[h].count = 0
    BY <1>1, <1>b DEF UploadBegin, NewBlob, TypeOK
  <2>2. QED
    BY <1>1, <2>1, CopiesCovered DEF UploadBegin, Goto, TypeOK
<1>2. ASSUME NEW h \in Handlers, UploadEnsure(h) PROVE Tallied'
  <2>1. CASE EnsureBucketAccepts(blob[h].bucket)
    BY <1>2, <1>b, <2>1, StepCovered DEF UploadEnsure, Goto, Finish, TypeOK
  <2>2. CASE ~(EnsureBucketAccepts(blob[h].bucket))
    <3>1. /\ pc' = [pc EXCEPT ![h] = "idle"] /\ UNCHANGED <<rows, served>>
          /\ \A q \in Procs : q # h => target'[q] = target[q] /\ blob'[q] = blob[q]
      BY <1>2, <1>b, <2>2, SlotsAssumption DEF UploadEnsure, Goto, Finish, TypeOK
    <3>2. QED
      BY <1>b, <3>1, StepCovered
  <2>3. QED
    BY <2>1, <2>2
<1>3. ASSUME NEW h \in Handlers, UploadPut(h) PROVE Tallied'
  BY <1>3, CopiesCovered DEF UploadPut, Goto, TypeOK
<1>4. ASSUME NEW h \in Handlers, UploadPutTorn(h) PROVE Tallied'
  BY <1>4, CopiesCovered DEF UploadPutTorn, Goto, Finish, TypeOK
<1>5. ASSUME NEW h \in Handlers, UploadLookup(h) PROVE Tallied'
  <2>1. /\ pc[h] = "lookup" /\ UNCHANGED <<rows, served, target, blob>>
        /\ Goto(h, "probe") \/ Goto(h, "create")
    BY <1>5 DEF UploadLookup
  <2>2. QED
    BY <2>1, <1>b, StepCovered DEF Goto
<1>6. ASSUME NEW h \in Handlers, UploadProbe(h) PROVE Tallied'
  <2>1. /\ pc[h] = "probe" /\ UNCHANGED <<rows, served, target, blob>>
        /\ Goto(h, "dropcopy") \/ Goto(h, "create")
    BY <1>6 DEF UploadProbe
  <2>2. QED
    BY <2>1, <1>b, StepCovered DEF Goto
<1>7. ASSUME NEW h \in Handlers, UploadDropCopy(h) PROVE Tallied'
  <2>1. blob'[h].count = blob[h].count
    BY <1>7, <1>b DEF UploadDropCopy, TypeOK, ControlOK, HoldsBlob, Row
  <2>2. QED
    BY <1>7, <2>1, CopiesCovered DEF UploadDropCopy, Goto, TypeOK
<1>8. ASSUME NEW h \in Handlers, UploadCreate(h) PROVE Tallied'
  <2>1. rows'[target[h]].count = 0
    BY <1>8, <1>b DEF UploadCreate, TypeOK, ControlOK, HoldsBlob, Row, Tallied
  <2>2. QED
    BY <1>8, <2>1, CopiesCovered DEF UploadCreate, Goto, Finish, TypeOK
<1>9. ASSUME NEW h \in Handlers, EditLoad(h) PROVE Tallied'
  <2>1. target'[h] \in LiveIds /\ blob'[h].count = rows[target'[h]].count
    BY <1>9, <1>b DEF EditLoad, Edited, TypeOK, LiveIds, Row
  <2>2. QED
    BY <1>9, <2>1, CopiesCovered DEF EditLoad, Goto, TypeOK
<1>10. ASSUME NEW h \in Handlers, EditMove(h) PROVE Tallied'
  <2>1. CASE files[EditSource(h)] # None
    BY <1>10, <1>b, <2>1, StepCovered DEF EditMove, Goto, Finish, TypeOK
  <2>2. CASE ~(files[EditSource(h)] # None)
    BY <1>10, <1>b, <2>2, StepCovered DEF EditMove, Goto, Finish, TypeOK
  <2>3. QED
    BY <2>1, <2>2
<1>11. ASSUME NEW h \in Handlers, EditSave(h) PROVE Tallied'
  BY <1>11, CopiesCovered DEF EditSave, Goto, Finish, TypeOK
<1>12. ASSUME NEW h \in Handlers, DeleteLoad(h) PROVE Tallied'
  BY <1>12, CopiesCovered DEF DeleteLoad, Goto, TypeOK
<1>13. ASSUME NEW p \in Procs, RemoveStep(p) PROVE Tallied'
  <2>1. CASE CountSharers(p)
    BY <2>1, CopiesCovered DEF CountSharers, Goto, TypeOK
  <2>2. CASE Unlink(p)
    BY <2>2, CopiesCovered DEF Unlink, Goto, TypeOK
  <2>3. CASE DropRow(p)
    BY <2>3, CopiesCovered DEF DropRow, Finish, Goto, TypeOK
  <2>4. QED
    BY <1>13, <2>1, <2>2, <2>3 DEF RemoveStep
<1>14. ASSUME NEW w \in Workers, PurgeStep(w) PROVE Tallied'
  <2>1. w \in Procs /\ w \notin Handlers
    BY <1>b, SlotsAssumption
  <2>2. CASE PurgeFind(w)
    BY <2>1, <2>2, CopiesCovered DEF PurgeFind, Goto, TypeOK
  <2>3. CASE PurgeNext(w)
    BY <2>1, <2>3, CopiesCovered DEF PurgeNext, Goto, TypeOK
  <2>4. CASE PurgeDone(w)
    BY <2>1, <2>4, CopiesCovered DEF PurgeDone, Goto, TypeOK
  <2>5. QED
    BY <1>14, <2>2, <2>3, <2>4 DEF PurgeStep
<1>15. ASSUME NEW h \in Handlers, OpenLoad(h) PROVE Tallied'
  BY <1>15, CopiesCovered DEF OpenLoad, Goto, TypeOK
<1>16. ASSUME NEW h \in Handlers, OpenReload(h) PROVE Tallied'
  <2>1. CASE rows[target[h]] # None
    BY <1>16, <1>b, <2>1, StepCovered DEF OpenReload, Goto, Finish, TypeOK
  <2>2. CASE ~(rows[target[h]] # None)
    BY <1>16, <1>b, <2>2, StepCovered DEF OpenReload, Goto, Finish, TypeOK
  <2>3. QED
    BY <2>1, <2>2
<1>17. ASSUME NEW h \in Handlers, OpenFile(h) PROVE Tallied'
  <2>1. CASE Finish(h) /\ UNCHANGED served
    BY <1>17, <2>1, CopiesCovered DEF OpenFile, Goto, Finish, TypeOK
  <2>2. CASE ~(Finish(h) /\ UNCHANGED served)
    <3> DEFINE i0 == target[h]
               Waiting(i) == Cardinality(Bumping(i))
    <3>1. /\ pc[h] = "open" /\ i0 \in Ids
          /\ served' = [served EXCEPT ![i0] = @ + 1]
          /\ pc' = [pc EXCEPT ![h] = "bump"]
          /\ UNCHANGED <<rows, target, blob>>
      BY <1>17, <1>b, <2>2 DEF OpenFile, Goto, TypeOK, ControlOK
    <3>2. \A i \in Ids : Bumping(i)' = IF i = i0 THEN Bumping(i) \cup {h} ELSE Bumping(i)
      BY <3>1, <1>b DEF Bumping, TypeOK
    <3>3. ASSUME NEW i \in Ids
          PROVE  /\ Waiting(i) \in Nat /\ served[i] \in Nat
                 /\ Waiting(i)' \in Nat
                 /\ Waiting(i)' - Waiting(i) <= served'[i] - served[i]
      <4>1. h \notin Bumping(i)
        BY <3>1 DEF Bumping
      <4>2. Waiting(i)' = IF i = i0 THEN Waiting(i) + 1 ELSE Waiting(i)
        BY <3>2, <4>1, BumpingFinite, FS_AddElement
      <4>3. QED
        BY <3>1, <4>2, BumpingFinite DEF TypeOK
    <3>4. ASSUME NEW i \in Ids, NEW n \in Nat, n + Waiting(i) <= served[i]
          PROVE  n + Waiting(i)' <= served'[i]
      <4>1. served'[i] \in Nat
        BY <3>1 DEF TypeOK
      <4>2. QED
        BY <3>3, <3>4, <4>1
    <3>5. \A i \in Ids : Waiting(i)' <= served'[i]
      <4> SUFFICES ASSUME NEW i \in Ids PROVE Waiting(i)' <= served'[i]
        OBVIOUS
      <4>1. 0 + Waiting(i) <= served[i]
        BY <3>3 DEF Tallied
      <4>2. 0 + Waiting(i)' <= served'[i]
        BY <3>4, <4>1
      <4>3. QED
        BY <3>3, <4>2
    <3>6. ASSUME NEW i \in LiveIds' PROVE Covered(i, rows[i])'
      <4>1. i \in Ids /\ i \in LiveIds /\ rows[i].count \in Nat /\ rows' = rows
        BY <3>1 DEF LiveIds, TypeOK, Row
      <4>2. rows[i].count + Waiting(i) <= served[i]
        BY <4>1 DEF Tallied, Covered
      <4>3. QED
        BY <3>4, <4>1, <4>2 DEF Covered
    <3>7. ASSUME NEW g \in Handlers, pc'[g] \in {"move", "save"}
          PROVE  Covered(target[g], blob[g])'
      <4>1. PICK i \in Ids : i = target[g]
        BY <3>1, <3>7, <1>b DEF TypeOK, ControlOK
      <4>2. blob[g].count \in Nat /\ pc[g] \in {"move", "save"}
        BY <3>1, <3>7, <1>b DEF TypeOK, ControlOK, HoldsBlob, Row
      <4>3. blob[g].count + Waiting(i) <= served[i]
        BY <4>1, <4>2 DEF Tallied, Covered
      <4>4. QED
        BY <3>1, <3>4, <4>1, <4>2, <4>3 DEF Covered, Bumping
    <3>8. ASSUME NEW g \in Handlers,
                 pc'[g] \in {"ensure", "put", "lookup", "probe", "dropcopy", "create"}
          PROVE  blob'[g].count = 0
      BY <3>1, <3>8, <1>b DEF TypeOK, Tallied
    <3>9. QED
      BY <3>5, <3>6, <3>7, <3>8 DEF Tallied
  <2>3. QED
    BY <2>1, <2>2
<1>18. ASSUME NEW h \in Handlers, BumpCounter(h) PROVE Tallied'
  <2>1. CASE UNCHANGED rows
    BY <1>18, <2>1, CopiesCovered DEF BumpCounter, Goto, Finish, TypeOK
  <2>2. CASE ~UNCHANGED rows
    <3> DEFINE i0 == target[h]
               Waiting(i) == Cardinality(Bumping(i))
    <3>1. /\ pc[h] = "bump" /\ i0 \in Ids /\ rows[i0] # None /\ served' = served
          /\ rows' = [rows EXCEPT ![i0] = Counted(rows[i0])]
          /\ pc' = [pc EXCEPT ![h] = "idle"]
          /\ target' = [target EXCEPT ![h] = None]
          /\ blob' = [blob EXCEPT ![h] = None]
      BY <1>18, <1>b, <2>2, SlotsAssumption DEF BumpCounter, Finish, Goto, TypeOK, ControlOK
    <3>2. \A i \in Ids : Bumping(i)' = IF i = i0 THEN Bumping(i) \ {h} ELSE Bumping(i)
      BY <3>1, <1>b DEF Bumping, TypeOK
    <3>3. ASSUME NEW i \in Ids
          PROVE  /\ Waiting(i) \in Nat /\ served[i] \in Nat /\ Waiting(i)' \in Nat
                 /\ Waiting(i)' = IF i = i0 THEN Waiting(i) - 1 ELSE Waiting(i)
      <4>1. h \in Bumping(i0)
        BY <3>1 DEF Bumping
      <4>2. Waiting(i)' = IF i = i0 THEN Cardinality(Bumping(i) \ {h}) ELSE Waiting(i)
        BY <3>2
      <4>3. Cardinality(Bumping(i0) \ {h}) = Waiting(i0) - 1
        BY <4>1, BumpingFinite, FS_RemoveElement
      <4>4. Waiting(i0) >= 1
        BY <4>1, BumpingFinite, FS_EmptySet
      <4>5. served[i] \in Nat
        BY DEF TypeOK
      <4>6. CASE i = i0
        BY <4>2, <4>3, <4>4, <4>5, <4>6, BumpingFinite
      <4>7. CASE i # i0
        BY <4>2, <4>5, <4>7, BumpingFinite
      <4>8. QED
        BY <4>6, <4>7
    <3>4. ASSUME NEW i \in Ids PROVE Waiting(i)' <= served'[i]
      BY <3>1, <3>3 DEF Tallied
    <3>5. ASSUME NEW i \in LiveIds' PROVE Covered(i, rows[i])'
      <4>1. i \in Ids /\ i \in LiveIds /\ rows[i].count \in Nat
        BY <3>1 DEF LiveIds, TypeOK, Row
      <4>2. rows[i].count + Waiting(i) <= served[i]
        BY <4>1 DEF Tallied, Covered
      <4>3. rows'[i].count = IF i = i0 THEN rows[i].count + 1 ELSE rows[i].count
        BY <3>1, <4>1 DEF TypeOK, Counted, Row
      <4>4. rows'[i].count + Waiting(i)' <= served'[i]
        BY <3>1, <3>3, <4>1, <4>2, <4>3
      <4>5. QED
        BY <4>4 DEF Covered
    <3>6. ASSUME NEW g \in Handlers, pc'[g] \in {"move", "save"}
          PROVE  Covered(target[g], blob[g])'
      <4>0. g # h
        BY <3>1, <3>6, <1>b DEF TypeOK
      <4>1. pc[g] \in {"move", "save"} /\ target'[g] = target[g] /\ blob'[g] = blob[g]
        BY <3>1, <3>6, <4>0, <1>b DEF TypeOK
      <4>2. PICK i \in Ids : i = target[g]
        BY <4>1, <1>b DEF TypeOK, ControlOK
      <4>3. blob[g].count \in Nat
        BY <4>1, <1>b DEF TypeOK, ControlOK, HoldsBlob, Row
      <4>4. blob[g].count + Waiting(i) <= served[i]
        BY <4>1, <4>2 DEF Tallied, Covered
      <4>5. blob[g].count + Waiting(i)' <= served'[i]
        BY <3>1, <3>3, <4>3, <4>4
      <4>6. QED
        BY <4>1, <4>2, <4>5 DEF Covered, Bumping
    <3>7. ASSUME NEW g \in Handlers,
                 pc'[g] \in {"ensure", "put", "lookup", "probe", "dropcopy", "create"}
          PROVE  blob'[g].count = 0
      BY <3>1, <3>7, <1>b DEF TypeOK, Tallied
    <3>8. QED
      BY <3>4, <3>5, <3>6, <3>7 DEF Tallied
  <2>3. QED
    BY <2>1, <2>2
<1>19. ASSUME NEW p \in Procs, CallRefused(p) PROVE Tallied'
  BY <1>19, CopiesCovered DEF CallRefused, Refused, Goto, Finish, TypeOK
<1>20. CASE Crash
  BY <1>20, <1>b, CopiesCovered DEF Crash
<1>21. CASE Tick
  BY <1>21, CopiesCovered DEF Tick
<1>22. CASE UNCHANGED vars
  BY <1>22, CopiesCovered DEF vars
<1>23. QED
  BY <1>1, <1>2, <1>3, <1>4, <1>5, <1>6, <1>7, <1>8, <1>9, <1>10, <1>11, <1>12, <1>13,
     <1>14, <1>15, <1>16, <1>17, <1>18, <1>19, <1>20, <1>21, <1>22
     DEF Next, Request, UploadStep, EditStep, OpenStep

(* The counter of a row never exceeds the downloads that got their file:    *)
(* for any number of concurrent downloads and edits that write back what    *)
(* they read before.                                                        *)
THEOREM CountsAreDownloads == Spec => []CountNotInflated
<1>1. Init => Tallied
  <2> SUFFICES ASSUME Init PROVE Tallied
    OBVIOUS
  <2>1. Handlers \subseteq Procs
    BY DEF Procs
  <2>2. \A i \in Ids : Bumping(i) = {} /\ served[i] = 0
    BY <2>1 DEF Init, Bumping
  <2>3. \A i \in Ids : Cardinality(Bumping(i)) = 0
    BY <2>2, FS_EmptySet
  <2>4. \A i \in LiveIds : rows[i].count = 0 /\ i \in Ids
    BY DEF Init, Populated, LiveIds
  <2>5. QED
    BY <2>1, <2>2, <2>3, <2>4 DEF Init, Tallied, Covered
<1>2. TypeOK /\ Tallied => CountNotInflated
  <2> SUFFICES ASSUME TypeOK, Tallied, NEW i \in LiveIds PROVE rows[i].count <= served[i]
    BY DEF CountNotInflated
  <2>1. i \in Ids /\ rows[i].count \in Nat /\ served[i] \in Nat
    BY DEF TypeOK, LiveIds, Row
  <2>2. rows[i].count + Cardinality(Bumping(i)) <= served[i]
    BY DEF Tallied, Covered
  <2>3. QED
    BY <2>1, <2>2, BumpingFinite
<1>3. QED
  BY <1>1, <1>2, NextTallied, TypeCorrect, PTL DEF Spec

-----------------------------------------------------------------------------
(* Rows and files that part.  Without deduplication and edits a blob keeps  *)
(* one bucket from its upload to its removal, and only its own upload makes *)
(* its row and its file.                                                    *)
OwnFiles == ~DedupEnabled /\ "edit" \notin Ops

Filed(i) == \E f \in Paths : f.key = i /\ files[f] # None

Homes(home) ==
    /\ home \in [Ids -> Buckets \cup {None}]
    /\ \A f \in Paths : files[f] # None => f = OwnPath(home[f.key], f.key)
    /\ \A i \in LiveIds : rows[i].path = OwnPath(home[i], i)
    /\ \A w \in Workers, i \in Ids :
         expired[w][i] # None => expired[w][i].path = OwnPath(home[i], i)
    /\ \A p \in Procs :
         pc[p] \in HoldsBlob => blob[p].path = OwnPath(home[target[p]], target[p])

(* Until its row is made, an upload is the only one to know its uuid.       *)
Alone(p) ==
    pc[p] \in {"ensure", "put", "create"} =>
        /\ rows[target[p]] = None
        /\ \A q \in Procs : q # p /\ pc[q] \notin {"idle", "next"} => target[q] # target[p]
        /\ \A w \in Workers : expired[w][target[p]] = None

(* A row is made after its file, and removed after it.                      *)
InOrder(p) ==
    /\ pc[p] \in {"idle", "next", "ensure", "put", "create", "reload", "open", "bump"}
                   \cup RemovalCalls
    /\ pc[p] = "create" => Filed(target[p])
    /\ pc[p] = "droprow" => ~Filed(target[p])

Separate(home) == Homes(home) /\ \A p \in Procs : Alone(p) /\ InOrder(p)

(* The blobs of which row and file have parted, other than those that a     *)
(* request under way explains.                                              *)
Excused(i) == \E p \in Procs : pc[p] \in {"create", "droprow"} /\ target[p] = i
Parted == {i \in Ids : (rows[i] # None <=> ~Filed(i)) /\ ~Excused(i)}

(* A step parts no more blobs than it interrupts calls. *)
Costs == \E X : /\ IsFiniteSet(X) /\ Parted' \subseteq Parted \cup X
                /\ faults + Cardinality(X) <= faults'

(* Two finite sets have no more elements together than each for itself. *)
LEMMA UnionSize ==
  ASSUME NEW A, NEW B, IsFiniteSet(A), IsFiniteSet(B)
  PROVE  /\ IsFiniteSet(A \cup B)
         /\ Cardinality(A \cup B) <= Cardinality(A) + Cardinality(B)
         /\ A \cap B = {} => Cardinality(A \cup B) = Cardinality(A) + Cardinality(B)
<1>1. /\ IsFiniteSet(A \cup B)
      /\ Cardinality(A \cup B) = Cardinality(A) + Cardinality(B) - Cardinality(A \cap B)
  BY FS_Union
<1>2. Cardinality(A) \in Nat /\ Cardinality(B) \in Nat /\ Cardinality(A \cap B) \in Nat
  BY FS_Intersection, FS_CardinalityType
<1>3. A \cap B = {} => Cardinality(A \cap B) = 0
  BY FS_EmptySet
<1>4. QED
  BY <1>1, <1>2, <1>3

(* A step that parts none costs nothing, and one that parts one blob costs  *)
(* the call that it interrupts.                                             *)
LEMMA NoCost ==
  ASSUME TypeOK, TypeOK', Parted' \subseteq Parted, faults <= faults'
  PROVE  Costs
<1>1. faults + Cardinality({}) <= faults'
  BY FS_EmptySet DEF TypeOK
<1>2. QED
  BY <1>1, FS_EmptySet DEF Costs

(* One more blob may part where one more call is interrupted. *)
LEMMA OneCost ==
  ASSUME TypeOK, NEW x, Parted' \subseteq Parted \cup {x}, faults' = faults + 1
  PROVE  Costs
<1>1. IsFiniteSet({x}) /\ Cardinality({x}) = 1
  BY FS_Singleton
<1>2. faults + Cardinality({x}) <= faults'
  BY <1>1 DEF TypeOK
<1>3. QED
  BY <1>1, <1>2 DEF Costs

(* The calls under way of the processes that a crash stops are its cost. *)
LEMMA CrashCost ==
  ASSUME TypeOK, TypeOK', Crash
  PROVE  Costs
<1> DEFINE X == {target[p] : p \in Busy}
           f == [p \in Busy |-> target[p]]
<1>1. IsFiniteSet(Busy) /\ Cardinality(Busy) \in Nat
  <2>1. IsFiniteSet(Procs) /\ Busy \subseteq Procs
    BY SlotsAssumption, FS_Union DEF Procs, Busy
  <2>2. QED
    BY <2>1, FS_Subset, FS_CardinalityType
<1>2. f \in Surjection(Busy, X)
  BY DEF Surjection
<1>3. IsFiniteSet(X) /\ Cardinality(X) <= Cardinality(Busy) /\ Cardinality(X) \in Nat
  BY <1>1, <1>2, FS_Surjection, FS_CardinalityType
<1>4. Parted' \subseteq Parted \cup X
  <2> SUFFICES ASSUME NEW i \in Ids, i \in Parted', ~Excused(i) \/ i \in X PROVE i \in Parted \cup X
    BY DEF Parted, Excused, Busy
  <2>1. rows' = rows /\ (Filed(i)' <=> Filed(i))
    BY DEF Crash, Filed
  <2>2. QED
    BY <2>1 DEF Parted
<1>5. faults' = faults + Cardinality(Busy)
  BY DEF Crash
<1>6. faults + Cardinality(X) <= faults'
  BY <1>1, <1>3, <1>5 DEF TypeOK
<1>7. QED
  BY <1>3, <1>4, <1>6 DEF Costs

(* A step of one process that leaves the store and the table as they are:   *)
(* it ends, goes on with the row it holds, or loads one.                    *)
LEMMA MemoryStep ==
  ASSUME TypeOK, TypeOK', NEW home, Separate(home), NEW p \in Procs, NEW step,
         UNCHANGED <<files, expired>>, faults <= faults',
         \A i \in Ids : /\ rows'[i] = None <=> rows[i] = None
                        /\ rows[i] # None => rows'[i].path = rows[i].path,
         pc' = [pc EXCEPT ![p] = step],
         step \notin {"create", "droprow"},
         \A q \in Procs : q # p => target'[q] = target[q] /\ blob'[q] = blob[q],
         \/ step \in {"idle", "next"}
         \/ /\ step \in {"put", "unlink", "bump"}
            /\ target'[p] = target[p] /\ blob'[p] = blob[p]
            /\ pc[p] \in HoldsBlob
            /\ step = "put" => pc[p] \in {"ensure", "put"}
         \/ /\ step \in {"reload", "count", "open"}
            /\ target'[p] \in LiveIds
            /\ step # "reload" => blob'[p] = rows[target'[p]],
         \/ faults' = faults + 1
         \/ pc[p] \notin {"create", "droprow"}
  PROVE  Separate(home)' /\ Costs
<1>1. pc'[p] = step /\ \A q \in Procs : q # p => pc'[q] = pc[q]
  BY DEF TypeOK
<1>2. \A i : Filed(i)' <=> Filed(i)
  BY DEF Filed
<1>3. Homes(home)'
  <2>1. \A i \in LiveIds' : i \in LiveIds /\ rows'[i].path = rows[i].path
    BY DEF LiveIds
  <2>2. ASSUME NEW q \in Procs, pc'[q] \in HoldsBlob
        PROVE  blob'[q].path = OwnPath(home[target'[q]], target'[q])
    <3>1. CASE q # p
      BY <1>1, <2>2, <3>1 DEF Separate, Homes
    <3>2. CASE q = p /\ step \in {"put", "unlink", "bump"}
      BY <1>1, <2>2, <3>2 DEF Separate, Homes
    <3>3. CASE q = p /\ step \in {"count", "open"}
      BY <1>1, <2>2, <3>3 DEF Separate, Homes
    <3>4. QED
      BY <1>1, <2>2, <3>1, <3>2, <3>3 DEF HoldsBlob
  <2>3. QED
    BY <2>1, <2>2 DEF Separate, Homes
<1>4. ASSUME NEW q \in Procs PROVE Alone(q)'
  <2> SUFFICES ASSUME pc'[q] \in {"ensure", "put", "create"}
               PROVE  /\ rows'[target'[q]] = None
                      /\ \A r \in Procs : r # q /\ pc'[r] \notin {"idle", "next"} =>
                                            target'[r] # target'[q]
                      /\ \A w \in Workers : expired'[w][target'[q]] = None
    BY DEF Alone
  <2>1. pc[q] \in {"ensure", "put", "create"} /\ target'[q] = target[q] /\ target[q] \in Ids
    BY <1>1 DEF TypeOK, ControlOK
  <2>2. /\ rows[target[q]] = None
        /\ \A r \in Procs : r # q /\ pc[r] \notin {"idle", "next"} => target[r] # target[q]
        /\ \A w \in Workers : expired[w][target[q]] = None
    BY <2>1 DEF Separate, Alone
  <2>3. ASSUME NEW r \in Procs, r # q, pc'[r] \notin {"idle", "next"}
        PROVE  target'[r] # target'[q]
    BY <1>1, <2>1, <2>2, <2>3 DEF LiveIds, HoldsBlob
  <2>4. QED
    BY <2>1, <2>2, <2>3
<1>5. ASSUME NEW q \in Procs PROVE InOrder(q)'
  <2>1. CASE q = p
    BY <1>1, <2>1 DEF InOrder, RemovalCalls, HoldsBlob
  <2>2. CASE q # p
    BY <1>1, <1>2, <2>2 DEF Separate, InOrder
  <2>3. QED
    BY <2>1, <2>2
<1>6. Costs
  <2>1. ASSUME NEW i \in Ids, i \in Parted', i # target[p] \/ pc[p] \notin {"create", "droprow"}
        PROVE  i \in Parted
    BY <1>1, <1>2, <2>1 DEF Parted, Excused
  <2>2. CASE pc[p] \notin {"create", "droprow"}
    BY <2>1, <2>2, NoCost DEF Parted
  <2>3. CASE faults' = faults + 1
    BY <2>1, <2>3, OneCost DEF Parted
  <2>4. QED
    BY <2>2, <2>3
<1>7. QED
  BY <1>3, <1>4, <1>5, <1>6 DEF Separate

(* A new uuid is in nobody's hands. *)
LEMMA NewUuid ==
  ASSUME TypeOK, Consistent, NEW id \in Ids, written[id] = None
  PROVE  /\ ~Filed(id) /\ rows[id] = None
         /\ \A w \in Workers : expired[w][id] = None
         /\ \A q \in Procs : pc[q] \notin {"idle", "next"} => target[q] # id
<1>1. ~Filed(id)
  BY DEF Filed, Consistent, FilesMatch
<1>2. rows[id] = None
  BY NoneAssumption DEF TypeOK, Consistent, RowsMatch, Matches, LiveIds, Row
<1>3. ASSUME NEW w \in Workers PROVE expired[w][id] = None
  BY NoneAssumption DEF TypeOK, Consistent, ListsMatch, Matches, Row
<1>4. ASSUME NEW q \in Procs, pc[q] \notin {"idle", "next"} PROVE target[q] # id
  <2>1. CASE pc[q] \in {"ensure", "put"}
    BY <2>1, TornAssumption DEF Consistent, PutPending, BeforePut
  <2>2. CASE pc[q] \in HoldsBlob \ {"ensure", "put"}
    <3>1. blob[q] \in Row /\ Matches(target[q], blob[q])
      BY <2>2 DEF TypeOK, ControlOK, Consistent, HeldMatch
    <3>2. QED
      BY <3>1, NoneAssumption DEF Matches, Row
  <2>3. CASE pc[q] = "reload"
    <3>1. seen[q] \in Row /\ written[target[q]] = seen[q].hash
      BY <2>3 DEF TypeOK, ControlOK, HoldsSeen, Consistent, HeldMatch
    <3>2. QED
      BY <3>1, NoneAssumption DEF Row
  <2>4. QED
    BY <1>4, <2>1, <2>2, <2>3 DEF TypeOK, HoldsBlob, HandlerCalls, RemovalCalls
<1>5. QED
  BY <1>1, <1>2, <1>3, <1>4

(* Its upload gives it the bucket that it will keep. *)
LEMMA BeginStep ==
  ASSUME TypeOK, TypeOK', Consistent, NEW home, Separate(home),
         NEW h \in Handlers, UploadBegin(h)
  PROVE  /\ \E other : Separate(other)'
         /\ Costs
<1>1. PICK id \in Ids, bucket \in Buckets, content \in Contents, exp \in Expiries :
        /\ written[id] = None
        /\ written' = [written EXCEPT ![id] = Torn]
        /\ target' = [target EXCEPT ![h] = id]
        /\ blob' = [blob EXCEPT ![h] = NewBlob(id, bucket, content, exp)]
  BY DEF UploadBegin
<1>2. h \in Procs /\ UNCHANGED <<rows, files, faults, expired>>
      /\ pc' = [pc EXCEPT ![h] = "ensure"] /\ pc[h] = "idle"
  BY DEF UploadBegin, Goto, Procs
<1>3. /\ pc'[h] = "ensure" /\ target'[h] = id
      /\ blob'[h].path = OwnPath(bucket, id)
      /\ \A q \in Procs : q # h => /\ pc'[q] = pc[q] /\ target'[q] = target[q]
                                   /\ blob'[q] = blob[q]
  BY <1>1, <1>2 DEF TypeOK, NewBlob
<1>4. /\ ~Filed(id) /\ rows[id] = None
      /\ \A w \in Workers : expired[w][id] = None
      /\ \A q \in Procs : pc[q] \notin {"idle", "next"} => target[q] # id
  BY <1>1, NewUuid
<1>5. \A i : Filed(i)' <=> Filed(i)
  BY <1>2 DEF Filed
<1> DEFINE other == [home EXCEPT ![id] = bucket]
<1>6. other \in [Ids -> Buckets \cup {None}] /\ other[id] = bucket
      /\ \A i \in Ids : i # id => other[i] = home[i]
  BY DEF Separate, Homes
<1> HIDE DEF other
<1>7. Homes(other)'
  <2>1. ASSUME NEW f \in Paths, files'[f] # None PROVE f = OwnPath(other[f.key], f.key)
    BY <1>2, <1>4, <1>6, <2>1 DEF Separate, Homes, Filed, Paths
  <2>2. ASSUME NEW i \in LiveIds' PROVE rows'[i].path = OwnPath(other[i], i)
    BY <1>2, <1>4, <1>6, <2>2 DEF Separate, Homes, LiveIds
  <2>3. ASSUME NEW w \in Workers, NEW i \in Ids, expired'[w][i] # None
        PROVE  expired'[w][i].path = OwnPath(other[i], i)
    BY <1>2, <1>4, <1>6, <2>3 DEF Separate, Homes
  <2>4. ASSUME NEW q \in Procs, pc'[q] \in HoldsBlob
        PROVE  blob'[q].path = OwnPath(other[target'[q]], target'[q])
    <3>1. CASE q = h
      BY <1>3, <1>6, <3>1
    <3>2. CASE q # h
      <4>1. pc[q] \in HoldsBlob /\ target[q] \in Ids /\ target[q] # id
        BY <1>3, <1>4, <2>4, <3>2 DEF TypeOK, ControlOK, HoldsBlob
      <4>2. QED
        BY <1>3, <1>6, <3>2, <4>1 DEF Separate, Homes
    <3>3. QED
      BY <3>1, <3>2
  <2>5. QED
    BY <1>6, <2>1, <2>2, <2>3, <2>4 DEF Homes
<1>8. ASSUME NEW q \in Procs PROVE Alone(q)'
  <2>1. CASE q = h
    BY <1>2, <1>3, <1>4, <2>1 DEF Alone
  <2>2. CASE q # h
    BY <1>2, <1>3, <1>4, <2>2 DEF Separate, Alone
  <2>3. QED
    BY <2>1, <2>2
<1>9. ASSUME NEW q \in Procs PROVE InOrder(q)'
  BY <1>3, <1>5 DEF Separate, InOrder
<1>10. Costs
  <2>1. ASSUME NEW i \in Ids, i \in Parted' PROVE i \in Parted
    BY <1>2, <1>3, <1>5, <2>1 DEF Parted, Excused
  <2>2. QED
    BY <1>2, <2>1, NoCost DEF Parted, TypeOK
<1>11. QED
  BY <1>7, <1>8, <1>9, <1>10 DEF Separate

(* The upload's own steps, and the two that take a blob away. *)
LEMMA PutStep ==
  ASSUME TypeOK, TypeOK', OwnFiles, NEW home, Separate(home),
         NEW h \in Handlers, UploadPut(h)
  PROVE  Separate(home)' /\ Costs
<1> DEFINE i0 == target[h]
<1>1. /\ h \in Procs /\ pc[h] = "put" /\ i0 \in Ids /\ blob[h] \in Row
      /\ blob[h].path = OwnPath(home[i0], i0) /\ blob[h].path \in Paths
      /\ UNCHANGED <<rows, faults, expired, target, blob>>
      /\ files' = [files EXCEPT ![blob[h].path] = blob[h].hash]
      /\ pc' = [pc EXCEPT ![h] = "create"]
  BY DEF UploadPut, Goto, locals, Procs, OwnFiles, TypeOK, ControlOK, HoldsBlob, Separate,
         Homes, Row
<1>2. blob[h].hash # None
  BY <1>1, NoneAssumption DEF Row
<1>3. \A i \in Ids : Filed(i)' <=> Filed(i) \/ i = i0
  BY <1>1, <1>2 DEF Filed, TypeOK, OwnPath
<1>4. pc'[h] = "create" /\ \A q \in Procs : q # h => pc'[q] = pc[q]
  BY <1>1 DEF TypeOK
<1>5. /\ rows[i0] = None
      /\ \A q \in Procs : q # h /\ pc[q] \notin {"idle", "next"} => target[q] # i0
      /\ \A w \in Workers : expired[w][i0] = None
  BY <1>1 DEF Separate, Alone
<1>6. Homes(home)'
  <2>1. ASSUME NEW f \in Paths, files'[f] # None PROVE f = OwnPath(home[f.key], f.key)
    BY <1>1, <2>1 DEF Separate, Homes, TypeOK, OwnPath
  <2>2. QED
    BY <1>1, <1>4, <2>1 DEF Separate, Homes, LiveIds, HoldsBlob
<1>7. ASSUME NEW q \in Procs PROVE Alone(q)'
  BY <1>1, <1>4, <1>5 DEF Separate, Alone
<1>8. ASSUME NEW q \in Procs PROVE InOrder(q)'
  <2>1. CASE q = h
    BY <1>1, <1>3, <1>4, <2>1 DEF InOrder
  <2>2. CASE q # h
    BY <1>1, <1>3, <1>4, <1>5, <2>2 DEF Separate, InOrder, TypeOK, ControlOK
  <2>3. QED
    BY <2>1, <2>2
<1>9. Costs
  <2>1. ASSUME NEW i \in Ids, i \in Parted' PROVE i \in Parted
    BY <1>1, <1>3, <1>4, <2>1 DEF Parted, Excused
  <2>2. QED
    BY <1>1, <2>1, NoCost DEF Parted, TypeOK
<1>10. QED
  BY <1>6, <1>7, <1>8, <1>9 DEF Separate

(* A torn file is paid for by the Put that failed. *)
LEMMA TornStep ==
  ASSUME TypeOK, TypeOK', NEW home, Separate(home), NEW h \in Handlers, UploadPutTorn(h)
  PROVE  Separate(home)' /\ Costs
<1> DEFINE i0 == target[h]
<1>1. /\ h \in Procs /\ pc[h] = "put" /\ i0 \in Ids /\ blob[h] \in Row
      /\ blob[h].path = OwnPath(home[i0], i0) /\ blob[h].path \in Paths
      /\ UNCHANGED <<rows, expired>> /\ faults' = faults + 1
      /\ files' = [files EXCEPT ![blob[h].path] = Torn]
      /\ Finish(h)
  BY DEF UploadPutTorn, Fault, Procs, TypeOK, ControlOK, HoldsBlob, Separate, Homes, Row
<1>2. \A i \in Ids : Filed(i)' <=> Filed(i) \/ i = i0
  BY <1>1, TornAssumption DEF Filed, TypeOK, OwnPath
<1>3. /\ pc'[h] \in {"idle", "next"}
      /\ \A q \in Procs : q # h => /\ pc'[q] = pc[q] /\ target'[q] = target[q]
                                   /\ blob'[q] = blob[q]
  BY <1>1 DEF Finish, Goto, TypeOK
<1>4. \A q \in Procs : q # h /\ pc[q] \notin {"idle", "next"} => target[q] # i0
  BY <1>1 DEF Separate, Alone
<1>5. Homes(home)'
  <2>1. ASSUME NEW f \in Paths, files'[f] # None PROVE f = OwnPath(home[f.key], f.key)
    BY <1>1, <2>1 DEF Separate, Homes, TypeOK, OwnPath
  <2>2. QED
    BY <1>1, <1>3, <2>1 DEF Separate, Homes, LiveIds, HoldsBlob
<1>6. ASSUME NEW q \in Procs PROVE Alone(q)'
  BY <1>1, <1>3 DEF Separate, Alone
<1>7. ASSUME NEW q \in Procs PROVE InOrder(q)'
  <2>1. CASE q = h
    BY <1>3, <2>1 DEF InOrder
  <2>2. CASE q # h
    BY <1>2, <1>3, <1>4, <2>2 DEF Separate, InOrder, TypeOK, ControlOK
  <2>3. QED
    BY <2>1, <2>2
<1>8. Costs
  <2>1. ASSUME NEW i \in Ids, i \in Parted', i # i0 PROVE i \in Parted
    BY <1>1, <1>2, <1>3, <2>1 DEF Parted, Excused
  <2>2. QED
    BY <1>1, <2>1, OneCost DEF Parted
<1>9. QED
  BY <1>5, <1>6, <1>7, <1>8 DEF Separate

(* CreateWithFile gives the file its row. *)
LEMMA CreateStep ==
  ASSUME TypeOK, TypeOK', NEW home, Separate(home), NEW h \in Handlers, UploadCreate(h)
  PROVE  Separate(home)' /\ Costs
<1> DEFINE i0 == target[h]
<1>1. /\ h \in Procs /\ pc[h] = "create" /\ i0 \in Ids /\ blob[h] \in Row
      /\ blob[h].path = OwnPath(home[i0], i0)
      /\ UNCHANGED <<files, expired, faults>>
      /\ rows' = [rows EXCEPT ![i0] = [blob[h] EXCEPT !.created = now]]
      /\ Finish(h)
  BY DEF UploadCreate, Procs, TypeOK, ControlOK, HoldsBlob, Separate, Homes
<1>2. /\ rows'[i0] \in Row /\ rows'[i0].path = blob[h].path /\ rows'[i0] # None
      /\ \A i \in Ids : i # i0 => rows'[i] = rows[i]
  <2>1. [blob[h] EXCEPT !.created = now] \in Row
    BY <1>1, RowColumns DEF TypeOK
  <2>2. QED
    BY <1>1, <2>1, NoneAssumption DEF TypeOK, Row
<1>3. /\ pc'[h] \in {"idle", "next"}
      /\ \A q \in Procs : q # h => /\ pc'[q] = pc[q] /\ target'[q] = target[q]
                                   /\ blob'[q] = blob[q]
  BY <1>1 DEF Finish, Goto, TypeOK
<1>4. \A q \in Procs : q # h /\ pc[q] \notin {"idle", "next"} => target[q] # i0
  BY <1>1 DEF Separate, Alone
<1>5. (\A i : Filed(i)' <=> Filed(i)) /\ Filed(i0)
  BY <1>1 DEF Filed, Separate, InOrder
<1>6. Homes(home)'
  <2>1. ASSUME NEW i \in LiveIds' PROVE rows'[i].path = OwnPath(home[i], i)
    BY <1>1, <1>2, <2>1 DEF Separate, Homes, LiveIds
  <2>2. QED
    BY <1>1, <1>3, <2>1 DEF Separate, Homes, HoldsBlob
<1>7. ASSUME NEW q \in Procs PROVE Alone(q)'
  <2>1. CASE q = h
    BY <1>3, <2>1 DEF Alone
  <2>2. CASE q # h
    <3> SUFFICES ASSUME pc[q] \in {"ensure", "put", "create"} PROVE Alone(q)'
      BY <1>3, <2>2 DEF Alone
    <3>1. target[q] \in Ids /\ target[q] # i0
      BY <1>4, <2>2 DEF TypeOK, ControlOK
    <3>2. QED
      BY <1>1, <1>2, <1>3, <2>2, <3>1 DEF Separate, Alone
  <2>3. QED
    BY <2>1, <2>2
<1>8. ASSUME NEW q \in Procs PROVE InOrder(q)'
  BY <1>3, <1>5 DEF Separate, InOrder
<1>9. Costs
  <2>1. ASSUME NEW i \in Ids, i \in Parted' PROVE i \in Parted
    BY <1>1, <1>2, <1>3, <1>5, <2>1 DEF Parted, Excused
  <2>2. QED
    BY <1>1, <2>1, NoCost DEF Parted, TypeOK
<1>10. QED
  BY <1>6, <1>7, <1>8, <1>9 DEF Separate

(* A removal takes the file before the row, and is then at it. *)
LEMMA UnlinkStep ==
  ASSUME TypeOK, TypeOK', NEW home, Separate(home), NEW p \in Procs, Unlink(p)
  PROVE  Separate(home)' /\ Costs
<1> DEFINE i0 == target[p]
<1>1. /\ pc[p] = "unlink" /\ i0 \in Ids
      /\ blob[p].path = OwnPath(home[i0], i0) /\ blob[p].path \in Paths
      /\ UNCHANGED <<rows, expired, faults, target, blob>>
      /\ files' = [files EXCEPT ![blob[p].path] = None]
      /\ pc' = [pc EXCEPT ![p] = "droprow"]
  BY DEF Unlink, Goto, locals, TypeOK, ControlOK, HoldsBlob, Separate, Homes, Row
<1>2. pc'[p] = "droprow" /\ \A q \in Procs : q # p => pc'[q] = pc[q]
  BY <1>1 DEF TypeOK
<1>3. \A i \in Ids : Filed(i)' <=> Filed(i) /\ i # i0
  <2>1. ASSUME NEW i \in Ids, i # i0 PROVE Filed(i)' <=> Filed(i)
    BY <1>1, <2>1 DEF Filed, TypeOK, OwnPath
  <2>2. ASSUME NEW f \in Paths, f.key = i0 PROVE files'[f] = None
    BY <1>1, <2>2 DEF Separate, Homes, TypeOK
  <2>3. QED
    BY <2>1, <2>2 DEF Filed
<1>4. \A q \in Procs : pc[q] = "create" => target[q] # i0
  BY <1>1 DEF Separate, Alone
<1>5. Homes(home)'
  BY <1>1, <1>2 DEF Separate, Homes, LiveIds, HoldsBlob, TypeOK
<1>6. ASSUME NEW q \in Procs PROVE Alone(q)'
  BY <1>1, <1>2 DEF Separate, Alone
<1>7. ASSUME NEW q \in Procs PROVE InOrder(q)'
  <2>1. CASE q = p
    BY <1>1, <1>2, <1>3, <2>1 DEF InOrder, RemovalCalls
  <2>2. CASE q # p
    BY <1>1, <1>2, <1>3, <1>4, <2>2 DEF Separate, InOrder, TypeOK, ControlOK
  <2>3. QED
    BY <2>1, <2>2
<1>8. Costs
  <2>1. ASSUME NEW i \in Ids, i \in Parted' PROVE i \in Parted
    BY <1>1, <1>2, <1>3, <2>1 DEF Parted, Excused
  <2>2. QED
    BY <1>1, <2>1, NoCost DEF Parted, TypeOK
<1>9. QED
  BY <1>5, <1>6, <1>7, <1>8 DEF Separate

(* The row follows its file. *)
LEMMA DropStep ==
  ASSUME TypeOK, TypeOK', NEW home, Separate(home), NEW p \in Procs, DropRow(p)
  PROVE  Separate(home)' /\ Costs
<1> DEFINE i0 == target[p]
<1>1. /\ pc[p] = "droprow" /\ i0 \in Ids
      /\ UNCHANGED <<files, expired, faults>>
      /\ rows' = [rows EXCEPT ![i0] = None]
      /\ Finish(p)
  BY DEF DropRow, TypeOK, ControlOK
<1>2. /\ pc'[p] \in {"idle", "next"}
      /\ \A q \in Procs : q # p => /\ pc'[q] = pc[q] /\ target'[q] = target[q]
                                   /\ blob'[q] = blob[q]
  BY <1>1 DEF Finish, Goto, TypeOK
<1>3. (\A i : Filed(i)' <=> Filed(i)) /\ ~Filed(i0)
  BY <1>1 DEF Filed, Separate, InOrder
<1>4. rows'[i0] = None /\ \A i \in Ids : i # i0 => rows'[i] = rows[i]
  BY <1>1 DEF TypeOK
<1>5. Homes(home)'
  BY <1>1, <1>2, <1>4 DEF Separate, Homes, LiveIds, HoldsBlob
<1>6. ASSUME NEW q \in Procs PROVE Alone(q)'
  BY <1>1, <1>2, <1>4 DEF Separate, Alone, TypeOK, ControlOK
<1>7. ASSUME NEW q \in Procs PROVE InOrder(q)'
  BY <1>2, <1>3 DEF Separate, InOrder
<1>8. Costs
  <2>1. ASSUME NEW i \in Ids, i \in Parted' PROVE i \in Parted
    BY <1>1, <1>2, <1>3, <1>4, <2>1 DEF Parted, Excused
  <2>2. QED
    BY <1>1, <2>1, NoCost DEF Parted, TypeOK
<1>9. QED
  BY <1>5, <1>6, <1>7, <1>8 DEF Separate

(* A path of the blob at work is named by at most its own row. *)
LEMMA NeverShared ==
  ASSUME TypeOK, NEW home, Separate(home), NEW p \in Procs, pc[p] = "count"
  PROVE  ~Shared(blob[p].path)
<1>1. target[p] \in Ids /\ blob[p].path = OwnPath(home[target[p]], target[p])
  BY DEF TypeOK, ControlOK, Separate, Homes, HoldsBlob
<1>2. FindByPath(blob[p].path) \subseteq {target[p]}
  <2> SUFFICES ASSUME NEW i \in LiveIds, rows[i].path = blob[p].path PROVE i = target[p]
    BY DEF FindByPath
  <2>1. rows[i].path = OwnPath(home[i], i)
    BY DEF Separate, Homes
  <2>2. QED
    BY <1>1, <2>1 DEF OwnPath
<1>3. IsFiniteSet({target[p]}) /\ Cardinality({target[p]}) = 1
  BY FS_Singleton
<1>4. /\ IsFiniteSet(FindByPath(blob[p].path))
      /\ Cardinality(FindByPath(blob[p].path)) <= 1
  BY <1>2, <1>3, FS_Subset
<1>5. Cardinality(FindByPath(blob[p].path)) \in Nat
  BY <1>4, FS_CardinalityType
<1>6. QED
  BY <1>4, <1>5 DEF Shared

(* Ending leaves a process idle, or at the next row of its list. *)
LEMMA FinishMoves ==
  ASSUME TypeOK, NEW p \in Procs, Finish(p)
  PROVE  /\ \E step \in {"idle", "next"} : pc' = [pc EXCEPT ![p] = step]
         /\ \A q \in Procs : q # p => target'[q] = target[q] /\ blob'[q] = blob[q]
  BY DEF Finish, Goto, TypeOK

(* Every step keeps rows and files in order, and parts no more of them than *)
(* it interrupts calls.                                                     *)
LEMMA NextSeparate ==
  ASSUME TypeOK, TypeOK', Consistent, OwnFiles, NEW home, Separate(home), [Next]_vars
  PROVE  /\ \E other : Separate(other)'
         /\ Costs
<1> USE DEF locals
<1>b. Handlers \subseteq Procs /\ Workers \subseteq Procs
  BY DEF Procs
<1>o. "edit" \notin Ops /\ ~DedupEnabled
  BY DEF OwnFiles
<1>f. faults \in Nat /\ (faults' \in {faults, faults + 1} => faults <= faults')
  BY DEF TypeOK
<1>p. \A q \in Procs : pc[q] \notin {"lookup", "probe", "dropcopy", "move", "save"}
  BY DEF Separate, InOrder, RemovalCalls
<1> DEFINE Goal == (\E other : Separate(other)') /\ Costs
<1>m. ASSUME NEW p \in Procs, NEW step \in {"idle", "next"},
             pc' = [pc EXCEPT ![p] = step],
             \A q \in Procs : q # p => target'[q] = target[q] /\ blob'[q] = blob[q],
             UNCHANGED <<rows, files, expired>>,
             \/ faults' = faults + 1
             \/ faults' = faults /\ pc[p] \notin {"create", "droprow"}
      PROVE  Goal
  BY <1>f, <1>m, MemoryStep
<1>n. ASSUME NEW p \in Procs, NEW step,
             pc' = [pc EXCEPT ![p] = step],
             pc[p] \notin {"create", "droprow"},
             \A q \in Procs : q # p => target'[q] = target[q] /\ blob'[q] = blob[q],
             UNCHANGED <<rows, files, expired, faults>>,
             \/ /\ step \in {"put", "unlink", "bump"}
                /\ target'[p] = target[p] /\ blob'[p] = blob[p]
                /\ pc[p] \in HoldsBlob
                /\ step = "put" => pc[p] \in {"ensure", "put"}
             \/ /\ step \in {"reload", "count", "open"}
                /\ target'[p] \in LiveIds
                /\ step # "reload" => blob'[p] = rows[target'[p]]
      PROVE  Goal
  <2>1. step \notin {"create", "droprow"}
    BY <1>n
  <2>2. faults <= faults'
    BY <1>f, <1>n
  <2>3. Separate(home)' /\ Costs
    BY ONLY <1>n, <2>1, <2>2, MemoryStep, TypeOK, TypeOK', Separate(home)
  <2>4. QED
    BY <2>3
<1>1. ASSUME NEW h \in Handlers, UploadBegin(h) PROVE Goal
  BY <1>1, BeginStep
<1>2. ASSUME NEW h \in Handlers, UploadEnsure(h) PROVE Goal
  <2>1. h \in Procs /\ pc[h] = "ensure" /\ UNCHANGED <<rows, files, expired, faults>>
    BY <1>2, <1>b DEF UploadEnsure
  <2>2. CASE Finish(h)
    BY <1>m, <2>1, <2>2, FinishMoves
  <2>3. CASE ~Finish(h)
    BY <1>2, <1>f, <2>1, <2>3, MemoryStep DEF UploadEnsure, Goto, HoldsBlob
  <2>4. QED
    BY <2>2, <2>3
<1>3. ASSUME NEW h \in Handlers, UploadPut(h) PROVE Goal
  BY <1>3, PutStep
<1>4. ASSUME NEW h \in Handlers, UploadPutTorn(h) PROVE Goal
  BY <1>4, TornStep
<1>5. ASSUME NEW h \in Handlers,
             UploadLookup(h) \/ UploadProbe(h) \/ UploadDropCopy(h) \/ EditStep(h)
      PROVE  Goal
  BY <1>5, <1>b, <1>p DEF UploadLookup, UploadProbe, UploadDropCopy, EditStep, EditMove, EditSave
<1>6. ASSUME NEW h \in Handlers, UploadCreate(h) PROVE Goal
  BY <1>6, CreateStep
<1>7. ASSUME NEW h \in Handlers, EditLoad(h) PROVE Goal
  BY <1>7, <1>o DEF EditLoad
<1>8. ASSUME NEW h \in Handlers, DeleteLoad(h) PROVE Goal
  <2>1. /\ h \in Procs /\ pc[h] = "idle" /\ UNCHANGED <<rows, files, expired, faults>>
        /\ pc' = [pc EXCEPT ![h] = "count"]
        /\ \A q \in Procs : q # h => target'[q] = target[q] /\ blob'[q] = blob[q]
        /\ target'[h] \in LiveIds /\ blob'[h] = rows[target'[h]]
    BY <1>8, <1>b DEF DeleteLoad, Goto, TypeOK
  <2>2. QED
    BY <1>n, <2>1
<1>9. ASSUME NEW p \in Procs, CountSharers(p) PROVE Goal
  <2>1. /\ pc[p] = "count" /\ UNCHANGED <<rows, files, expired, faults, target, blob>>
        /\ pc' = [pc EXCEPT ![p] = "unlink"]
    BY <1>9, NeverShared DEF CountSharers, Goto
  <2>2. QED
    BY <1>n, <2>1 DEF HoldsBlob
<1>10. ASSUME NEW p \in Procs, Unlink(p) PROVE Goal
  BY <1>10, UnlinkStep
<1>11. ASSUME NEW p \in Procs, DropRow(p) PROVE Goal
  BY <1>11, DropStep
<1>12. ASSUME NEW w \in Workers, PurgeFind(w) PROVE Goal
  <2>1. /\ w \in Procs /\ pc[w] = "idle" /\ UNCHANGED <<rows, files, faults, target, blob>>
        /\ pc' = [pc EXCEPT ![w] = "next"]
        /\ \A v \in Workers, i \in Ids : expired'[v][i] \in {None, expired[v][i], rows[i]}
    BY <1>12, <1>b DEF PurgeFind, Goto, TypeOK
  <2>2. pc'[w] = "next" /\ \A q \in Procs : q # w => pc'[q] = pc[q]
    BY <2>1 DEF TypeOK
  <2>3. \A i : Filed(i)' <=> Filed(i)
    BY <2>1 DEF Filed
  <2>4. Homes(home)'
    BY <2>1, <2>2 DEF Separate, Homes, LiveIds, HoldsBlob
  <2>5. ASSUME NEW q \in Procs PROVE Alone(q)'
    <3> SUFFICES ASSUME pc[q] \in {"ensure", "put", "create"} PROVE Alone(q)'
      BY <2>1, <2>2 DEF Alone
    <3>1. target[q] \in Ids /\ rows[target[q]] = None
          /\ \A v \in Workers : expired[v][target[q]] = None
      BY DEF Separate, Alone, TypeOK, ControlOK
    <3>2. \A v \in Workers : expired'[v][target[q]] = None
      BY <2>1, <3>1
    <3>3. QED
      BY <2>1, <2>2, <3>1, <3>2 DEF Separate, Alone
  <2>6. ASSUME NEW q \in Procs PROVE InOrder(q)'
    BY <2>1, <2>2, <2>3 DEF Separate, InOrder
  <2>7. Parted' \subseteq Parted
    BY <2>1, <2>2, <2>3 DEF Parted, Excused
  <2>8. QED
    BY <1>f, <2>1, <2>4, <2>5, <2>6, <2>7, NoCost DEF Separate
<1>13. ASSUME NEW w \in Workers, PurgeNext(w) PROVE Goal
  <2>1. /\ w \in Procs /\ pc[w] = "next" /\ UNCHANGED <<rows, files, faults>>
        /\ pc' = [pc EXCEPT ![w] = "count"]
        /\ \A v \in Workers, i \in Ids : expired'[v][i] \in {None, expired[v][i]}
        /\ \A q \in Procs : q # w => target'[q] = target[q] /\ blob'[q] = blob[q]
        /\ target'[w] \in Ids /\ expired[w][target'[w]] # None
        /\ blob'[w] = expired[w][target'[w]]
    BY <1>13, <1>b DEF PurgeNext, Goto, TypeOK
  <2>2. pc'[w] = "count" /\ \A q \in Procs : q # w => pc'[q] = pc[q]
    BY <2>1 DEF TypeOK
  <2>3. \A i : Filed(i)' <=> Filed(i)
    BY <2>1 DEF Filed
  <2>4. Homes(home)'
    BY <2>1, <2>2 DEF Separate, Homes, LiveIds
  <2>5. ASSUME NEW q \in Procs PROVE Alone(q)'
    BY <2>1, <2>2 DEF Separate, Alone, TypeOK, ControlOK
  <2>6. ASSUME NEW q \in Procs PROVE InOrder(q)'
    BY <2>1, <2>2, <2>3 DEF Separate, InOrder, RemovalCalls
  <2>7. Parted' \subseteq Parted
    BY <2>1, <2>2, <2>3 DEF Parted, Excused
  <2>8. QED
    BY <1>f, <2>1, <2>4, <2>5, <2>6, <2>7, NoCost DEF Separate
<1>14. ASSUME NEW w \in Workers, PurgeDone(w) PROVE Goal
  BY <1>14, <1>b, <1>m DEF PurgeDone, Goto
<1>15. ASSUME NEW h \in Handlers, OpenLoad(h) PROVE Goal
  <2>1. /\ h \in Procs /\ pc[h] = "idle" /\ UNCHANGED <<rows, files, expired, faults, blob>>
        /\ pc' = [pc EXCEPT ![h] = "reload"]
        /\ \A q \in Procs : q # h => target'[q] = target[q]
        /\ target'[h] \in LiveIds
    BY <1>15, <1>b DEF OpenLoad, Goto, TypeOK
  <2>2. QED
    BY <1>n, <2>1
<1>16. ASSUME NEW h \in Handlers, OpenReload(h) PROVE Goal
  <2>1. h \in Procs /\ pc[h] = "reload" /\ UNCHANGED <<rows, files, expired, faults>>
    BY <1>16, <1>b DEF OpenReload
  <2>2. CASE Finish(h)
    BY <1>m, <2>1, <2>2, FinishMoves
  <2>3. CASE ~Finish(h)
    <3>1. /\ pc' = [pc EXCEPT ![h] = "open"]
          /\ \A q \in Procs : q # h => target'[q] = target[q] /\ blob'[q] = blob[q]
          /\ target'[h] \in LiveIds /\ blob'[h] = rows[target'[h]]
      BY <1>16, <2>1, <2>3 DEF OpenReload, Goto, TypeOK, ControlOK, LiveIds
    <3>2. QED
      BY <1>n, <2>1, <3>1
  <2>4. QED
    BY <2>2, <2>3
<1>17. ASSUME NEW h \in Handlers, OpenFile(h) PROVE Goal
  <2>1. h \in Procs /\ pc[h] = "open" /\ UNCHANGED <<rows, files, expired, faults>>
    BY <1>17, <1>b DEF OpenFile
  <2>2. CASE Finish(h)
    BY <1>m, <2>1, <2>2, FinishMoves
  <2>3. CASE ~Finish(h)
    BY <1>17, <1>f, <2>1, <2>3, MemoryStep DEF OpenFile, Goto, HoldsBlob
  <2>4. QED
    BY <2>2, <2>3
<1>18. ASSUME NEW h \in Handlers, BumpCounter(h) PROVE Goal
  <2>1. /\ h \in Procs /\ pc[h] = "bump" /\ UNCHANGED <<files, expired>> /\ Finish(h)
        /\ faults' = faults \/ faults' = faults + 1
    BY <1>18, <1>b DEF BumpCounter, Fault
  <2>2. \A i \in Ids : /\ rows'[i] = None <=> rows[i] = None
                       /\ rows[i] # None => rows'[i].path = rows[i].path
    <3>1. CASE UNCHANGED rows
      BY <3>1
    <3>2. CASE ~UNCHANGED rows
      <4>1. /\ target[h] \in Ids /\ rows[target[h]] \in Row
            /\ rows' = [rows EXCEPT ![target[h]] = Counted(rows[target[h]])]
        BY <1>18, <2>1, <3>2 DEF BumpCounter, TypeOK, ControlOK
      <4>2. Counted(rows[target[h]]) \in Row
            /\ Counted(rows[target[h]]).path = rows[target[h]].path
        BY <4>1, RowColumns DEF Counted, Row
      <4>3. QED
        BY <4>1, <4>2, NoneAssumption DEF TypeOK
    <3>3. QED
      BY <3>1, <3>2
  <2>3. PICK step \in {"idle", "next"} : pc' = [pc EXCEPT ![h] = step]
    BY <2>1, FinishMoves
  <2>4. \A q \in Procs : q # h => target'[q] = target[q] /\ blob'[q] = blob[q]
    BY <2>1, FinishMoves
  <2>5. QED
    BY <1>f, <2>1, <2>2, <2>3, <2>4, MemoryStep
<1>19. ASSUME NEW p \in Procs, CallRefused(p) PROVE Goal
  <2>1. UNCHANGED <<rows, files, expired>> /\ faults' = faults + 1 /\ Finish(p)
    BY <1>19 DEF CallRefused, Refused, Fault
  <2>2. QED
    <3>1. PICK step \in {"idle", "next"} : pc' = [pc EXCEPT ![p] = step]
      BY <2>1, FinishMoves
    <3>2. \A q \in Procs : q # p => target'[q] = target[q] /\ blob'[q] = blob[q]
      BY <2>1, FinishMoves
    <3>3. QED
      BY <1>m, <2>1, <3>1, <3>2
<1>20. CASE Crash
  <2>1. /\ \A p \in Procs : pc'[p] = "idle"
        /\ \A w \in Workers, i \in Ids : expired'[w][i] = None
        /\ UNCHANGED <<rows, files>>
    BY <1>20 DEF Crash
  <2>2. Homes(home)'
    BY <2>1 DEF Separate, Homes, LiveIds, HoldsBlob
  <2>3. \A q \in Procs : Alone(q)' /\ InOrder(q)'
    BY <2>1 DEF Alone, InOrder
  <2>4. QED
    BY <1>20, <2>2, <2>3, CrashCost DEF Separate
<1>21. CASE UNCHANGED <<rows, files, faults, pc, target, blob, expired>>
  <2>1. \A i : Filed(i)' <=> Filed(i)
    BY <1>21 DEF Filed
  <2>2. Homes(home)'
    BY <1>21 DEF Separate, Homes, LiveIds
  <2>3. \A q \in Procs : Alone(q)' /\ InOrder(q)'
    BY <1>21, <2>1 DEF Separate, Alone, InOrder
  <2>4. Parted' \subseteq Parted
    BY <1>21, <2>1 DEF Parted, Excused
  <2>5. QED
    BY <1>f, <1>21, <2>2, <2>3, <2>4, NoCost DEF Separate
<1>22. CASE Tick \/ UNCHANGED vars
  BY <1>21, <1>22 DEF Tick, vars
<1>23. QED
  BY <1>1, <1>2, <1>3, <1>4, <1>5, <1>6, <1>7, <1>8, <1>9, <1>10, <1>11, <1>12, <1>13,
     <1>14, <1>15, <1>16, <1>17, <1>18, <1>19, <1>20, <1>22
     DEF Next, Request, UploadStep, OpenStep, RemoveStep, PurgeStep

(* The initial rows have files of their own. *)
LEMMA InitSeparate ==
  ASSUME OwnFiles, Init
  PROVE  (\E home : Separate(home)) /\ Parted = {}
<1>1. PICK owner \in [Stored -> Stored], bucketOf \in [Stored -> Buckets],
           hashOf \in [Stored -> Contents], expOf \in [Stored -> Dates \cup {None}] :
        Populated(owner, bucketOf, hashOf, expOf)
  BY DEF Init
<1> DEFINE home == [i \in Ids |-> IF i \in Stored THEN bucketOf[i] ELSE None]
<1>2. \A i \in Stored : owner[i] = i /\ i \in Ids /\ hashOf[i] # None
  BY <1>1, StoredAssumption, NoneAssumption DEF Populated, OwnFiles
<1>3. ASSUME NEW i \in Ids
      PROVE  /\ i \in Stored => rows[i] # None /\ rows[i].path = OwnPath(home[i], i)
             /\ i \notin Stored => rows[i] = None
  <2>1. CASE i \in Stored
    <3> DEFINE row == [bucket |-> bucketOf[i],
                       path |-> OwnPath(bucketOf[owner[i]], owner[i]),
                       hash |-> hashOf[i], exp |-> expOf[i],
                       count |-> 0, created |-> 0]
    <3>1. rows[i] = row
      BY <1>1, <2>1 DEF Populated
    <3>2. rows[i] \in Row \cup {None}
      BY InitType DEF TypeOK
    <3>3. row.path = OwnPath(home[i], i)
      BY <1>2, <2>1
    <3>4. OwnPath(bucketOf[owner[i]], owner[i]) \in Paths
      BY <2>1, StoredAssumption DEF OwnPath, Paths
    <3>5. expOf[i] \in Times \cup {None} /\ 0 \in Times
      <4>1. expOf[i] \in Times \cup {None}
        BY <2>1, BoundsAssumption
      <4>2. 0 \in Times
        BY BoundsAssumption DEF Times
      <4>3. QED
        BY <4>1, <4>2
    <3> HIDE DEF row
    <3>6. row \in Row
      BY <2>1, <3>4, <3>5 DEF row, Row
    <3>7. QED
      BY <2>1, <3>1, <3>3, <3>6, NoneAssumption
  <2>2. CASE i \notin Stored
    BY <1>1, <2>2 DEF Populated
  <2>3. QED
    BY <2>1, <2>2
<1>4. ASSUME NEW f \in Paths
      PROVE  files[f] # None <=> f.key \in Stored /\ f = OwnPath(home[f.key], f.key)
  BY <1>1, <1>2 DEF Populated, OwnPath, Paths
<1>5. \A i \in Ids : Filed(i) <=> i \in Stored
  <2>1. ASSUME NEW i \in Stored PROVE Filed(i)
    <3>1. OwnPath(home[i], i) \in Paths /\ OwnPath(home[i], i).key = i
      BY <1>2 DEF OwnPath, Paths
    <3>2. QED
      BY <1>4, <3>1 DEF Filed
  <2>2. QED
    BY <1>4, <2>1 DEF Filed
<1>6. home \in [Ids -> Buckets \cup {None}]
  OBVIOUS
<1> HIDE DEF home
<1>7. /\ \A p \in Procs : pc[p] = "idle"
      /\ \A w \in Workers, i \in Ids : expired[w][i] = None
  BY DEF Init
<1>8. Homes(home)
  BY <1>3, <1>4, <1>6, <1>7 DEF Homes, LiveIds, HoldsBlob
<1>9. \A p \in Procs : Alone(p) /\ InOrder(p)
  BY <1>7 DEF Alone, InOrder
<1>10. Parted = {}
  BY <1>3, <1>5 DEF Parted
<1>11. QED
  BY <1>8, <1>9, <1>10 DEF Separate

(* Without deduplication and edits, each blob whose row and file have parted *)
(* takes a call that was interrupted: for any number of concurrent uploads, *)
(* deletes and purge tasks, and any crashes.                                *)
THEOREM DamageIsBounded == ASSUME OwnFiles PROVE Spec => []DamageBounded
<1> DEFINE Settled == \E home : Separate(home)
           Paid == IsFiniteSet(Parted) /\ Cardinality(Parted) <= faults
<1>1. Init => Settled /\ Paid
  BY InitSeparate, FS_EmptySet DEF Init
<1>2. TypeOK /\ TypeOK' /\ Consistent /\ Settled /\ [Next]_vars => Settled'
  BY NextSeparate
<1>3. TypeOK /\ TypeOK' /\ Consistent /\ Settled /\ Paid /\ [Next]_vars => Paid'
  <2> SUFFICES ASSUME TypeOK, TypeOK', Consistent, Settled, Paid, [Next]_vars PROVE Paid'
    OBVIOUS
  <2>1. PICK X : /\ IsFiniteSet(X) /\ Parted' \subseteq Parted \cup X
                 /\ faults + Cardinality(X) <= faults'
    <3>1. Costs
      BY NextSeparate
    <3>2. QED
      BY <3>1 DEF Costs
  <2>2. /\ IsFiniteSet(Parted \cup X)
        /\ Cardinality(Parted \cup X) <= Cardinality(Parted) + Cardinality(X)
    BY <2>1, UnionSize
  <2>3. IsFiniteSet(Parted') /\ Cardinality(Parted') <= Cardinality(Parted \cup X)
    BY <2>1, <2>2, FS_Subset
  <2>4. /\ Cardinality(Parted') \in Nat /\ Cardinality(Parted \cup X) \in Nat
        /\ Cardinality(Parted) \in Nat /\ Cardinality(X) \in Nat
    BY <2>1, <2>2, <2>3, FS_CardinalityType
  <2>5. Cardinality(Parted') <= faults'
    BY <2>1, <2>2, <2>3, <2>4 DEF TypeOK
  <2>6. QED
    BY <2>3, <2>5
<1>4. TypeOK /\ Settled /\ Paid => DamageBounded
  <2> SUFFICES ASSUME TypeOK, NEW home, Separate(home), Paid PROVE DamageBounded
    OBVIOUS
  <2> DEFINE Keys == {f.key : f \in Orphans}
             key == [f \in Orphans |-> f.key]
  <2>1. ASSUME NEW f \in Orphans
        PROVE  f.key \in Parted /\ f.key \notin Dangling /\ f = OwnPath(home[f.key], f.key)
    <3>1. /\ f \in Paths /\ files[f] # None /\ FindByPath(f) = {} /\ f.key \in Ids
          /\ f = OwnPath(home[f.key], f.key)
      BY DEF Orphans, Paths, Separate, Homes
    <3>2. rows[f.key] = None
      BY <3>1 DEF FindByPath, LiveIds, Separate, Homes
    <3>3. Filed(f.key)
      BY <3>1 DEF Filed
    <3>4. ASSUME NEW p \in Procs, pc[p] = "create", target[p] = f.key PROVE FALSE
      <4>1. p \in Handlers
        BY <3>4 DEF TypeOK, ControlOK, HandlerCalls
      <4>2. blob[p].path = f
        BY <3>1, <3>4 DEF Separate, Homes, HoldsBlob
      <4>3. QED
        BY <3>4, <4>1, <4>2 DEF Orphans
    <3>5. ~Excused(f.key)
      BY <3>3, <3>4 DEF Excused, Separate, InOrder
    <3>6. QED
      BY <3>1, <3>2, <3>3, <3>5 DEF Parted, Dangling, LiveIds
  <2>2. ASSUME NEW i \in Dangling PROVE i \in Parted
    <3>1. /\ i \in Ids /\ rows[i] # None /\ rows[i].path = OwnPath(home[i], i)
          /\ rows[i].path \in Paths /\ files[rows[i].path] = None
          /\ ~\E p \in Procs : pc[p] = "droprow" /\ target[p] = i
      BY DEF Dangling, LiveIds, Separate, Homes, TypeOK, Row
    <3>2. ~Filed(i)
      BY <3>1 DEF Filed, Separate, Homes
    <3>3. ~Excused(i)
      BY <3>1 DEF Excused, Separate, Alone
    <3>4. QED
      BY <3>1, <3>2, <3>3 DEF Parted
  <2>3. Keys \subseteq Parted /\ Dangling \subseteq Parted /\ Keys \cap Dangling = {}
    BY <2>1, <2>2
  <2>4. key \in Injection(Orphans, Keys)
    <3>1. key \in [Orphans -> Keys]
      OBVIOUS
    <3>2. ASSUME NEW f \in Orphans, NEW g \in Orphans, key[f] = key[g] PROVE f = g
      BY <2>1, <3>2
    <3>3. QED
      BY <3>1, <3>2 DEF Injection, IsInjective
  <2>5. IsFiniteSet(Keys) /\ IsFiniteSet(Dangling)
    BY <2>3, FS_Subset
  <2>6. IsFiniteSet(Orphans) /\ Cardinality(Orphans) <= Cardinality(Keys)
    BY <2>4, <2>5, FS_Injection
  <2>7. IsFiniteSet(Keys \cup Dangling)
        /\ Cardinality(Keys \cup Dangling) = Cardinality(Keys) + Cardinality(Dangling)
    BY <2>3, <2>5, UnionSize
  <2>8. Cardinality(Keys \cup Dangling) <= Cardinality(Parted)
    BY <2>3, FS_Subset
  <2>9. /\ Cardinality(Keys) \in Nat /\ Cardinality(Dangling) \in Nat
        /\ Cardinality(Orphans) \in Nat /\ Cardinality(Parted) \in Nat
    BY <2>5, <2>6, FS_CardinalityType
  <2>10. Cardinality(Dangling) + Cardinality(Orphans) <= faults
    BY <2>6, <2>7, <2>8, <2>9 DEF TypeOK
  <2>11. QED
    BY <2>10 DEF DamageBounded
<1>5. Spec => []Settled
  BY <1>1, <1>2, TypeCorrect, ConsistentAlways, PTL DEF Spec
<1>6. Spec => []Paid
  BY <1>1, <1>3, <1>5, TypeCorrect, ConsistentAlways, PTL DEF Spec
<1>7. QED
  BY <1>4, <1>5, <1>6, TypeCorrect, PTL

=============================================================================
