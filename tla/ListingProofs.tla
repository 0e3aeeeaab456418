----------------------------- MODULE ListingProofs -----------------------------
(* How far a walk through the pages of GET /blob can go wrong, for every    *)
(* table, page size and walk: theorems about Listing, as MCComponents runs  *)
(* it beside the other components.                                          *)
EXTENDS MCComponents, FiniteSetTheorems, TLAPS

-----------------------------------------------------------------------------
(* Places in a finite set of numbers. *)

(* The place of i in S, the largest first. *)
Rank(S, i) == Cardinality({j \in S : j >= i})

(* Places count from 1. *)
LEMMA RankRange ==
  ASSUME NEW S \in SUBSET Nat, IsFiniteSet(S), NEW i \in S
  PROVE  Rank(S, i) \in 1..Cardinality(S)
<1> DEFINE Top == {j \in S : j >= i}
<1>1. IsFiniteSet(Top) /\ Cardinality(Top) <= Cardinality(S) /\ Cardinality(S) \in Nat
  BY FS_Subset, FS_CardinalityType
<1>2. Cardinality(Top) \in Nat
  BY <1>1, FS_CardinalityType
<1>3. i \in Top
  OBVIOUS
<1>4. Cardinality(Top) # 0
  BY <1>1, <1>3, FS_EmptySet
<1>5. QED
  BY <1>1, <1>2, <1>4 DEF Rank

(* A larger row comes first. *)
LEMMA RankFalls ==
  ASSUME NEW S \in SUBSET Nat, IsFiniteSet(S), NEW i \in S, NEW k \in S, i < k
  PROVE  Rank(S, k) < Rank(S, i)
<1> DEFINE Top(n) == {j \in S : j >= n}
<1>1. IsFiniteSet(Top(i)) /\ i \in Top(i)
  BY FS_Subset
<1>2. IsFiniteSet(Top(i) \ {i}) /\ Cardinality(Top(i) \ {i}) = Cardinality(Top(i)) - 1
  BY <1>1, FS_RemoveElement
<1>3. Top(k) \subseteq Top(i) \ {i}
  <2>1. \A j \in S : j >= k => j >= i /\ j # i
    OBVIOUS
  <2>2. QED
    BY <2>1
<1>4. Cardinality(Top(k)) <= Cardinality(Top(i) \ {i})
  BY <1>2, <1>3, FS_Subset
<1>5. Rank(S, k) \in Nat /\ Rank(S, i) \in Nat
  BY RankRange
<1>6. QED
  BY <1>2, <1>4, <1>5 DEF Rank

(* No two rows have one place. *)
LEMMA RankInjective ==
  ASSUME NEW S \in SUBSET Nat, IsFiniteSet(S), NEW i \in S, NEW k \in S, Rank(S, i) = Rank(S, k)
  PROVE  i = k
<1>1. Rank(S, i) \in Nat
  BY RankRange
<1>2. CASE i < k
  BY <1>1, <1>2, RankFalls
<1>3. CASE k < i
  BY <1>1, <1>3, RankFalls
<1>4. QED
  BY <1>2, <1>3

(* Every place has its row: pages have no holes. *)
LEMMA RanksFill ==
  ASSUME NEW S \in SUBSET Nat, IsFiniteSet(S), NEW n \in 1..Cardinality(S)
  PROVE  \E i \in S : Rank(S, i) = n
<1> DEFINE m == Cardinality(S)
           f == [i \in S |-> Rank(S, i)]
<1>1. m \in Nat /\ IsFiniteSet(1..m) /\ Cardinality(1..m) = m
  <2>1. m \in Nat
    BY FS_CardinalityType
  <2>2. IsFiniteSet(1..m) /\ Cardinality(1..m) = IF 1 > m THEN 0 ELSE m - 1 + 1
    BY <2>1, FS_Interval
  <2>3. QED
    BY <2>1, <2>2
<1>2. f \in [S -> 1..m]
  BY RankRange
<1>3. \A i, k \in S : f[i] = f[k] => i = k
  BY RankInjective
<1>4. f \in Injection(S, 1..m)
  BY <1>2, <1>3 DEF Injection, IsInjective
<1>5. f \in Surjection(S, 1..m)
  BY <1>1, <1>4, FS_Injection
<1>6. QED
  BY <1>5 DEF Surjection

(* After n places there are no more rows than are left. *)
LEMMA RanksAfter ==
  ASSUME NEW S \in SUBSET Nat, IsFiniteSet(S), NEW n \in Nat
  PROVE  LET Rest == {i \in S : Rank(S, i) > n}
         IN  /\ IsFiniteSet(Rest) /\ Cardinality(Rest) \in Nat
             /\ Cardinality(Rest) <= IF Cardinality(S) > n THEN Cardinality(S) - n ELSE 0
<1> DEFINE m == Cardinality(S)
           Rest == {i \in S : Rank(S, i) > n}
           f == [i \in Rest |-> Rank(S, i)]
<1>1. m \in Nat /\ n + 1 \in Nat /\ IsFiniteSet((n+1)..m)
      /\ Cardinality((n+1)..m) = IF m > n THEN m - n ELSE 0
  <2>1. m \in Nat
    BY FS_CardinalityType
  <2>2. n + 1 \in Int /\ m \in Int
    BY <2>1
  <2>3. /\ IsFiniteSet((n+1)..m)
        /\ Cardinality((n+1)..m) = IF n + 1 > m THEN 0 ELSE m - (n + 1) + 1
    BY ONLY <2>2, FS_Interval
  <2>4. QED
    BY <2>1, <2>3
<1>2. f \in [Rest -> (n+1)..m]
  <2>1. \A i \in Rest : Rank(S, i) \in 1..m
    BY RankRange
  <2>2. \A i \in Rest : Rank(S, i) \in (n+1)..m
    BY <1>1, <2>1
  <2>3. QED
    BY <2>2
<1>3. \A i, k \in Rest : f[i] = f[k] => i = k
  BY RankInjective
<1>4. f \in Injection(Rest, (n+1)..m)
  BY <1>2, <1>3 DEF Injection, IsInjective
<1>5. IsFiniteSet(Rest) /\ Cardinality(Rest) <= Cardinality((n+1)..m)
  BY ONLY <1>1, <1>4, FS_Injection
<1>6. Cardinality(Rest) \in Nat
  BY <1>5, FS_CardinalityType
<1>7. QED
  BY <1>1, <1>5, <1>6

(* A row that enters moves those behind it by one place. *)
LEMMA RankGrows ==
  ASSUME NEW S \in SUBSET Nat, IsFiniteSet(S), NEW x \in Nat, x \notin S, NEW i \in S
  PROVE  Rank(S \cup {x}, i) = IF x >= i THEN Rank(S, i) + 1 ELSE Rank(S, i)
<1> DEFINE Top == {j \in S : j >= i}
           Grown == {j \in S \cup {x} : j >= i}
<1>1. IsFiniteSet(Top) /\ x \notin Top
  BY FS_Subset
<1>2. Cardinality(Top \cup {x}) = Cardinality(Top) + 1
  BY <1>1, FS_AddElement
<1>3. Grown = IF x >= i THEN Top \cup {x} ELSE Top
  OBVIOUS
<1>4. QED
  BY <1>2, <1>3 DEF Rank

(* A row that enters moves one row past any place: itself or another. *)
LEMMA EnterShifts ==
  ASSUME NEW S \in SUBSET Nat, IsFiniteSet(S), NEW x \in Nat, x \notin S, NEW n \in Nat
  PROVE  \E y : \A j \in S \cup {x} :
           Rank(S \cup {x}, j) > n => j = y \/ (j \in S /\ Rank(S, j) > n)
<1> DEFINE T == S \cup {x}
<1>1. IsFiniteSet(T) /\ T \in SUBSET Nat
  BY FS_AddElement
<1>2. \A j \in T : Rank(T, j) \in Nat
  BY <1>1, RankRange
<1>3. \A j \in S : Rank(S, j) \in Nat
  BY RankRange
<1>4. CASE \E j \in S : Rank(S, j) = n /\ j < x
  <2>1. PICK y \in S : Rank(S, y) = n /\ y < x
    BY <1>4
  <2>2. Rank(T, y) = n + 1
    BY <2>1, RankGrows
  <2>3. Rank(T, x) <= n
    <3>1. Rank(T, x) < Rank(T, y)
      BY <1>1, <2>1, RankFalls
    <3>2. QED
      BY <1>2, <2>2, <3>1
  <2>4. ASSUME NEW j \in S, Rank(T, j) > n PROVE j = y \/ Rank(S, j) > n
    <3>1. Rank(T, j) = Rank(S, j) \/ Rank(T, j) = Rank(S, j) + 1
      BY RankGrows
    <3>2. Rank(S, j) > n \/ Rank(S, j) = n
      BY <1>3, <2>4, <3>1
    <3>3. QED
      BY <2>1, <3>2, RankInjective
  <2>5. QED
    BY <1>2, <2>3, <2>4
<1>5. CASE ~ \E j \in S : Rank(S, j) = n /\ j < x
  <2>1. ASSUME NEW j \in S, Rank(T, j) > n PROVE Rank(S, j) > n
    <3>1. Rank(T, j) = IF x >= j THEN Rank(S, j) + 1 ELSE Rank(S, j)
      BY RankGrows
    <3>2. x # j
      OBVIOUS
    <3>3. QED
      BY <1>3, <1>5, <2>1, <3>1, <3>2
  <2>2. QED
    BY <2>1
<1>6. QED
  BY <1>4, <1>5

(* A row that leaves lets one row slip before any place. *)
LEMMA LeaveShifts ==
  ASSUME NEW S \in SUBSET Nat, IsFiniteSet(S), NEW x \in S, NEW n \in Nat
  PROVE  /\ \A j \in S \ {x} : Rank(S \ {x}, j) <= Rank(S, j)
         /\ \E y : \A j \in S \ {x} : Rank(S \ {x}, j) <= n => j = y \/ Rank(S, j) <= n
<1> DEFINE T == S \ {x}
<1>1. IsFiniteSet(T) /\ T \in SUBSET Nat /\ x \notin T /\ T \cup {x} = S /\ x \in Nat
  BY FS_Subset
<1>2. ASSUME NEW j \in T PROVE Rank(S, j) = IF x >= j THEN Rank(T, j) + 1 ELSE Rank(T, j)
  <2>1. Rank(T \cup {x}, j) = IF x >= j THEN Rank(T, j) + 1 ELSE Rank(T, j)
    BY <1>1, RankGrows
  <2>2. QED
    BY <1>1, <2>1
<1>3. \A j \in T : Rank(T, j) \in Nat
  BY <1>1, RankRange
<1>4. \A j \in T : Rank(T, j) <= Rank(S, j)
  BY <1>2, <1>3
<1>5. \A j \in T : Rank(T, j) <= n => Rank(S, j) = n + 1 \/ Rank(S, j) <= n
  BY <1>2, <1>3
<1>6. \E y : \A j \in T : Rank(S, j) = n + 1 => j = y
  <2>1. CASE \E j \in T : Rank(S, j) = n + 1
    BY <2>1, RankInjective
  <2>2. CASE ~ \E j \in T : Rank(S, j) = n + 1
    BY <2>2
  <2>3. QED
    BY <2>1, <2>2
<1>7. QED
  BY <1>4, <1>5, <1>6
-----------------------------------------------------------------------------
(* The walk. *)

ListingTypes ==
    /\ created \in 0..MaxRows /\ matching \subseteq 1..created
    /\ asked \in AskedSizes /\ rule \in Rules
    /\ page \in 1..Pages!MaxPages /\ rowTotal \in 0..MaxRows
    /\ walkPc \in {"idle", "count", "rows", "done"}
    /\ received \subseteq Pages!Ids /\ stayed \subseteq matching
    /\ entered \in 0..RowChanges /\ left \in 0..RowChanges /\ repeated \in Nat

(* How many places the pages before this one have. *)
Passed == (page - 1) * Pages!Limit

(* Received rows that were moved behind them, and stayed rows that slipped  *)
(* before them unseen.                                                      *)
Beyond == {i \in matching : i \in received /\ Rank(matching, i) > Passed}
Slipped == {i \in matching : i \in stayed \ received /\ Rank(matching, i) <= Passed}

Walking ==
    /\ walkPc = "idle" => page = 1 /\ received = {} /\ stayed = {}
    /\ walkPc # "done" => /\ Cardinality(Beyond) + repeated <= entered
                          /\ Cardinality(Slipped) <= left
    /\ walkPc = "rows" => Cardinality(matching) <= rowTotal + entered
    /\ RepeatsBounded /\ MissesBounded

(* The instance counts as the library does. *)
LEMMA ListingCounting == \A S : Pages!Cardinality(S) = Cardinality(S)
BY DEF Pages!Cardinality, Cardinality

(* A page has a row at least. *)
LEMMA PageSizes ==
  ASSUME asked \in AskedSizes
  PROVE  /\ Pages!Limit \in Nat \ {0} /\ Pages!PageSize \in Nat \ {0}
         /\ Pages!PageSize <= MaxPageSize => Pages!Limit = Pages!PageSize
<1>1. asked \in Nat /\ MaxPageSize \in Nat \ {0} /\ DefaultPageSize \in 1..MaxPageSize
  BY ComponentsAssumption DEF ComponentsAssumption, Pages!ListingAssumption
<1>2. QED
  BY <1>1 DEF Pages!Limit, Pages!PageSize

(* The bounds of the model. *)
LEMMA ListingBounds == MaxRows \in Nat /\ RowChanges \in Nat
BY ComponentsAssumption DEF ComponentsAssumption, Pages!ListingAssumption

(* The listing is finite, and so is what is counted of it. *)
LEMMA ListingFinite ==
  ASSUME ListingTypes
  PROVE  /\ IsFiniteSet(matching) /\ matching \in SUBSET Nat
         /\ Cardinality(matching) \in 0..MaxRows
         /\ IsFiniteSet(Beyond) /\ Cardinality(Beyond) \in Nat
         /\ IsFiniteSet(Slipped) /\ Cardinality(Slipped) \in Nat
         /\ Passed \in Nat
<1>0. created \in 0..MaxRows /\ MaxRows \in Nat /\ matching \subseteq 1..created
  BY ListingBounds DEF ListingTypes
<1>1. IsFiniteSet(1..created) /\ Cardinality(1..created) = created
  <2>1. 1 \in Int /\ created \in Int
    BY <1>0
  <2>2. IsFiniteSet(1..created)
    BY ONLY <2>1, FS_Interval
  <2>3. Cardinality(1..created) = IF 1 > created THEN 0 ELSE created - 1 + 1
    BY ONLY <2>1, FS_Interval
  <2>4. QED
    BY <1>0, <2>2, <2>3
<1>2. IsFiniteSet(matching) /\ Cardinality(matching) \in 0..MaxRows
  <2>1. IsFiniteSet(matching) /\ Cardinality(matching) <= created
    BY <1>0, <1>1, FS_Subset
  <2>2. QED
    BY <1>0, <2>1, FS_CardinalityType
<1>3. matching \in SUBSET Nat
  BY <1>0
<1>4. IsFiniteSet(Beyond) /\ IsFiniteSet(Slipped)
  BY <1>2, FS_Subset DEF Beyond, Slipped
<1>5. Passed \in Nat
  <2>1. page - 1 \in Nat /\ Pages!Limit \in Nat
    BY PageSizes DEF ListingTypes
  <2>2. QED
    BY <2>1 DEF Passed
<1>6. QED
  BY <1>2, <1>3, <1>4, <1>5, FS_CardinalityType

(* Nobody walks at first. *)
LEMMA ListingInit == Init => ListingTypes /\ Walking
<1> SUFFICES ASSUME Init PROVE ListingTypes /\ Walking
  OBVIOUS
<1>1. /\ created = 0 /\ matching = {} /\ asked \in AskedSizes /\ rule \in Rules
      /\ page = 1 /\ rowTotal = 0 /\ walkPc = "idle"
      /\ received = {} /\ stayed = {} /\ entered = 0 /\ left = 0 /\ repeated = 0
  BY DEF Init, Pages!Init
<1>2. ListingTypes
  BY <1>1, ListingBounds DEF ListingTypes, Pages!MaxPages
<1>3. Beyond = {} /\ Slipped = {}
  BY <1>1 DEF Beyond, Slipped
<1>4. Walking
  BY <1>1, <1>3, FS_EmptySet
     DEF Walking, RepeatsBounded, Pages!RepeatsBounded, MissesBounded, Pages!MissesBounded
<1>5. QED
  BY <1>2, <1>4

(* What Find returns are the rows of the places after those passed. *)
LEMMA RowsOfPage ==
  Pages!Rows(page) =
    {i \in matching : Rank(matching, i) \in (Passed + 1)..(Passed + Pages!Limit)}
<1>1. \A i : Pages!Place(i) = Rank(matching, i)
  BY ListingCounting DEF Pages!Place, Rank
<1>2. QED
  BY <1>1 DEF Pages!Rows, Pages!Offset, Passed

(* A client asks for another page only after a page with rows, or when the  *)
(* count makes more pages: never for more than one page per row, and one.   *)
LEMMA AnotherPage ==
  ASSUME ListingTypes, ~Pages!LastPage
  PROVE  page <= MaxRows
<1>1. page \in Nat \ {0} /\ MaxRows \in Nat /\ rowTotal \in 0..MaxRows
  BY ListingBounds DEF ListingTypes, Pages!MaxPages
<1>2. CASE rule = "empty"
  <2>1. PICK i \in matching : Rank(matching, i) \in (Passed + 1)..(Passed + Pages!Limit)
    BY <1>2, RowsOfPage DEF Pages!LastPage
  <2>2. Rank(matching, i) \in 1..Cardinality(matching)
    BY <2>1, ListingFinite, RankRange
  <2>3. Passed + 1 <= MaxRows /\ Passed \in Nat
    BY <2>1, <2>2, ListingFinite, <1>1
  <2>4. Pages!Limit \in Nat \ {0}
    BY PageSizes DEF ListingTypes
  <2>5. page - 1 \in Nat
    BY <1>1
  <2>6. (page - 1) * Pages!Limit >= page - 1
    <3>1. \A m \in Nat, n \in Nat \ {0} : m * n >= m
      OBVIOUS
    <3>2. QED
      BY <2>4, <2>5, <3>1
  <2>7. QED
    BY <1>1, <2>3, <2>6 DEF Passed
<1>3. CASE rule # "empty"
  <2>1. page < Pages!Pages
    <3>1. Pages!Pages \in Int
      <4>1. Pages!PageSize \in Nat \ {0}
        BY PageSizes DEF ListingTypes
      <4>2. QED
        BY <1>1, <4>1 DEF Pages!Pages
    <3>2. QED
      BY <1>1, <1>3, <3>1 DEF Pages!LastPage
  <2>2. rowTotal # 0
    BY <1>1, <2>1 DEF Pages!Pages
  <2>3. Pages!PageSize \in Nat \ {0}
    BY PageSizes DEF ListingTypes
  <2>4. \A t \in Nat \ {0}, n \in Nat \ {0} : (t + n - 1) \div n <= t
    <3> SUFFICES ASSUME NEW t \in Nat \ {0}, NEW n \in Nat \ {0}
                 PROVE  (t + n - 1) \div n <= t
      OBVIOUS
    <3>1. (t + n - 1) \div n \in Int /\ n * ((t + n - 1) \div n) <= t + n - 1
      OBVIOUS
    <3>2. n * (t + 1) > t + n - 1
      <4>1. n * (t + 1) = n * t + n /\ n * t >= t
        OBVIOUS
      <4>2. QED
        BY <4>1
    <3>3. \A q \in Int : q >= t + 1 => n * q >= n * (t + 1)
      OBVIOUS
    <3>4. QED
      BY <3>1, <3>2, <3>3
  <2>5. Pages!Pages <= rowTotal
    BY <1>1, <2>2, <2>3, <2>4 DEF Pages!Pages
  <2>6. Pages!Pages \in Int
    BY <1>1, <2>2, <2>3 DEF Pages!Pages
  <2>7. QED
    BY <1>1, <2>1, <2>5, <2>6
<1>4. QED
  BY <1>2, <1>3

(* Types are kept, one step of the proof per action. *)
LEMMA ListingTypesKept == ListingTypes /\ [Next]_vars => ListingTypes'
<1> SUFFICES ASSUME ListingTypes, [Next]_vars PROVE ListingTypes'
  OBVIOUS
<1> USE DEF ListingTypes, Pages!client
<1>1. CASE Pages!Begin
  BY <1>1 DEF Pages!Begin
<1>2. CASE Pages!Count
  BY <1>2, ListingFinite, ListingCounting DEF Pages!Count
<1>3. CASE Pages!Find
  <2>1. /\ received' = received \cup Pages!Rows(page) /\ Pages!Rows(page) \subseteq matching
        /\ repeated' = repeated + Pages!Cardinality(Pages!Rows(page) \cap received)
        /\ walkPc' \in {"done", "count"} /\ page' \in {page, page + 1}
        /\ UNCHANGED <<created, matching, asked, rule, rowTotal, stayed, entered, left>>
    BY <1>3 DEF Pages!Find, Pages!Rows
  <2>2. Cardinality(Pages!Rows(page) \cap received) \in Nat
    BY <2>1, ListingFinite, FS_Subset, FS_CardinalityType
  <2>3. repeated' \in Nat
    BY <2>1, <2>2, ListingCounting
  <2>4. page' \in 1..Pages!MaxPages
    BY <1>3, AnotherPage, ListingBounds DEF Pages!Find, Pages!MaxPages
  <2>5. received' \subseteq Pages!Ids
    <3>1. matching \subseteq Pages!Ids
      BY ListingBounds DEF Pages!Ids
    <3>2. QED
      BY <2>1, <3>1
  <2>6. QED
    BY <2>1, <2>3, <2>4, <2>5
<1>a. ASSUME NEW i, Pages!Enters(i) PROVE entered' \in 0..RowChanges
  BY <1>a, ListingBounds DEF Pages!Enters
<1>4. CASE Pages!Upload
  <2>1. /\ created' = created + 1 /\ created < MaxRows /\ matching' = matching \cup {created + 1}
        /\ UNCHANGED <<Pages!client, stayed, left>> /\ Pages!Enters(created + 1)
    BY <1>4 DEF Pages!Upload, Pages!Enters
  <2>2. created' \in 0..MaxRows /\ matching' \subseteq 1..created'
    BY <2>1, ListingBounds
  <2>3. QED
    BY <1>a, <2>1, <2>2
<1>5. ASSUME NEW i \in Pages!Ids, Pages!Leave(i) PROVE ListingTypes'
  <2>1. left' \in 0..RowChanges
    BY <1>5, ListingBounds DEF Pages!Leave
  <2>2. QED
    BY <1>5, <2>1 DEF Pages!Leave
<1>6. ASSUME NEW i \in Pages!Ids, Pages!Return(i) PROVE ListingTypes'
  <2>1. /\ i \in 1..created /\ matching' = matching \cup {i} /\ Pages!Enters(i)
        /\ UNCHANGED <<created, Pages!client, stayed, left>>
    BY <1>6 DEF Pages!Return, Pages!Enters
  <2>2. QED
    BY <1>a, <2>1
<1>7. CASE UNCHANGED P \/ Pages!Done
  BY <1>7 DEF P, Pages!Done, Pages!vars
<1>8. QED
  BY <1>1, <1>2, <1>3, <1>4, <1>5, <1>6, <1>7 DEF Next, vars, Pages!Next

(* A row enters: one row at most is moved behind the pages passed.          *)
LEMMA EnterKeeps ==
  ASSUME ListingTypes, ListingTypes', Walking, walkPc # "done", NEW i \in Nat \ matching,
         matching' = matching \cup {i},
         entered' = IF Pages!InWalk THEN entered + 1 ELSE entered,
         UNCHANGED <<Pages!client, stayed, left>>
  PROVE  Walking'
<1>1. UNCHANGED <<asked, rule, page, rowTotal, walkPc, received, repeated, stayed, left>>
  BY DEF Pages!client
<1>2. /\ IsFiniteSet(matching) /\ matching \in SUBSET Nat /\ Cardinality(matching) \in Nat
      /\ IsFiniteSet(Beyond) /\ Cardinality(Beyond) \in Nat
      /\ IsFiniteSet(Slipped) /\ Cardinality(Slipped) \in Nat /\ Passed \in Nat
  BY ListingFinite
<1>3. Passed' = Passed
  BY <1>1 DEF Passed, Pages!Limit, Pages!PageSize
<1>4. /\ entered \in Nat /\ repeated \in Nat /\ left \in Nat /\ rowTotal \in Nat
      /\ stayed \subseteq matching
  BY DEF ListingTypes
<1>5. IsFiniteSet(Beyond') /\ Cardinality(Beyond') \in Nat /\ Cardinality(Beyond') <=
        IF walkPc = "idle" THEN 0 ELSE Cardinality(Beyond) + 1
  <2>1. CASE walkPc = "idle"
    <3>1. Beyond' = {}
      BY <1>1, <2>1 DEF Walking, Beyond
    <3>2. QED
      BY <2>1, <3>1, FS_EmptySet
  <2>2. CASE walkPc # "idle"
    <3>1. PICK y : \A j \in matching \cup {i} : Rank(matching \cup {i}, j) > Passed =>
                     j = y \/ (j \in matching /\ Rank(matching, j) > Passed)
      BY <1>2, EnterShifts
    <3>2. Beyond' \subseteq Beyond \cup {y}
      BY <1>1, <1>3, <3>1 DEF Beyond
    <3>3. /\ IsFiniteSet(Beyond \cup {y})
          /\ Cardinality(Beyond \cup {y}) =
               IF y \in Beyond THEN Cardinality(Beyond) ELSE Cardinality(Beyond) + 1
      BY ONLY <1>2, FS_AddElement
    <3>4. IsFiniteSet(Beyond') /\ Cardinality(Beyond') <= Cardinality(Beyond \cup {y})
      BY ONLY <3>2, <3>3, FS_Subset
    <3>5. Cardinality(Beyond') \in Nat
      BY <3>4, FS_CardinalityType
    <3>6. QED
      BY <1>2, <2>2, <3>3, <3>4, <3>5
  <2>3. QED
    BY <2>1, <2>2
<1>6. Slipped' \subseteq Slipped
  <2>1. \A j \in matching : Rank(matching, j) <= Rank(matching \cup {i}, j)
    <3>1. \A j \in matching : Rank(matching, j) \in Nat
      BY <1>2, RankRange
    <3>2. QED
      BY <1>2, <3>1, RankGrows
  <2>2. \A j \in matching : Rank(matching, j) \in Nat /\ Rank(matching \cup {i}, j) \in Nat
    <3>1. IsFiniteSet(matching \cup {i}) /\ matching \cup {i} \in SUBSET Nat
      BY <1>2, FS_AddElement
    <3>2. QED
      BY <1>2, <3>1, RankRange
  <2>3. ASSUME NEW j \in Slipped' PROVE j \in Slipped
    <3>1. j \in stayed \ received /\ Rank(matching', j) <= Passed
      BY <1>1, <1>3 DEF Slipped
    <3>2. j \in matching /\ Rank(matching \cup {i}, j) <= Passed
      BY <1>4, <3>1
    <3>3. Rank(matching, j) <= Passed
      BY <1>2, <2>1, <2>2, <3>2
    <3>4. QED
      BY <3>1, <3>2, <3>3 DEF Slipped
  <2>4. QED
    BY <2>3
<1>7. Cardinality(Slipped') <= Cardinality(Slipped) /\ IsFiniteSet(Slipped')
  BY <1>2, <1>6, FS_Subset
<1>8. Cardinality(Slipped') \in Nat
  BY <1>7, FS_CardinalityType
<1>9. Cardinality(matching') = Cardinality(matching) + 1
  BY <1>2, FS_AddElement
<1>10. Pages!InWalk <=> walkPc # "idle"
  BY DEF Pages!InWalk
<1>11. RepeatsBounded'
  BY <1>1, <1>4 DEF Walking, RepeatsBounded, Pages!RepeatsBounded
<1>12. MissesBounded'
  BY <1>1 DEF MissesBounded, Pages!MissesBounded
<1>13. walkPc' # "done" => /\ Cardinality(Beyond') + repeated' <= entered'
                           /\ Cardinality(Slipped') <= left'
  BY <1>1, <1>2, <1>4, <1>5, <1>7, <1>8, <1>10 DEF Walking, RepeatsBounded, Pages!RepeatsBounded
<1>14. walkPc' = "rows" => Cardinality(matching') <= rowTotal' + entered'
  BY <1>1, <1>2, <1>4, <1>9, <1>10 DEF Walking
<1>15. walkPc' = "idle" => page' = 1 /\ received' = {} /\ stayed' = {}
  BY <1>1 DEF Walking
<1>16. QED
  BY <1>11, <1>12, <1>13, <1>14, <1>15 DEF Walking

(* A row leaves: one row at most slips before the pages passed.             *)
LEMMA LeaveKeeps ==
  ASSUME ListingTypes, ListingTypes', Walking, NEW i, Pages!Leave(i)
  PROVE  Walking'
<1>1. /\ walkPc # "done" /\ i \in matching
      /\ matching' = matching \ {i} /\ stayed' = stayed \ {i}
      /\ left' = IF walkPc # "idle" THEN left + 1 ELSE left
      /\ UNCHANGED <<asked, rule, page, rowTotal, walkPc, received, repeated, entered>>
  BY DEF Pages!Leave, Pages!client, Pages!InWalk
<1>2. /\ IsFiniteSet(matching) /\ matching \in SUBSET Nat /\ Cardinality(matching) \in Nat
      /\ IsFiniteSet(Beyond) /\ Cardinality(Beyond) \in Nat
      /\ IsFiniteSet(Slipped) /\ Cardinality(Slipped) \in Nat /\ Passed \in Nat
  BY ListingFinite
<1>3. Passed' = Passed
  BY <1>1 DEF Passed, Pages!Limit, Pages!PageSize
<1>4. /\ entered \in Nat /\ repeated \in Nat /\ left \in Nat /\ rowTotal \in Nat
      /\ stayed \subseteq matching
  BY DEF ListingTypes
<1>5. /\ \A j \in matching \ {i} : Rank(matching \ {i}, j) <= Rank(matching, j)
      /\ \E y : \A j \in matching \ {i} :
           Rank(matching \ {i}, j) <= Passed => j = y \/ Rank(matching, j) <= Passed
  BY ONLY <1>1, <1>2, LeaveShifts
<1>6. Beyond' \subseteq Beyond
  <2>1. \A j \in matching \ {i} : Rank(matching, j) \in Nat /\ Rank(matching \ {i}, j) \in Nat
    <3>1. IsFiniteSet(matching \ {i}) /\ matching \ {i} \in SUBSET Nat
      BY <1>2, FS_Subset
    <3>2. QED
      BY <1>2, <3>1, RankRange
  <2>2. ASSUME NEW j \in Beyond' PROVE j \in Beyond
    <3>1. j \in matching \ {i} /\ j \in received /\ Rank(matching', j) > Passed
      BY <1>1, <1>3 DEF Beyond
    <3>2. Rank(matching \ {i}, j) > Passed
      BY <1>1, <3>1
    <3>3. Rank(matching, j) > Passed
      BY <1>2, <1>5, <2>1, <3>1, <3>2
    <3>4. QED
      BY <3>1, <3>3 DEF Beyond
  <2>3. QED
    BY <2>2
<1>7. /\ IsFiniteSet(Beyond') /\ Cardinality(Beyond') <= Cardinality(Beyond)
      /\ Cardinality(Beyond') \in Nat
  BY <1>2, <1>6, FS_Subset, FS_CardinalityType
<1>8. /\ IsFiniteSet(Slipped') /\ Cardinality(Slipped') \in Nat
      /\ Cardinality(Slipped') <= IF walkPc = "idle" THEN 0 ELSE Cardinality(Slipped) + 1
  <2>1. CASE walkPc = "idle"
    <3>1. Slipped' = {}
      BY <1>1, <2>1 DEF Walking, Slipped
    <3>2. QED
      BY <2>1, <3>1, FS_EmptySet
  <2>2. CASE walkPc # "idle"
    <3>1. PICK y : \A j \in matching \ {i} :
             Rank(matching \ {i}, j) <= Passed => j = y \/ Rank(matching, j) <= Passed
      BY <1>5
    <3>2. Slipped' \subseteq Slipped \cup {y}
      BY <1>1, <1>3, <3>1 DEF Slipped
    <3>3. /\ IsFiniteSet(Slipped \cup {y})
          /\ Cardinality(Slipped \cup {y}) =
               IF y \in Slipped THEN Cardinality(Slipped) ELSE Cardinality(Slipped) + 1
      BY ONLY <1>2, FS_AddElement
    <3>4. IsFiniteSet(Slipped') /\ Cardinality(Slipped') <= Cardinality(Slipped \cup {y})
      BY ONLY <3>2, <3>3, FS_Subset
    <3>5. Cardinality(Slipped') \in Nat
      BY <3>4, FS_CardinalityType
    <3>6. QED
      BY <1>2, <2>2, <3>3, <3>4, <3>5
  <2>3. QED
    BY <2>1, <2>2
<1>9. Cardinality(matching') = Cardinality(matching) - 1
  BY <1>1, <1>2, FS_RemoveElement
<1>10. RepeatsBounded'
  BY <1>1 DEF Walking, RepeatsBounded, Pages!RepeatsBounded
<1>11. MissesBounded'
  BY <1>1 DEF MissesBounded, Pages!MissesBounded
<1>12. walkPc' # "done" => /\ Cardinality(Beyond') + repeated' <= entered'
                           /\ Cardinality(Slipped') <= left'
  BY <1>1, <1>2, <1>4, <1>7, <1>8 DEF Walking
<1>13. walkPc' = "rows" => Cardinality(matching') <= rowTotal' + entered'
  BY <1>1, <1>2, <1>4, <1>9 DEF Walking
<1>14. walkPc' = "idle" => page' = 1 /\ received' = {} /\ stayed' = {}
  BY <1>1 DEF Walking
<1>15. QED
  BY <1>10, <1>11, <1>12, <1>13, <1>14 DEF Walking

(* A client that stops has missed what slipped before the pages it passed,  *)
(* and what its last page, or the count it trusted, left behind.            *)
LEMMA LastPageMisses ==
  ASSUME ListingTypes, Walking, walkPc = "rows", Pages!LastPage
  PROVE  LET missed == stayed \ (received \cup Pages!Rows(page))
         IN  CASE rule = "empty" -> Cardinality(missed) <= left
               [] rule = "pages" /\ Pages!PageSize <= MaxPageSize ->
                    Cardinality(missed) <= left + entered
               [] OTHER -> TRUE
<1> DEFINE missed == stayed \ (received \cup Pages!Rows(page))
           end == Passed + Pages!Limit
           Rest == {i \in matching : Rank(matching, i) > end}
<1>1. /\ IsFiniteSet(matching) /\ matching \in SUBSET Nat /\ Cardinality(matching) \in Nat
      /\ IsFiniteSet(Slipped) /\ Cardinality(Slipped) \in Nat /\ Passed \in Nat
  BY ListingFinite
<1>2. /\ entered \in Nat /\ left \in Nat /\ rowTotal \in Nat /\ page \in Nat \ {0}
      /\ stayed \subseteq matching /\ asked \in AskedSizes /\ rule \in Rules
  BY DEF ListingTypes
<1>3. Pages!Limit \in Nat \ {0} /\ Pages!PageSize \in Nat \ {0}
  BY <1>2, PageSizes
<1>4. \A i \in matching : Rank(matching, i) \in 1..Cardinality(matching)
  BY <1>1, RankRange
<1>5. Cardinality(Slipped) <= left /\ Cardinality(matching) <= rowTotal + entered
  BY DEF Walking
<1>6. missed \subseteq Slipped \cup Rest
  <2>1. ASSUME NEW i \in missed PROVE i \in Slipped \cup Rest
    <3>1. i \in matching /\ i \in stayed \ received
      BY <1>2
    <3>2. ~(Rank(matching, i) \in (Passed + 1)..end)
      BY <3>1, RowsOfPage
    <3>3. Rank(matching, i) <= Passed \/ Rank(matching, i) > end
      BY <1>1, <1>3, <1>4, <3>1, <3>2
    <3>4. QED
      BY <3>1, <3>3 DEF Slipped
  <2>2. QED
    BY <2>1
<1>7. CASE rule = "empty"
  <2>1. Pages!Rows(page) = {}
    BY <1>7 DEF Pages!LastPage
  <2>2. Rest = {}
    <3>1. SUFFICES ASSUME NEW i \in Rest PROVE FALSE
      OBVIOUS
    <3>2. Passed + 1 \in 1..Cardinality(matching)
      BY <1>1, <1>3, <1>4, <3>1
    <3>3. PICK j \in matching : Rank(matching, j) = Passed + 1
      BY <1>1, <3>2, RanksFill
    <3>4. Passed + 1 \in (Passed + 1)..end
      BY <1>1, <1>3
    <3>5. j \in Pages!Rows(page)
      BY <3>3, <3>4, RowsOfPage
    <3>6. QED
      BY <2>1, <3>5
  <2>3. Cardinality(missed) <= Cardinality(Slipped) /\ IsFiniteSet(missed)
    BY <1>1, <1>6, <2>2, FS_Subset
  <2>4. Cardinality(missed) \in Nat
    BY <2>3, FS_CardinalityType
  <2>5. Cardinality(missed) <= left
    BY <1>1, <1>2, <1>5, <2>3, <2>4
  <2>6. QED
    BY <1>7, <2>5
<1>8. CASE rule = "pages" /\ Pages!PageSize <= MaxPageSize
  <2>1. Pages!Limit = Pages!PageSize
    BY <1>2, <1>8, PageSizes
  <2>2. page >= Pages!Pages
    BY <1>8 DEF Pages!LastPage
  <2>3. rowTotal <= end
    <3>1. end = page * Pages!Limit
      BY <1>2, <1>3 DEF Passed
    <3>2. CASE rowTotal = 0
      BY <1>1, <1>3, <3>2
    <3>3. CASE rowTotal # 0
      <4> DEFINE size0 == Pages!PageSize
                 whole == (rowTotal + size0 - 1) \div size0
      <4>1. Pages!Pages = whole
        BY <3>3 DEF Pages!Pages
      <4>2. \A a \in Nat, b \in Nat \ {0} :
               /\ a \div b \in Nat /\ (a % b) \in 0..(b - 1)
               /\ a = b * (a \div b) + (a % b)
        OBVIOUS
      <4>3. rowTotal + size0 - 1 \in Nat
        BY <1>2, <1>3
      <4>4. whole \in Nat /\ rowTotal <= size0 * whole
        <5> DEFINE rest == (rowTotal + size0 - 1) % size0
        <5>1. /\ whole \in Nat /\ rest \in 0..(size0 - 1)
              /\ rowTotal + size0 - 1 = size0 * whole + rest
          BY <1>3, <4>2, <4>3
        <5>2. QED
          BY <1>2, <1>3, <5>1
      <4>5. \A a, b, c \in Nat : a >= b => c * b <= a * c
        OBVIOUS
      <4>6. size0 * whole <= page * size0
        BY <1>2, <1>3, <2>2, <4>1, <4>4, <4>5
      <4>7. QED
        BY <1>2, <1>3, <2>1, <3>1, <4>4, <4>6
    <3>4. QED
      BY <3>2, <3>3
  <2>4. /\ IsFiniteSet(Rest) /\ Cardinality(Rest) \in Nat
        /\ Cardinality(Rest) <=
             IF Cardinality(matching) > end THEN Cardinality(matching) - end ELSE 0
    <3>1. end \in Nat
      BY <1>1, <1>3
    <3>2. QED
      BY <1>1, <3>1, RanksAfter
  <2>5. Cardinality(Rest) <= entered
    BY <1>1, <1>2, <1>3, <1>5, <2>3, <2>4
  <2>6. /\ IsFiniteSet(Slipped \cup Rest)
        /\ Cardinality(Slipped \cup Rest) =
             Cardinality(Slipped) + Cardinality(Rest) - Cardinality(Slipped \cap Rest)
    BY ONLY <1>1, <2>4, FS_Union
  <2>7. Cardinality(Slipped \cap Rest) \in Nat
    BY <1>1, FS_Subset, FS_CardinalityType
  <2>8. IsFiniteSet(missed) /\ Cardinality(missed) <= Cardinality(Slipped \cup Rest)
    BY <1>6, <2>6, FS_Subset
  <2>9. Cardinality(missed) \in Nat
    BY <2>8, FS_CardinalityType
  <2>10. Cardinality(missed) <= left + entered
    BY <1>1, <1>2, <1>5, <2>4, <2>5, <2>6, <2>7, <2>8, <2>9
  <2>11. QED
    BY <1>8, <2>10
<1>9. QED
  BY <1>7, <1>8

(* A page is read: what is received again had been moved behind.            *)
LEMMA FindKeeps ==
  ASSUME ListingTypes, ListingTypes', Walking, Pages!Find
  PROVE  Walking'
<1> DEFINE Rows == Pages!Rows(page)
           again == Rows \cap received
<1>1. /\ walkPc = "rows" /\ received' = received \cup Rows
      /\ repeated' = repeated + Cardinality(again)
      /\ UNCHANGED <<matching, asked, rule, rowTotal, stayed, entered, left>>
      /\ \/ Pages!LastPage /\ walkPc' = "done" /\ page' = page
         \/ walkPc' = "count" /\ page' = page + 1
  BY ListingCounting DEF Pages!Find
<1>2. /\ IsFiniteSet(matching) /\ matching \in SUBSET Nat
      /\ IsFiniteSet(Beyond) /\ Cardinality(Beyond) \in Nat
      /\ IsFiniteSet(Slipped) /\ Cardinality(Slipped) \in Nat /\ Passed \in Nat
  BY ListingFinite
<1>3. /\ entered \in Nat /\ repeated \in Nat /\ left \in Nat /\ page \in Nat \ {0}
      /\ Pages!Limit \in Nat \ {0}
  BY PageSizes DEF ListingTypes
<1>4. \A i \in matching : Rank(matching, i) \in Nat
  BY <1>2, RankRange
<1>5. again \subseteq Beyond
  BY <1>2, <1>3, <1>4, RowsOfPage DEF Beyond
<1>6. /\ IsFiniteSet(Beyond \ again)
      /\ Cardinality(Beyond \ again) = Cardinality(Beyond) - Cardinality(Beyond \cap again)
      /\ Beyond \cap again = again
      /\ Cardinality(again) \in Nat /\ Cardinality(again) <= Cardinality(Beyond)
  BY <1>2, <1>5, FS_Difference, FS_Subset, FS_CardinalityType
<1>7. Cardinality(Beyond) + repeated <= entered /\ Cardinality(Slipped) <= left
  BY <1>1 DEF Walking
<1>8. RepeatsBounded'
  BY <1>1, <1>2, <1>3, <1>6, <1>7 DEF RepeatsBounded, Pages!RepeatsBounded
<1>9. CASE Pages!LastPage /\ walkPc' = "done" /\ page' = page
  <2>1. MissesBounded'
    <3>1. Pages!PageSize' = Pages!PageSize
      BY <1>1 DEF Pages!PageSize
    <3>2. \A S : Pages!Cardinality(S) = Cardinality(S)
      BY ListingCounting
    <3>3. Pages!Missed' = stayed \ (received \cup Rows)
      BY <1>1 DEF Pages!Missed
    <3>4. CASE rule = "empty"
      <4>1. Cardinality(stayed \ (received \cup Rows)) <= left
        BY <1>1, <1>9, <3>4, LastPageMisses
      <4>2. QED
        BY <1>1, <3>2, <3>3, <3>4, <4>1 DEF MissesBounded, Pages!MissesBounded
    <3>5. CASE rule = "pages" /\ Pages!PageSize <= MaxPageSize
      <4>1. Cardinality(stayed \ (received \cup Rows)) <= left + entered
        BY <1>1, <1>9, <3>5, LastPageMisses
      <4>2. QED
        BY <1>1, <3>1, <3>2, <3>3, <3>5, <4>1 DEF MissesBounded, Pages!MissesBounded
    <3>6. QED
      BY <1>1, <3>1, <3>4, <3>5 DEF MissesBounded, Pages!MissesBounded
  <2>2. QED
    BY <1>8, <1>9, <2>1 DEF Walking
<1>10. CASE walkPc' = "count" /\ page' = page + 1
  <2>1. Passed' = Passed + Pages!Limit
    <3>1. Pages!Limit' = Pages!Limit
      BY <1>1 DEF Pages!Limit, Pages!PageSize
    <3>2. Passed' = page * Pages!Limit
      BY <1>3, <1>10, <3>1 DEF Passed
    <3>3. QED
      BY <1>3, <3>2 DEF Passed
  <2>2. Beyond' \subseteq Beyond \ again
    <3>1. ASSUME NEW j \in Beyond' PROVE j \in Beyond \ again
      <4>1. /\ j \in matching /\ j \in received \cup Rows
            /\ Rank(matching, j) > Passed + Pages!Limit
        BY <1>1, <2>1 DEF Beyond
      <4>2. j \notin Rows /\ Rank(matching, j) > Passed
        BY <1>2, <1>3, <1>4, <4>1, RowsOfPage
      <4>3. QED
        BY <4>1, <4>2 DEF Beyond
    <3>2. QED
      BY <3>1
  <2>3. Slipped' \subseteq Slipped
    <3>1. ASSUME NEW j \in Slipped' PROVE j \in Slipped
      <4>1. /\ j \in matching /\ j \in stayed \ (received \cup Rows)
            /\ Rank(matching, j) <= Passed + Pages!Limit
        BY <1>1, <2>1 DEF Slipped
      <4>2. Rank(matching, j) <= Passed
        BY <1>2, <1>3, <1>4, <4>1, RowsOfPage
      <4>3. QED
        BY <4>1, <4>2 DEF Slipped
    <3>2. QED
      BY <3>1
  <2>4. /\ Cardinality(Beyond') <= Cardinality(Beyond \ again) /\ IsFiniteSet(Beyond')
        /\ Cardinality(Slipped') <= Cardinality(Slipped) /\ IsFiniteSet(Slipped')
    BY <1>2, <1>6, <2>2, <2>3, FS_Subset
  <2>5. Cardinality(Beyond') \in Nat /\ Cardinality(Slipped') \in Nat
    BY <2>4, FS_CardinalityType
  <2>6. Cardinality(Beyond') + repeated' <= entered' /\ Cardinality(Slipped') <= left'
    BY <1>1, <1>2, <1>3, <1>6, <1>7, <2>4, <2>5
  <2>7. MissesBounded'
    BY <1>10 DEF MissesBounded, Pages!MissesBounded
  <2>8. QED
    BY <1>8, <1>10, <2>6, <2>7 DEF Walking
<1>11. QED
  BY <1>1, <1>9, <1>10

(* The invariant is kept, one step of the proof per action. *)
LEMMA WalkingKept == ListingTypes /\ Walking /\ [Next]_vars => Walking'
<1> SUFFICES ASSUME ListingTypes, Walking, [Next]_vars PROVE Walking'
  OBVIOUS
<1>a. ListingTypes'
  BY ListingTypesKept
<1>b. matching \subseteq 1..created /\ created \in Nat /\ matching \in SUBSET Nat
  BY ListingFinite DEF ListingTypes
<1>1. CASE Pages!Begin
  <2>1. /\ walkPc = "idle" /\ walkPc' = "count" /\ page = 1 /\ received = {}
        /\ UNCHANGED <<matching, asked, page, received, entered, left, repeated>>
    BY <1>1 DEF Pages!Begin, Walking
  <2>2. Passed' = 0
    <3>1. Pages!Limit' = Pages!Limit /\ Pages!Limit \in Nat
      BY <2>1, PageSizes DEF Pages!Limit, Pages!PageSize, ListingTypes
    <3>2. QED
      BY <2>1, <3>1 DEF Passed
  <2>3. Beyond' = {}
    BY <2>1 DEF Beyond
  <2>4. Slipped' = {}
    <3>1. \A j \in matching : Rank(matching, j) >= 1 /\ Rank(matching, j) \in Nat
      BY ListingFinite, RankRange
    <3>2. QED
      BY <2>1, <2>2, <3>1 DEF Slipped
  <2>5. Cardinality(Beyond') = 0 /\ Cardinality(Slipped') = 0
    BY <2>3, <2>4, FS_EmptySet
  <2>6. RepeatsBounded' /\ MissesBounded'
    BY <2>1 DEF Walking, RepeatsBounded, Pages!RepeatsBounded, MissesBounded, Pages!MissesBounded
  <2>7. entered \in Nat /\ left \in Nat /\ repeated \in Nat /\ repeated <= entered
    BY DEF ListingTypes, Walking, RepeatsBounded, Pages!RepeatsBounded
  <2>8. QED
    BY <2>1, <2>5, <2>6, <2>7 DEF Walking
<1>2. CASE Pages!Count
  <2>1. /\ walkPc = "count" /\ walkPc' = "rows" /\ rowTotal' = Cardinality(matching)
        /\ UNCHANGED <<matching, asked, rule, page, received, stayed, entered, left, repeated>>
    BY <1>2, ListingCounting DEF Pages!Count
  <2>2. Beyond' = Beyond /\ Slipped' = Slipped
    BY <2>1 DEF Beyond, Slipped, Passed, Pages!Limit, Pages!PageSize
  <2>3. Cardinality(matching) \in Nat /\ entered \in Nat
    BY ListingFinite DEF ListingTypes
  <2>4. RepeatsBounded' /\ MissesBounded'
    BY <2>1 DEF Walking, RepeatsBounded, Pages!RepeatsBounded, MissesBounded, Pages!MissesBounded
  <2>5. QED
    BY <2>1, <2>2, <2>3, <2>4 DEF Walking
<1>3. CASE Pages!Find
  BY <1>3, <1>a, FindKeeps
<1>4. CASE Pages!Upload
  <2>1. created + 1 \in Nat \ matching
    BY <1>b
  <2>2. QED
    BY <1>4, <1>a, <2>1, EnterKeeps DEF Pages!Upload, Pages!Enters
<1>5. ASSUME NEW i \in Pages!Ids, Pages!Leave(i) PROVE Walking'
  BY <1>5, <1>a, LeaveKeeps
<1>6. ASSUME NEW i \in Pages!Ids, Pages!Return(i) PROVE Walking'
  <2>1. i \in Nat \ matching
    BY <1>6, <1>b DEF Pages!Return
  <2>2. QED
    BY <1>6, <1>a, <2>1, EnterKeeps DEF Pages!Return, Pages!Enters
<1>7. CASE UNCHANGED P \/ Pages!Done
  <2>1. UNCHANGED P
    BY <1>7 DEF P, Pages!Done, Pages!vars, Pages!client
  <2>2. Beyond' = Beyond /\ Slipped' = Slipped
    BY <2>1 DEF P, Beyond, Slipped, Passed, Pages!Limit, Pages!PageSize
  <2>3. RepeatsBounded' /\ MissesBounded'
    BY <2>1 DEF P, Walking, RepeatsBounded, Pages!RepeatsBounded, MissesBounded,
                Pages!MissesBounded, Pages!Missed, Pages!PageSize
  <2>4. QED
    BY <2>1, <2>2, <2>3 DEF P, Walking
<1>8. QED
  BY <1>1, <1>2, <1>3, <1>4, <1>5, <1>6, <1>7 DEF Next, vars, Pages!Next

(* The invariant of the walk. *)
LEMMA ListingAlways == Spec => [](ListingTypes /\ Walking)
<1>1. Spec => []ListingTypes
  BY ListingInit, ListingTypesKept, PTL DEF Spec
<1>2. Spec => []Walking
  BY <1>1, ListingInit, WalkingKept, PTL DEF Spec
<1>3. QED
  BY <1>1, <1>2, PTL

(* blob_repo.go:78, for any table, page size and client: a row is received  *)
(* again only for a row that entered the listing during the walk.           *)
THEOREM RepeatsAreEntries == Spec => []RepeatsBounded
<1>1. Walking => RepeatsBounded
  BY DEF Walking
<1>2. QED
  BY <1>1, ListingAlways, PTL

(* blob_repo.go:64-82 and blob_service.go:206, for the same: a row that     *)
(* stayed is missed only for a row that left, or, by a client that trusts   *)
(* "pages", one that entered.                                               *)
THEOREM MissesAreMoves == Spec => []MissesBounded
<1>1. Walking => MissesBounded
  BY DEF Walking
<1>2. QED
  BY <1>1, ListingAlways, PTL

================================================================================
