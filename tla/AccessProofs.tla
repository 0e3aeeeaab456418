------------------------------ MODULE AccessProofs ------------------------------
(* Theorems about Access for every set of blobs, requests, paths, keys and   *)
(* edits, any link lifetime and any bound on the clock.                      *)
EXTENDS Access, TLAPS

-----------------------------------------------------------------------------
(* Routes. *)

(* Below /blob a path has two segments or more.                              *)
LEMMA PathLength ==
  ASSUME NEW p \in Paths
  PROVE  p = <<"blob">> \/ Len(p) \in Nat \ {0, 1}
<1>1. p = <<"blob">> \/ p = <<"blob", p[2]>> \/ Len(p) \in Nat \ {0, 1, 2}
  BY AccessAssumption
<1>2. p = <<"blob", p[2]>> => Len(p) = 2
  BY Len(<<"blob", p[2]>>) = 2
<1>3. QED
  BY <1>1, <1>2

(* What Route promises of a path: a handler that changes a row stands behind *)
(* its permission, and the public handlers are those that the path names.    *)
LEMMA RouteFacts ==
  ASSUME NEW m, NEW p \in Paths
  PROVE  LET to == Route(m, p) IN
         /\ to.handler \in {"405", "400", "elsewhere", "get", "edit", "delete", "sign"} \cup Actions
         /\ to.handler = "edit" => to.perm = "write"
         /\ to.handler = "delete" => to.perm = "delete"
         /\ to.handler \notin Actions \cup {"400", "405"} => to.perm \in {"read", "write", "delete"}
         /\ to.handler \in Actions => to.handler = p[3]
         /\ to.handler \in {"get", "edit", "delete", "sign"} \cup Actions => Len(p) \in Nat \ {0, 1}
<1> DEFINE Handles(to) ==
         /\ to.handler \in {"405", "400", "elsewhere", "get", "edit", "delete", "sign"} \cup Actions
         /\ to.handler = "edit" => to.perm = "write"
         /\ to.handler = "delete" => to.perm = "delete"
         /\ to.handler \notin Actions \cup {"400", "405"} => to.perm \in {"read", "write", "delete"}
         /\ to.handler \in Actions => to.handler = p[3]
         /\ to.handler \in {"get", "edit", "delete", "sign"} \cup Actions => Len(p) \in Nat \ {0, 1}
<1>1. p = <<"blob">> \/ Len(p) \in Nat \ {0, 1}
  BY PathLength
<1>2. CASE p = <<"blob">>
  <2>1. Route(m, p) \in {To("elsewhere", "write"), To("elsewhere", "read"), NotAllowed}
    BY <1>2 DEF Route, OnBlob
  <2>2. QED
    BY <2>1 DEF To, NotAllowed, Actions
<1>3. CASE p # <<"blob">> /\ p = <<"blob", "initiate">>
  <2>1. Route(m, p) \in {To("elsewhere", "write"), NotAllowed}
    BY <1>3 DEF Route, Initiate
  <2>2. QED
    BY <2>1 DEF To, NotAllowed, Actions
<1>4. CASE p \notin {<<"blob">>, <<"blob", "initiate">>} /\ p[Len(p)] \in Actions
  <2>1. \/ Route(m, p) = To("400", "none")
        \/ Route(m, p) = To(p[3], "none") /\ p[3] \in Actions
    BY <1>4 DEF Route
  <2>2. QED
    BY <1>1, <1>4, <2>1 DEF To, Actions
<1>5. CASE p \notin {<<"blob">>, <<"blob", "initiate">>} /\ p[Len(p)] \notin Actions
  <2>1. Route(m, p) \in {To("get", "read"), To("edit", "write"), To("delete", "delete"),
                         To("elsewhere", "write"), To("elsewhere", "read"),
                         To("sign", "read"), NotAllowed}
    BY <1>5 DEF Route, ById, ByVerb
  <2>2. QED
    BY <1>1, <1>5, <2>1 DEF To, NotAllowed, Actions
<1>6. Handles(Route(m, p))
  BY <1>2, <1>3, <1>4, <1>5
<1>7. QED
  BY <1>6

-----------------------------------------------------------------------------
(* Types, and what is known of a request under way. *)

Tokens == {a[3] : a \in Arrivals} \cup {NoToken}
Request == [method : Methods \cup {"none"}, path : Paths \cup {<<>>}, token : Tokens,
            query : Link \cup {NoQuery, HashQuery}, edit : Edits \cup {NoEdit}]

Typed ==
    /\ rows \in [Blobs -> Row \cup {Absent}]
    /\ now \in 0..MaxTime
    /\ links \subseteq Link
    /\ req \in [Requests -> Request]
    /\ pc \in [Requests -> Steps]
    /\ held \in [Requests -> Row \cup {Absent}]
    /\ secret \subseteq Blobs
    /\ barred \in [Requests -> SUBSET {"secret", "lapsed"}]

(* The handlers whose steps each call belongs to. *)
StepOf(handler) ==
    CASE handler = "edit" -> {"read", "save"}
      [] handler = "delete" -> {"read", "remove"}
      [] handler = "sign" -> {"read", "issue"}
      [] handler \in Actions -> {"read", "check", "open", "served"}
      [] OTHER -> {"read"}

(* A request under way passed its route and its key, and runs the steps of   *)
(* its handler; after its first query it holds a row.                        *)
UnderWay(r) ==
    pc[r] # "idle" =>
        /\ req[r].path \in Paths
        /\ Handler(r).handler \in {"get", "edit", "delete", "sign"} \cup Actions
        /\ Target(r) \in Blobs
        /\ Handler(r).perm # "none" => HasPerm(req[r].token, Handler(r).perm)
        /\ Handler(r).handler = "edit" => r \in Writers
        /\ pc[r] \in StepOf(Handler(r).handler)
        /\ pc[r] # "read" => held[r] \in Row

Admissions == \A r \in Requests : UnderWay(r)

(* No request is under way at first. *)
LEMMA InitTyped == Init => Typed /\ Admissions
<1> SUFFICES ASSUME Init PROVE Typed /\ Admissions
  OBVIOUS
<1>1. rows \in [Blobs -> Row \cup {Absent}]
  <2>1. \A row \in [public : {"true", "null"}, expires : {1, Never}] : row \in Row
    BY AccessAssumption DEF Row, Never
  <2>2. QED
    BY <2>1 DEF Init
<1>2. NoRequest \in Request
  BY DEF NoRequest, Request, Tokens
<1>3. QED
  BY <1>1, <1>2, AccessAssumption DEF Init, Typed, Admissions, UnderWay, Steps

-----------------------------------------------------------------------------
(* What one step leaves of the slots. *)

(* A slot whose request, step and row stay stays under way. *)
LEMMA SameUnderWay ==
  ASSUME NEW q \in Requests, UnderWay(q),
         pc'[q] = pc[q], req'[q] = req[q], held'[q] = held[q]
  PROVE  UnderWay(q)'
BY DEF UnderWay, Handler, Target

(* A request that goes on with the same row. *)
LEMMA NextUnderWay ==
  ASSUME NEW r \in Requests, UnderWay(r), pc[r] # "idle",
         req'[r] = req[r], held'[r] \in Row, pc'[r] \in StepOf(Handler(r).handler)
  PROVE  UnderWay(r)'
BY DEF UnderWay, Handler, Target

(* A request that ends. *)
LEMMA Ended ==
  ASSUME Typed, NEW r \in Requests, End(r)
  PROVE  /\ pc' \in [Requests -> Steps] /\ pc'[r] = "idle"
         /\ req' \in [Requests -> Request]
         /\ held' \in [Requests -> Row \cup {Absent}]
         /\ barred' \in [Requests -> SUBSET {"secret", "lapsed"}] /\ barred'[r] = {}
         /\ \A q \in Requests \ {r} : /\ pc'[q] = pc[q] /\ req'[q] = req[q]
                                      /\ held'[q] = held[q] /\ barred'[q] = barred[q]
<1>1. NoRequest \in Request
  BY DEF NoRequest, Request, Tokens
<1>2. "idle" \in Steps
  BY DEF Steps
<1>3. QED
  BY <1>1, <1>2 DEF Typed, End, Goto

(* The end of a request leaves the others as they are. *)
LEMMA EndedUnderWay ==
  ASSUME Typed, Admissions, NEW r \in Requests, End(r)
  PROVE  Admissions'
<1> SUFFICES ASSUME NEW q \in Requests PROVE UnderWay(q)'
  BY DEF Admissions
<1>1. CASE q = r
  BY <1>1, Ended DEF UnderWay
<1>2. CASE q # r
  BY <1>2, Ended, SameUnderWay DEF Admissions
<1>3. QED
  BY <1>1, <1>2

(* A request that only moves to its next step. *)
LEMMA Moved ==
  ASSUME Typed, Admissions, NEW r \in Requests, pc[r] # "idle", held[r] \in Row,
         NEW step \in StepOf(Handler(r).handler) \cap Steps, Goto(r, step), UNCHANGED local
  PROVE  /\ pc' \in [Requests -> Steps] /\ pc'[r] = step
         /\ \A q \in Requests \ {r} : pc'[q] = pc[q]
         /\ Admissions'
<1>1. /\ pc' \in [Requests -> Steps] /\ pc'[r] = step
      /\ \A q \in Requests \ {r} : pc'[q] = pc[q]
  BY DEF Typed, Goto
<1>2. ASSUME NEW q \in Requests PROVE UnderWay(q)'
  <2>1. CASE q = r
    BY <1>1, <2>1, NextUnderWay DEF Admissions, local
  <2>2. CASE q # r
    BY <1>1, <2>2, SameUnderWay DEF Admissions, local
  <2>3. QED
    BY <2>1, <2>2
<1>3. QED
  BY <1>1, <1>2 DEF Admissions

(* What Arrive records: a request that its route and its key let in. *)
LEMMA Arrived ==
  ASSUME Typed, NEW r \in Requests, Arrive(r)
  PROVE  /\ pc[r] = "idle" /\ pc'[r] = "read"
         /\ req'[r] \in Request /\ req'[r].path \in Paths
         /\ Admitted(req'[r])
         /\ IF Handler(r)'.handler = "edit" THEN r \in Writers ELSE req'[r].edit = NoEdit
         /\ \E b \in Blobs : b = Target(r)' /\ Claim(r, b)
         /\ \A q \in Requests \ {r} : pc'[q] = pc[q] /\ req'[q] = req[q]
         /\ pc' \in [Requests -> Steps] /\ req' \in [Requests -> Request]
         /\ UNCHANGED <<rows, now, links, held>>
<1>1. PICK a \in Arrivals, q \in links \cup {NoQuery, HashQuery}, e \in Edits \cup {NoEdit} :
        LET request == [method |-> a[1], path |-> a[2], token |-> a[3], query |-> q, edit |-> e]
            handler == Route(a[1], a[2]).handler
        IN /\ IF handler = "edit" THEN r \in Writers /\ e \in Edits ELSE e = NoEdit
           /\ Admitted(request)
           /\ req' = [req EXCEPT ![r] = request]
           /\ Claim(r, a[2][2])
  BY DEF Arrive
<1> DEFINE request == [method |-> a[1], path |-> a[2], token |-> a[3], query |-> q, edit |-> e]
<1>2. request \in Request
  BY <1>1, AccessAssumption DEF Request, Tokens, Typed
<1>3. req'[r] = request /\ req' \in [Requests -> Request]
  BY <1>1, <1>2 DEF Typed
<1>4. Admitted(request) /\ request.path \in Paths
  BY <1>1, AccessAssumption
<1>5. request.path[2] \in Blobs /\ Route(a[1], a[2]).handler \notin {"400", "405", "elsewhere"}
  BY <1>4 DEF Admitted
<1>6. ~(Len(request.path) < 2) /\ Target(r)' = a[2][2]
  <2>1. Len(a[2]) \in Nat \ {0, 1}
    BY <1>4, <1>5, RouteFacts
  <2>2. ~(Len(a[2]) < 2)
    BY <2>1, \A n \in Nat \ {0, 1} : ~(n < 2)
  <2>3. req'[r].path = a[2]
    BY <1>3
  <2>4. QED
    BY <2>2, <2>3 DEF Target
<1>7. Handler(r)' = Route(a[1], a[2])
  BY <1>3 DEF Handler
<1>8. pc[r] = "idle" /\ pc' = [pc EXCEPT ![r] = "read"] /\ UNCHANGED <<rows, now, links, held>>
  BY DEF Arrive, Goto
<1>9. a[2][2] \in Blobs /\ Claim(r, a[2][2])
  BY <1>1, <1>5
<1>10. QED
  BY <1>1, <1>2, <1>3, <1>4, <1>6, <1>7, <1>8, <1>9 DEF Typed, Steps

(* A request that passes RequirePermission has its route's permission. *)
LEMMA ArrivedUnderWay ==
  ASSUME Typed, Admissions, NEW r \in Requests, Arrive(r)
  PROVE  Typed' /\ Admissions'
<1>1. Handler(r)' = Route(req'[r].method, req'[r].path)
  BY DEF Handler
<1>2. /\ Handler(r)'.handler \in {"get", "edit", "delete", "sign"} \cup Actions
      /\ Len(req'[r].path) \in Nat \ {0, 1}
  BY <1>1, Arrived, RouteFacts DEF Admitted
<1>3. Target(r)' \in Blobs
  <2>1. ~(Len(req'[r].path) < 2)
    BY <1>2, \A n \in Nat \ {0, 1} : ~(n < 2)
  <2>2. QED
    BY <2>1, Arrived DEF Target, Admitted
<1>4. UnderWay(r)'
  BY <1>1, <1>2, <1>3, Arrived DEF UnderWay, Admitted, StepOf
<1>5. \A q \in Requests \ {r} : UnderWay(q)'
  BY Arrived, SameUnderWay DEF Admissions
<1>6. secret' \subseteq Blobs
  BY Arrived DEF Claim, Typed
<1>7. barred' \in [Requests -> SUBSET {"secret", "lapsed"}]
  BY Arrived DEF Claim, Typed, Bars
<1>8. QED
  BY <1>4, <1>5, <1>6, <1>7, Arrived DEF Typed, Admissions

(* An edit's body leaves a row of the type. *)
LEMMA SavedRow ==
  ASSUME Typed, NEW r \in Requests, held[r] \in Row
  PROVE  [public |-> Given(req[r].edit.public, held[r].public),
          expires |-> Given(req[r].edit.expires, held[r].expires)] \in Row
<1>1. req[r].edit \in Edits \cup {NoEdit}
  BY DEF Typed, Request
<1>2. req[r].edit.public \in {Keep, "true", "false"} /\ req[r].edit.expires \in Nat \cup {Keep}
  BY <1>1, AccessAssumption DEF NoEdit
<1>3. QED
  BY <1>2 DEF Given, Row

(* Types and permissions are kept, one step of the proof per action. *)
LEMMA NextTyped == Typed /\ Admissions /\ [Next]_vars => Typed' /\ Admissions'
<1> SUFFICES ASSUME Typed, Admissions, [Next]_vars PROVE Typed' /\ Admissions'
  OBVIOUS
<1>1. ASSUME NEW r \in Requests, Arrive(r) PROVE Typed' /\ Admissions'
  BY <1>1, ArrivedUnderWay
<1>2. ASSUME NEW r \in Requests, Read(r) PROVE Typed' /\ Admissions'
  <2>1. CASE End(r)
    BY <1>2, <2>1, Ended, EndedUnderWay DEF Typed, Read
  <2>2. CASE ~End(r)
    <3>1. /\ rows[Target(r)] # Absent /\ Handler(r).handler # "get"
          /\ held' = [held EXCEPT ![r] = rows[Target(r)]]
          /\ pc' = [pc EXCEPT ![r] = AfterRead[Handler(r).handler]]
          /\ UNCHANGED <<req, barred, rows, now, links, secret>>
          /\ pc[r] = "read"
      BY <1>2, <2>2 DEF Read, Goto
    <3>2. /\ Target(r) \in Blobs
          /\ Handler(r).handler \in {"edit", "delete", "sign"} \cup Actions
      BY <3>1 DEF Admissions, UnderWay
    <3>3. rows[Target(r)] \in Row
      BY <3>1, <3>2 DEF Typed
    <3>4. AfterRead[Handler(r).handler] \in StepOf(Handler(r).handler) \cap Steps
      BY <3>2 DEF AfterRead, StepOf, Actions, Steps
    <3>5. UnderWay(r)'
      BY <3>1, <3>3, <3>4, NextUnderWay DEF Admissions, Typed
    <3>6. ASSUME NEW q \in Requests \ {r} PROVE UnderWay(q)'
      BY <3>1, SameUnderWay DEF Admissions, Typed
    <3>7. QED
      BY <3>1, <3>3, <3>4, <3>5, <3>6 DEF Typed, Admissions
  <2>3. QED
    BY <2>1, <2>2
<1>3. ASSUME NEW r \in Requests, Issue(r) PROVE Typed' /\ Admissions'
  <2>1. Target(r) \in Blobs
    BY <1>3 DEF Issue, Admissions, UnderWay
  <2>2. links' \subseteq Link
    BY <1>3, <2>1, AccessAssumption DEF Issue, Typed, Link
  <2>3. QED
    BY <1>3, <2>2, Ended, EndedUnderWay DEF Typed, Issue
<1>4. ASSUME NEW r \in Requests, Check(r) PROVE Typed' /\ Admissions'
  <2>1. CASE End(r)
    BY <1>4, <2>1, Ended, EndedUnderWay DEF Typed, Check
  <2>2. CASE ~End(r)
    <3>1. pc[r] = "check" /\ Goto(r, "open") /\ UNCHANGED local
          /\ UNCHANGED <<rows, now, links, secret>>
      BY <1>4, <2>2 DEF Check
    <3>2. held[r] \in Row /\ "open" \in StepOf(Handler(r).handler) \cap Steps
      BY <3>1 DEF Admissions, UnderWay, StepOf, Steps, Actions
    <3>3. QED
      BY <3>1, <3>2, Moved DEF Typed, local
  <2>3. QED
    BY <2>1, <2>2
<1>5. ASSUME NEW r \in Requests, Open(r) PROVE Typed' /\ Admissions'
  <2>1. CASE End(r)
    BY <1>5, <2>1, Ended, EndedUnderWay DEF Typed, Open
  <2>2. CASE ~End(r)
    <3>1. pc[r] = "open" /\ Goto(r, "served") /\ UNCHANGED local
          /\ UNCHANGED <<rows, now, links, secret>>
      BY <1>5, <2>2 DEF Open
    <3>2. held[r] \in Row /\ "served" \in StepOf(Handler(r).handler) \cap Steps
      BY <3>1 DEF Admissions, UnderWay, StepOf, Steps, Actions
    <3>3. QED
      BY <3>1, <3>2, Moved DEF Typed, local
  <2>3. QED
    BY <2>1, <2>2
<1>6. ASSUME NEW r \in Requests, Close(r) PROVE Typed' /\ Admissions'
  BY <1>6, Ended, EndedUnderWay DEF Typed, Close
<1>7. ASSUME NEW r \in Requests, Save(r) PROVE Typed' /\ Admissions'
  <2>1. Target(r) \in Blobs /\ held[r] \in Row
    BY <1>7 DEF Save, Admissions, UnderWay
  <2>2. rows' \in [Blobs -> Row \cup {Absent}]
    BY <1>7, <2>1, SavedRow DEF Save, Typed
  <2>3. secret' \subseteq Blobs
    BY <1>7, <2>1 DEF Save, Typed
  <2>4. QED
    BY <1>7, <2>2, <2>3, Ended, EndedUnderWay DEF Typed, Save
<1>8. ASSUME NEW r \in Requests, Remove(r) PROVE Typed' /\ Admissions'
  <2>1. rows' \in [Blobs -> Row \cup {Absent}]
    BY <1>8 DEF Remove, Typed
  <2>2. QED
    BY <1>8, <2>1, Ended, EndedUnderWay DEF Typed, Remove
<1>9. ASSUME Tick \/ UNCHANGED vars PROVE Typed' /\ Admissions'
  <2>1. UNCHANGED <<rows, links, req, pc, held, secret, barred>> /\ now' \in 0..MaxTime
    BY <1>9, AccessAssumption DEF Tick, vars, Typed
  <2>2. QED
    BY <2>1, SameUnderWay DEF Typed, Admissions
<1>10. QED
  BY <1>1, <1>2, <1>3, <1>4, <1>5, <1>6, <1>7, <1>8, <1>9 DEF Next

(* Every request under way came in by a route that its key may take, and     *)
(* takes only the steps of that route's handler (routes/index.go).           *)
LEMMA AlwaysAdmitted == Spec => [](Typed /\ Admissions)
BY InitTyped, NextTyped, PTL DEF Spec

(* The rows, links, clock and slots of every reachable state have their      *)
(* types: no step of a handler leaves a row half written.                    *)
THEOREM TypeCorrect == Spec => []TypeOK
<1>1. Typed => TypeOK
  BY DEF Typed, TypeOK
<1>2. QED
  BY <1>1, AlwaysAdmitted, PTL

-----------------------------------------------------------------------------
(* The routes that README.md:49-60 lists, for any methods and paths.         *)

(* A documented route is dispatched, with the permission that it needs.      *)
LEMMA DocumentedIsDispatched ==
  ASSUME NEW m, NEW p \in Paths, NEW perm, Documented(m, p, perm)
  PROVE  Route(m, p).handler \notin {"400", "405"} /\ Route(m, p).perm = perm
<1>1. CASE <<m, p, perm>> \in {<<"PUT", <<"blob">>, "write">>, <<"GET", <<"blob">>, "read">>,
                              <<"POST", <<"blob", "initiate">>, "write">>}
  <2>1. CASE p = <<"blob">>
    <3>1. p # <<"blob", "initiate">>
      BY <2>1, Len(<<"blob">>) = 1, Len(<<"blob", "initiate">>) = 2
    <3>2. <<m, perm>> \in {<<"PUT", "write">>, <<"GET", "read">>}
      BY <1>1, <3>1
    <3>3. Route(m, p) = To("elsewhere", perm)
      BY <2>1, <3>2 DEF Route, OnBlob
    <3>4. QED
      BY <3>3 DEF To
  <2>2. CASE p # <<"blob">>
    <3>1. p = <<"blob", "initiate">> /\ m = "POST" /\ perm = "write"
      BY <1>1, <2>2
    <3>2. Route(m, p) = To("elsewhere", perm)
      BY <2>2, <3>1 DEF Route, Initiate
    <3>3. QED
      BY <3>2 DEF To
  <2>3. QED
    BY <2>1, <2>2
<1>2. CASE /\ Len(p) = 2 /\ p[2] \notin Actions \cup {"initiate"}
           /\ <<m, perm>> \in {<<"GET", "read">>, <<"POST", "write">>, <<"DELETE", "delete">>}
  <2>1. p # <<"blob">> /\ p # <<"blob", "initiate">> /\ p[Len(p)] \notin Actions
    BY <1>2, Len(<<"blob">>) = 1
  <2>2. Route(m, p) = ById(m)
    BY <1>2, <2>1 DEF Route
  <2>3. QED
    BY <1>2, <2>2 DEF ById, To
<1>3. CASE Len(p) = 3 /\ <<m, p[3], perm>> \in VerbRoutes
  <2>1. p # <<"blob">> /\ p # <<"blob", "initiate">> /\ p[Len(p)] = p[3]
    BY <1>3, Len(<<"blob">>) = 1, Len(<<"blob", "initiate">>) = 2
  <2>2. CASE p[3] \in Actions
    <3>1. perm = "none"
      BY <1>3, <2>2 DEF VerbRoutes, Actions
    <3>2. Route(m, p) = To(p[3], "none")
      BY <1>3, <2>1, <2>2 DEF Route
    <3>3. QED
      BY <2>2, <3>1, <3>2 DEF To, Actions
  <2>3. CASE p[3] \notin Actions
    <3>1. <<m, p[3], perm>> \in {<<"PUT", "chunk", "write">>, <<"POST", "complete", "write">>,
                                 <<"GET", "status", "read">>, <<"POST", "sign", "read">>}
      BY <1>3, <2>3 DEF VerbRoutes, Actions
    <3>2. Route(m, p) = ByVerb(m, p[3])
      BY <1>3, <2>1, <2>3 DEF Route
    <3>3. ByVerb(m, p[3]).handler \in {"elsewhere", "sign"} /\ ByVerb(m, p[3]).perm = perm
      BY <3>1 DEF ByVerb, To
    <3>4. QED
      BY <3>2, <3>3
  <2>4. QED
    BY <2>2, <2>3
<1>4. QED
  BY <1>1, <1>2, <1>3 DEF Documented

(* What is dispatched is documented, or one of the tolerated routes.         *)
LEMMA DispatchedIsDocumented ==
  ASSUME NEW m, NEW p \in Paths, Route(m, p).handler \notin {"400", "405"}
  PROVE  \/ Documented(m, p, Route(m, p).perm)
         \/ Tolerated(m, p, Route(m, p).perm)
<1> DEFINE perm == Route(m, p).perm
<1>1. CASE p = <<"blob">>
  <2>1. <<m, perm>> \in {<<"PUT", "write">>, <<"GET", "read">>}
    BY <1>1 DEF Route, OnBlob, To, NotAllowed
  <2>2. QED
    BY <1>1, <2>1 DEF Documented
<1>2. CASE p = <<"blob", "initiate">>
  <2>1. p # <<"blob">>
    BY <1>2, Len(<<"blob">>) = 1, Len(<<"blob", "initiate">>) = 2
  <2>2. m = "POST" /\ perm = "write"
    BY <1>2, <2>1 DEF Route, Initiate, To, NotAllowed
  <2>3. QED
    BY <1>2, <2>2 DEF Documented
<1>3. CASE /\ p # <<"blob">> /\ p # <<"blob", "initiate">> /\ p[Len(p)] \in Actions
  <2>1. Len(p) >= 3 /\ p[3] = p[Len(p)] /\ Route(m, p) = To(p[3], "none")
    BY <1>3 DEF Route, To
  <2>2. Len(p) > 2
    BY <2>1, <1>3, PathLength
  <2>3. perm = "none"
    BY <2>1 DEF To
  <2>4. QED
    BY <1>3, <2>1, <2>2, <2>3 DEF Tolerated
<1>4. CASE /\ p # <<"blob">> /\ p # <<"blob", "initiate">> /\ p[Len(p)] \notin Actions
  <2>1. CASE Len(p) = 2
    <3>1. p = <<"blob", p[2]>>
      BY <1>4, <2>1, AccessAssumption
    <3>2. p[2] # "initiate" /\ p[2] \notin Actions
      BY <1>4, <2>1, <3>1
    <3>3. Route(m, p) = ById(m)
      BY <1>4, <2>1 DEF Route
    <3>4. <<m, perm>> \in {<<"GET", "read">>, <<"POST", "write">>, <<"DELETE", "delete">>}
      BY <3>3 DEF ById, To, NotAllowed
    <3>5. QED
      BY <2>1, <3>2, <3>4 DEF Documented
  <2>2. CASE Len(p) # 2
    <3>1. Len(p) > 2
      <4>1. Len(p) \in Nat \ {0, 1, 2}
        BY <1>4, <2>2, PathLength
      <4>2. QED
        BY <4>1, \A n \in Nat \ {0, 1, 2} : n > 2
    <3>2. Route(m, p) = ByVerb(m, p[3])
      BY <1>4, <2>2 DEF Route
    <3>3. ByVerb(m, p[3]).handler \notin {"400", "405"}
      BY <3>2
    <3>4. <<m, p[3], ByVerb(m, p[3]).perm>> \in
            {<<"PUT", "chunk", "write">>, <<"POST", "complete", "write">>,
             <<"GET", "status", "read">>, <<"POST", "sign", "read">>}
      BY <3>3 DEF ByVerb, To, NotAllowed
    <3>5. QED
      BY <3>1, <3>2, <3>4 DEF Tolerated, VerbRoutes
  <2>3. QED
    BY <2>1, <2>2
<1>5. QED
  BY <1>1, <1>2, <1>3, <1>4

(* README.md:49-60: each documented route reaches its handler behind the     *)
(* permission that it needs, nothing else is dispatched but longer paths and *)
(* other methods of the same routes, and what is under way against a blob    *)
(* came in by such a route, with a key for it.                               *)
THEOREM RoutesAreDocumented == Spec => []RoutesAsDocumented
<1>1. Dispatch
  BY DocumentedIsDispatched, DispatchedIsDocumented DEF Dispatch
<1>2. ASSUME Admissions, NEW r \in Requests, pc[r] # "idle", Handler(r).handler \notin Actions
      PROVE  \E perm \in {"read", "write", "delete"} :
                /\ \/ Documented(req[r].method, req[r].path, perm)
                   \/ Tolerated(req[r].method, req[r].path, perm)
                /\ HasPerm(req[r].token, perm)
  <2>1. /\ req[r].path \in Paths /\ Handler(r).handler \in {"get", "edit", "delete", "sign"}
        /\ Handler(r).perm # "none" => HasPerm(req[r].token, Handler(r).perm)
    BY <1>2 DEF Admissions, UnderWay
  <2>2. Handler(r).perm \in {"read", "write", "delete"}
    BY <2>1, RouteFacts DEF Handler, Actions
  <2>3. \/ Documented(req[r].method, req[r].path, Handler(r).perm)
        \/ Tolerated(req[r].method, req[r].path, Handler(r).perm)
    BY <2>1, DispatchedIsDocumented DEF Handler
  <2>4. QED
    BY <2>1, <2>2, <2>3
<1>3. Admissions => RoutesAsDocumented
  BY <1>1, <1>2 DEF RoutesAsDocumented
<1>4. QED
  BY <1>3, AlwaysAdmitted, PTL

-----------------------------------------------------------------------------
(* What changes a row. *)

(* A request that saves or removes has the permission to. *)
LEMMA Permitted ==
  ASSUME Admissions, NEW r \in Requests
  PROVE  /\ pc[r] = "save" => /\ Handler(r).handler = "edit"
                              /\ HasPerm(req[r].token, "write")
         /\ pc[r] = "remove" => HasPerm(req[r].token, "delete")
<1>1. pc[r] = "save" => Handler(r).handler = "edit"
  BY DEF Admissions, UnderWay, StepOf, Actions
<1>2. pc[r] = "remove" => Handler(r).handler = "delete"
  BY DEF Admissions, UnderWay, StepOf, Actions
<1>3. pc[r] # "idle" => /\ Handler(r).handler = "edit" => Handler(r).perm = "write"
                        /\ Handler(r).handler = "delete" => Handler(r).perm = "delete"
  BY RouteFacts DEF Admissions, UnderWay, Handler
<1>4. QED
  BY <1>1, <1>2, <1>3 DEF Admissions, UnderWay

(* README.md:47: a row changes only by a request whose key may write, and    *)
(* disappears only by one whose key may delete, for any keys and requests.   *)
THEOREM OnlyPermittedWrites == Spec => WritesPermitted
<1> DEFINE Change(b) ==
      rows'[b] # rows[b] =>
        \E r \in Requests : /\ Target(r) = b /\ pc'[r] # pc[r]
                            /\ HasPerm(req[r].token,
                                       IF rows'[b] = Absent THEN "delete" ELSE "write")
<1>1. ASSUME Typed, Admissions, [Next]_vars, NEW b \in Blobs PROVE Change(b)
  <2>1. ASSUME NEW r \in Requests, Save(r) PROVE Change(b)
    <3>1. Target(r) \in Blobs /\ held[r] \in Row
      BY <1>1, <2>1 DEF Save, Admissions, UnderWay
    <3>2. rows'[Target(r)] \in Row /\ \A c \in Blobs \ {Target(r)} : rows'[c] = rows[c]
      BY <1>1, <2>1, <3>1, SavedRow DEF Save, Typed
    <3>3. pc[r] = "save" /\ pc'[r] = "idle" /\ HasPerm(req[r].token, "write")
      BY <1>1, <2>1, Ended, Permitted DEF Save
    <3>4. \A row \in Row : row # Absent
      BY DEF Row, Absent
    <3>5. QED
      BY <3>2, <3>3, <3>4
  <2>2. ASSUME NEW r \in Requests, Remove(r) PROVE Change(b)
    <3>1. Target(r) \in Blobs
      BY <1>1, <2>2 DEF Remove, Admissions, UnderWay
    <3>2. rows'[Target(r)] = Absent /\ \A c \in Blobs \ {Target(r)} : rows'[c] = rows[c]
      BY <1>1, <2>2, <3>1 DEF Remove, Typed
    <3>3. pc[r] = "remove" /\ pc'[r] = "idle" /\ HasPerm(req[r].token, "delete")
      BY <1>1, <2>2, Ended, Permitted DEF Remove
    <3>4. QED
      BY <3>2, <3>3
  <2>3. CASE rows' = rows
    BY <2>3
  <2>4. QED
    BY <1>1, <2>1, <2>2, <2>3 DEF Next, Arrive, Read, Issue, Check, Open, Close, Tick, vars
<1>2. Typed /\ Admissions /\ [Next]_vars => \A b \in Blobs : Change(b)
  BY <1>1
<1>3. QED
  BY <1>2, AlwaysAdmitted, PTL DEF Spec, WritesPermitted

-----------------------------------------------------------------------------
(* What a request without a claim can rely on, when edits do not overlap.    *)
(* Two overlapping edits undo each other (run access_lost_edit): Save writes *)
(* back the whole row, so that the hypothesis cannot be dropped.             *)
OneEditor == \A v, w \in Writers : v = w

(* A private blob stays private: the row is not public, and no edit under    *)
(* way will publish it, by its body or by the row it writes back.            *)
Guarded(b) ==
    /\ rows[b].public # "true"
    /\ \A q \in Requests : Editing(q, b) =>
          ~Publishes(q) /\ (pc[q] = "save" => held[q].public # "true")
Secrets == \A b \in secret : Guarded(b)

(* A request without a claim to a private blob gets no further than the check. *)
Shut(r) ==
    "secret" \in barred[r] =>
        /\ pc[r] \in {"read", "check"} /\ Handler(r).handler \in Actions
        /\ Target(r) \in secret /\ ~Claims(req[r], Target(r))
        /\ pc[r] = "check" => held[r].public # "true"

(* An expired blob stays expired: so is the row, unless it is gone, and no   *)
(* edit under way will extend it.                                            *)
Past(row) == row # Absent => IsExpired(row)
Lapsing(b) ==
    /\ Past(rows[b])
    /\ \A q \in Requests : Editing(q, b) =>
          ~Extends(q) /\ (pc[q] = "save" => Past(held[q]))
Late(r) ==
    "lapsed" \in barred[r] =>
        /\ pc[r] \in {"read", "check"} /\ Handler(r).handler \in Actions
        /\ Lapsing(Target(r))
        /\ pc[r] = "check" => Past(held[r])

(* An edit about to save holds the row as it is, unless that is gone.        *)
Current(q) == pc[q] = "save" => rows[Target(q)] \in {Absent, held[q]}

Kept == Secrets /\ \A r \in Requests : Shut(r) /\ Late(r) /\ Current(r)

(* No blob is secret or barred at first. *)
LEMMA InitKept == Init => Kept
BY DEF Init, Kept, Secrets, Shut, Late, Current

(* A slot that a step leaves alone. *)
Rests(q) == /\ pc'[q] = pc[q] /\ req'[q] = req[q]
            /\ held'[q] = held[q] /\ barred'[q] = barred[q]

(* What a request asks for does not change under way. *)
LEMMA RestsFacts ==
  ASSUME NEW q, req'[q] = req[q]
  PROVE  /\ Handler(q)' = Handler(q) /\ Target(q)' = Target(q)
         /\ Publishes(q)' <=> Publishes(q)
         /\ Extends(q)' <=> Extends(q)
BY DEF Handler, Target, Publishes, Extends

(* No claim comes with time. *)
LEMMA NoNewClaim ==
  ASSUME Typed, NEW r \in Requests, req'[r] = req[r],
         now' \in Nat, now' >= now, ~Claims(req[r], Target(r))
  PROVE  ~Claims(req[r], Target(r))'
<1>1. Target(r)' = Target(r)
  BY RestsFacts
<1>2. req[r].query \in Link => req[r].query.expires \in Nat
  BY DEF Link
<1>3. now \in Nat
  BY AccessAssumption DEF Typed
<1>4. ~VerifySignature(req[r].query, Target(r), req[r].path[3])'
  BY <1>1, <1>2, <1>3 DEF Claims, VerifySignature
<1>5. QED
  BY <1>1, <1>4 DEF Claims, HasValidHash

(* What a row that is past says of the clock, and that it stays past.        *)
LEMMA PastStays ==
  ASSUME now \in Nat, now' \in Nat, now' >= now,
         NEW row, row.expires \in Nat
  PROVE  /\ (row # Absent => row.expires # Never /\ row.expires < now)
            => (row # Absent => row.expires # Never /\ row.expires < now')
OBVIOUS

(* The steps of one request that change no row and no history: it ends, it   *)
(* reads a row, or it passes a check.                                        *)
Gone(q) == pc'[q] = "idle" /\ barred'[q] = {}
Fetched(q) ==
    /\ pc[q] = "read" /\ req'[q] = req[q] /\ barred'[q] = barred[q]
    /\ held'[q] = rows[Target(q)]
    /\ pc'[q] = IF Handler(q).handler \in Actions THEN "check" ELSE pc'[q]
    /\ pc'[q] \in {"check", "save", "remove", "issue"}
Passed(q) ==
    /\ req'[q] = req[q] /\ held'[q] = held[q] /\ barred'[q] = barred[q] /\ barred[q] = {}
    /\ pc[q] # "idle" /\ pc'[q] \in {"open", "served"}

(* Such steps keep all four. *)
LEMMA QuietKept ==
  ASSUME Typed, Admissions, Kept, rows' = rows, secret' = secret,
         now' \in Nat, now' >= now,
         \A q \in Requests : Rests(q) \/ Gone(q) \/ Fetched(q) \/ Passed(q)
  PROVE  Kept'
<1>1. now \in Nat /\ \A row \in Row \cup {Absent} : row.expires \in Nat
  BY AccessAssumption DEF Typed, Row, Absent
<1>2. \A row \in Row \cup {Absent} :
         (row # Absent => row.expires # Never /\ row.expires < now)
            => (row # Absent => row.expires # Never /\ row.expires < now')
  BY <1>1, PastStays
<1>3. ASSUME NEW q \in Requests, NEW b, Editing(q, b)'
      PROVE  /\ Editing(q, b) /\ b \in Blobs
             /\ Publishes(q)' <=> Publishes(q)
             /\ Extends(q)' <=> Extends(q)
             /\ pc'[q] = "save" => held'[q] \in {held[q], rows[b]}
             /\ pc'[q] = "save" /\ held'[q] # rows[b] => pc[q] = "save"
  <2>1. pc'[q] # "idle" /\ req'[q] = req[q] /\ pc[q] # "idle"
    BY <1>3 DEF Editing, Rests, Gone, Fetched, Passed
  <2>2. Editing(q, b)
    BY <1>3, <2>1, RestsFacts DEF Editing
  <2>3. b \in Blobs
    BY <2>2 DEF Editing, Admissions, UnderWay
  <2>4. QED
    BY <1>3, <2>1, <2>2, <2>3, RestsFacts DEF Editing, Rests, Gone, Fetched, Passed
<1>4. Secrets'
  <2> SUFFICES ASSUME NEW b \in secret PROVE Guarded(b)'
    BY DEF Secrets
  <2>1. Guarded(b)
    BY DEF Kept, Secrets
  <2>2. QED
    BY <1>3, <2>1 DEF Guarded
<1>5. ASSUME NEW b \in Blobs, Lapsing(b) PROVE Lapsing(b)'
  <2>1. Past(rows[b])'
    BY <1>2, <1>5 DEF Lapsing, Past, IsExpired, Typed
  <2>2. ASSUME NEW q \in Requests, Editing(q, b)', pc'[q] = "save" PROVE Past(held[q])'
    <3>1. held'[q] = rows[b] \/ (held'[q] = held[q] /\ pc[q] = "save")
      BY <1>3, <2>2
    <3>2. Past(held'[q])
      BY <1>3, <1>5, <2>2, <3>1 DEF Lapsing
    <3>3. held'[q] \in Row \cup {Absent}
      BY <3>1 DEF Typed
    <3>4. QED
      BY <1>2, <3>2, <3>3 DEF Past, IsExpired
  <2>3. QED
    BY <1>3, <1>5, <2>1, <2>2 DEF Lapsing
<1>6. ASSUME NEW q \in Requests PROVE Shut(q)' /\ Late(q)' /\ Current(q)'
  <2> Shut(q) /\ Late(q) /\ Current(q)
    BY DEF Kept
  <2>1. CASE Rests(q)
    <3>1. Handler(q)' = Handler(q) /\ Target(q)' = Target(q)
      BY <2>1, RestsFacts DEF Rests
    <3>2. Shut(q)'
      BY <2>1, <3>1, NoNewClaim DEF Shut, Rests
    <3>3. Late(q)'
      <4>1. "lapsed" \in barred[q] => pc[q] # "idle" /\ Target(q) \in Blobs
        BY DEF Late, Admissions, UnderWay
      <4>2. "lapsed" \in barred[q] => Lapsing(Target(q))'
        BY <1>5, <4>1, <3>1 DEF Late
      <4>3. pc[q] = "check" /\ Past(held[q]) => Past(held[q])'
        BY <1>2, <2>1 DEF Rests, Past, IsExpired, Typed
      <4>4. QED
        BY <2>1, <3>1, <4>2, <4>3 DEF Late, Rests
    <3>4. Current(q)'
      BY <2>1, <3>1 DEF Current, Rests
    <3>5. QED
      BY <3>2, <3>3, <3>4
  <2>2. CASE Gone(q)
    BY <2>2 DEF Gone, Shut, Late, Current
  <2>3. CASE Fetched(q)
    <3>1. /\ Handler(q)' = Handler(q) /\ Target(q)' = Target(q) /\ Target(q) \in Blobs
          /\ pc[q] = "read" /\ held'[q] = rows[Target(q)] /\ barred'[q] = barred[q]
      BY <2>3, RestsFacts DEF Fetched, Admissions, UnderWay
    <3>2. Shut(q)'
      <4>1. Target(q) \in secret => rows[Target(q)].public # "true"
        BY DEF Kept, Secrets, Guarded
      <4>2. QED
        BY <2>3, <3>1, <4>1, NoNewClaim DEF Shut, Fetched
    <3>3. Late(q)'
      <4>1. "lapsed" \in barred[q] => Lapsing(Target(q))' /\ Past(rows[Target(q)])'
        BY <1>5, <3>1 DEF Late, Lapsing
      <4>2. QED
        BY <2>3, <3>1, <4>1 DEF Late, Fetched
    <3>4. Current(q)'
      BY <3>1 DEF Current
    <3>5. QED
      BY <3>2, <3>3, <3>4
  <2>4. CASE Passed(q)
    BY <2>4 DEF Passed, Shut, Late, Current
  <2>5. QED
    BY <2>1, <2>2, <2>3, <2>4
<1>7. QED
  BY <1>4, <1>6 DEF Kept

(* An edit that saves is the only one: what it writes is what it answers for. *)
LEMMA SaveKept ==
  ASSUME OneEditor, Typed, Admissions, Kept, NEW r \in Requests, Save(r)
  PROVE  Kept'
<1> DEFINE b0 == Target(r)
<1>1. /\ pc[r] = "save" /\ End(r) /\ now' = now
      /\ rows' = [rows EXCEPT ![b0] = [public |-> Given(req[r].edit.public, held[r].public),
                                       expires |-> Given(req[r].edit.expires, held[r].expires)]]
      /\ secret' = secret \/ (secret' = secret \cup {b0} /\ req[r].edit.public = "false")
  BY DEF Save
<1>2. Editing(r, b0) /\ b0 \in Blobs /\ held[r] \in Row /\ r \in Writers
  BY <1>1, Permitted DEF Admissions, UnderWay, Editing
<1>3. /\ pc'[r] = "idle" /\ barred'[r] = {}
      /\ \A q \in Requests \ {r} : Rests(q)
  BY <1>1, Ended DEF Rests
<1>4. ASSUME NEW q \in Requests, NEW b PROVE ~Editing(q, b)' /\ pc'[q] # "save"
  <2>1. CASE q = r
    BY <1>3, <2>1 DEF Editing
  <2>2. CASE q # r
    <3>1. q \notin Writers
      BY <1>2, <2>2 DEF OneEditor
    <3>2. pc[q] # "idle" => Handler(q).handler # "edit"
      BY <3>1 DEF Admissions, UnderWay
    <3>3. QED
      BY <1>3, <2>2, <3>2, Permitted, RestsFacts DEF Rests, Editing
  <2>3. QED
    BY <2>1, <2>2
<1>5. /\ rows'[b0].public = Given(req[r].edit.public, held[r].public)
      /\ rows'[b0].expires = Given(req[r].edit.expires, held[r].expires)
      /\ \A b \in Blobs \ {b0} : rows'[b] = rows[b]
  BY <1>1, <1>2 DEF Typed
<1>6. ASSUME NEW b \in secret' PROVE Guarded(b)'
  <2>1. b \in Blobs
    BY <1>1, <1>2 DEF Typed
  <2>2. b \in secret => Guarded(b)
    BY DEF Kept, Secrets
  <2>3. CASE b = b0
    <3>1. req[r].edit.public # "true" /\ (req[r].edit.public = Keep => held[r].public # "true")
      BY <1>1, <1>2, <2>2, <2>3, AccessAssumption DEF Guarded, Publishes
    <3>2. rows'[b0].public # "true"
      BY <1>5, <3>1 DEF Given
    <3>3. QED
      BY <1>4, <2>3, <3>2 DEF Guarded
  <2>4. CASE b # b0
    BY <1>1, <1>4, <1>5, <2>1, <2>2, <2>4 DEF Guarded
  <2>5. QED
    BY <2>3, <2>4
<1>7. ASSUME NEW b \in Blobs, Lapsing(b) PROVE Lapsing(b)'
  <2>1. CASE b = b0
    <3>1. req[r].edit.expires = Keep /\ Past(held[r])
      BY <1>1, <1>2, <1>7, <2>1 DEF Lapsing, Extends
    <3>2. held[r] # Absent
      BY <1>2 DEF Row, Absent
    <3>3. Past(rows[b])'
      BY <1>1, <1>5, <2>1, <3>1, <3>2 DEF Past, IsExpired, Given
    <3>4. QED
      BY <1>4, <3>3 DEF Lapsing
  <2>2. CASE b # b0
    BY <1>1, <1>4, <1>5, <1>7, <2>2 DEF Lapsing, Past, IsExpired
  <2>3. QED
    BY <2>1, <2>2
<1>8. ASSUME NEW q \in Requests PROVE Shut(q)' /\ Late(q)' /\ Current(q)'
  <2>1. CASE q = r
    BY <1>3, <2>1 DEF Shut, Late, Current
  <2>2. CASE q # r
    <3>1. Rests(q) /\ Handler(q)' = Handler(q) /\ Target(q)' = Target(q)
      BY <1>3, <2>2, RestsFacts DEF Rests
    <3>2. Shut(q) /\ Late(q) /\ now \in Nat
      BY AccessAssumption DEF Kept, Typed
    <3>3. Shut(q)'
      BY <1>1, <3>1, <3>2, NoNewClaim DEF Shut, Rests
    <3>4. "lapsed" \in barred[q] => Target(q) \in Blobs
      BY <3>2 DEF Late, Admissions, UnderWay
    <3>5. Late(q)'
      BY <1>1, <1>7, <3>1, <3>2, <3>4 DEF Late, Rests, Past, IsExpired
    <3>6. QED
      BY <1>4, <3>3, <3>5 DEF Current
  <2>3. QED
    BY <2>1, <2>2
<1>9. QED
  BY <1>6, <1>8 DEF Kept, Secrets

(* A deleted row is neither public nor unexpired. *)
LEMMA RemoveKept ==
  ASSUME Typed, Admissions, Kept, NEW r \in Requests, Remove(r)
  PROVE  Kept'
<1> DEFINE b0 == Target(r)
<1>1. /\ pc[r] = "remove" /\ End(r) /\ now' = now /\ secret' = secret
      /\ rows' = [rows EXCEPT ![b0] = Absent]
  BY DEF Remove
<1>2. b0 \in Blobs /\ rows'[b0] = Absent /\ \A b \in Blobs \ {b0} : rows'[b] = rows[b]
  BY <1>1 DEF Admissions, UnderWay, Typed
<1>3. /\ pc'[r] = "idle" /\ barred'[r] = {}
      /\ \A q \in Requests \ {r} : Rests(q)
  BY <1>1, Ended DEF Rests
<1>4. ASSUME NEW q \in Requests, NEW b, Editing(q, b)'
      PROVE  /\ Editing(q, b) /\ pc'[q] = pc[q] /\ held'[q] = held[q]
             /\ Publishes(q)' <=> Publishes(q)
             /\ Extends(q)' <=> Extends(q)
  BY <1>3, <1>4, RestsFacts DEF Rests, Editing
<1>5. ASSUME NEW b \in secret PROVE Guarded(b)'
  <2>1. Guarded(b) /\ b \in Blobs
    BY DEF Kept, Secrets, Typed
  <2>2. rows'[b].public # "true"
    BY <1>2, <2>1 DEF Guarded, Absent
  <2>3. QED
    BY <1>4, <2>1, <2>2 DEF Guarded
<1>6. ASSUME NEW b \in Blobs, Lapsing(b) PROVE Lapsing(b)'
  <2>1. Past(rows[b])'
    BY <1>1, <1>2, <1>6 DEF Lapsing, Past, IsExpired
  <2>2. QED
    BY <1>1, <1>4, <1>6, <2>1 DEF Lapsing, Past, IsExpired
<1>7. ASSUME NEW q \in Requests PROVE Shut(q)' /\ Late(q)' /\ Current(q)'
  <2>1. CASE q = r
    BY <1>3, <2>1 DEF Shut, Late, Current
  <2>2. CASE q # r
    <3>1. Rests(q) /\ Handler(q)' = Handler(q) /\ Target(q)' = Target(q)
      BY <1>3, <2>2, RestsFacts DEF Rests
    <3>2. Shut(q) /\ Late(q) /\ Current(q) /\ now \in Nat
      BY AccessAssumption DEF Kept, Typed
    <3>3. Shut(q)'
      BY <1>1, <3>1, <3>2, NoNewClaim DEF Shut, Rests
    <3>4. pc[q] # "idle" => Target(q) \in Blobs
      BY DEF Admissions, UnderWay
    <3>5. Late(q)'
      BY <1>1, <1>6, <3>1, <3>2, <3>4 DEF Late, Rests, Past, IsExpired
    <3>6. Current(q)'
      BY <1>2, <3>1, <3>2, <3>4 DEF Current, Rests
    <3>7. QED
      BY <3>3, <3>5, <3>6
  <2>3. QED
    BY <2>1, <2>2
<1>8. QED
  BY <1>1, <1>5, <1>7 DEF Kept, Secrets

(* A request that comes in is barred by what holds then, and an edit that    *)
(* comes in ends the histories that it contradicts.                          *)
LEMMA ArriveKept ==
  ASSUME Typed, Admissions, Kept, NEW r \in Requests, Arrive(r)
  PROVE  Kept'
<1>0. PICK b0 \in Blobs : b0 = Target(r)' /\ Claim(r, b0)
  BY Arrived
<1> DEFINE P == Publishes(r)'
           E == Extends(r)'
<1>1. /\ pc[r] = "idle" /\ pc'[r] = "read" /\ rows' = rows /\ now' = now /\ held' = held
      /\ \A q \in Requests \ {r} : pc'[q] = pc[q] /\ req'[q] = req[q]
      /\ Handler(r)'.handler # "edit" => ~P /\ ~E
  BY Arrived, AccessAssumption DEF NoEdit, Publishes, Extends
<1>2. /\ secret' = IF P THEN secret \ {b0} ELSE secret
      /\ \A q \in Requests \ {r} :
            /\ barred'[q] \subseteq barred[q]
            /\ Target(q) = b0 /\ P => "secret" \notin barred'[q]
            /\ Target(q) = b0 /\ E => "lapsed" \notin barred'[q]
      /\ barred'[r] = IF Handler(r)'.handler \in Actions THEN Bars(req'[r], b0) ELSE {}
  BY <1>0 DEF Claim
<1>4. ASSUME NEW q \in Requests, NEW b, Editing(q, b)'
      PROVE  /\ pc'[q] = "save" => Editing(q, b) /\ pc[q] = "save"
             /\ q # r => /\ Editing(q, b)
                         /\ Publishes(q)' <=> Publishes(q)
                         /\ Extends(q)' <=> Extends(q)
             /\ q = r => /\ b = b0
                         /\ P <=> Publishes(q)'
                         /\ E <=> Extends(q)'
  BY <1>0, <1>1, <1>4, RestsFacts DEF Editing, Publishes, Extends
<1>5. ASSUME NEW b \in secret' PROVE Guarded(b)'
  <2>1. Guarded(b) /\ b \in Blobs /\ (b = b0 => ~P)
    BY <1>2 DEF Kept, Secrets, Typed
  <2>2. QED
    BY <1>1, <1>4, <2>1 DEF Guarded
<1>6. ASSUME NEW b \in Blobs, Lapsing(b), b = b0 => ~E PROVE Lapsing(b)'
  <2>1. Past(rows[b])'
    BY <1>1, <1>6 DEF Lapsing, Past, IsExpired
  <2>2. QED
    BY <1>1, <1>4, <1>6, <2>1 DEF Lapsing, Past, IsExpired
<1>7. ASSUME NEW q \in Requests, q # r PROVE Shut(q)' /\ Late(q)' /\ Current(q)'
  <2>1. /\ Handler(q)' = Handler(q) /\ Target(q)' = Target(q)
        /\ pc'[q] = pc[q] /\ req'[q] = req[q] /\ held'[q] = held[q]
    BY <1>1, <1>7, RestsFacts
  <2>2. Shut(q) /\ Late(q) /\ Current(q) /\ now \in Nat
    BY AccessAssumption DEF Kept, Typed
  <2>3. pc[q] # "idle" => Target(q) \in Blobs
    BY DEF Admissions, UnderWay
  <2>4. Shut(q)'
    BY <1>1, <1>2, <1>7, <2>1, <2>2, NoNewClaim DEF Shut
  <2>5. Late(q)'
    BY <1>1, <1>2, <1>6, <1>7, <2>1, <2>2, <2>3 DEF Late, Past, IsExpired
  <2>6. QED
    BY <1>1, <2>1, <2>2, <2>4, <2>5 DEF Current
<1>8. Shut(r)' /\ Late(r)' /\ Current(r)'
  <2>1. ASSUME "secret" \in barred'[r] PROVE b0 \in secret' /\ ~Claims(req[r], Target(r))'
    <3>1. Handler(r)'.handler \in Actions /\ b0 \in secret /\ ~Claims(req'[r], b0)
      BY <1>2, <2>1 DEF Bars
    <3>2. ~P
      BY <1>1, <3>1 DEF Actions
    <3>3. QED
      BY <1>0, <1>1, <1>2, <3>1, <3>2 DEF Claims, VerifySignature, HasValidHash
  <2>2. ASSUME "lapsed" \in barred'[r] PROVE Lapsing(b0)'
    <3>1. /\ Handler(r)'.handler \in Actions /\ rows[b0] # Absent /\ IsExpired(rows[b0])
          /\ \A q \in Requests : ~(Editing(q, b0) /\ Extends(q))
      BY <1>2, <2>2 DEF Bars
    <3>2. \A q \in Requests : Editing(q, b0) /\ pc[q] = "save" => Past(held[q])
      BY <3>1 DEF Kept, Current, Past, Editing
    <3>3. Lapsing(b0) /\ ~E
      BY <1>1, <3>1, <3>2 DEF Lapsing, Past, Actions
    <3>4. QED
      BY <1>6, <3>3
  <2>3. barred'[r] # {} => Handler(r)'.handler \in Actions
    BY <1>2
  <2>4. QED
    BY <1>0, <1>1, <2>1, <2>2, <2>3 DEF Shut, Late, Current
<1>9. QED
  BY <1>5, <1>7, <1>8 DEF Kept, Secrets

(* Check lets no barred request through. *)
LEMMA CheckPasses ==
  ASSUME Typed, Admissions, Kept, NEW r \in Requests, Check(r), ~End(r)
  PROVE  barred[r] = {}
<1>1. /\ pc[r] = "check" /\ ~IsExpired(held[r])
      /\ CanAccess(r, Target(r), Handler(r).handler, held[r])
  BY DEF Check
<1>2. held[r] # Absent
  BY <1>1 DEF Admissions, UnderWay, Row, Absent
<1>3. "lapsed" \notin barred[r]
  BY <1>1, <1>2 DEF Kept, Late, Past
<1>4. "secret" \notin barred[r]
  <2>1. Handler(r).handler \in Actions => Handler(r).handler = req[r].path[3]
    BY <1>1, RouteFacts DEF Admissions, UnderWay, Handler
  <2>2. QED
    BY <1>1, <2>1 DEF Kept, Shut, Claims, CanAccess
<1>5. QED
  BY <1>3, <1>4 DEF Typed

(* With one editor every step keeps what was made private or has            *)
(* expired from being served, one step of the proof per action.             *)
LEMMA NextKept ==
  OneEditor /\ Typed /\ Admissions /\ Kept /\ [Next]_vars => Kept'
<1> SUFFICES ASSUME OneEditor, Typed, Admissions, Kept, [Next]_vars PROVE Kept'
  OBVIOUS
<1>1. now \in Nat
  BY AccessAssumption DEF Typed
<1> DEFINE Quiet == /\ rows' = rows /\ secret' = secret /\ now' = now
           One(r) == \A q \in Requests \ {r} : Rests(q)
<1>2. ASSUME NEW r \in Requests, End(r), Quiet PROVE Kept'
  <2>1. Gone(r) /\ One(r)
    BY <1>2, Ended DEF Gone, Rests
  <2>2. QED
    BY <1>1, <1>2, <2>1, QuietKept
<1>3. ASSUME NEW r \in Requests, Read(r) PROVE Kept'
  <2>1. CASE End(r)
    BY <1>2, <1>3, <2>1 DEF Read
  <2>2. CASE ~End(r)
    <3>1. /\ rows[Target(r)] # Absent /\ Handler(r).handler # "get" /\ Quiet
          /\ held' = [held EXCEPT ![r] = rows[Target(r)]]
          /\ pc' = [pc EXCEPT ![r] = AfterRead[Handler(r).handler]]
          /\ req' = req /\ barred' = barred /\ pc[r] = "read"
      BY <1>3, <2>2 DEF Read, Goto
    <3>2. Handler(r).handler \in {"edit", "delete", "sign"} \cup Actions
      BY <3>1 DEF Admissions, UnderWay
    <3>3. /\ AfterRead[Handler(r).handler] \in {"check", "save", "remove", "issue"}
          /\ Handler(r).handler \in Actions => AfterRead[Handler(r).handler] = "check"
      BY <3>2 DEF AfterRead, Actions
    <3>4. Fetched(r) /\ One(r)
      BY <3>1, <3>3 DEF Typed, Fetched, Rests
    <3>5. QED
      BY <1>1, <3>1, <3>4, QuietKept
  <2>3. QED
    BY <2>1, <2>2
<1>4. ASSUME NEW r \in Requests, NEW step \in {"open", "served"}, pc[r] # "idle",
             barred[r] = {}, Goto(r, step), UNCHANGED local, Quiet
      PROVE  Kept'
  <2>1. Passed(r) /\ One(r)
    BY <1>4 DEF Typed, Goto, local, Passed, Rests
  <2>2. QED
    BY <1>1, <1>4, <2>1, QuietKept
<1>5. ASSUME NEW r \in Requests, Check(r) PROVE Kept'
  <2>1. CASE End(r)
    BY <1>2, <1>5, <2>1 DEF Check
  <2>2. CASE ~End(r)
    <3>1. pc[r] = "check" /\ Goto(r, "open") /\ UNCHANGED local /\ Quiet
      BY <1>5, <2>2 DEF Check
    <3>2. barred[r] = {}
      BY <1>5, <2>2, CheckPasses
    <3>3. QED
      BY <1>4, <3>1, <3>2
  <2>3. QED
    BY <2>1, <2>2
<1>6. ASSUME NEW r \in Requests, Open(r) PROVE Kept'
  <2>1. CASE End(r)
    BY <1>2, <1>6, <2>1 DEF Open
  <2>2. CASE ~End(r)
    <3>1. pc[r] = "open" /\ Goto(r, "served") /\ UNCHANGED local /\ Quiet
      BY <1>6, <2>2 DEF Open
    <3>2. barred[r] = {}
      BY <3>1 DEF Kept, Shut, Late, Typed
    <3>3. QED
      BY <1>4, <3>1, <3>2
  <2>3. QED
    BY <2>1, <2>2
<1>7. ASSUME Tick \/ UNCHANGED vars PROVE Kept'
  <2>1. /\ rows' = rows /\ secret' = secret /\ now' \in Nat /\ now' >= now
        /\ \A q \in Requests : Rests(q)
    BY <1>1, <1>7 DEF Tick, vars, Rests
  <2>2. QED
    BY <2>1, QuietKept
<1>8. QED
  BY <1>2, <1>3, <1>5, <1>6, <1>7, ArriveKept, SaveKept, RemoveKept DEF Next, Issue, Close

(* What edits and requests rely on while edits do not overlap: a private     *)
(* blob stays private, an expired one expired, for its barred requests.      *)
LEMMA AlwaysKept == ASSUME OneEditor PROVE Spec => []Kept
BY InitKept, NextKept, AlwaysAdmitted, PTL DEF Spec

(* README.md:381, for any blobs, requests, keys and edits of which one is    *)
(* under way at a time: what an edit has made private is not served to a     *)
(* request that comes later without a token, a hash or a link for it.        *)
THEOREM PrivateIsNotServed == ASSUME OneEditor PROVE Spec => []SecretKept
<1>1. Kept => SecretKept
  BY DEF Kept, Shut, SecretKept, Served
<1>2. QED
  BY <1>1, AlwaysKept, PTL

(* controllers/download.go:39, under the same hypothesis: a request that     *)
(* comes after the blob has expired is not served.                           *)
THEOREM ExpiredIsNotServed == ASSUME OneEditor PROVE Spec => []LapsedRefused
<1>1. Kept => LapsedRefused
  BY DEF Kept, Late, LapsedRefused, Served
<1>2. QED
  BY <1>1, AlwaysKept, PTL

=============================================================================
