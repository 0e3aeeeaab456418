--------------------------------- MODULE Access ---------------------------------
(***************************************************************************)
(* Who gets what: the routes (routes/index.go), the permissions of API keys *)
(* (auth/permission.go, middleware/auth.go), signed links (auth/signed_url  *)
(* .go, controllers/sign.go) and the handlers that look at a blob's row     *)
(* before they serve, edit or delete it.  Requests interleave at every      *)
(* query, and the clock runs between them.                                  *)
(*                                                                          *)
(* A path is its segments; a signature is what it signs.  Files, counters   *)
(* and buckets belong to BlobService, the limiter to RateLimiter.           *)
(***************************************************************************)
EXTENDS Naturals, Sequences, FiniteSets

CONSTANTS
    Blobs,           \* ids of blobs that have been uploaded
    Readers,         \* slots for requests that do not edit
    Writers,         \* slots for requests that may edit
    Methods, Paths,  \* methods and paths that a client may try
    Arrivals,        \* the requests that arrive: <<method, path, bearer token>>
    NoToken,         \* for a request without one
    Keys,            \* configured tokens, each with its permissions
    Edits,           \* bodies of edits: [public, expires], Keep for an absent field
    Keep,
    LinkTTL,         \* BLOB_SIGNED_URL_TTL, in seconds
    HashFallback,    \* BLOB_HASH_FALLBACK_ENABLED
    MaxTime          \* bound on the clock

Requests == Readers \cup Writers
Absent == [public |-> "absent", expires |-> 0]
Never == MaxTime + 1
Row == [public : {"true", "false", "null"}, expires : Nat]
Actions == {"download", "view"}

ASSUME AccessAssumption ==
    /\ LinkTTL \in Nat /\ MaxTime \in Nat /\ HashFallback \in BOOLEAN
    /\ Readers \cap Writers = {} /\ NoToken \notin DOMAIN Keys
    /\ \A a \in Arrivals : a[1] \in Methods /\ a[2] \in Paths
    /\ Keep \notin Nat \cup {"true", "false"}
    /\ Edits \subseteq [public : {Keep, "true", "false"}, expires : Nat \cup {Keep}]
    /\ \A p \in Paths : p = <<"blob">> \/ p = <<"blob", p[2]>> \/ Len(p) \in Nat \ {0, 1, 2}

VARIABLES
    rows,     \* the blobs table
    now,      \* the clock, in seconds
    links,    \* the signed links that have been handed out
    req,      \* the request in each slot
    pc,       \* its next step
    held,     \* the row it has read
    secret,   \* history: blobs last made private, by an edit that has ended
    barred    \* history: why a request had no claim to its blob when it arrived

vars == <<rows, now, links, req, pc, held, secret, barred>>

Link == [id : Blobs, action : Actions, expires : Nat]
NoQuery == [id |-> "none"]
HashQuery == [id |-> "hash"]
NoEdit == [public |-> Keep, expires |-> Keep]
NoRequest == [method |-> "none", path |-> <<>>, token |-> NoToken, query |-> NoQuery, edit |-> NoEdit]

Steps == {"idle", "read", "check", "open", "save", "remove", "issue", "served"}

TypeOK ==
    /\ \A b \in Blobs : rows[b] \in Row \cup {Absent}
    /\ now \in 0..MaxTime /\ links \subseteq Link
    /\ pc \in [Requests -> Steps]
    /\ \A r \in Requests : held[r] \in Row \cup {Absent}
    /\ secret \subseteq Blobs
    /\ barred \in [Requests -> SUBSET {"secret", "lapsed"}]

Init ==
    \* a multipart upload leaves public null
    /\ rows \in [Blobs -> [public : {"true", "null"}, expires : {1, Never}]]
    /\ now = 0 /\ links = {} /\ secret = {}
    /\ req = [r \in Requests |-> NoRequest]
    /\ pc = [r \in Requests |-> "idle"]
    /\ held = [r \in Requests |-> Absent]
    /\ barred = [r \in Requests |-> {}]

-----------------------------------------------------------------------------
(* Keys, links and rows. *)
HasPerm(token, perm) ==
    token \in DOMAIN Keys /\ (perm \in Keys[token] \/ "all" \in Keys[token])

VerifySignature(query, b, action) ==
    query \in Link /\ query.id = b /\ query.action = action /\ now <= query.expires

HasValidHash(query) == HashFallback /\ query = HashQuery

CanAccess_Bug(r, b, action, row) ==
    \/ row.public = "true"
    \/ req[r].query \in Link /\ req[r].query.id = b
    \/ HasValidHash(req[r].query)
    \/ req[r].token \in DOMAIN Keys

\* canAccessBlob.  hasValidToken takes a key with any permission.
CanAccess(r, b, action, row) ==
    \/ row.public = "true"
    \/ VerifySignature(req[r].query, b, action)
    \/ HasValidHash(req[r].query)
    \/ req[r].token \in DOMAIN Keys

IsExpired(row) == row.expires # Never /\ row.expires < now

-----------------------------------------------------------------------------
(* The routes, in the order RegisterRoutes tests them: the handler of a     *)
(* request and the permission it requires.                                  *)
To(handler, perm) == [handler |-> handler, perm |-> perm]
NotAllowed == To("405", "none")

ByVerb(method, verb) ==
    CASE verb = "chunk" /\ method = "PUT" -> To("elsewhere", "write")
      [] verb = "complete" /\ method = "POST" -> To("elsewhere", "write")
      [] verb = "status" /\ method = "GET" -> To("elsewhere", "read")
      [] verb = "sign" /\ method = "POST" -> To("sign", "read")
      [] OTHER -> NotAllowed

ById_Bug(method) ==
    CASE method = "GET" -> To("get", "read")
      [] method = "POST" -> To("edit", "read")
      [] method = "DELETE" -> To("delete", "delete")
      [] OTHER -> NotAllowed

ById(method) ==
    CASE method = "GET" -> To("get", "read")
      [] method = "POST" -> To("edit", "write")
      [] method = "DELETE" -> To("delete", "delete")
      [] OTHER -> NotAllowed

OnBlob(method) ==
    CASE method = "PUT" -> To("elsewhere", "write")
      [] method = "GET" -> To("elsewhere", "read")
      [] OTHER -> NotAllowed

Initiate(method) == IF method = "POST" THEN To("elsewhere", "write") ELSE NotAllowed

\* The verbs are tested before the last segment.
Route_Bug(method, path) ==
    IF path = <<"blob">> THEN OnBlob(method)
    ELSE IF path = <<"blob", "initiate">> THEN Initiate(method)
    ELSE IF Len(path) = 2 THEN ById(method)
    ELSE IF path[3] \in Actions THEN To(path[3], "none")
    ELSE ByVerb(method, path[3])

\* The last segment selects the public handlers, whatever the method; they
\* then require the verb to be the third.
Route(method, path) ==
    IF path = <<"blob">> THEN OnBlob(method)
    ELSE IF path = <<"blob", "initiate">> THEN Initiate(method)
    ELSE IF path[Len(path)] \in Actions
    THEN IF Len(path) >= 3 /\ path[3] = path[Len(path)] THEN To(path[3], "none")
                                                        ELSE To("400", "none")
    ELSE IF Len(path) = 2 THEN ById(method)
    ELSE ByVerb(method, path[3])

Handler(r) == Route(req[r].method, req[r].path)
Target(r) == IF Len(req[r].path) < 2 THEN "none" ELSE req[r].path[2]

-----------------------------------------------------------------------------
Goto(r, step) == pc' = [pc EXCEPT ![r] = step]
local == <<req, held, barred>>

\* A request is answered or refused; nothing is left of it.
End(r) ==
    /\ Goto(r, "idle")
    /\ req' = [req EXCEPT ![r] = NoRequest]
    /\ held' = [held EXCEPT ![r] = Absent]
    /\ barred' = [barred EXCEPT ![r] = {}]

(* What completed edits say, for the two histories. *)
Editing(r, b) == pc[r] # "idle" /\ Handler(r).handler = "edit" /\ Target(r) = b
Publishes(r) == req[r].edit.public = "true"
Extends(r) == req[r].edit.expires # Keep

Claims(request, b) ==
    \/ HasValidHash(request.query) \/ request.token \in DOMAIN Keys
    \/ VerifySignature(request.query, b, request.path[3])

Bars(request, b) ==
    {why \in {"secret", "lapsed"} :
        IF why = "secret" THEN b \in secret /\ ~Claims(request, b)
        ELSE /\ rows[b] # Absent /\ IsExpired(rows[b])
             /\ \A q \in Requests : ~(Editing(q, b) /\ Extends(q))}

\* The histories when a request is let in: an edit that publishes or extends
\* ends what its absence allows to say.
Claim(r, b) ==
    LET ends == {why \in {"secret", "lapsed"} :
                    IF why = "secret" THEN Publishes(r)' ELSE Extends(r)'}
    IN /\ secret' = IF "secret" \in ends THEN secret \ {b} ELSE secret
       /\ barred' = [q \in Requests |->
             IF q = r THEN IF Handler(r)'.handler \in Actions THEN Bars(req'[r], b) ELSE {}
             ELSE IF Target(q) = b THEN barred[q] \ ends ELSE barred[q]]

\* RegisterRoutes, RequirePermission and the handler up to its first query.
\* What they refuse, or pass to the uploads and the listing, changes nothing
\* here.  An edit refuses an expiration in the past.
Admitted(request) ==
    LET h == Route(request.method, request.path)
    IN /\ h.handler \notin {"400", "405", "elsewhere"}
       /\ h.perm # "none" => HasPerm(request.token, h.perm)
       /\ request.path[2] \in Blobs
       /\ h.handler = "edit" => (request.edit.expires # Keep => request.edit.expires >= now)

Arrive(r) ==
    /\ pc[r] = "idle"
    /\ \E a \in Arrivals, q \in links \cup {NoQuery, HashQuery}, e \in Edits \cup {NoEdit} :
          LET request == [method |-> a[1], path |-> a[2], token |-> a[3], query |-> q, edit |-> e]
              handler == Route(a[1], a[2]).handler
          IN /\ IF handler = "edit" THEN r \in Writers /\ e \in Edits ELSE e = NoEdit
             /\ handler \notin Actions => q = NoQuery   \* no other handler reads it
             /\ Admitted(request)
             /\ req' = [req EXCEPT ![r] = request]
             /\ Claim(r, a[2][2])
    /\ Goto(r, "read")
    /\ UNCHANGED <<rows, now, links, held>>

AfterRead ==
    [edit |-> "save", delete |-> "remove", sign |-> "issue", download |-> "check", view |-> "check"]

\* GetByID; GET /blob/{id} answers with the row and ends.
Read(r) ==
    /\ pc[r] = "read"
    /\ IF rows[Target(r)] = Absent \/ Handler(r).handler = "get"
       THEN End(r)
       ELSE /\ held' = [held EXCEPT ![r] = rows[Target(r)]]
            /\ Goto(r, AfterRead[Handler(r).handler])
            /\ UNCHANGED <<req, barred>>
    /\ UNCHANGED <<rows, now, links, secret>>

\* SignBlobController: a link for each action.
Issue(r) ==
    /\ pc[r] = "issue"
    /\ links' = links \cup {[id |-> Target(r), action |-> a, expires |-> now + LinkTTL] : a \in Actions}
    /\ End(r)
    /\ UNCHANGED <<rows, now, secret>>

Check_Bug(r) ==
    /\ pc[r] = "check"
    /\ IF ~CanAccess(r, Target(r), Handler(r).handler, held[r])
       THEN End(r)
       ELSE Goto(r, "open") /\ UNCHANGED local
    /\ UNCHANGED <<rows, now, links, secret>>

\* serveBlobFile judges the row it has read ...
Check(r) ==
    /\ pc[r] = "check"
    /\ IF IsExpired(held[r]) \/ ~CanAccess(r, Target(r), Handler(r).handler, held[r])
       THEN End(r)
       ELSE Goto(r, "open") /\ UNCHANGED local
    /\ UNCHANGED <<rows, now, links, secret>>

\* ... and OpenFile reads another, which it does not judge.
Open(r) ==
    /\ pc[r] = "open"
    /\ IF rows[Target(r)] = Absent THEN End(r) ELSE Goto(r, "served") /\ UNCHANGED local
    /\ UNCHANGED <<rows, now, links, secret>>

Close(r) ==
    /\ pc[r] = "served"
    /\ End(r)
    /\ UNCHANGED <<rows, now, links, secret>>

Given_Bug(field, old) == field
Given(field, old) == IF field = Keep THEN old ELSE field

\* Edit writes back the whole row it had read.
Save(r) ==
    /\ pc[r] = "save"
    /\ LET b == Target(r)
           edit == req[r].edit
       IN /\ rows' = [rows EXCEPT ![b] = [public |-> Given(edit.public, held[r].public),
                                          expires |-> Given(edit.expires, held[r].expires)]]
          /\ secret' = IF /\ edit.public = "false"
                          /\ \A q \in Requests \ {r} : ~(Editing(q, b) /\ Publishes(q))
                       THEN secret \cup {b} ELSE secret
    /\ End(r)
    /\ UNCHANGED <<now, links>>

Remove(r) ==
    /\ pc[r] = "remove"
    /\ rows' = [rows EXCEPT ![Target(r)] = Absent]
    /\ End(r)
    /\ UNCHANGED <<now, links, secret>>

Tick ==
    /\ now < MaxTime
    /\ now' = now + 1
    /\ UNCHANGED <<rows, links, req, pc, held, secret, barred>>

Next == \/ \E r \in Requests : \/ Arrive(r) \/ Read(r) \/ Issue(r) \/ Check(r) \/ Open(r)
                               \/ Close(r) \/ Save(r) \/ Remove(r)
        \/ Tick

Spec == Init /\ [][Next]_vars

-----------------------------------------------------------------------------
Served == {r \in Requests : pc[r] = "served"}

(* README.md:381, "Set blob as public or private": once an edit has made a  *)
(* blob private, a request that comes later with no token, no hash and no   *)
(* link of its own blob, action and time is not served, until an edit that  *)
(* makes it public begins.                                                  *)
SecretKept == \A r \in Served : "secret" \notin barred[r]

(* controllers/download.go:39: a request that comes when the blob has       *)
(* expired is not served, unless an edit extends it meanwhile.              *)
LapsedRefused == \A r \in Served : "lapsed" \notin barred[r]

(* README.md:47, the Private column with routes/index.go's permissions: a   *)
(* row changes only by a request whose key has the permission to write, and *)
(* disappears only by one whose key has the permission to delete.           *)
WritesPermitted ==
    [][\A b \in Blobs : rows'[b] # rows[b] =>
          \E r \in Requests : /\ Target(r) = b /\ pc'[r] # pc[r]
                              /\ HasPerm(req[r].token, IF rows'[b] = Absent THEN "delete" ELSE "write")]_vars

VerbRoutes ==
    {<<"PUT", "chunk", "write">>, <<"POST", "complete", "write">>, <<"GET", "status", "read">>,
     <<"POST", "sign", "read">>, <<"GET", "download", "none">>, <<"GET", "view", "none">>}

(* README.md:49-60, with the permissions of routes/index.go: the routes     *)
(* without a blob, those of a blob (whose id is none of the other names     *)
(* that follow /blob), and those of a blob with a verb.                     *)
Documented(method, path, perm) ==
    \/ <<method, path, perm>> \in {<<"PUT", <<"blob">>, "write">>, <<"GET", <<"blob">>, "read">>,
                                  <<"POST", <<"blob", "initiate">>, "write">>}
    \/ /\ Len(path) = 2 /\ path[2] \notin Actions \cup {"initiate"}
       /\ <<method, perm>> \in {<<"GET", "read">>, <<"POST", "write">>, <<"DELETE", "delete">>}
    \/ (Len(path) = 3 /\ <<method, path[3], perm>> \in VerbRoutes)

(* What is let in beside them: a verb that further segments follow, and     *)
(* download and view by other methods.                                      *)
Tolerated(method, path, perm) ==
    /\ Len(path) > 2
    /\ <<method, path[3], perm>> \in VerbRoutes \/ (path[3] \in Actions /\ perm = "none")

Dispatch ==
    \A m \in Methods, p \in Paths :
        LET to == Route(m, p)
            refused == to.handler \in {"400", "405"}
        IN /\ \A perm \in {"read", "write", "delete", "none"} :
                 Documented(m, p, perm) => ~refused /\ to.perm = perm
           /\ refused \/ Documented(m, p, to.perm) \/ Tolerated(m, p, to.perm)

(* README.md:49-60: each documented route reaches its handler behind the    *)
(* permission it needs, and no other method and path reach a handler, but   *)
(* for those tolerated, which need the same permission.  What is under way  *)
(* against a blob came in by such a route, with a key for it, or is a       *)
(* download or view.                                                        *)
RoutesAsDocumented ==
    /\ Dispatch
    /\ \A r \in Requests : pc[r] # "idle" /\ Handler(r).handler \notin Actions =>
          \E perm \in {"read", "write", "delete"} :
             /\ \/ Documented(req[r].method, req[r].path, perm)
                \/ Tolerated(req[r].method, req[r].path, perm)
             /\ HasPerm(req[r].token, perm)

(* routes/index.go:71 and :77, "GET /blob/{id}/download", "... /view".      *)
ServedByGet == \A r \in Served : req[r].method = "GET"
================================================================================
