------------------------------ MODULE RateLimiter ------------------------------
(***************************************************************************)
(* api/middleware/ratelimit.go: a counter per client in Redis, which is     *)
(* given its expiration by a second command after the first increment.      *)
(*                                                                          *)
(* A counter is only compared with 1 and with max, so it stops at max + 1.  *)
(* Time is the remaining life of each counter, in ticks.  Redis does what   *)
(* INCR and PEXPIRE say and drops a counter at the end of its life.         *)
(***************************************************************************)
EXTENDS Naturals, FiniteSets

CONSTANTS
    Addresses,    \* addresses of clients and proxies
    Requests,     \* request slots of the server
    max,          \* BLOB_RATE_LIMIT_MAX
    window,       \* BLOB_RATE_LIMIT_WINDOW_MS, in ticks
    TrustProxy,   \* BLOB_TRUST_PROXY
    MaxFaults,    \* bound on failed commands and lost requests
    None          \* no header, no client

LimitsAssumption ==
    /\ max \in Nat \ {0} /\ window \in Nat \ {0} /\ MaxFaults \in Nat
    /\ TrustProxy \in BOOLEAN /\ None \notin Addresses

Forever == window + 1   \* the life of a counter without expiration
Ages == 0..(window - 1)

VARIABLES
    count,    \* each client's counter, 0 if there is none
    life,     \* ticks until it expires
    pc,       \* the next step of each request
    ip,       \* its client
    seen,     \* the value that its INCR returned
    faults,   \* commands failed and requests lost so far
    age,      \* history: ticks since the INCR of each request
    granted   \* history: the requests let through, by client and age

vars == <<count, life, pc, ip, seen, faults, age, granted>>

TypeOK ==
    /\ count \in [Addresses -> 0..(max + 1)]
    /\ life \in [Addresses -> 1..Forever]
    /\ pc \in [Requests -> {"idle", "incr", "pexpire", "decide"}]
    /\ ip \in [Requests -> Addresses \cup {None}]
    /\ \A r \in Requests : pc[r] # "idle" => ip[r] # None
    /\ seen \in [Requests -> 0..(max + 1)]
    /\ faults \in 0..MaxFaults
    /\ age \in [Requests -> 0..window]
    /\ granted \in [Addresses -> [Ages -> Nat]]

Init ==
    /\ count = [c \in Addresses |-> 0]
    /\ life = [c \in Addresses |-> Forever]
    /\ pc = [r \in Requests |-> "idle"]
    /\ ip = [r \in Requests |-> None]
    /\ seen = [r \in Requests |-> 0]
    /\ faults = 0
    /\ age = [r \in Requests |-> 0]
    /\ granted = [c \in Addresses |-> [a \in Ages |-> 0]]

Goto(r, step) == pc' = [pc EXCEPT ![r] = step]

clientIP_Bug(remote, forwarded, real) ==
    CASE TrustProxy /\ forwarded # None -> forwarded
      [] TrustProxy /\ forwarded = None -> real
      [] OTHER                          -> remote

\* The forwarded headers count only behind a trusted proxy.
clientIP(remote, forwarded, real) ==
    CASE TrustProxy /\ forwarded # None                 -> forwarded
      [] TrustProxy /\ forwarded = None /\ real # None -> real
      [] OTHER                                          -> remote

Arrive(r) ==
    /\ pc[r] = "idle"
    /\ \E remote \in Addresses, forwarded, real \in Addresses \cup {None} :
          ip' = [ip EXCEPT ![r] = clientIP(remote, forwarded, real)]
    /\ Goto(r, "incr")
    /\ UNCHANGED <<count, life, seen, faults, age, granted>>

Incr_Bug(r) ==
    /\ pc[r] = "incr"
    /\ LET c == ip[r]
           n == IF count[c] > max THEN count[c] ELSE count[c] + 1
       IN  /\ count' = [count EXCEPT ![c] = n]
           /\ seen' = [seen EXCEPT ![r] = n]
           /\ Goto(r, "pexpire")
    /\ age' = [age EXCEPT ![r] = 0]
    /\ UNCHANGED <<life, ip, faults, granted>>

Incr(r) ==
    /\ pc[r] = "incr"
    /\ LET c == ip[r]
           n == IF count[c] > max THEN count[c] ELSE count[c] + 1
       IN  /\ count' = [count EXCEPT ![c] = n]
           /\ seen' = [seen EXCEPT ![r] = n]
           /\ Goto(r, IF n = 1 THEN "pexpire" ELSE "decide")
    /\ age' = [age EXCEPT ![r] = 0]
    /\ UNCHANGED <<life, ip, faults, granted>>

\* INCR fails: the request is refused.
IncrFails(r) ==
    /\ pc[r] = "incr" /\ faults < MaxFaults
    /\ faults' = faults + 1
    /\ Goto(r, "idle")
    /\ UNCHANGED <<count, life, ip, seen, age, granted>>

PExpire_Bug(r) ==
    /\ pc[r] = "pexpire"
    /\ Goto(r, "decide")
    /\ UNCHANGED <<count, life, ip, seen, faults, age, granted>>

PExpire(r) ==
    /\ pc[r] = "pexpire"
    /\ life' = [life EXCEPT ![ip[r]] = IF count[ip[r]] > 0 THEN window ELSE @]
    /\ Goto(r, "decide")
    /\ UNCHANGED <<count, ip, seen, faults, age, granted>>

\* The result of PEXPIRE is dropped.
PExpireFails(r) ==
    /\ pc[r] = "pexpire" /\ faults < MaxFaults
    /\ faults' = faults + 1
    /\ Goto(r, "decide")
    /\ UNCHANGED <<count, life, ip, seen, age, granted>>

Decide_Bug(r) ==
    /\ pc[r] = "decide"
    /\ Goto(r, "idle")
    /\ granted' = [granted EXCEPT ![ip[r]] =
          [a \in Ages |-> IF a = age[r] THEN @[a] + 1 ELSE @[a]]]
    /\ UNCHANGED <<count, life, ip, seen, faults, age>>

Decide(r) ==
    /\ pc[r] = "decide"
    /\ Goto(r, "idle")
    /\ granted' = [granted EXCEPT ![ip[r]] =
          [a \in Ages |-> IF a = age[r] /\ seen[r] <= max THEN @[a] + 1 ELSE @[a]]]
    /\ UNCHANGED <<count, life, ip, seen, faults, age>>

\* The server stops, or the handler's goroutine does, in mid-request.
Lost(r) ==
    /\ pc[r] # "idle" /\ faults < MaxFaults
    /\ faults' = faults + 1
    /\ Goto(r, "idle")
    /\ UNCHANGED <<count, life, ip, seen, age, granted>>

Tick ==
    /\ count' = [c \in Addresses |-> IF life[c] = 1 THEN 0 ELSE count[c]]
    /\ life' = [c \in Addresses |-> CASE life[c] = Forever -> Forever
                                      [] life[c] = 1       -> Forever
                                      [] OTHER             -> life[c] - 1]
    /\ age' = [r \in Requests |-> IF age[r] < window THEN age[r] + 1 ELSE window]
    /\ granted' = [c \in Addresses |->
          [a \in Ages |-> IF a = 0 THEN 0 ELSE granted[c][a - 1]]]
    /\ UNCHANGED <<pc, ip, seen, faults>>

Step(r) == Incr(r) \/ PExpire(r) \/ Decide(r)
Next == \/ \E r \in Requests : Arrive(r) \/ Step(r) \/ IncrFails(r) \/ PExpireFails(r) \/ Lost(r)
        \/ Tick

\* Requests under way go on, and time passes.
Fairness == WF_vars(Tick) /\ \A r \in Requests : WF_vars(Step(r))
Spec == Init /\ [][Next]_vars /\ Fairness

-----------------------------------------------------------------------------
(* What a window lets through: however requests overlap and stall, of the   *)
(* requests counted in any span of a window's length at most twice max pass *)
(* (a fixed window ends in the middle of the span), never three windows'.   *)
Admitted(c) == UNION {{a} \X (1..granted[c][a]) : a \in Ages}
AdmissionBounded == \A c \in Addresses : Cardinality(Admitted(c)) <= 2 * max

(* A counter that nothing will expire blocks its client for good.  Each     *)
(* failed or lost request leaves at most one.                               *)
Stuck == {c \in Addresses :
            /\ count[c] > 0 /\ life[c] = Forever
            /\ \A r \in Requests : ~(pc[r] = "pexpire" /\ ip[r] = c)}
StuckBounded == Cardinality(Stuck) <= faults

(* .env.example:62: the limit is per "time window".  A client over it is    *)
(* let through again when its window has passed, unless its counter is      *)
(* Stuck.                                                                   *)
BlockEnds == \A c \in Addresses : count[c] > max ~> (count[c] <= max \/ c \in Stuck)

(* The same of every client: it holds while nothing fails.                  *)
EveryBlockEnds == \A c \in Addresses : count[c] > max ~> count[c] <= max
=============================================================================
