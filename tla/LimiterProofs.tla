------------------------------ MODULE LimiterProofs ------------------------------
(* What the rate limiter lets through, for any clients, requests and        *)
(* limits: a theorem about RateLimiter, as MCComponents runs it beside the  *)
(* other components.                                                        *)
EXTENDS ComponentsProofs

-----------------------------------------------------------------------------
(* Requests let through, G, and requests that will be, W. *)

AtMost(G, W, n) ==
    IsFiniteSet(G) /\ IsFiniteSet(W) /\ Cardinality(G) + Cardinality(W) <= n

(* The counter, now at n, has counted some of them.  The rest, g and p, were *)
(* counted by the one before it, which is as many as the limit at most, and  *)
(* they pass out of the span before this counter does: l is its life, a the  *)
(* age of the requests.                                                     *)
Windows(G, W, a, l, n) ==
    \E g \in SUBSET G, p \in SUBSET W :
        /\ \A t \in g : t[1] + l >= window
        /\ \A r \in p : a[r] + l >= window
        /\ AtMost(g, p, max) /\ AtMost(G \ g, W \ p, max) /\ AtMost(G \ g, W \ p, n)

(* Fewer are fewer. *)
LEMMA FewerAtMost ==
  ASSUME NEW G, NEW W, NEW n \in Nat, AtMost(G, W, n), NEW H \in SUBSET G, NEW V \in SUBSET W,
         NEW m \in Nat, n <= m
  PROVE  AtMost(H, V, m)
<1>1. /\ IsFiniteSet(G) /\ IsFiniteSet(W) /\ Cardinality(G) + Cardinality(W) <= n
  BY DEF AtMost
<1>2. /\ IsFiniteSet(H) /\ Cardinality(H) <= Cardinality(G)
      /\ IsFiniteSet(V) /\ Cardinality(V) <= Cardinality(W)
  BY ONLY <1>1, H \in SUBSET G, V \in SUBSET W, FS_Subset
<1>3. /\ Cardinality(G) \in Nat /\ Cardinality(W) \in Nat
      /\ Cardinality(H) \in Nat /\ Cardinality(V) \in Nat
  BY <1>1, <1>2, FS_CardinalityType
<1>4. QED
  BY <1>1, <1>2, <1>3 DEF AtMost

(* Some requests end, or the counter gets its expiration. *)
LEMMA SomeEnd ==
  ASSUME NEW G, NEW W, NEW a, NEW l \in Nat, NEW n \in Nat, Windows(G, W, a, l, n),
         \A t \in G : t[1] \in Nat,
         NEW V \in SUBSET W, NEW b, \A r \in V : b[r] \in Nat /\ b[r] = a[r],
         NEW m \in Nat, n <= m,
         NEW k \in Nat, k = l \/ k >= window
  PROVE  Windows(G, V, b, k, m)
<1>1. PICK g \in SUBSET G, p \in SUBSET W :
        /\ \A t \in g : t[1] + l >= window
        /\ \A r \in p : a[r] + l >= window
        /\ AtMost(g, p, max) /\ AtMost(G \ g, W \ p, max) /\ AtMost(G \ g, W \ p, n)
  BY DEF Windows
<1> DEFINE q == p \cap V
<1>2. q \in SUBSET V /\ q \subseteq p /\ V \ q \subseteq W \ p
  OBVIOUS
<1>3. /\ \A t \in g : t[1] + k >= window
      /\ \A r \in q : b[r] + k >= window
  BY <1>1, LimitsPositive
<1>4. AtMost(g, q, max) /\ AtMost(G \ g, V \ q, max) /\ AtMost(G \ g, V \ q, m)
  BY <1>1, <1>2, FewerAtMost, LimitsPositive
<1>5. QED
  BY <1>2, <1>3, <1>4 DEF Windows

(* Below the limit, the counter counts a request. *)
LEMMA OneCounted ==
  ASSUME NEW G, NEW W, NEW a, NEW l \in Nat, NEW n \in Nat, Windows(G, W, a, l, n), n < max,
         NEW r, r \notin W, NEW b, \A s \in W : b[s] = a[s]
  PROVE  Windows(G, W \cup {r}, b, l, n + 1)
<1>1. PICK g \in SUBSET G, p \in SUBSET W :
        /\ \A t \in g : t[1] + l >= window
        /\ \A s \in p : a[s] + l >= window
        /\ AtMost(g, p, max) /\ AtMost(G \ g, W \ p, max) /\ AtMost(G \ g, W \ p, n)
  BY DEF Windows
<1>2. p \in SUBSET (W \cup {r}) /\ (W \cup {r}) \ p = (W \ p) \cup {r}
  OBVIOUS
<1>3. AtMost(G \ g, (W \ p) \cup {r}, n + 1)
  <2>1. /\ IsFiniteSet(G \ g) /\ IsFiniteSet(W \ p)
        /\ Cardinality(G \ g) + Cardinality(W \ p) <= n
    BY <1>1 DEF AtMost
  <2>2. /\ IsFiniteSet((W \ p) \cup {r})
        /\ Cardinality((W \ p) \cup {r}) = Cardinality(W \ p) + 1
    BY <2>1, FS_AddElement
  <2>3. Cardinality(G \ g) \in Nat /\ Cardinality(W \ p) \in Nat
    BY <2>1, FS_CardinalityType
  <2>4. QED
    BY <2>1, <2>2, <2>3 DEF AtMost
<1>4. AtMost(G \ g, (W \ p) \cup {r}, max)
  BY <1>3, FewerAtMost, LimitsPositive
<1>5. \A s \in p : b[s] + l >= window
  BY <1>1
<1>6. QED
  BY <1>1, <1>2, <1>3, <1>4, <1>5 DEF Windows

(* A request that was to be let through is. *)
LEMMA OneMoves ==
  ASSUME NEW G, NEW W, NEW n \in Nat, AtMost(G, W, n), NEW r \in W, NEW x, x \notin G
  PROVE  AtMost(G \cup {x}, W \ {r}, n)
<1>1. IsFiniteSet(G) /\ IsFiniteSet(W) /\ Cardinality(G) + Cardinality(W) <= n
  BY DEF AtMost
<1>2. IsFiniteSet(G \cup {x}) /\ Cardinality(G \cup {x}) = Cardinality(G) + 1
  BY <1>1, FS_AddElement
<1>3. IsFiniteSet(W \ {r}) /\ Cardinality(W \ {r}) = Cardinality(W) - 1
  BY <1>1, FS_RemoveElement
<1>4. Cardinality(G) \in Nat /\ Cardinality(W) \in Nat
  BY <1>1, FS_CardinalityType
<1>5. QED
  BY <1>1, <1>2, <1>3, <1>4 DEF AtMost

(* It passes to those of its own counter. *)
LEMMA OneDecided ==
  ASSUME NEW G, NEW W, NEW a, NEW l \in Nat, NEW n \in Nat, Windows(G, W, a, l, n),
         NEW r \in W, NEW x, x \notin G, x[1] = a[r]
  PROVE  Windows(G \cup {x}, W \ {r}, a, l, n)
<1>1. PICK g \in SUBSET G, p \in SUBSET W :
        /\ \A t \in g : t[1] + l >= window
        /\ \A s \in p : a[s] + l >= window
        /\ AtMost(g, p, max) /\ AtMost(G \ g, W \ p, max) /\ AtMost(G \ g, W \ p, n)
  BY DEF Windows
<1>2. CASE r \in p
  <2>1. /\ g \cup {x} \in SUBSET (G \cup {x}) /\ p \ {r} \in SUBSET (W \ {r})
        /\ (G \cup {x}) \ (g \cup {x}) = G \ g /\ (W \ {r}) \ (p \ {r}) = W \ p
    BY <1>2
  <2>2. AtMost(g \cup {x}, p \ {r}, max)
    BY <1>1, <1>2, OneMoves, LimitsPositive
  <2>3. /\ \A t \in g \cup {x} : t[1] + l >= window
        /\ \A s \in p \ {r} : a[s] + l >= window
    BY <1>1, <1>2
  <2>4. QED
    BY <1>1, <2>1, <2>2, <2>3 DEF Windows
<1>3. CASE r \notin p
  <2>1. /\ g \in SUBSET (G \cup {x}) /\ p \in SUBSET (W \ {r})
        /\ (G \cup {x}) \ g = (G \ g) \cup {x} /\ (W \ {r}) \ p = (W \ p) \ {r}
        /\ r \in W \ p /\ x \notin G \ g
    BY <1>3
  <2>2. /\ AtMost((G \ g) \cup {x}, (W \ p) \ {r}, max)
        /\ AtMost((G \ g) \cup {x}, (W \ p) \ {r}, n)
    BY <1>1, <2>1, OneMoves, LimitsPositive
  <2>3. QED
    BY <1>1, <2>1, <2>2 DEF Windows
<1>4. QED
  BY <1>2, <1>3

-----------------------------------------------------------------------------
(* A tick. *)

(* H is what is left of G a tick later. *)
Aged(G, H) == \A t \in H : <<t[1] - 1, t[2]>> \in G

(* No more are left than there were. *)
LEMMA AgedAtMost ==
  ASSUME NEW G, NEW W, NEW n \in Nat, AtMost(G, W, n),
         NEW H \in SUBSET (Nat \X Nat), Aged(G, H), NEW V \in SUBSET W
  PROVE  AtMost(H, V, n)
<1> DEFINE f == [t \in H |-> <<t[1] - 1, t[2]>>]
<1>1. IsFiniteSet(G) /\ IsFiniteSet(W) /\ Cardinality(G) + Cardinality(W) <= n
  BY DEF AtMost
<1>2. f \in Injection(H, G)
  <2>1. f \in [H -> G]
    BY DEF Aged
  <2>2. ASSUME NEW s \in H, NEW t \in H, f[s] = f[t] PROVE s = t
    <3>1. s[1] \in Nat /\ t[1] \in Nat /\ s = <<s[1], s[2]>> /\ t = <<t[1], t[2]>>
      OBVIOUS
    <3>2. s[1] - 1 = t[1] - 1 /\ s[2] = t[2]
      BY <2>2
    <3>3. QED
      BY <3>1, <3>2
  <2>3. QED
    BY <2>1, <2>2 DEF Injection, IsInjective
<1>3. IsFiniteSet(H) /\ Cardinality(H) <= Cardinality(G)
  BY ONLY <1>1, <1>2, FS_Injection
<1>4. AtMost(H, W, n)
  <2>1. Cardinality(G) \in Nat /\ Cardinality(W) \in Nat /\ Cardinality(H) \in Nat
    BY <1>1, <1>3, FS_CardinalityType
  <2>2. QED
    BY <1>1, <1>3, <2>1 DEF AtMost
<1>5. QED
  BY <1>4, FewerAtMost

(* The counter lives on: what is older than it gets older with it. *)
LEMMA CounterAges ==
  ASSUME NEW G, NEW W, NEW a, NEW l \in Nat, NEW n \in Nat, Windows(G, W, a, l, n),
         \A t \in G : t[1] \in Nat,
         NEW H \in SUBSET (Nat \X Nat), Aged(G, H),
         NEW V \in SUBSET W, NEW b, \A r \in V : a[r] \in Nat /\ b[r] = a[r] + 1,
         NEW k \in Nat, k + 1 >= l
  PROVE  Windows(H, V, b, k, n)
<1>1. PICK g \in SUBSET G, p \in SUBSET W :
        /\ \A t \in g : t[1] + l >= window
        /\ \A r \in p : a[r] + l >= window
        /\ AtMost(g, p, max) /\ AtMost(G \ g, W \ p, max) /\ AtMost(G \ g, W \ p, n)
  BY DEF Windows
<1> DEFINE h == {t \in H : <<t[1] - 1, t[2]>> \in g}
           q == p \cap V
<1>2. /\ h \in SUBSET H /\ q \in SUBSET V /\ q \subseteq p /\ V \ q \subseteq W \ p
      /\ Aged(g, h) /\ Aged(G \ g, H \ h) /\ H \ h \in SUBSET (Nat \X Nat)
      /\ h \in SUBSET (Nat \X Nat)
  BY DEF Aged
<1>3. AtMost(h, q, max) /\ AtMost(H \ h, V \ q, max) /\ AtMost(H \ h, V \ q, n)
  BY <1>1, <1>2, AgedAtMost, LimitsPositive
<1>4. \A t \in h : t[1] + k >= window
  <2> SUFFICES ASSUME NEW t \in h PROVE t[1] + k >= window
    OBVIOUS
  <2>1. <<t[1] - 1, t[2]>> \in g /\ t[1] \in Nat
    OBVIOUS
  <2>2. (t[1] - 1) + l >= window
    BY <1>1, <2>1
  <2>3. QED
    BY <2>1, <2>2, LimitsPositive
<1>5. \A r \in q : b[r] + k >= window
  BY <1>1, LimitsPositive
<1>6. QED
  BY <1>2, <1>3, <1>4, <1>5 DEF Windows

(* The counter expires: what it had not counted is out of the span, and it  *)
(* has counted up to the limit.                                             *)
LEMMA CounterEnds ==
  ASSUME NEW G, NEW W, NEW a, NEW n \in Nat, Windows(G, W, a, 1, n),
         \A t \in G : t[1] \in Nat,
         NEW H \in SUBSET (Nat \X Nat), Aged(G, H), \A t \in H : t[1] < window,
         NEW V \in SUBSET W, NEW b,
         \A r \in V : a[r] \in Nat /\ b[r] = a[r] + 1 /\ b[r] < window
  PROVE  Windows(H, V, b, window + 1, 0)
<1>1. PICK g \in SUBSET G, p \in SUBSET W :
        /\ \A t \in g : t[1] + 1 >= window
        /\ \A r \in p : a[r] + 1 >= window
        /\ AtMost(g, p, max) /\ AtMost(G \ g, W \ p, max) /\ AtMost(G \ g, W \ p, n)
  BY DEF Windows
<1>2. Aged(G \ g, H)
  <2> SUFFICES ASSUME NEW t \in H PROVE <<t[1] - 1, t[2]>> \in G \ g
    BY DEF Aged
  <2>1. <<t[1] - 1, t[2]>> \in G /\ t[1] \in Nat /\ t[1] < window
    BY DEF Aged
  <2>2. ~((t[1] - 1) + 1 >= window)
    BY <2>1, LimitsPositive
  <2>3. QED
    BY <1>1, <2>1, <2>2
<1>3. V \in SUBSET (W \ p)
  BY <1>1, LimitsPositive
<1>4. AtMost(H, V, max)
  BY <1>1, <1>2, <1>3, AgedAtMost, LimitsPositive
<1>5. AtMost(H \ H, V \ V, 0) /\ AtMost(H \ H, V \ V, max)
  <2>1. H \ H = {} /\ V \ V = {}
    OBVIOUS
  <2>2. IsFiniteSet({}) /\ Cardinality({}) = 0
    BY FS_EmptySet
  <2>3. AtMost({}, {}, 0) /\ AtMost({}, {}, max)
    BY <2>2, LimitsPositive DEF AtMost
  <2>4. QED
    BY <2>1, <2>3
<1>6. /\ \A t \in H : t[1] + (window + 1) >= window
      /\ \A r \in V : b[r] + (window + 1) >= window
  BY LimitsPositive
<1>7. H \in SUBSET H /\ V \in SUBSET V
  OBVIOUS
<1>8. QED
  BY <1>4, <1>5, <1>6, <1>7 DEF Windows

-----------------------------------------------------------------------------
(* The limiter. *)

(* The requests that will be let through: they have been counted in time.   *)
Pending(c) == {r \in Requests : /\ ip[r] = c /\ reqPc[r] \in {"pexpire", "decide"}
                               /\ value[r] <= max /\ age[r] < window}

Epochs == \A c \in Addresses :
            Windows(Limiter!Admitted(c), Pending(c), age, life[c], count[c])

(* A pair for each that is counted in f, by age. *)
LEMMA CountPairs ==
  ASSUME NEW f \in [Limiter!Ages -> Nat]
  PROVE  LET pairs == UNION {{i} \X (1..f[i]) : i \in Limiter!Ages}
         IN  /\ pairs \in SUBSET (Nat \X Nat)
             /\ \A i, k : <<i, k>> \in pairs <=> i \in Limiter!Ages /\ k \in 1..f[i]
<1> DEFINE pairs == UNION {{i} \X (1..f[i]) : i \in Limiter!Ages}
<1>1. \A i, k : <<i, k>> \in pairs <=> i \in Limiter!Ages /\ k \in 1..f[i]
  OBVIOUS
<1>2. \A t \in pairs : \E i \in Limiter!Ages : t \in {i} \X (1..f[i])
  OBVIOUS
<1>3. \A i \in Limiter!Ages : i \in Nat /\ f[i] \in Nat
  BY LimitsPositive DEF Limiter!Ages
<1> HIDE DEF pairs
<1>4. pairs \in SUBSET (Nat \X Nat)
  BY <1>2, <1>3
<1>5. QED
  BY <1>1, <1>4 DEF pairs

(* The history of a client is such a set. *)
LEMMA AdmittedPairs ==
  ASSUME Limiter!TypeOK, NEW c \in Addresses
  PROVE  /\ Limiter!Admitted(c) \in SUBSET (Nat \X Nat)
         /\ \A i, k : <<i, k>> \in Limiter!Admitted(c)
                       <=> i \in Limiter!Ages /\ k \in 1..granted[c][i]
<1>1. granted[c] \in [Limiter!Ages -> Nat]
  BY DEF Limiter!TypeOK
<1>2. Limiter!Admitted(c) = UNION {{i} \X (1..granted[c][i]) : i \in Limiter!Ages}
  BY DEF Limiter!Admitted
<1>3. QED
  BY <1>1, <1>2, CountPairs

(* Nothing has been counted at first. *)
LEMMA EpochsInit == Init => Epochs
<1> SUFFICES ASSUME Init, NEW c \in Addresses
             PROVE  Windows(Limiter!Admitted(c), Pending(c), age, life[c], count[c])
  BY DEF Epochs
<1>1. Limiter!Init /\ Limiter!TypeOK
  BY LimiterInit DEF Init
<1>2. Limiter!Admitted(c) = {}
  <2>1. \A i \in Limiter!Ages : granted[c][i] = 0
    BY <1>1 DEF Limiter!Init
  <2>2. QED
    BY <1>1, <2>1 DEF Limiter!Admitted
<1>3. Pending(c) = {}
  BY <1>1 DEF Limiter!Init, Pending
<1>4. AtMost({}, {}, max) /\ AtMost({}, {}, count[c])
  BY <1>1, FS_EmptySet, LimitsPositive DEF AtMost, Limiter!TypeOK
<1>5. {} \ {} = {}
  OBVIOUS
<1>6. Windows({}, {}, age, life[c], count[c])
  BY <1>4, <1>5 DEF Windows
<1>7. QED
  BY <1>2, <1>3, <1>6

(* A step that grants nothing and counts nothing new. *)
LEMMA QuietEpochs ==
  ASSUME Limiter!TypeOK, Limiter!TypeOK', Epochs, NEW c \in Addresses, granted' = granted,
         Pending(c)' \subseteq Pending(c), \A r \in Pending(c)' : age'[r] = age[r],
         count[c] <= count'[c], life'[c] = life[c] \/ life'[c] >= window
  PROVE  Windows(Limiter!Admitted(c), Pending(c), age, life[c], count[c])'
<1>1. Limiter!Admitted(c)' = Limiter!Admitted(c)
  BY DEF Limiter!Admitted
<1>2. \A t \in Limiter!Admitted(c) : t[1] \in Nat
  BY AdmittedPairs
<1>3. \A r \in Pending(c)' : age'[r] \in Nat
  BY LimitsPositive DEF Pending, Limiter!TypeOK
<1>4. /\ life[c] \in Nat /\ life'[c] \in Nat /\ count[c] \in Nat /\ count'[c] \in Nat
  BY LimitsPositive DEF Limiter!TypeOK, Limiter!Forever
<1>5. Windows(Limiter!Admitted(c), Pending(c), age, life[c], count[c])
  BY DEF Epochs
<1>6. Windows(Limiter!Admitted(c), Pending(c)', age', life'[c], count'[c])
  BY <1>2, <1>3, <1>4, <1>5, SomeEnd
<1>7. QED
  BY <1>1, <1>6

(* Every step keeps the split: a tick at the end of a counter makes a new   *)
(* one.                                                                     *)
LEMMA EpochsKept == Limiter!TypeOK /\ Epochs /\ [Next]_vars => Epochs'
<1> SUFFICES ASSUME Limiter!TypeOK, Epochs, [Next]_vars, NEW c \in Addresses
             PROVE  Windows(Limiter!Admitted(c), Pending(c), age, life[c], count[c])'
  BY DEF Epochs
<1>a. Limiter!TypeOK'
  BY LimiterTypes
<1>e. /\ Limiter!Admitted(c)' \in SUBSET (Nat \X Nat)
      /\ \A i, k : <<i, k>> \in Limiter!Admitted(c)'
                    <=> i \in Limiter!Ages /\ k \in 1..granted'[c][i]
  <2>1. granted'[c] \in [Limiter!Ages -> Nat]
    BY <1>a DEF Limiter!TypeOK
  <2>2. Limiter!Admitted(c)' = UNION {{i} \X (1..granted'[c][i]) : i \in Limiter!Ages}
    BY DEF Limiter!Admitted
  <2>3. QED
    BY <2>1, <2>2, CountPairs
<1>b. count[c] \in Nat /\ life[c] \in Nat
  BY LimitsPositive DEF Limiter!TypeOK, Limiter!Forever
<1>c. Windows(Limiter!Admitted(c), Pending(c), age, life[c], count[c])
  BY DEF Epochs
<1>d. \A r \in Requests : age[r] \in Nat /\ value[r] \in Nat
  BY LimitsPositive DEF Limiter!TypeOK
<1> DEFINE Goal == Windows(Limiter!Admitted(c), Pending(c), age, life[c], count[c])'
<1>1. ASSUME NEW r \in Requests,
             \/ Limiter!Arrive(r) \/ Limiter!IncrFails(r) \/ Limiter!PExpireFails(r)
             \/ Limiter!Lost(r)
      PROVE  Goal
  <2>1. UNCHANGED <<count, life, value, age, granted>>
    BY <1>1 DEF Limiter!Arrive, Limiter!IncrFails, Limiter!PExpireFails, Limiter!Lost
  <2>2. Pending(c)' \subseteq Pending(c)
    BY <1>1 DEF Limiter!Arrive, Limiter!IncrFails, Limiter!PExpireFails, Limiter!Lost,
                Limiter!Goto, Limiter!TypeOK, Pending
  <2>3. QED
    BY <1>a, <1>b, <2>1, <2>2, QuietEpochs
<1>2. ASSUME NEW r \in Requests, Limiter!PExpire(r) PROVE Goal
  <2>1. /\ UNCHANGED <<count, value, ip, age, granted>> /\ reqPc[r] = "pexpire"
        /\ reqPc' = [reqPc EXCEPT ![r] = "decide"]
        /\ life' = [life EXCEPT ![ip[r]] = IF count[ip[r]] > 0 THEN window ELSE @]
    BY <1>2 DEF Limiter!PExpire, Limiter!Goto
  <2>2. Pending(c)' \subseteq Pending(c)
    BY <2>1 DEF Limiter!TypeOK, Pending
  <2>3. life'[c] = life[c] \/ life'[c] = window
    BY <2>1 DEF Limiter!TypeOK
  <2>4. QED
    BY <1>a, <1>b, <2>1, <2>2, <2>3, LimitsPositive, QuietEpochs
<1>3. ASSUME NEW r \in Requests, Limiter!Incr(r) PROVE Goal
  <2> DEFINE n == IF count[ip[r]] > max THEN count[ip[r]] ELSE count[ip[r]] + 1
  <2>1. /\ reqPc[r] = "incr" /\ ip[r] \in Addresses
        /\ count' = [count EXCEPT ![ip[r]] = n] /\ value' = [value EXCEPT ![r] = n]
        /\ reqPc' \in [Requests -> {"idle", "incr", "pexpire", "decide"}]
        /\ \A q \in Requests : q # r => reqPc'[q] = reqPc[q]
        /\ reqPc'[r] \in {"pexpire", "decide"}
        /\ age' = [age EXCEPT ![r] = 0]
        /\ UNCHANGED <<life, ip, granted>>
    BY <1>3, <1>a DEF Limiter!Incr, Limiter!Goto, Limiter!TypeOK
  <2>2. value'[r] = n /\ age'[r] = 0 /\ r \notin Pending(c)
    BY <2>1 DEF Limiter!TypeOK, Pending
  <2>3. \A q \in Requests : q # r => value'[q] = value[q] /\ age'[q] = age[q]
    BY <2>1 DEF Limiter!TypeOK
  <2>4. \A q \in Requests : q # r => (q \in Pending(c)' <=> q \in Pending(c))
    BY <2>1, <2>3 DEF Pending
  <2>5. r \in Pending(c)' <=> ip[r] = c /\ n <= max
    BY <2>1, <2>2, LimitsPositive DEF Pending
  <2>6. Pending(c) \subseteq Requests /\ Pending(c)' \subseteq Requests
    BY DEF Pending
  <2>7. CASE ip[r] = c /\ count[c] < max
    <3>1. n = count[c] + 1 /\ count'[c] = count[c] + 1 /\ n <= max
      BY <1>b, <2>1, <2>7, LimitsPositive DEF Limiter!TypeOK
    <3>2. Pending(c)' = Pending(c) \cup {r}
      BY <2>4, <2>5, <2>6, <2>7, <3>1
    <3>3. \A q \in Pending(c) : age'[q] = age[q]
      BY <2>2, <2>3, <2>6
    <3>4. Windows(Limiter!Admitted(c), Pending(c) \cup {r}, age', life[c], count[c] + 1)
      BY <1>b, <1>c, <2>2, <2>7, <3>3, OneCounted
    <3>5. Limiter!Admitted(c)' = Limiter!Admitted(c) /\ life'[c] = life[c]
      BY <2>1 DEF Limiter!Admitted
    <3>6. QED
      BY <3>1, <3>2, <3>4, <3>5
  <2>8. CASE ~(ip[r] = c /\ count[c] < max)
    <3>1. ip[r] = c => n > max
      BY <1>b, <2>8, LimitsPositive
    <3>2. Pending(c)' \subseteq Pending(c)
      BY <2>4, <2>5, <2>6, <3>1, <1>b, LimitsPositive
    <3>3. \A q \in Pending(c)' : age'[q] = age[q]
      BY <2>2, <2>3, <2>6, <3>2
    <3>4. count[c] <= count'[c] /\ life'[c] = life[c]
      BY <1>b, <2>1, LimitsPositive DEF Limiter!TypeOK
    <3>5. QED
      BY <1>a, <2>1, <3>2, <3>3, <3>4, QuietEpochs
  <2>9. QED
    BY <2>7, <2>8
<1>4. ASSUME NEW r \in Requests, Limiter!Decide(r) PROVE Goal
  <2>1. /\ reqPc[r] = "decide" /\ reqPc' = [reqPc EXCEPT ![r] = "idle"] /\ ip[r] \in Addresses
        /\ granted' = [granted EXCEPT ![ip[r]] =
              [i \in Limiter!Ages |-> IF i = age[r] /\ value[r] <= max
                                     THEN granted[ip[r]][i] + 1 ELSE granted[ip[r]][i]]]
        /\ UNCHANGED <<count, life, ip, value, age>>
    BY <1>4 DEF Limiter!Decide, Limiter!Goto, Limiter!TypeOK
  <2>2. Pending(c)' = Pending(c) \ {r}
    BY <2>1 DEF Pending, Limiter!TypeOK
  <2>3. CASE r \in Pending(c)
    <3>1. ip[r] = c /\ value[r] <= max /\ age[r] \in Limiter!Ages
      BY <1>d, <2>3, LimitsPositive DEF Pending, Limiter!Ages
    <3> DEFINE x == <<age[r], granted[c][age[r]] + 1>>
    <3>2. /\ granted[c] \in [Limiter!Ages -> Nat]
          /\ granted'[c] = [i \in Limiter!Ages |-> IF i = age[r] THEN granted[c][i] + 1
                                                  ELSE granted[c][i]]
      BY <2>1, <3>1 DEF Limiter!TypeOK
    <3>3. x \notin Limiter!Admitted(c)
      BY <3>1, <3>2, AdmittedPairs
    <3>4. Limiter!Admitted(c)' = Limiter!Admitted(c) \cup {x}
      <4>1. \A i, k : <<i, k>> \in Limiter!Admitted(c)'
                        <=> i \in Limiter!Ages /\ k \in 1..granted'[c][i]
        BY <1>e
      <4>2. \A i, k : <<i, k>> \in Limiter!Admitted(c)
                        <=> i \in Limiter!Ages /\ k \in 1..granted[c][i]
        BY AdmittedPairs
      <4>3. /\ Limiter!Admitted(c)' \in SUBSET (Nat \X Nat)
            /\ Limiter!Admitted(c) \in SUBSET (Nat \X Nat)
        BY <1>e, AdmittedPairs
      <4>4. \A i, k : <<i, k>> \in Limiter!Admitted(c)'
                        <=> <<i, k>> \in Limiter!Admitted(c) \/ <<i, k>> = x
        <5> SUFFICES ASSUME NEW i \in Limiter!Ages, NEW k
                     PROVE  k \in 1..granted'[c][i] <=> k \in 1..granted[c][i] \/ <<i, k>> = x
          BY <3>1, <4>1, <4>2
        <5>1. granted[c][i] \in Nat
          BY <3>2
        <5>2. CASE i = age[r]
          BY <3>2, <5>1, <5>2
        <5>3. CASE i # age[r]
          BY <3>2, <5>3
        <5>4. QED
          BY <5>2, <5>3
      <4>5. QED
        BY <4>3, <4>4
    <3>5. Windows(Limiter!Admitted(c) \cup {x}, Pending(c) \ {r}, age, life[c], count[c])
      BY <1>b, <1>c, <2>3, <3>3, OneDecided
    <3>6. QED
      BY <2>1, <2>2, <3>4, <3>5
  <2>4. CASE r \notin Pending(c)
    <3>1. granted'[c] = granted[c]
      <4>1. CASE ip[r] # c
        BY <2>1, <4>1 DEF Limiter!TypeOK
      <4>2. CASE ip[r] = c
        <5>1. ~(age[r] \in Limiter!Ages /\ value[r] <= max)
          BY <2>1, <2>4, <4>2, <1>d, LimitsPositive DEF Pending, Limiter!Ages
        <5>2. granted'[c] = [i \in Limiter!Ages |-> granted[c][i]]
          BY <2>1, <4>2, <5>1 DEF Limiter!TypeOK
        <5>3. QED
          BY <5>2 DEF Limiter!TypeOK
      <4>3. QED
        BY <4>1, <4>2
    <3>2. Limiter!Admitted(c)' = Limiter!Admitted(c)
      BY <3>1 DEF Limiter!Admitted
    <3>3. Pending(c)' = Pending(c)
      BY <2>2, <2>4
    <3>4. QED
      BY <1>c, <2>1, <3>2, <3>3
  <2>5. QED
    BY <2>3, <2>4
<1>5. CASE Limiter!Tick
  <2>1. /\ count'[c] = IF life[c] = 1 THEN 0 ELSE count[c]
        /\ life[c] = 1 => life'[c] = window + 1
        /\ life'[c] \in Nat /\ life'[c] + 1 >= life[c]
        /\ age' = [r \in Requests |-> IF age[r] < window THEN age[r] + 1 ELSE window]
        /\ granted'[c] = [i \in Limiter!Ages |-> IF i = 0 THEN 0 ELSE granted[c][i - 1]]
        /\ UNCHANGED <<reqPc, ip, value>>
    <3>1. life'[c] = IF life[c] = Limiter!Forever \/ life[c] = 1
                     THEN Limiter!Forever ELSE life[c] - 1
      BY <1>5 DEF Limiter!Tick
    <3>2. life[c] \in 1..Limiter!Forever /\ Limiter!Forever = window + 1
      BY DEF Limiter!TypeOK, Limiter!Forever
    <3>3. QED
      BY <1>5, <3>1, <3>2, LimitsPositive DEF Limiter!Tick
  <2>2. /\ Pending(c)' \in SUBSET Pending(c)
        /\ \A r \in Pending(c)' : age[r] \in Nat /\ age'[r] = age[r] + 1 /\ age'[r] < window
    <3>1. \A r \in Requests : age'[r] < window => age[r] < window /\ age'[r] = age[r] + 1
      BY <1>d, <2>1, LimitsPositive
    <3>2. QED
      BY <1>d, <2>1, <3>1 DEF Pending
  <2>3. /\ Limiter!Admitted(c)' \in SUBSET (Nat \X Nat)
        /\ Limiter!Admitted(c) \in SUBSET (Nat \X Nat)
    BY <1>e, AdmittedPairs
  <2>4. \A t \in Limiter!Admitted(c)' :
          t[1] < window /\ <<t[1] - 1, t[2]>> \in Limiter!Admitted(c)
    <3> SUFFICES ASSUME NEW i, NEW k, <<i, k>> \in Limiter!Admitted(c)'
                 PROVE  i < window /\ <<i - 1, k>> \in Limiter!Admitted(c)
      BY <2>3
    <3>1. i \in Limiter!Ages /\ k \in 1..granted'[c][i]
      BY <1>e
    <3>2. i # 0 /\ i - 1 \in Limiter!Ages /\ i < window /\ k \in 1..granted[c][i - 1]
      BY <2>1, <3>1, LimitsPositive DEF Limiter!Ages
    <3>3. QED
      BY <3>2, AdmittedPairs
  <2>5. Aged(Limiter!Admitted(c), Limiter!Admitted(c)')
    BY <2>4 DEF Aged
  <2>6. \A t \in Limiter!Admitted(c) : t[1] \in Nat
    BY <2>3
  <2>7. CASE life[c] = 1
    <3>1. Windows(Limiter!Admitted(c)', Pending(c)', age', window + 1, 0)
      BY <1>b, <1>c, <2>2, <2>3, <2>4, <2>5, <2>6, <2>7, CounterEnds
    <3>2. QED
      BY <2>1, <2>7, <3>1
  <2>8. CASE life[c] # 1
    <3>1. Windows(Limiter!Admitted(c)', Pending(c)', age', life'[c], count[c])
      BY <1>b, <1>c, <2>1, <2>2, <2>3, <2>5, <2>6, CounterAges
    <3>2. QED
      BY <2>1, <2>8, <3>1
  <2>9. QED
    BY <2>7, <2>8
<1>6. CASE UNCHANGED L
  BY <1>6, <1>c DEF L, Pending, Limiter!Admitted
<1>7. QED
  BY <1>1, <1>2, <1>3, <1>4, <1>5, <1>6 DEF Next, vars, Limiter!Next, Limiter!Step

(* ratelimit.go:58, for any clients, requests, limit and window: however    *)
(* requests overlap and stall and commands fail, at most twice the limit of *)
(* those counted in any span of a window's length pass.                     *)
THEOREM AtMostTwoWindows == Spec => []AdmissionBounded
<1>1. Spec => []Limiter!TypeOK
  BY LimiterInit, LimiterTypes, PTL DEF Spec
<1>2. Spec => []Epochs
  BY <1>1, EpochsInit, EpochsKept, PTL DEF Spec
<1>3. Epochs => AdmissionBounded
  <2> SUFFICES ASSUME Epochs, NEW c \in Addresses
               PROVE  Cardinality(Limiter!Admitted(c)) <= 2 * max
    BY LimitCounting DEF AdmissionBounded, Limiter!AdmissionBounded
  <2>1. PICK g \in SUBSET Limiter!Admitted(c), p \in SUBSET Pending(c) :
          AtMost(g, p, max) /\ AtMost(Limiter!Admitted(c) \ g, Pending(c) \ p, max)
    BY DEF Epochs, Windows
  <2> DEFINE h == Limiter!Admitted(c) \ g
  <2>2. /\ IsFiniteSet(g) /\ IsFiniteSet(h) /\ Cardinality(g) <= max /\ Cardinality(h) <= max
    <3>1. /\ IsFiniteSet(g) /\ IsFiniteSet(p) /\ Cardinality(g) + Cardinality(p) <= max
          /\ IsFiniteSet(h) /\ IsFiniteSet(Pending(c) \ p)
          /\ Cardinality(h) + Cardinality(Pending(c) \ p) <= max
      BY <2>1 DEF AtMost
    <3>2. /\ Cardinality(g) \in Nat /\ Cardinality(p) \in Nat
          /\ Cardinality(h) \in Nat /\ Cardinality(Pending(c) \ p) \in Nat
      BY <3>1, FS_CardinalityType
    <3>3. QED
      BY <3>1, <3>2, LimitsPositive
  <2>3. Cardinality(g \cup h) = Cardinality(g) + Cardinality(h) - Cardinality(g \cap h)
    BY ONLY <2>2, FS_Union
  <2>4. g \cup h = Limiter!Admitted(c) /\ g \cap h = {}
    OBVIOUS
  <2>5. Cardinality({}) = 0 /\ Cardinality(g) \in Nat /\ Cardinality(h) \in Nat
    BY <2>2, FS_EmptySet, FS_CardinalityType
  <2> HIDE DEF h
  <2>6. Cardinality(g \cup h) = Cardinality(Limiter!Admitted(c))
    BY <2>4, Zenon
  <2>7. Cardinality(g \cap h) = 0
    BY <2>4, <2>5, Zenon
  <2>8. Cardinality(g \cup h) <= 2 * max
    BY <2>2, <2>3, <2>5, <2>7, LimitsPositive
  <2>9. QED
    BY <2>6, <2>8, Zenon
<1>4. QED
  BY <1>2, <1>3, PTL

=============================================================================
