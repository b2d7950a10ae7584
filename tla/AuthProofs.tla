----------------------------- MODULE AuthProofs -----------------------------
(***************************************************************************)
(* What the caches of the authentication policies may delay and what they  *)
(* may not change: jwt-auth, and opaque-token-auth before backend-jwt, for *)
(* every configuration, number of requests and change of keys or reports.  *)
(***************************************************************************)
EXTENDS PolicyHost, NaturalsInduction, WellFoundedInduction, TLAPS

-----------------------------------------------------------------------------
(***************************************************************************)
(* The LRU cache: a sequence that never gains but the entry put into it    *)
(***************************************************************************)

IsList(s) == s \in Seq(ToSet(s))

LEMMA ListOver ==
  ASSUME NEW S, NEW s \in Seq(S)
  PROVE  IsList(s) /\ ToSet(s) \subseteq S
<1>1. Len(s) \in Nat /\ DOMAIN s = 1..Len(s)
  OBVIOUS
<1> QED  BY <1>1 DEF IsList, ToSet

LEMMA RemovedOver ==
  ASSUME NEW S, NEW s \in Seq(S), NEW i \in DOMAIN s
  PROVE  RemoveAt(s, i) \in Seq(S)
<1>1. Len(s) \in Nat /\ DOMAIN s = 1..Len(s) /\ i \in 1..Len(s)
  OBVIOUS
<1>2. SubSeq(s, 1, i - 1) \in Seq(S)
  BY <1>1
<1>3. SubSeq(s, i + 1, Len(s)) \in Seq(S)
  BY <1>1
<1> QED  BY <1>2, <1>3 DEF RemoveAt

LEMMA DeleteOver ==
  ASSUME NEW S, NEW s \in Seq(S), NEW key
  PROVE  LruDelete(s, key) \in Seq(S)
<1>1. Holds(s, key) => Place(s, key) \in DOMAIN s
  BY DEF Holds, Place
<1> QED  BY <1>1, RemovedOver DEF LruDelete

LEMMA TouchOver ==
  ASSUME NEW S, NEW s \in Seq(S), NEW key
  PROVE  LruTouch(s, key) \in Seq(S)
<1>1. Holds(s, key) => Place(s, key) \in DOMAIN s
  BY DEF Holds, Place
<1>2. Holds(s, key) => s[Place(s, key)] \in S
  BY <1>1
<1>3. LruDelete(s, key) \in Seq(S)
  BY DeleteOver
<1> QED  BY <1>2, <1>3 DEF LruTouch

LEMMA PutOver ==
  ASSUME NEW S, NEW s \in Seq(S), NEW size \in Nat \ {0}, NEW e
  PROVE  LruPut(s, size, e) \in Seq(S \union {e})
<1> DEFINE others == LruDelete(s, e.key)
<1>1. others \in Seq(S)
  BY DeleteOver
<1> HIDE DEF others
<1>2. Len(others) = size => Tail(others) \in Seq(S)
  BY <1>1
<1>3. ASSUME NEW kept \in Seq(S) PROVE Append(kept, e) \in Seq(S \union {e})
  <2>1. kept \in Seq(S \union {e})
    OBVIOUS
  <2> QED  BY <2>1
<1> QED  BY <1>1, <1>2, <1>3 DEF LruPut, others

\* The entries of a cache after each of its operations.
LEMMA LruEntries ==
  ASSUME NEW s, IsList(s), NEW key
  PROVE  /\ IsList(LruDelete(s, key)) /\ ToSet(LruDelete(s, key)) \subseteq ToSet(s)
         /\ IsList(LruTouch(s, key)) /\ ToSet(LruTouch(s, key)) \subseteq ToSet(s)
  BY DeleteOver, TouchOver, ListOver DEF IsList

LEMMA LruPutEntries ==
  ASSUME NEW s, IsList(s), NEW size \in Nat \ {0}, NEW e
  PROVE  IsList(LruPut(s, size, e)) /\ ToSet(LruPut(s, size, e)) \subseteq ToSet(s) \union {e}
  BY PutOver, ListOver DEF IsList

-----------------------------------------------------------------------------
(***************************************************************************)
(* jwt-auth: the key managers of a configuration                           *)
(***************************************************************************)

LEMMA ManagerLoads ==
  ASSUME NEW p \in JwtParams, NEW km \in keyManagers(p)
  PROVE  /\ km \in ToSet(p.keyManagers) /\ Loads(km)
         /\ km.remote \in JwksUris \union {""}
<1>1. km \in ToSet(p.keyManagers) /\ Loads(km)
  BY DEF keyManagers, ToSet
<1> QED  BY <1>1, JwtAssumption

\* Of two entries with one name the last counts.
LEMMA ManagerByName ==
  ASSUME NEW p \in JwtParams, NEW a \in keyManagers(p), NEW b \in keyManagers(p), a.name = b.name
  PROVE  a = b
<1> DEFINE list == p.keyManagers
           counts(i) == /\ Loads(list[i])
                        /\ \A l \in i+1..Len(list) : Loads(list[l]) => list[l].name # list[i].name
<1>1. list \in Seq(ToSet(list))
  BY JwtAssumption
<1>2. DOMAIN list = 1..Len(list) /\ Len(list) \in Nat
  BY <1>1
<1>3. PICK i \in DOMAIN list : a = list[i] /\ counts(i)
  BY DEF keyManagers
<1>4. PICK j \in DOMAIN list : b = list[j] /\ counts(j)
  BY DEF keyManagers
<1>5. ~(i < j)
  <2> SUFFICES ASSUME i < j PROVE FALSE
    OBVIOUS
  <2>1. j \in i+1..Len(list)
    BY <1>2
  <2> QED  BY <2>1, <1>3, <1>4
<1>6. ~(j < i)
  <2> SUFFICES ASSUME j < i PROVE FALSE
    OBVIOUS
  <2>1. i \in j+1..Len(list)
    BY <1>2
  <2> QED  BY <2>1, <1>3, <1>4
<1>7. i = j
  BY <1>2, <1>5, <1>6
<1> QED  BY <1>3, <1>4, <1>7

\* The key managers a token may be verified with.
Applicable(p, t) == UNION {UNION ToSet(s) : s \in applicableKeyManagers(p, t)}

LEMMA ApplicableOrders ==
  ASSUME NEW p \in JwtParams, NEW t, NEW s \in applicableKeyManagers(p, t)
  PROVE  s \in Seq(SUBSET keyManagers(p))
<1> DEFINE all == keyManagers(p)
           with(iss) == {km \in all : km.issuer = iss}
           named(i) == {km \in all : km.name = i /\ km.issuer \in {"", t.iss}}
           valued(i) == IF i = t.iss THEN with(i) ELSE {}
           turn(n) == LET i == p.issuers[(n + 1) \div 2] IN IF n % 2 = 1 THEN named(i) ELSE valued(i)
           order == [n \in 1..2 * Len(p.issuers) |-> turn(n)]
<1>1. \/ s = order \/ \E km \in all : s = <<{km}>> 
      \/ s = <<all>> \/ s = <<with("")>> \/ s = <<{}>>
  BY DEF applicableKeyManagers
<1>2. order \in Seq(SUBSET all)
  <2>0. p.issuers \in Seq(ToSet(p.issuers))
    BY JwtAssumption
  <2>1. Len(p.issuers) \in Nat
    BY <2>0
  <2>2. 2 * Len(p.issuers) \in Nat
    BY <2>1
  <2>3. ASSUME NEW n PROVE turn(n) \in SUBSET all
    OBVIOUS
  <2> HIDE DEF turn, all
  <2> DEFINE N == 2 * Len(p.issuers)
  <2>4. N \in Nat
    BY <2>2
  <2> HIDE DEF N
  <2>5. [n \in 1..N |-> turn(n)] \in Seq(SUBSET all)
    BY <2>3, <2>4
  <2> QED  BY <2>5 DEF N
<1> HIDE DEF order, all
<1>3. ASSUME NEW x \in SUBSET all PROVE <<x>> \in Seq(SUBSET all)
  BY <1>3
<1>4. \A km \in all : {km} \in SUBSET all
  OBVIOUS
<1>5. with("") \in SUBSET all /\ {} \in SUBSET all /\ all \in SUBSET all
  OBVIOUS
<1>6. s \in Seq(SUBSET all)
  BY <1>1, <1>2, <1>3, <1>4, <1>5
<1> QED  BY <1>6 DEF all

LEMMA ApplicableManagers ==
  ASSUME NEW p \in JwtParams, NEW t
  PROVE  /\ Applicable(p, t) \subseteq keyManagers(p)
         /\ \A s \in applicableKeyManagers(p, t) : s \in Seq(SUBSET Applicable(p, t))
<1>1. ASSUME NEW s \in applicableKeyManagers(p, t)
      PROVE  /\ \A i \in DOMAIN s : s[i] \subseteq keyManagers(p)
             /\ s \in Seq(SUBSET Applicable(p, t))
  <2>1. s \in Seq(SUBSET keyManagers(p))
    BY ApplicableOrders
  <2>2. Len(s) \in Nat /\ DOMAIN s = 1..Len(s)
    BY <2>1
  <2>3. ASSUME NEW i \in DOMAIN s PROVE s[i] \in SUBSET Applicable(p, t)
    BY DEF Applicable, ToSet
  <2>4. \A i \in DOMAIN s : s[i] \subseteq keyManagers(p)
    BY <2>1
  <2> QED  BY <2>1, <2>2, <2>3, <2>4
<1>2. ASSUME NEW km \in Applicable(p, t) PROVE km \in keyManagers(p)
  <2>1. PICK s \in applicableKeyManagers(p, t) : \E i \in DOMAIN s : km \in s[i]
    BY DEF Applicable, ToSet
  <2> QED  BY <1>1, <2>1
<1> QED  BY <1>1, <1>2

\* What a verdict depends on is part of its key.
LEMMA SameFingerprint ==
  ASSUME NEW p \in JwtParams, NEW q \in JwtParams, NEW t \in JwtTokens, NEW u \in JwtTokens,
         buildTokenCacheKey(p, t) = buildTokenCacheKey(q, u)
  PROVE  /\ t = u /\ p.leeway = q.leeway
         /\ keyManagers(p) = keyManagers(q) /\ LocalIds(p) = LocalIds(q)
         /\ Applicable(p, t) = Applicable(q, u)
<1>1. /\ t = u /\ p.leeway = q.leeway /\ p.keyManagers = q.keyManagers
      /\ p.issuers = q.issuers /\ p.validateIssuer = q.validateIssuer
  BY DEF buildTokenCacheKey, tokenConfigFingerprint
<1>2. keyManagers(p) = keyManagers(q)
  BY <1>1, Zenon DEF keyManagers
<1>3. LocalIds(p) = LocalIds(q)
  BY <1>2, Zenon DEF LocalIds
<1>4. applicableKeyManagers(p, t) = applicableKeyManagers(q, u)
  BY <1>1, <1>2, Zenon DEF applicableKeyManagers
<1> QED  BY <1>1, <1>2, <1>3, <1>4, Zenon DEF Applicable

-----------------------------------------------------------------------------
(***************************************************************************)
(* jwt-auth: the inductive invariant                                       *)
(***************************************************************************)

JwksKeys == UNION ToSet(JwksSets)
Managers == UNION {keyManagers(p) : p \in JwtParams}
JwtRequests ==
    [pc : {"verify", "fetch", "reply"}, params : JwtParams, token : JwtTokens,
     todo : Seq(SUBSET Managers), km : SUBSET Managers, attempt : Int, reply : SUBSET JwksKeys, due : Int]

JwtTypeInv ==
    /\ jwtClock \in Nat /\ cacheSize \in Nat \ {0} /\ IsList(verdicts)
    /\ published \in [JwksUris -> ToSet(JwksSets)]
    /\ jwksStore = [u \in JwksUris |-> jwksStore[u]]
    /\ jwt \in [JwtCallers -> JwtRequests \union {NoJwt}]

\* A key is either published or has a time at which it was withdrawn.
PublishedIds == {k.id : k \in UNION {published[u] : u \in JwksUris}}
WithdrawnInv ==
    /\ DOMAIN withdrawn \cap PublishedIds = {}
    /\ \A id \in DOMAIN withdrawn : withdrawn[id] \in Nat /\ withdrawn[id] <= jwtClock

\* A key that was withdrawn was withdrawn no longer than so before the given time.
NotLongAfter(id, time, slack) == id \in DOMAIN withdrawn => time <= withdrawn[id] + slack

\* A cached key set expires soon enough after each of its keys is withdrawn.
KeysInv(e) ==
    /\ e.ttl \in Int /\ e.ttl <= jwtClock + JwksCacheTtl
    /\ \A k \in e.keys : NotLongAfter(k.id, e.ttl, JwksFetchTimeout + JwksCacheTtl)

\* So does a reply under way.
ReplyInv(q) ==
    q.pc = "reply" =>
        /\ jwtClock <= q.due /\ q.due <= jwtClock + JwksFetchTimeout
        /\ \A k \in q.reply : NotLongAfter(k.id, q.due, JwksFetchTimeout)

\* A request tries key managers the configuration admits, and fetches for remote ones.
RequestInv(q) ==
    q # NoJwt =>
        /\ q.todo \in Seq(SUBSET Applicable(q.params, q.token)) /\ q.km \subseteq Applicable(q.params, q.token)
        /\ q.pc \in {"fetch", "reply"} => \A km \in q.km : km.local.state # "ok"
        /\ ReplyInv(q)

\* A cached verdict is what a verification with its configuration found, and holds until
\* it expires.
AcceptanceInv(v, p, t) ==
    /\ v.expiresAt <= jwtClock + TokenCacheTtl
    /\ t.signedBy \notin LocalIds(p) =>
          NotLongAfter(t.signedBy, v.expiresAt, JwksFetchTimeout + (JwksCacheTtl - 1) + TokenCacheTtl)
    /\ \A e \in t.exp : v.expiresAt <= e - p.leeway
    /\ \A n \in t.nbf : n - p.leeway <= jwtClock
    /\ \E km \in Applicable(p, t) : v.km = km.name /\ v.scopes = resolveScopes(t, km)
VerdictInv(v) ==
    /\ v.expiresAt \in Int
    /\ \E p \in JwtParams, t \in JwtTokens :
          /\ v.key = buildTokenCacheKey(p, t)
          /\ v.ok => AcceptanceInv(v, p, t)
          /\ ~v.ok => ~t.wellFormed \/ TokenExpired(t, p.leeway)

JwtInv ==
    /\ JwtTypeInv /\ WithdrawnInv
    /\ \A u \in JwksUris : \A e \in jwksStore[u] : KeysInv(e)
    /\ \A r \in JwtCallers : RequestInv(jwt[r])
    /\ \A v \in ToSet(verdicts) : VerdictInv(v)
    /\ outlived = {} /\ wronged = {}

LEMMA JwtInitInv == JwtInit => JwtInv
<1> SUFFICES ASSUME JwtInit PROVE JwtInv
  OBVIOUS
<1> USE DEF JwtInit
<1>1. JwksSets[1] \in ToSet(JwksSets)
  <2>1. JwksSets \in Seq(ToSet(JwksSets)) /\ JwksSets # <<>>
    BY JwtAssumption
  <2>2. 1 \in DOMAIN JwksSets
    BY <2>1
  <2> QED  BY <2>2 DEF ToSet
<1>2. IsList(verdicts) /\ ToSet(verdicts) = {}
  BY DEF IsList, ToSet
<1>3. JwtTypeInv
  BY <1>1, <1>2, JwtAssumption DEF JwtTypeInv
<1>4. WithdrawnInv
  BY DEF WithdrawnInv
<1>5. \A r \in JwtCallers : RequestInv(jwt[r])
  BY DEF RequestInv
<1> QED  BY <1>2, <1>3, <1>4, <1>5 DEF JwtInv

-----------------------------------------------------------------------------
(***************************************************************************)
(* Time passes, keys are withdrawn and published again                     *)
(***************************************************************************)

TimePasses ==
    /\ jwtClock \in Nat /\ jwtClock' \in Nat /\ jwtClock <= jwtClock'
    /\ \A id \in DOMAIN withdrawn' :
          /\ withdrawn'[id] \in Nat
          /\ \/ jwtClock <= withdrawn'[id]
             \/ id \in DOMAIN withdrawn /\ withdrawn[id] = withdrawn'[id]

LEMMA WithinKept ==
  ASSUME TimePasses, NEW id, NEW time \in Int, NEW slack \in Nat,
         NotLongAfter(id, time, slack), time <= jwtClock + slack
  PROVE  NotLongAfter(id, time, slack)'
  BY DEF TimePasses, NotLongAfter

LEMMA KeysKept ==
  ASSUME TimePasses, NEW e, KeysInv(e)
  PROVE  KeysInv(e)'
<1>1. JwksFetchTimeout \in Nat /\ JwksCacheTtl \in Nat
  BY JwtAssumption
<1>2. e.ttl \in Int /\ e.ttl <= jwtClock + JwksCacheTtl /\ jwtClock \in Nat /\ jwtClock' \in Nat /\ jwtClock <= jwtClock'
  BY DEF KeysInv, TimePasses
<1>3. ASSUME NEW k \in e.keys PROVE NotLongAfter(k.id, e.ttl, JwksFetchTimeout + JwksCacheTtl)'
  <2>1. NotLongAfter(k.id, e.ttl, JwksFetchTimeout + JwksCacheTtl)
    BY DEF KeysInv
  <2>2. e.ttl <= jwtClock + (JwksFetchTimeout + JwksCacheTtl) /\ JwksFetchTimeout + JwksCacheTtl \in Nat
    BY <1>1, <1>2
  <2> QED  BY <1>2, <2>1, <2>2, WithinKept
<1>4. e.ttl <= jwtClock' + JwksCacheTtl
  BY <1>1, <1>2
<1> QED  BY <1>2, <1>3, <1>4 DEF KeysInv

LEMMA VerdictKept ==
  ASSUME TimePasses, NEW v, VerdictInv(v)
  PROVE  VerdictInv(v)'
<1>1. JwksFetchTimeout \in Nat /\ JwksCacheTtl \in Nat \ {0} /\ TokenCacheTtl \in Nat
  BY JwtAssumption
<1>2. v.expiresAt \in Int /\ jwtClock \in Nat /\ jwtClock' \in Nat /\ jwtClock <= jwtClock'
  BY DEF VerdictInv, TimePasses
<1>3. PICK p \in JwtParams, t \in JwtTokens :
          /\ v.key = buildTokenCacheKey(p, t)
          /\ v.ok => AcceptanceInv(v, p, t)
          /\ ~v.ok => ~t.wellFormed \/ TokenExpired(t, p.leeway)
  BY DEF VerdictInv
<1>4. p.leeway \in Nat /\ t.exp \subseteq Int /\ t.nbf \subseteq Int
  BY JwtAssumption
<1>5. ASSUME AcceptanceInv(v, p, t) PROVE AcceptanceInv(v, p, t)'
  <2> DEFINE slack == JwksFetchTimeout + (JwksCacheTtl - 1) + TokenCacheTtl
  <2>1. slack \in Nat /\ v.expiresAt <= jwtClock + TokenCacheTtl /\ v.expiresAt <= jwtClock + slack
    BY <1>1, <1>2, <1>5 DEF AcceptanceInv
  <2>2. t.signedBy \notin LocalIds(p) => NotLongAfter(t.signedBy, v.expiresAt, slack)
    BY <1>5 DEF AcceptanceInv
  <2> HIDE DEF slack
  <2>3. t.signedBy \notin LocalIds(p) => NotLongAfter(t.signedBy, v.expiresAt, slack)'
    BY <1>2, <2>1, <2>2, WithinKept
  <2>4. v.expiresAt <= jwtClock' + TokenCacheTtl
    BY <1>1, <1>2, <2>1
  <2>5. \A n \in t.nbf : n - p.leeway <= jwtClock'
    BY <1>2, <1>4, <1>5 DEF AcceptanceInv
  <2>6. /\ \A e \in t.exp : v.expiresAt <= e - p.leeway
        /\ \E km \in Applicable(p, t) : v.km = km.name /\ v.scopes = resolveScopes(t, km)
    BY <1>5 DEF AcceptanceInv
  <2> QED  BY <2>3, <2>4, <2>5, <2>6 DEF AcceptanceInv, slack
<1>6. TokenExpired(t, p.leeway) => TokenExpired(t, p.leeway)'
  BY <1>2, <1>4 DEF TokenExpired
<1> QED  BY <1>2, <1>3, <1>5, <1>6 DEF VerdictInv

LEMMA ReplyKept ==
  ASSUME TimePasses, NEW q, q.pc = "reply" => q.due \in Int /\ jwtClock' <= q.due, ReplyInv(q)
  PROVE  ReplyInv(q)'
<1> SUFFICES ASSUME q.pc = "reply" PROVE ReplyInv(q)'
  BY DEF ReplyInv
<1>1. JwksFetchTimeout \in Nat
  BY JwtAssumption
<1>2. /\ q.due \in Int /\ q.due <= jwtClock + JwksFetchTimeout /\ jwtClock \in Nat /\ jwtClock' \in Nat
      /\ jwtClock <= jwtClock'
  BY DEF ReplyInv, TimePasses
<1>3. ASSUME NEW k \in q.reply PROVE NotLongAfter(k.id, q.due, JwksFetchTimeout)'
  BY <1>1, <1>2, WithinKept DEF ReplyInv
<1>4. q.due <= jwtClock' + JwksFetchTimeout
  BY <1>1, <1>2
<1> QED  BY <1>3, <1>4 DEF ReplyInv

-----------------------------------------------------------------------------
(***************************************************************************)
(* The answers                                                             *)
(***************************************************************************)

\* What a request's step leaves in the cache and, if it goes on, in the request; an
\* answer is no wrong one.
GoodOutcome(o) ==
    /\ IsList(o.verdicts) /\ \A v \in ToSet(o.verdicts) : VerdictInv(v)
    /\ o.jwt.pc = "done" => ~Outlives(o.jwt) /\ ~Unsound(o.jwt)
    /\ o.jwt.pc # "done" => o.jwt \in JwtRequests /\ RequestInv(o.jwt)

LEMMA GoodKept ==
  ASSUME NEW cache, NEW q, GoodOutcome(Kept(verdicts, q)),
         IsList(cache), ToSet(cache) \subseteq ToSet(verdicts)
  PROVE  GoodOutcome(Kept(cache, q))
  BY DEF GoodOutcome, Kept

LEMMA GoodDenied ==
  ASSUME JwtInv, NEW q
  PROVE  GoodOutcome(Kept(verdicts, Denied(q)))
<1>1. ~Outlives(Denied(q)) /\ ~Unsound(Denied(q))
  BY DEF Outlives, Unsound, Denied, Answer
<1> QED  BY <1>1 DEF GoodOutcome, Kept, Denied, Answer, JwtInv, JwtTypeInv

\* A decision on a verified token.
LEMMA DecisionSound ==
  ASSUME NEW p \in JwtParams, NEW t \in JwtTokens, NEW q, q.params = p, q.token = t,
         NEW km \in Applicable(p, t), NEW cached \in BOOLEAN, jwtClock \in Nat,
         \A e \in t.exp : jwtClock < e + p.leeway,
         \A n \in t.nbf : n - p.leeway <= jwtClock,
         Lag(p, t) \in Int,
         Lag(p, t) <= JwksFetchTimeout + (JwksCacheTtl - 1) + (TokenCacheTtl - 1)
  PROVE  LET a == Decide(q, km.name, resolveScopes(t, km), cached)
         IN  a.pc = "done" /\ ~Outlives(a) /\ ~Unsound(a)
<1> DEFINE a == Decide(q, km.name, resolveScopes(t, km), cached)
           ok == finishAuthentication(p, t, resolveScopes(t, km))
<1>1. /\ a.pc = "done" /\ a.params = p /\ a.token = t /\ a.km = km.name /\ a.cached = cached
      /\ a.lag = Lag(p, t) /\ a.result = IF ok THEN "accepted" ELSE "denied"
  BY DEF Decide, Answer
<1> HIDE DEF a
<1>2. ~Outlives(a)
  <2>1. /\ JwksFetchTimeout \in Nat /\ JwksCacheTtl \in Nat /\ TokenCacheTtl \in Nat
    BY JwtAssumption
  <2> QED  BY <1>1, <2>1 DEF Outlives
<1>3. Admitted(a) = {km}
  <2>1. Admitted(a) = {m \in Applicable(p, t) : m.name = km.name}
    BY <1>1, Zenon DEF Admitted, Applicable
  <2>2. ASSUME NEW m \in Applicable(p, t), m.name = km.name PROVE m = km
    BY <2>2, ApplicableManagers, ManagerByName
  <2> QED  BY <2>1, <2>2
<1>4. Fulfils(a) <=> ok
  BY <1>1, <1>3 DEF Fulfils
<1>5. p.leeway \in Nat /\ t.exp \subseteq Int /\ t.nbf \subseteq Int
  BY JwtAssumption
<1>6. ~Unsound(a)
  <2> HIDE DEF ok
  <2>1. CASE ok
    BY <1>1, <1>4, <1>5, <2>1 DEF Unsound
  <2>2. CASE ~ok
    BY <1>1, <1>3, <1>4, <2>2 DEF Unsound
  <2> QED  BY <2>1, <2>2
<1> QED  BY <1>1, <1>2, <1>6 DEF a

LEMMA LagBounded ==
  ASSUME JwtInv, NEW p, NEW t, NEW slack \in Nat,
         t.signedBy \notin LocalIds(p) => NotLongAfter(t.signedBy, jwtClock, slack)
  PROVE  Lag(p, t) \in Int /\ Lag(p, t) <= slack
<1>1. jwtClock \in Nat /\ \A id \in DOMAIN withdrawn : withdrawn[id] \in Nat
  BY DEF JwtInv, JwtTypeInv, WithdrawnInv
<1> QED  BY <1>1 DEF Lag, NotLongAfter

\* A cached verdict decides like the verification it stands for.
LEMMA GoodHit ==
  ASSUME JwtInv, NEW q \in JwtRequests, NEW cache, IsList(cache), ToSet(cache) \subseteq ToSet(verdicts),
         NEW v \in Cached(buildTokenCacheKey(q.params, q.token))
  PROVE  GoodOutcome([verdicts |-> cache,
                      jwt |-> IF v.ok THEN Decide(q, v.km, v.scopes, TRUE)
                              ELSE Answer(q, "denied", "", TRUE)])
<1> DEFINE p == q.params
           t == q.token
<1>1. /\ v \in ToSet(verdicts) /\ v.key = buildTokenCacheKey(p, t) /\ jwtClock < v.expiresAt
      /\ VerdictInv(v) /\ jwtClock \in Nat /\ p \in JwtParams /\ t \in JwtTokens /\ v.expiresAt \in Int
  BY DEF Cached, JwtInv, JwtTypeInv, VerdictInv, JwtRequests
<1>2. PICK p1 \in JwtParams, t1 \in JwtTokens :
          /\ v.key = buildTokenCacheKey(p1, t1)
          /\ v.ok => AcceptanceInv(v, p1, t1)
          /\ ~v.ok => ~t1.wellFormed \/ TokenExpired(t1, p1.leeway)
  BY <1>1 DEF VerdictInv
<1> HIDE DEF p, t
<1>3. /\ t1 = t /\ p1.leeway = p.leeway /\ LocalIds(p1) = LocalIds(p) /\ Applicable(p1, t1) = Applicable(p, t)
  <2>1. buildTokenCacheKey(p1, t1) = buildTokenCacheKey(p, t)
    BY <1>1, <1>2
  <2>2. p \in JwtParams /\ t \in JwtTokens
    BY <1>1
  <2> QED  BY <2>1, <2>2, SameFingerprint
<1>4. p.leeway \in Nat /\ t.exp \subseteq Int /\ t.nbf \subseteq Int
  BY <1>1, JwtAssumption
<1>5. JwksFetchTimeout \in Nat /\ JwksCacheTtl \in Nat \ {0} /\ TokenCacheTtl \in Nat \ {0}
  BY JwtAssumption
<1>6. ASSUME v.ok
      PROVE  LET a == Decide(q, v.km, v.scopes, TRUE)
             IN  a.pc = "done" /\ ~Outlives(a) /\ ~Unsound(a)
  <2>1. AcceptanceInv(v, p1, t)
    BY <1>2, <1>3, <1>6
  <2>2. PICK km \in Applicable(p, t) : v.km = km.name /\ v.scopes = resolveScopes(t, km)
    BY <1>3, <2>1 DEF AcceptanceInv
  <2>3. ASSUME NEW e \in t.exp PROVE jwtClock < e + p.leeway
    <3>1. v.expiresAt <= e - p.leeway
      BY <1>3, <2>1 DEF AcceptanceInv
    <3> QED  BY <1>1, <1>4, <3>1
  <2>4. \A n \in t.nbf : n - p.leeway <= jwtClock
    BY <1>3, <2>1 DEF AcceptanceInv
  <2> DEFINE slack == JwksFetchTimeout + (JwksCacheTtl - 1) + (TokenCacheTtl - 1)
  <2>5. slack \in Nat
    BY <1>5
  <2>6. t.signedBy \notin LocalIds(p) => NotLongAfter(t.signedBy, jwtClock, slack)
    <3>1. t.signedBy \notin LocalIds(p) =>
              NotLongAfter(t.signedBy, v.expiresAt, JwksFetchTimeout + (JwksCacheTtl - 1) + TokenCacheTtl)
      BY <1>3, <2>1 DEF AcceptanceInv
    <3>2. \A id \in DOMAIN withdrawn : withdrawn[id] \in Nat
      BY DEF JwtInv, WithdrawnInv
    <3> QED  BY <1>1, <1>5, <3>1, <3>2 DEF NotLongAfter
  <2>7. Lag(p, t) \in Int /\ Lag(p, t) <= slack
    <3> HIDE DEF slack
    <3> QED  BY <2>5, <2>6, LagBounded
  <2>8. q.params = p /\ q.token = t /\ TRUE \in BOOLEAN
    BY DEF p, t
  <2>9. LET a == Decide(q, km.name, resolveScopes(t, km), TRUE)
        IN  a.pc = "done" /\ ~Outlives(a) /\ ~Unsound(a)
    BY <1>1, <2>3, <2>4, <2>7, <2>8, DecisionSound, Zenon
  <2> QED  BY <2>2, <2>9
<1>7. ASSUME ~v.ok
      PROVE  LET a == Answer(q, "denied", "", TRUE)
             IN  a.pc = "done" /\ ~Outlives(a) /\ ~Unsound(a)
  <2>1. ~t.wellFormed \/ TokenExpired(t, p.leeway)
    BY <1>2, <1>3, <1>7
  <2> QED  BY <2>1 DEF Answer, Outlives, Unsound, p, t
<1>8. \A x \in ToSet(cache) : VerdictInv(x)
  BY DEF JwtInv
<1> QED  BY <1>6, <1>7, <1>8 DEF GoodOutcome

-----------------------------------------------------------------------------
(***************************************************************************)
(* New verdicts                                                            *)
(***************************************************************************)

LEMMA FirstExpiryLeast ==
  ASSUME NEW p \in JwtParams, NEW t \in JwtTokens, jwtClock \in Nat
  PROVE  LET x == FirstExpiry(t, p.leeway)
         IN  x \in Int /\ x <= jwtClock + TokenCacheTtl /\ \A e \in t.exp : x <= e - p.leeway
<1> DEFINE S == Expiry(t, p.leeway)
           c == jwtClock + TokenCacheTtl
<1>1. /\ p.leeway \in Nat /\ t.exp \subseteq Int /\ (\A m, n \in t.exp : m = n)
  BY JwtAssumption
<1>0. c \in Int
  <2>1. TokenCacheTtl \in Nat
    BY JwtAssumption
  <2> QED  BY <2>1
<1>2. \E x \in S : \A y \in S : x <= y
  <2>1. CASE t.exp = {}
    <3>1. S = {c}
      BY <2>1 DEF Expiry
    <3> QED  BY <1>0, <3>1
  <2>2. CASE t.exp # {}
    <3>1. PICK e : e \in t.exp
      BY <2>2
    <3>2. S = {e - p.leeway, c}
      BY <1>1, <3>1 DEF Expiry
    <3>3. e - p.leeway \in Int
      BY <1>1, <3>1
    <3>4. CASE c <= e - p.leeway
      BY <1>0, <3>2, <3>3, <3>4
    <3>5. CASE e - p.leeway <= c
      BY <1>0, <3>2, <3>3, <3>5
    <3> QED  BY <1>0, <3>3, <3>4, <3>5
  <2> QED  BY <2>1, <2>2
<1> DEFINE x == FirstExpiry(t, p.leeway)
<1>3. x \in S /\ \A y \in S : x <= y
  BY <1>2 DEF FirstExpiry
<1> HIDE DEF x
<1>4. c \in S /\ (\A e \in t.exp : e - p.leeway \in S) /\ S \subseteq Int
  BY <1>0, <1>1 DEF Expiry
<1> QED  BY <1>3, <1>4 DEF x

LEMMA GoodPut ==
  ASSUME JwtInv, NEW key, NEW v, NEW e,
         e = [key |-> key, ok |-> v.ok, km |-> v.km, scopes |-> v.scopes, expiresAt |-> v.expiresAt],
         VerdictInv(e)
  PROVE  IsList(putVerdict(key, v)) /\ \A x \in ToSet(putVerdict(key, v)) : VerdictInv(x)
<1>1. putVerdict(key, v) = LruPut(verdicts, cacheSize, e)
  BY DEF putVerdict
<1>2. IsList(verdicts) /\ cacheSize \in Nat \ {0} /\ \A x \in ToSet(verdicts) : VerdictInv(x)
  BY DEF JwtInv, JwtTypeInv
<1>3. IsList(putVerdict(key, v)) /\ ToSet(putVerdict(key, v)) \subseteq ToSet(verdicts) \union {e}
  BY <1>1, <1>2, LruPutEntries
<1> QED  BY <1>2, <1>3

LEMMA GoodReject ==
  ASSUME JwtInv, NEW q \in JwtRequests,
         ~q.token.wellFormed \/ TokenExpired(q.token, q.params.leeway)
  PROVE  GoodOutcome(Reject(q, buildTokenCacheKey(q.params, q.token)))
<1> DEFINE key == buildTokenCacheKey(q.params, q.token)
           v == [ok |-> FALSE, km |-> "", scopes |-> {}, expiresAt |-> jwtClock + NegativeCacheTtl]
           e == [key |-> key, ok |-> v.ok, km |-> v.km, scopes |-> v.scopes, expiresAt |-> v.expiresAt]
<1>1. q.params \in JwtParams /\ q.token \in JwtTokens
  BY DEF JwtRequests
<1>2. jwtClock \in Nat /\ NegativeCacheTtl \in Nat
  BY JwtAssumption DEF JwtInv, JwtTypeInv
<1>3. VerdictInv(e)
  <2>1. e.expiresAt \in Int /\ e.key = buildTokenCacheKey(q.params, q.token) /\ e.ok = FALSE
    BY <1>2
  <2> HIDE DEF e
  <2> QED  BY <1>1, <2>1 DEF VerdictInv
<1>4. IsList(putVerdict(key, v)) /\ \A x \in ToSet(putVerdict(key, v)) : VerdictInv(x)
  <2> HIDE DEF v, key
  <2> QED  BY <1>3, GoodPut
<1>5. GoodOutcome(Kept(verdicts, Denied(q)))
  BY GoodDenied
<1> QED  BY <1>4, <1>5 DEF GoodOutcome, Reject, Kept

RequestsOver(P, T, D, M, K) ==
    [pc : {"verify", "fetch", "reply"}, params : P, token : T, todo : D, km : M, attempt : Int,
     reply : K, due : Int]

LEMMA RequestUpdates ==
  ASSUME NEW P, NEW T, NEW D, NEW M, NEW K,
         NEW q \in RequestsOver(P, T, D, M, K), NEW d \in D, NEW m \in M, NEW k \in K,
         NEW n \in Int, NEW due \in Int
  PROVE  /\ [q EXCEPT !.pc = "verify", !.km = m, !.attempt = n, !.reply = k, !.due = due]
              \in RequestsOver(P, T, D, M, K)
         /\ [q EXCEPT !.pc = "fetch", !.attempt = n, !.reply = k, !.due = due]
              \in RequestsOver(P, T, D, M, K)
         /\ [q EXCEPT !.todo = d, !.km = m] \in RequestsOver(P, T, D, M, K)
         /\ [q EXCEPT !.todo = d] \in RequestsOver(P, T, D, M, K)
         /\ [q EXCEPT !.pc = "fetch"] \in RequestsOver(P, T, D, M, K)
         /\ [q EXCEPT !.pc = "reply", !.reply = k, !.due = due] \in RequestsOver(P, T, D, M, K)
         /\ q.attempt \in Int
  BY DEF RequestsOver

LEMMA RequestsAre ==
  JwtRequests = RequestsOver(JwtParams, JwtTokens, Seq(SUBSET Managers), SUBSET Managers, SUBSET JwksKeys)
  BY DEF JwtRequests, RequestsOver

\* What a request keeps when it goes on to the next key manager, or tries again.
LEMMA NextManagerInv ==
  ASSUME NEW q \in JwtRequests, RequestInv(q)
  PROVE  /\ NextManager(q) \in JwtRequests /\ RequestInv(NextManager(q))
         /\ FetchFailed(q) \in JwtRequests
         /\ q.pc \in {"fetch", "reply"} => RequestInv(FetchFailed(q))
<1>1. /\ q \in [pc : {"verify", "fetch", "reply"}, params : JwtParams, token : JwtTokens,
               todo : Seq(SUBSET Managers), km : SUBSET Managers, attempt : Int,
               reply : SUBSET JwksKeys, due : Int]
      /\ q.pc # "idle"
  BY DEF JwtRequests
<1>2. q # NoJwt
  BY <1>1 DEF NoJwt
<1>3. q.todo \in Seq(SUBSET Applicable(q.params, q.token)) /\ q.km \subseteq Applicable(q.params, q.token)
  BY <1>2 DEF RequestInv
<1>0. {} \in SUBSET Managers /\ {} \in SUBSET JwksKeys /\ 0 \in Int
  OBVIOUS
<1>4. NextManager(q) \in JwtRequests
  BY <1>0, <1>1, RequestUpdates, RequestsAre, Zenon DEF NextManager
<1>5. RequestInv(NextManager(q))
  <2>1. /\ NextManager(q).pc = "verify" /\ NextManager(q).todo = q.todo /\ NextManager(q).km = {}
        /\ NextManager(q).params = q.params /\ NextManager(q).token = q.token
    BY <1>1 DEF NextManager
  <2> QED  BY <1>3, <2>1 DEF RequestInv, ReplyInv
<1> DEFINE again == [q EXCEPT !.pc = "fetch", !.attempt = @ + 1, !.reply = {}, !.due = 0]
<1>6. again \in JwtRequests
  <2>1. q.attempt + 1 \in Int
    BY <1>1
  <2> QED  BY <1>0, <1>1, <2>1, RequestUpdates, RequestsAre, Zenon
<1>7. q.pc \in {"fetch", "reply"} => RequestInv(again)
  <2>1. /\ again.pc = "fetch" /\ again.todo = q.todo /\ again.km = q.km
        /\ again.params = q.params /\ again.token = q.token
    BY <1>1
  <2> HIDE DEF again
  <2> QED  BY <1>2, <1>3, <2>1 DEF RequestInv, ReplyInv
<1> QED  BY <1>4, <1>5, <1>6, <1>7 DEF FetchFailed

\* A key manager's keys, withdrawn at most a reply and a cached key set ago.
LEMMA GoodVerify ==
  ASSUME JwtInv, NEW q \in JwtRequests, RequestInv(q), NEW km \in Applicable(q.params, q.token), NEW tried,
         \A k \in tried : \/ k.id \in LocalIds(q.params)
                          \/ NotLongAfter(k.id, jwtClock, JwksFetchTimeout + (JwksCacheTtl - 1))
  PROVE  GoodOutcome(Verify(q, km, tried))
<1> DEFINE p == q.params
           t == q.token
           scopes == resolveScopes(t, km)
           until == FirstExpiry(t, p.leeway)
           key == buildTokenCacheKey(p, t)
           v == [ok |-> TRUE, km |-> km.name, scopes |-> scopes, expiresAt |-> until]
           e == [key |-> key, ok |-> v.ok, km |-> v.km, scopes |-> v.scopes, expiresAt |-> v.expiresAt]
<1>1. p \in JwtParams /\ t \in JwtTokens
  BY DEF JwtRequests
<1>2. jwtClock \in Nat /\ \A id \in DOMAIN withdrawn : withdrawn[id] \in Nat
  BY DEF JwtInv, JwtTypeInv, WithdrawnInv
<1>3. JwksFetchTimeout \in Nat /\ JwksCacheTtl \in Nat \ {0} /\ TokenCacheTtl \in Nat \ {0}
  BY JwtAssumption
<1>4. p.leeway \in Nat /\ t.exp \subseteq Int /\ t.nbf \subseteq Int
  BY <1>1, JwtAssumption
<1>5. CASE ~\E k \in tried : ParseWithClaims(t, k, p.leeway)
  <2>1. Verify(q, km, tried) = Kept(verdicts, NextManager(q))
    BY <1>5 DEF Verify
  <2>2. NextManager(q) \in JwtRequests /\ RequestInv(NextManager(q))
    BY NextManagerInv
  <2>3. NextManager(q).pc # "done"
    BY <2>2 DEF JwtRequests
  <2> HIDE DEF p, t
  <2> QED  BY <2>1, <2>2, <2>3 DEF GoodOutcome, Kept, JwtInv, JwtTypeInv
<1>6. CASE \E k \in tried : ParseWithClaims(t, k, p.leeway)
  <2>1. PICK k \in tried : ParseWithClaims(t, k, p.leeway)
    BY <1>6
  <2>2. /\ t.signedBy = k.id /\ \A x \in t.exp : jwtClock < x + p.leeway
        /\ \A n \in t.nbf : n - p.leeway <= jwtClock
    BY <2>1 DEF ParseWithClaims
  <2> DEFINE near == JwksFetchTimeout + (JwksCacheTtl - 1)
             far == JwksFetchTimeout + (JwksCacheTtl - 1) + (TokenCacheTtl - 1)
  <2>3. near \in Nat /\ far \in Nat /\ near <= far /\ near + TokenCacheTtl = far + 1
    BY <1>3
  <2>4. t.signedBy \notin LocalIds(p) => NotLongAfter(t.signedBy, jwtClock, near)
    BY <2>1, <2>2
  <2>5. t.signedBy \notin LocalIds(p) => NotLongAfter(t.signedBy, jwtClock, far)
    <3> HIDE DEF near, far
    <3> QED  BY <1>2, <2>3, <2>4 DEF NotLongAfter
  <2>6. Lag(p, t) \in Int /\ Lag(p, t) <= far
    <3> HIDE DEF near, far, p, t
    <3> QED  BY <2>3, <2>5, LagBounded
  <2>7. LET a == Decide(q, km.name, scopes, FALSE)
        IN  a.pc = "done" /\ ~Outlives(a) /\ ~Unsound(a)
    <3>1. q.params = p /\ q.token = t /\ FALSE \in BOOLEAN
      OBVIOUS
    <3> HIDE DEF p, t
    <3> QED  BY <1>1, <1>2, <2>2, <2>6, <3>1, DecisionSound, Zenon
  <2>8. until \in Int /\ until <= jwtClock + TokenCacheTtl /\ \A x \in t.exp : until <= x - p.leeway
    BY <1>1, <1>2, FirstExpiryLeast
  <2>9. VerdictInv(e)
    <3>1. e.expiresAt = until /\ e.key = key /\ e.ok = TRUE /\ e.km = km.name /\ e.scopes = scopes
      OBVIOUS
    <3> HIDE DEF e, until, near, far
    <3>2. t.signedBy \notin LocalIds(p) => NotLongAfter(t.signedBy, until, near + TokenCacheTtl)
      BY <1>2, <1>3, <2>3, <2>4, <2>8 DEF NotLongAfter
    <3>3. AcceptanceInv(e, p, t)
      BY <2>2, <2>8, <3>1, <3>2 DEF AcceptanceInv, near
    <3> QED  BY <1>1, <2>8, <3>1, <3>3 DEF VerdictInv
  <2>10. IsList(putVerdict(key, v)) /\ \A x \in ToSet(putVerdict(key, v)) : VerdictInv(x)
    <3> HIDE DEF key, v
    <3> QED  BY <2>9, GoodPut
  <2>11. IsList(verdicts) /\ \A x \in ToSet(verdicts) : VerdictInv(x)
    BY DEF JwtInv, JwtTypeInv
  <2>12. /\ Verify(q, km, tried).jwt = Decide(q, km.name, scopes, FALSE)
         /\ Verify(q, km, tried).verdicts \in {putVerdict(key, v), verdicts}
    BY <1>6 DEF Verify
  <2> HIDE DEF scopes, key, v, e
  <2> QED  BY <2>7, <2>10, <2>11, <2>12 DEF GoodOutcome
<1> QED  BY <1>5, <1>6

-----------------------------------------------------------------------------
(***************************************************************************)
(* The steps                                                               *)
(***************************************************************************)

\* A step of a request, whatever it leaves.
LEMMA OutcomeInv ==
  ASSUME JwtInv, NEW r \in JwtCallers, NEW o, GoodOutcome(o), Outcome(r, o),
         UNCHANGED <<published, withdrawn, cacheSize, jwtClock>>,
         jwksStore' = [u \in JwksUris |-> jwksStore'[u]],
         \A u \in JwksUris : \A e \in jwksStore'[u] : KeysInv(e)
  PROVE  JwtInv'
<1>1. /\ verdicts' = o.verdicts
      /\ jwt' = [jwt EXCEPT ![r] = IF o.jwt.pc = "done" THEN NoJwt ELSE o.jwt]
      /\ outlived' = {} /\ wronged' = {}
  BY DEF Outcome, GoodOutcome, JwtInv
<1>2. jwt \in [JwtCallers -> JwtRequests \union {NoJwt}] /\ \A c \in JwtCallers : RequestInv(jwt[c])
  BY DEF JwtInv, JwtTypeInv
<1>3. /\ jwt' \in [JwtCallers -> JwtRequests \union {NoJwt}]
      /\ \A c \in JwtCallers : jwt'[c] = NoJwt \/ RequestInv(jwt'[c])
  BY <1>1, <1>2 DEF GoodOutcome
<1>4. JwtTypeInv'
  BY <1>1, <1>3 DEF JwtInv, JwtTypeInv, GoodOutcome
<1>5. WithdrawnInv'
  BY DEF JwtInv, WithdrawnInv, PublishedIds
<1>6. (\A u \in JwksUris : \A e \in jwksStore[u] : KeysInv(e))'
  BY DEF KeysInv, NotLongAfter
<1>7. (\A c \in JwtCallers : RequestInv(jwt[c]))'
  BY <1>3 DEF RequestInv, ReplyInv, NotLongAfter
<1>8. (\A v \in ToSet(verdicts) : VerdictInv(v))'
  <2>1. \A v \in ToSet(verdicts') : VerdictInv(v)
    BY <1>1 DEF GoodOutcome
  <2> QED  BY <2>1 DEF VerdictInv, AcceptanceInv, NotLongAfter, TokenExpired
<1> QED  BY <1>1, <1>4, <1>5, <1>6, <1>7, <1>8 DEF JwtInv

LEMMA StoreStays ==
  ASSUME JwtInv, UNCHANGED jwksStore
  PROVE  /\ jwksStore' = [u \in JwksUris |-> jwksStore'[u]]
         /\ \A u \in JwksUris : \A e \in jwksStore'[u] : KeysInv(e)
<1>1. jwksStore = [u \in JwksUris |-> jwksStore[u]]
  BY DEF JwtInv, JwtTypeInv
<1>2. jwksStore' = [u \in JwksUris |-> jwksStore'[u]]
  BY <1>1, jwksStore' = jwksStore, Zenon
<1> QED  BY <1>2 DEF JwtInv

LEMMA NewRequest ==
  ASSUME NEW p \in JwtParams, NEW t \in JwtTokens
  PROVE  [pc |-> "verify", params |-> p, token |-> t, todo |-> <<>>, km |-> {},
          attempt |-> 0, reply |-> {}, due |-> 0] \in JwtRequests
<1>1. ASSUME NEW D, NEW M, NEW K, NEW P, NEW T, NEW d \in D, NEW m \in M, NEW k \in K, NEW n \in Int,
             p \in P, t \in T
      PROVE  [pc |-> "verify", params |-> p, token |-> t, todo |-> d, km |-> m,
              attempt |-> n, reply |-> k, due |-> n] \in RequestsOver(P, T, D, M, K)
  BY <1>1 DEF RequestsOver
<1>2. <<>> \in Seq(SUBSET Managers) /\ {} \in SUBSET Managers /\ {} \in SUBSET JwksKeys /\ 0 \in Int
  OBVIOUS
<1> QED  BY <1>1, <1>2, RequestsAre, Zenon

LEMMA ExamineInv ==
  ASSUME JwtInv, NEW r \in JwtCallers, NEW p \in JwtParams, NEW t \in JwtTokens, NEW q, NEW cache,
         q = [pc |-> "verify", params |-> p, token |-> t, todo |-> <<>>, km |-> {},
              attempt |-> 0, reply |-> {}, due |-> 0],
         IsList(cache), ToSet(cache) \subseteq ToSet(verdicts),
         Examine(r, q, buildTokenCacheKey(p, t), cache),
         UNCHANGED <<published, withdrawn, cacheSize, jwtClock, jwksStore>>
  PROVE  JwtInv'
<1>1. q \in JwtRequests /\ q.params = p /\ q.token = t /\ q.pc = "verify" /\ q.km = {}
  BY NewRequest
<1>2. ASSUME NEW o, GoodOutcome(o), Outcome(r, o) PROVE JwtInv'
  BY <1>2, StoreStays, OutcomeInv
<1>3. GoodOutcome(Kept(cache, Denied(q)))
  BY GoodDenied, GoodKept
<1>4. ASSUME ~t.wellFormed \/ TokenExpired(t, p.leeway)
      PROVE  GoodOutcome(Reject(q, buildTokenCacheKey(p, t)))
  BY <1>1, <1>4, GoodReject
<1>5. ASSUME NEW todo \in applicableKeyManagers(p, t)
      PROVE  GoodOutcome(Kept(cache, [q EXCEPT !.todo = todo]))
  <2> DEFINE next == [q EXCEPT !.todo = todo]
  <2>1. todo \in Seq(SUBSET Applicable(p, t)) /\ Applicable(p, t) \subseteq keyManagers(p)
    BY ApplicableManagers
  <2>2. todo \in Seq(SUBSET Managers)
    <3>1. todo \in Seq(SUBSET keyManagers(p))
      BY ApplicableOrders
    <3>2. SUBSET keyManagers(p) \subseteq SUBSET Managers
      BY DEF Managers
    <3> QED  BY <3>1, <3>2
  <2>3. next \in JwtRequests
    <3>1. {} \in SUBSET Managers /\ {} \in SUBSET JwksKeys /\ 0 \in Int
      OBVIOUS
    <3> QED  BY <1>1, <2>2, <3>1, RequestUpdates, RequestsAre, Zenon
  <2>4. next.pc = "verify" /\ next.params = p /\ next.token = t /\ next.todo = todo /\ next.km = {}
    OBVIOUS
  <2> HIDE DEF next
  <2>5. RequestInv(next)
    BY <2>1, <2>4 DEF RequestInv, ReplyInv
  <2>6. \A v \in ToSet(cache) : VerdictInv(v)
    BY DEF JwtInv
  <2>7. GoodOutcome(Kept(cache, next))
    BY <2>3, <2>4, <2>5, <2>6 DEF GoodOutcome, Kept
  <2> QED  BY <2>7 DEF next
<1>6. \/ Outcome(r, Kept(cache, Denied(q)))
      \/ (~t.wellFormed \/ TokenExpired(t, p.leeway)) /\ Outcome(r, Reject(q, buildTokenCacheKey(p, t)))
      \/ \E todo \in applicableKeyManagers(p, t) : Outcome(r, Kept(cache, [q EXCEPT !.todo = todo]))
  BY <1>1 DEF Examine
<1> QED  BY <1>2, <1>3, <1>4, <1>5, <1>6

LEMMA JwtRequestInv ==
  ASSUME JwtInv, NEW r \in JwtCallers, JwtRequest(r)
  PROVE  JwtInv'
<1>1. UNCHANGED <<published, withdrawn, cacheSize, jwtClock, jwksStore>>
  BY DEF JwtRequest
<1>2. PICK p \in JwtParams, t \in JwtTokens, words \in JwtHeaders :
          LET q == [pc |-> "verify", params |-> p, token |-> t, todo |-> <<>>, km |-> {},
                    attempt |-> 0, reply |-> {}, due |-> 0]
              key == buildTokenCacheKey(p, t)
          IN  \/ Outcome(r, Kept(verdicts, Denied(q)))
              \/ Examine(r, q, key, verdicts)
              \/ Examine(r, q, key, getCachedVerdict(key))
              \/ \E v \in Cached(key) :
                      Outcome(r, [verdicts |-> getCachedVerdict(key),
                                  jwt |-> IF v.ok THEN Decide(q, v.km, v.scopes, TRUE)
                                          ELSE Answer(q, "denied", "", TRUE)])
  BY Zenon DEF JwtRequest
<1> DEFINE q == [pc |-> "verify", params |-> p, token |-> t, todo |-> <<>>, km |-> {},
                 attempt |-> 0, reply |-> {}, due |-> 0]
           key == buildTokenCacheKey(p, t)
<1>3. IsList(verdicts)
  BY DEF JwtInv, JwtTypeInv
<1>4. IsList(getCachedVerdict(key)) /\ ToSet(getCachedVerdict(key)) \subseteq ToSet(verdicts)
  BY <1>3, LruEntries DEF getCachedVerdict
<1>5. q \in JwtRequests /\ q.params = p /\ q.token = t
  BY NewRequest
<1> HIDE DEF q
<1>6. ASSUME NEW o, GoodOutcome(o), Outcome(r, o) PROVE JwtInv'
  BY <1>1, <1>6, StoreStays, OutcomeInv
<1>7. CASE Outcome(r, Kept(verdicts, Denied(q)))
  BY <1>6, <1>7, GoodDenied
<1>8. ASSUME NEW cache, IsList(cache), ToSet(cache) \subseteq ToSet(verdicts), Examine(r, q, key, cache)
      PROVE  JwtInv'
  BY <1>1, <1>8, ExamineInv DEF q
<1>9. ASSUME NEW v \in Cached(key),
             Outcome(r, [verdicts |-> getCachedVerdict(key),
                         jwt |-> IF v.ok THEN Decide(q, v.km, v.scopes, TRUE)
                                 ELSE Answer(q, "denied", "", TRUE)])
      PROVE  JwtInv'
  <2>1. GoodOutcome([verdicts |-> getCachedVerdict(key),
                     jwt |-> IF v.ok THEN Decide(q, v.km, v.scopes, TRUE)
                             ELSE Answer(q, "denied", "", TRUE)])
    <3>1. v \in Cached(buildTokenCacheKey(q.params, q.token))
      BY <1>5
    <3> HIDE DEF key
    <3> QED  BY <1>4, <1>5, <3>1, GoodHit
  <2> QED  BY <1>6, <1>9, <2>1
<1>10. \/ Outcome(r, Kept(verdicts, Denied(q)))
       \/ Examine(r, q, key, verdicts)
       \/ Examine(r, q, key, getCachedVerdict(key))
       \/ \E v \in Cached(key) :
              Outcome(r, [verdicts |-> getCachedVerdict(key),
                          jwt |-> IF v.ok THEN Decide(q, v.km, v.scopes, TRUE)
                                  ELSE Answer(q, "denied", "", TRUE)])
  BY <1>2, Zenon DEF q
<1> HIDE DEF key
<1> QED  BY <1>3, <1>4, <1>7, <1>8, <1>9, <1>10

LEMMA JwtVerifyInv ==
  ASSUME JwtInv, NEW r \in JwtCallers, JwtVerify(r)
  PROVE  JwtInv'
<1> DEFINE q == jwt[r]
           App == Applicable(q.params, q.token)
           left == {i \in DOMAIN q.todo : q.todo[i] # {}}
           next(km) == [q EXCEPT !.todo = [j \in DOMAIN q.todo |-> q.todo[j] \ {km}], !.km = {km}]
<1>1. UNCHANGED <<published, withdrawn, cacheSize, jwtClock, jwksStore>>
  BY DEF JwtVerify
<1>2. ASSUME NEW o, GoodOutcome(o), Outcome(r, o) PROVE JwtInv'
  BY <1>1, <1>2, StoreStays, OutcomeInv
<1>3. q \in JwtRequests /\ q.pc = "verify" /\ RequestInv(q) /\ q # NoJwt
  <2>1. q.pc = "verify"
    BY DEF JwtVerify
  <2> QED  BY <2>1 DEF JwtInv, JwtTypeInv, NoJwt
<1>4. q.params \in JwtParams /\ q.token \in JwtTokens /\ q.todo \in Seq(SUBSET App) /\ q.todo \in Seq(SUBSET Managers)
  BY <1>3 DEF RequestInv, JwtRequests
<1>5. \/ Outcome(r, Kept(verdicts, Denied(q)))
      \/ \E i \in left : \E km \in q.todo[i] :
            \/ km.local.state = "ok" /\ Outcome(r, Verify(next(km), km, {km.local.key}))
            \/ /\ km.local.state # "ok"
               /\ \/ Outcome(r, Kept(verdicts, NextManager(next(km))))
                  \/ \E e \in JwksHit(km.remote) : Outcome(r, Verify(next(km), km, TriedKeys(e.keys, q.token)))
                  \/ Outcome(r, Kept(verdicts, [next(km) EXCEPT !.pc = "fetch"]))
  BY DEF JwtVerify
<1> HIDE DEF q
<1>6. CASE Outcome(r, Kept(verdicts, Denied(q)))
  BY <1>2, <1>6, GoodDenied
<1>7. ASSUME NEW i \in DOMAIN q.todo, NEW km \in q.todo[i],
             \/ km.local.state = "ok" /\ Outcome(r, Verify(next(km), km, {km.local.key}))
             \/ /\ km.local.state # "ok"
                /\ \/ Outcome(r, Kept(verdicts, NextManager(next(km))))
                   \/ \E e \in JwksHit(km.remote) : Outcome(r, Verify(next(km), km, TriedKeys(e.keys, q.token)))
                   \/ Outcome(r, Kept(verdicts, [next(km) EXCEPT !.pc = "fetch"]))
      PROVE  JwtInv'
  <2> DEFINE n == next(km)
             todo == [j \in DOMAIN q.todo |-> q.todo[j] \ {km}]
  <2>1. km \in App /\ km \in keyManagers(q.params) /\ km \in Managers
    <3>1. km \in App
      BY <1>4
    <3> QED  BY <1>4, <3>1, ApplicableManagers DEF Managers
  <2>2. todo \in Seq(SUBSET App) /\ todo \in Seq(SUBSET Managers)
    <3>1. ASSUME NEW S, q.todo \in Seq(SUBSET S) PROVE todo \in Seq(SUBSET S)
      <4>1. Len(q.todo) \in Nat /\ DOMAIN q.todo = 1..Len(q.todo)
        BY <3>1
      <4>2. \A j \in DOMAIN q.todo : q.todo[j] \ {km} \in SUBSET S
        BY <3>1
      <4> QED  BY <4>1, <4>2
    <3> QED  BY <1>4, <3>1
  <2>3. {km} \in SUBSET Managers /\ {km} \in SUBSET App
    BY <2>1
  <2>4. n \in JwtRequests
    <3>1. {} \in SUBSET JwksKeys /\ 0 \in Int
      OBVIOUS
    <3> HIDE DEF todo
    <3>2. [q EXCEPT !.todo = todo, !.km = {km}] \in JwtRequests
      BY <1>3, <2>2, <2>3, <3>1, RequestUpdates, RequestsAre, Zenon
    <3> QED  BY <3>2 DEF todo
  <2>5. n.params = q.params /\ n.token = q.token /\ n.todo = todo /\ n.km = {km} /\ n.pc = "verify"
    BY <1>3 DEF JwtRequests
  <2> HIDE DEF n, todo
  <2>6. RequestInv(n)
    BY <2>2, <2>3, <2>5 DEF RequestInv, ReplyInv
  <2>7. ASSUME NEW tried,
               \A k \in tried : \/ k.id \in LocalIds(n.params)
                                \/ NotLongAfter(k.id, jwtClock, JwksFetchTimeout + (JwksCacheTtl - 1)),
               Outcome(r, Verify(n, km, tried))
        PROVE  JwtInv'
    <3>1. km \in Applicable(n.params, n.token)
      BY <2>1, <2>5
    <3>2. GoodOutcome(Verify(n, km, tried))
      BY <2>4, <2>6, <2>7, <3>1, GoodVerify
    <3> QED  BY <1>2, <2>7, <3>2
  <2>8. CASE km.local.state = "ok" /\ Outcome(r, Verify(n, km, {km.local.key}))
    <3>1. km.local.key.id \in LocalIds(n.params)
      BY <2>1, <2>5, <2>8 DEF LocalIds
    <3> QED  BY <2>7, <2>8, <3>1
  <2>9. CASE Outcome(r, Kept(verdicts, NextManager(n)))
    <3>1. NextManager(n) \in JwtRequests /\ RequestInv(NextManager(n))
      BY <2>4, <2>6, NextManagerInv
    <3>2. NextManager(n).pc # "done"
      BY <3>1 DEF JwtRequests
    <3>3. GoodOutcome(Kept(verdicts, NextManager(n)))
      BY <3>1, <3>2 DEF GoodOutcome, Kept, JwtInv, JwtTypeInv
    <3> QED  BY <1>2, <2>9, <3>3
  <2>10. CASE km.local.state # "ok" /\ \E e \in JwksHit(km.remote) : Outcome(r, Verify(n, km, TriedKeys(e.keys, q.token)))
    <3>1. PICK e \in JwksHit(km.remote) : Outcome(r, Verify(n, km, TriedKeys(e.keys, q.token)))
      BY <2>10
    <3>2. km.remote \in JwksUris
      BY <1>4, <2>1, <2>10, ManagerLoads DEF Loads
    <3>3. e \in jwksStore[km.remote] /\ jwtClock < e.ttl /\ KeysInv(e) /\ jwtClock \in Nat
      BY <3>1, <3>2 DEF JwksHit, JwtInv, JwtTypeInv
    <3>4. ASSUME NEW k \in TriedKeys(e.keys, q.token)
          PROVE  NotLongAfter(k.id, jwtClock, JwksFetchTimeout + (JwksCacheTtl - 1))
      <4>1. k \in e.keys
        BY DEF TriedKeys
      <4>2. NotLongAfter(k.id, e.ttl, JwksFetchTimeout + JwksCacheTtl) /\ e.ttl \in Int
        BY <3>3, <4>1 DEF KeysInv
      <4>3. JwksFetchTimeout \in Nat /\ JwksCacheTtl \in Nat
        BY JwtAssumption
      <4>4. \A id \in DOMAIN withdrawn : withdrawn[id] \in Nat
        BY DEF JwtInv, WithdrawnInv
      <4> QED  BY <3>3, <4>2, <4>3, <4>4 DEF NotLongAfter
    <3> QED  BY <2>7, <3>1, <3>4
  <2>11. CASE km.local.state # "ok" /\ Outcome(r, Kept(verdicts, [n EXCEPT !.pc = "fetch"]))
    <3> DEFINE f == [n EXCEPT !.pc = "fetch"]
    <3>1. f \in JwtRequests
      <4>1. {} \in SUBSET JwksKeys /\ 0 \in Int
        OBVIOUS
      <4> QED  BY <2>2, <2>3, <2>4, <4>1, RequestUpdates, RequestsAre, Zenon
    <3>2. f.params = q.params /\ f.token = q.token /\ f.todo = todo /\ f.km = {km} /\ f.pc = "fetch"
      BY <2>4, <2>5 DEF JwtRequests
    <3> HIDE DEF f
    <3>3. RequestInv(f)
      BY <2>2, <2>3, <2>11, <3>2 DEF RequestInv, ReplyInv
    <3>4. GoodOutcome(Kept(verdicts, f))
      BY <3>1, <3>2, <3>3 DEF GoodOutcome, Kept, JwtInv, JwtTypeInv
    <3> QED  BY <1>2, <2>11, <3>4 DEF f
  <2> QED  BY <1>7, <2>8, <2>9, <2>10, <2>11 DEF n
<1> QED  BY <1>5, <1>6, <1>7

\* The steps that only change a request.
LEMMA OnlyRequest ==
  ASSUME JwtInv, NEW r \in JwtCallers, NEW q \in JwtRequests, RequestInv(q),
         jwt' = [jwt EXCEPT ![r] = q],
         UNCHANGED <<published, withdrawn, jwksStore, verdicts, cacheSize, jwtClock, outlived, wronged>>
  PROVE  JwtInv'
<1>1. q.pc # "done"
  BY DEF JwtRequests
<1>2. GoodOutcome(Kept(verdicts, q))
  BY <1>1 DEF GoodOutcome, Kept, JwtInv, JwtTypeInv
<1>3. Outcome(r, Kept(verdicts, q))
  BY <1>1 DEF Outcome, Kept
<1> QED  BY <1>2, <1>3, StoreStays, OutcomeInv

LEMMA JwksServeInv ==
  ASSUME JwtInv, NEW r \in JwtCallers, JwksServe(r)
  PROVE  JwtInv'
<1> DEFINE q == jwt[r]
<1>1. q \in JwtRequests /\ q.pc = "fetch" /\ RequestInv(q) /\ q # NoJwt
  BY DEF JwksServe, JwtInv, JwtTypeInv, NoJwt
<1>2. PICK km \in q.km :
          jwt' = [jwt EXCEPT ![r].pc = "reply", ![r].reply = published[km.remote],
                             ![r].due = jwtClock + JwksFetchTimeout]
  BY DEF JwksServe
<1> DEFINE due == jwtClock + JwksFetchTimeout
           n == [q EXCEPT !.pc = "reply", !.reply = published[km.remote], !.due = due]
<1>3. jwt' = [jwt EXCEPT ![r] = n]
  <2>1. jwt = [c \in JwtCallers |-> jwt[c]]
    BY DEF JwtInv, JwtTypeInv
  <2> QED  BY <1>2, <2>1
<1>4. jwtClock \in Nat /\ JwksFetchTimeout \in Nat /\ due \in Int
  <2>1. jwtClock \in Nat /\ JwksFetchTimeout \in Nat
    BY JwtAssumption DEF JwtInv, JwtTypeInv
  <2> QED  BY <2>1
<1>5. km.remote \in JwksUris
  <2>1. km \in Applicable(q.params, q.token) /\ km.local.state # "ok" /\ q.params \in JwtParams
    BY <1>1 DEF RequestInv, JwtRequests
  <2>2. km \in keyManagers(q.params)
    BY <2>1, ApplicableManagers
  <2> HIDE DEF q
  <2> QED  BY <2>1, <2>2, ManagerLoads DEF Loads
<1>6. published[km.remote] \in SUBSET JwksKeys
  BY <1>5 DEF JwtInv, JwtTypeInv, JwksKeys
<1>7. ASSUME NEW k \in published[km.remote] PROVE k.id \notin DOMAIN withdrawn
  BY <1>5 DEF JwtInv, WithdrawnInv, PublishedIds
<1> HIDE DEF q, due
<1>8. n \in JwtRequests
  <2>1. <<>> \in Seq(SUBSET Managers) /\ {} \in SUBSET Managers
    OBVIOUS
  <2> QED  BY <1>1, <1>4, <1>6, <2>1, RequestUpdates, RequestsAre, Zenon
<1>9. /\ n.params = q.params /\ n.token = q.token /\ n.todo = q.todo /\ n.km = q.km /\ n.pc = "reply"
      /\ n.reply = published[km.remote] /\ n.due = due
  BY <1>1 DEF JwtRequests
<1> HIDE DEF n
<1>10. RequestInv(n)
  <2>1. ReplyInv(n)
    BY <1>4, <1>7, <1>9 DEF ReplyInv, NotLongAfter, due
  <2> QED  BY <1>1, <1>9, <2>1 DEF RequestInv
<1>11. UNCHANGED <<published, withdrawn, jwksStore, verdicts, cacheSize, jwtClock, outlived, wronged>>
  BY DEF JwksServe
<1> QED  BY <1>3, <1>8, <1>10, <1>11, OnlyRequest

LEMMA JwksFailsInv ==
  ASSUME JwtInv, NEW r \in JwtCallers, JwksFails(r)
  PROVE  JwtInv'
<1>1. jwt[r] \in JwtRequests /\ jwt[r].pc \in {"fetch", "reply"} /\ RequestInv(jwt[r])
  BY DEF JwksFails, JwtInv, JwtTypeInv, NoJwt
<1>2. FetchFailed(jwt[r]) \in JwtRequests /\ RequestInv(FetchFailed(jwt[r]))
  BY <1>1, NextManagerInv
<1>3. jwt' = [jwt EXCEPT ![r] = FetchFailed(jwt[r])]
  BY DEF JwksFails
<1>4. UNCHANGED <<published, withdrawn, jwksStore, verdicts, cacheSize, jwtClock, outlived, wronged>>
  BY DEF JwksFails
<1> QED  BY <1>2, <1>3, <1>4, OnlyRequest

LEMMA JwksReceivedInv ==
  ASSUME JwtInv, NEW r \in JwtCallers, JwksReceived(r)
  PROVE  JwtInv'
<1> DEFINE q == jwt[r]
           keys == fetchJWKS(q.reply)
<1>1. UNCHANGED <<published, withdrawn, cacheSize, jwtClock>>
  BY DEF JwksReceived
<1>2. q \in JwtRequests /\ q.pc = "reply" /\ RequestInv(q) /\ q # NoJwt
  <2>1. q.pc = "reply"
    BY DEF JwksReceived
  <2> QED  BY <2>1 DEF JwtInv, JwtTypeInv, NoJwt
<1>3. /\ q.km \subseteq Applicable(q.params, q.token) /\ q.due \in Int /\ jwtClock <= q.due /\ q.params \in JwtParams
      /\ \A k \in q.reply : NotLongAfter(k.id, q.due, JwksFetchTimeout)
      /\ \A km \in q.km : km.local.state # "ok"
  BY <1>2 DEF RequestInv, ReplyInv, JwtRequests
<1>4. \/ Outcome(r, Kept(verdicts, FetchFailed(q))) /\ UNCHANGED jwksStore
      \/ \E km \in q.km :
            /\ jwksStore' = [jwksStore EXCEPT ![km.remote] = {[keys |-> keys, ttl |-> jwtClock + JwksCacheTtl]}]
            /\ Outcome(r, Verify(q, km, TriedKeys(keys, q.token)))
  BY DEF JwksReceived
<1>5. jwtClock \in Nat /\ JwksFetchTimeout \in Nat /\ JwksCacheTtl \in Nat \ {0}
  BY JwtAssumption DEF JwtInv, JwtTypeInv
<1>6. \A id \in DOMAIN withdrawn : withdrawn[id] \in Nat
  BY DEF JwtInv, WithdrawnInv
<1> HIDE DEF q
<1>7. CASE Outcome(r, Kept(verdicts, FetchFailed(q))) /\ UNCHANGED jwksStore
  <2>1. FetchFailed(q) \in JwtRequests /\ RequestInv(FetchFailed(q))
    BY <1>2, NextManagerInv
  <2>2. FetchFailed(q).pc # "done"
    BY <2>1 DEF JwtRequests
  <2>3. GoodOutcome(Kept(verdicts, FetchFailed(q)))
    BY <2>1, <2>2 DEF GoodOutcome, Kept, JwtInv, JwtTypeInv
  <2> QED  BY <1>1, <1>7, <2>3, StoreStays, OutcomeInv
<1>8. ASSUME NEW km \in q.km,
             jwksStore' = [jwksStore EXCEPT ![km.remote] = {[keys |-> keys, ttl |-> jwtClock + JwksCacheTtl]}],
             Outcome(r, Verify(q, km, TriedKeys(keys, q.token)))
      PROVE  JwtInv'
  <2>1. \A k \in keys : NotLongAfter(k.id, jwtClock, JwksFetchTimeout)
    <3> SUFFICES ASSUME NEW k \in keys PROVE NotLongAfter(k.id, jwtClock, JwksFetchTimeout)
      OBVIOUS
    <3>1. k \in q.reply
      BY DEF fetchJWKS
    <3>2. NotLongAfter(k.id, q.due, JwksFetchTimeout)
      BY <1>3, <3>1
    <3> QED  BY <1>3, <1>5, <1>6, <3>2 DEF NotLongAfter
  <2>2. ASSUME NEW k \in TriedKeys(keys, q.token)
        PROVE  NotLongAfter(k.id, jwtClock, JwksFetchTimeout + (JwksCacheTtl - 1))
    <3>1. k \in keys
      BY DEF TriedKeys
    <3> QED  BY <1>5, <1>6, <2>1, <3>1 DEF NotLongAfter
  <2>3. GoodOutcome(Verify(q, km, TriedKeys(keys, q.token)))
    <3> HIDE DEF keys
    <3>1. km \in Applicable(q.params, q.token)
      BY <1>3
    <3> QED  BY <1>2, <2>2, <3>1, GoodVerify
  <2>4. km.remote \in JwksUris
    <3>1. km \in keyManagers(q.params)
      BY <1>3, ApplicableManagers
    <3> QED  BY <1>3, <3>1, ManagerLoads DEF Loads
  <2> DEFINE e == [keys |-> keys, ttl |-> jwtClock + JwksCacheTtl]
  <2>5. KeysInv(e)
    <3>1. e.keys = keys /\ e.ttl = jwtClock + JwksCacheTtl
      OBVIOUS
    <3> HIDE DEF e, keys
    <3>2. \A k \in keys : NotLongAfter(k.id, e.ttl, JwksFetchTimeout + JwksCacheTtl)
      BY <1>5, <1>6, <2>1, <3>1 DEF NotLongAfter
    <3> QED  BY <1>5, <3>1, <3>2 DEF KeysInv
  <2> HIDE DEF e
  <2>6. jwksStore = [u \in JwksUris |-> jwksStore[u]] /\ \A u \in JwksUris : \A x \in jwksStore[u] : KeysInv(x)
    BY DEF JwtInv, JwtTypeInv
  <2>7. jwksStore' = [jwksStore EXCEPT ![km.remote] = {e}]
    BY <1>8 DEF e
  <2>8. /\ jwksStore' = [u \in JwksUris |-> jwksStore'[u]]
        /\ \A u \in JwksUris : jwksStore'[u] = IF u = km.remote THEN {e} ELSE jwksStore[u]
    BY <2>4, <2>6, <2>7
  <2>9. \A u \in JwksUris : \A x \in jwksStore'[u] : KeysInv(x)
    BY <2>5, <2>6, <2>8
  <2> QED  BY <1>1, <1>8, <2>3, <2>8, <2>9, OutcomeInv
<1> QED  BY <1>4, <1>7, <1>8

\* The steps of the environment: what is cached or under way stays as good as it was.
LEMMA JwtTimeInv ==
  ASSUME JwtInv, TimePasses, WithdrawnInv', UNCHANGED <<jwksStore, jwt, outlived, wronged>>,
         published' \in [JwksUris -> ToSet(JwksSets)],
         cacheSize' \in Nat \ {0}, IsList(verdicts'), ToSet(verdicts') \subseteq ToSet(verdicts),
         \A r \in JwtCallers : jwt[r].pc = "reply" => jwtClock' <= jwt[r].due
  PROVE  JwtInv'
<1>1. JwtTypeInv'
  <2>1. jwksStore' = [u \in JwksUris |-> jwksStore'[u]]
    BY StoreStays
  <2> QED  BY <2>1 DEF JwtTypeInv, JwtInv, TimePasses
<1>2. (\A u \in JwksUris : \A e \in jwksStore[u] : KeysInv(e))'
  BY KeysKept DEF JwtInv
<1>3. ASSUME NEW r \in JwtCallers PROVE RequestInv(jwt[r])'
  <2> DEFINE q == jwt[r]
  <2>1. RequestInv(q) /\ q \in JwtRequests \union {NoJwt}
    BY DEF JwtInv, JwtTypeInv
  <2>2. jwt'[r] = q
    OBVIOUS
  <2>3. q.pc = "reply" => q.due \in Int /\ jwtClock' <= q.due /\ q # NoJwt
    BY <2>1 DEF JwtRequests, NoJwt
  <2> HIDE DEF q
  <2>4. CASE q = NoJwt
    BY <2>2, <2>4 DEF RequestInv
  <2>5. CASE q # NoJwt
    <3>1. \A x : x = q => (ReplyInv(x))'
      <4> SUFFICES ASSUME NEW x, x = q PROVE ReplyInv(x)'
        OBVIOUS
      <4> QED  BY <2>1, <2>3, <2>5, ReplyKept DEF RequestInv
    <3>2. ReplyInv(jwt[r])'
      BY <2>2, <3>1 DEF ReplyInv, NotLongAfter
    <3> QED  BY <2>1, <2>2, <2>5, <3>2 DEF RequestInv
  <2> QED  BY <2>4, <2>5
<1>4. (\A v \in ToSet(verdicts) : VerdictInv(v))'
  BY VerdictKept DEF JwtInv
<1> QED  BY <1>1, <1>2, <1>3, <1>4 DEF JwtInv

LEMMA JwtGetPolicyInv == JwtInv /\ JwtGetPolicy => JwtInv'
<1> SUFFICES ASSUME JwtInv, JwtGetPolicy PROVE JwtInv'
  OBVIOUS
<1>1. /\ UNCHANGED <<published, withdrawn, jwksStore, jwtClock, jwt, outlived, wronged>>
      /\ verdicts' = <<>>
  BY DEF JwtGetPolicy
<1>2. TimePasses /\ WithdrawnInv' /\ published' \in [JwksUris -> ToSet(JwksSets)]
  BY <1>1 DEF TimePasses, WithdrawnInv, JwtInv, JwtTypeInv, PublishedIds
<1>3. cacheSize' \in Nat \ {0}
  <2>1. PICK n \in JwtCacheSizes : cacheSize' = IF n <= 0 THEN DefaultTokenCacheMaxSize ELSE n
    BY DEF JwtGetPolicy
  <2>2. n \in Int /\ DefaultTokenCacheMaxSize \in Nat \ {0}
    BY JwtAssumption
  <2> QED  BY <2>1, <2>2
<1>4. IsList(verdicts') /\ ToSet(verdicts') \subseteq ToSet(verdicts)
  BY <1>1 DEF IsList, ToSet
<1>5. ASSUME NEW r \in JwtCallers, jwt[r].pc = "reply" PROVE jwtClock' <= jwt[r].due
  <2>1. jwt[r] # NoJwt
    BY <1>5 DEF NoJwt
  <2>2. ReplyInv(jwt[r])
    BY <2>1 DEF JwtInv, RequestInv
  <2>3. jwtClock <= jwt[r].due
    BY <1>5, <2>2 DEF ReplyInv
  <2> QED  BY <1>1, <2>3
<1> QED  BY <1>1, <1>2, <1>3, <1>4, <1>5, JwtTimeInv

LEMMA JwtTickInv == JwtInv /\ JwtTick => JwtInv'
<1> SUFFICES ASSUME JwtInv, JwtTick PROVE JwtInv'
  OBVIOUS
<1>1. /\ UNCHANGED <<published, withdrawn, jwksStore, verdicts, cacheSize, jwt, outlived, wronged>>
      /\ jwtClock' = jwtClock + 1 /\ jwtClock \in Nat
  BY DEF JwtTick, JwtInv, JwtTypeInv
<1>2. TimePasses /\ WithdrawnInv'
  BY <1>1 DEF TimePasses, WithdrawnInv, JwtInv, PublishedIds
<1>3. /\ cacheSize' \in Nat \ {0} /\ IsList(verdicts') /\ ToSet(verdicts') \subseteq ToSet(verdicts)
      /\ published' \in [JwksUris -> ToSet(JwksSets)]
  BY <1>1 DEF JwtInv, JwtTypeInv
<1>4. ASSUME NEW r \in JwtCallers, jwt[r].pc = "reply" PROVE jwtClock' <= jwt[r].due
  <2>1. jwtClock < jwt[r].due /\ jwt[r].due \in Int
    BY <1>4 DEF JwtTick, JwtInv, JwtTypeInv, JwtRequests, NoJwt
  <2> QED  BY <1>1, <2>1
<1> QED  BY <1>1, <1>2, <1>3, <1>4, JwtTimeInv

LEMMA RotateKeysInv == JwtInv /\ RotateKeys => JwtInv'
<1> SUFFICES ASSUME JwtInv, RotateKeys PROVE JwtInv'
  OBVIOUS
<1>1. UNCHANGED <<jwksStore, verdicts, cacheSize, jwtClock, jwt, outlived, wronged>> /\ jwtClock \in Nat
  BY DEF RotateKeys, JwtInv, JwtTypeInv
<1>2. published' \in [JwksUris -> ToSet(JwksSets)]
  BY DEF RotateKeys, JwtInv, JwtTypeInv
<1>3. withdrawn' = [k \in (DOMAIN withdrawn \cup PublishedIds) \ PublishedIds' |->
                      IF k \in DOMAIN withdrawn THEN withdrawn[k] ELSE jwtClock]
  BY DEF RotateKeys, PublishedIds
<1>4. \A k \in DOMAIN withdrawn : withdrawn[k] \in Nat /\ withdrawn[k] <= jwtClock
  BY DEF JwtInv, WithdrawnInv
<1>5. TimePasses /\ WithdrawnInv'
  <2> DEFINE pub == PublishedIds'
  <2>1. withdrawn' = [k \in (DOMAIN withdrawn \cup PublishedIds) \ pub |->
                      IF k \in DOMAIN withdrawn THEN withdrawn[k] ELSE jwtClock]
    BY <1>3
  <2>2. DOMAIN withdrawn' \cap pub = {}
    BY <2>1
  <2> HIDE DEF pub
  <2>3. \A k \in DOMAIN withdrawn' :
           /\ withdrawn'[k] \in Nat /\ withdrawn'[k] <= jwtClock
           /\ jwtClock <= withdrawn'[k] \/ (k \in DOMAIN withdrawn /\ withdrawn[k] = withdrawn'[k])
    BY <1>1, <1>4, <2>1
  <2> QED  BY <1>1, <2>2, <2>3 DEF TimePasses, WithdrawnInv, pub
<1>6. cacheSize' \in Nat \ {0} /\ IsList(verdicts') /\ ToSet(verdicts') \subseteq ToSet(verdicts)
  BY <1>1 DEF JwtInv, JwtTypeInv
<1>7. ASSUME NEW r \in JwtCallers, jwt[r].pc = "reply" PROVE jwtClock' <= jwt[r].due
  <2>1. jwt[r] # NoJwt
    BY <1>7 DEF NoJwt
  <2>2. ReplyInv(jwt[r])
    BY <2>1 DEF JwtInv, RequestInv
  <2>3. jwtClock <= jwt[r].due
    BY <1>7, <2>2 DEF ReplyInv
  <2> QED  BY <1>1, <2>3
<1> QED  BY <1>1, <1>2, <1>5, <1>6, <1>7, JwtTimeInv

LEMMA JwtNextInv == JwtInv /\ [JwtNext]_jwtVars => JwtInv'
<1> SUFFICES ASSUME JwtInv, [JwtNext]_jwtVars PROVE JwtInv'
  OBVIOUS
<1>1. CASE UNCHANGED jwtVars
  <2>1. JwtTypeInv' /\ WithdrawnInv' /\ (\A u \in JwksUris : \A e \in jwksStore[u] : KeysInv(e))'
    BY <1>1 DEF JwtInv, JwtTypeInv, WithdrawnInv, PublishedIds, KeysInv, NotLongAfter, jwtVars
  <2>2. (\A r \in JwtCallers : RequestInv(jwt[r]))'
    BY <1>1 DEF JwtInv, RequestInv, ReplyInv, NotLongAfter, jwtVars
  <2>3. (\A v \in ToSet(verdicts) : VerdictInv(v))'
    BY <1>1 DEF JwtInv, VerdictInv, AcceptanceInv, NotLongAfter, TokenExpired, jwtVars
  <2> QED  BY <1>1, <2>1, <2>2, <2>3 DEF JwtInv, jwtVars
<1>2. ASSUME NEW r \in JwtCallers,
             JwtRequest(r) \/ JwtVerify(r) \/ JwksServe(r) \/ JwksFails(r) \/ JwksReceived(r)
      PROVE  JwtInv'
  BY <1>2, JwtRequestInv, JwtVerifyInv, JwksServeInv, JwksFailsInv, JwksReceivedInv
<1> QED  BY <1>1, <1>2, JwtGetPolicyInv, RotateKeysInv, JwtTickInv DEF JwtNext

LEMMA JwtInvariant == HostSpec => []JwtInv
<1>1. HostInit => JwtInv
  BY JwtInitInv DEF HostInit
<1>2. [HostNext]_hostVars => [JwtNext]_jwtVars
  BY DEF HostNext, hostVars, jwtVars
<1>3. JwtInv /\ [HostNext]_hostVars => JwtInv'
  BY <1>2, JwtNextInv
<1> QED  BY <1>1, <1>3, PTL DEF HostSpec

\* No token is accepted on a key that the JWKS endpoints withdrew longer ago than a reply
\* under way, a cached key set and a cached verdict last: the caches of jwt-auth, for any
\* number of endpoints and concurrent requests, rotations, republished keys and retries.
THEOREM WithdrawnKeyDiesHolds == HostSpec => []WithdrawnKeyDies
<1>1. JwtInv => WithdrawnKeyDies
  BY DEF JwtInv, WithdrawnKeyDies
<1> QED  BY <1>1, JwtInvariant, PTL

\* The cached verdicts of jwt-auth answer as a verification would: buildTokenCacheKey
\* holds all of the configuration that validateTokenWithSignature depends on, an
\* acceptance expires with the token, and a cached rejection has a reason that lasts.
THEOREM VerdictsSoundHolds == HostSpec => []VerdictsSound
<1>1. JwtInv => VerdictsSound
  BY DEF JwtInv, VerdictsSound
<1> QED  BY <1>1, JwtInvariant, PTL

-----------------------------------------------------------------------------
(***************************************************************************)
(* opaque-token-auth and backend-jwt: the inductive invariant              *)
(***************************************************************************)

AllReports == {InitialReports[u] : u \in DOMAIN InitialReports} \union {c.report : c \in ReportChanges}
Entries == {x \in Nat \X {e \in UNION {ToSet(list) : list \in IntrospectionConfigs} : Introspects(e)} :
               x[2].uri \in DOMAIN InitialReports}

\* The record with the given fields, as a set: the provers take updates of records in it.
Holding(pc, rt, tok, todo, n, reply, due, ctx) ==
    [pc : {pc}, route : {rt}, token : {tok}, todo : {todo}, attempt : {n}, reply : {reply},
     due : {due}, ctx : {ctx}]
IsCaller(q) == q \in Holding(q.pc, q.route, q.token, q.todo, q.attempt, q.reply, q.due, q.ctx)

IdTypeInv ==
    /\ idClock \in Nat /\ assertionSize \in Nat \ {0} /\ IsList(introspections) /\ IsList(assertions)
    /\ reports \in [DOMAIN InitialReports -> [OpaqueTokens -> AllReports]]
    /\ \A x \in retired : x.at \in Nat
    /\ \A p \in providers : p.entries \subseteq Entries
    /\ caller = [r \in IdentityCallers |-> caller[r]]

\* A server reports it now, or did so at the given time or later.
Vouched(t, rep, since) ==
    rep \in Reported(t) \/ \E x \in retired : x.token = t /\ x.report = rep /\ x.at >= since

\* A cached report was true not too long before it expires, and not past the token's life.
CachedReportInv(x) ==
    /\ x.expiresAt \in Int /\ x.result \in AllReports
    /\ x.result.active =>
          /\ x.expiresAt <= idClock + IntrospectionCacheTtl
          /\ \A e \in x.result.exp : x.expiresAt <= e
          /\ \E name : \E t \in OpaqueTokens :
                /\ x.key = <<name, t>>
                /\ Vouched(t, x.result, x.expiresAt - (MaxReportAge + 1))

\* An identity a route may assert: given by another policy, or reported.
Known(rt, ctx, since) ==
    IF rt.others # {} THEN ctx \in rt.others
    ELSE \E rep \in AllReports, t \in OpaqueTokens :
            rep.active /\ ctx = AuthContext(rt, rep, t) /\ Vouched(t, rep, since)

Judged(life) == life >= 2 * TicksInSecond /\ life % TicksInSecond = 0

\* An assertion of a route about such an identity.
Says(a, rt, ctx) ==
    /\ a.key = assertionKey(rt.backend, ctx, rt.operation)
    /\ a.claims = buildClaims(rt.backend, ctx, rt.operation)
    /\ a.life = rt.backend.tokenExpiry

\* An assertion signed for the request at the given time.
SignedInv(q, a, at) ==
    /\ a = [key |-> a.key, claims |-> a.claims, life |-> a.life, exp |-> a.exp, expiresAt |-> 0]
    /\ a.exp \in Int /\ (Judged(a.life) => at + (a.life - TicksInSecond) < a.exp)
    /\ \E ctx \in q.ctx : Says(a, q.route, ctx) /\ Known(q.route, ctx, at - MaxReportAge)

CallerInv(q) ==
    /\ IsCaller(q) /\ q.pc \in {"introspect", "ask", "reply", "accepted", "signed"}
    /\ q.route \in IdentityRoutes /\ q.token \in OpaqueTokens /\ q.todo \subseteq Entries
    /\ q.pc \in {"introspect", "ask", "reply"} => q.route.others = {}
    /\ q.pc \in {"ask", "reply"} =>
          q.todo # {} /\ q.due \in Int /\ idClock <= q.due /\ q.due <= idClock + IntrospectionTimeout
    /\ q.pc = "reply" =>
          \A rep \in q.reply : rep \in AllReports /\ Vouched(q.token, rep, q.due - IntrospectionTimeout)
    /\ q.pc = "accepted" => \A ctx \in q.ctx : Known(q.route, ctx, idClock - MaxReportAge)
    /\ q.pc = "signed" =>
          /\ q.due \in Int /\ idClock <= q.due /\ q.due <= idClock + SignLag
          /\ \A a \in q.reply : SignedInv(q, a, q.due - SignLag)

CachedAssertionInv(a) ==
    /\ a.expiresAt \in Int /\ a.exp \in Int /\ a.expiresAt <= idClock + AssertionTtl(a.life)
    /\ Judged(a.life) => a.expiresAt <= a.exp
    /\ \E rt \in IdentityRoutes : \E ctx :
          /\ Says(a, rt, ctx)
          /\ Known(rt, ctx, a.expiresAt - (MaxReportAge + SignLag + AssertionTtl(a.life)))

IdInv ==
    /\ IdTypeInv /\ misled = {}
    /\ \A r \in IdentityCallers : caller[r] = NoCaller \/ CallerInv(caller[r])
    /\ \A x \in ToSet(introspections) : CachedReportInv(x)
    /\ \A a \in ToSet(assertions) : CachedAssertionInv(a)

LEMMA Durations ==
  /\ IntrospectionCacheTtl \in Nat \ {0} /\ IntrospectionTimeout \in Nat \ {0}
  /\ OpaqueCacheMaxSize \in Nat \ {0} /\ IntrospectionNegativeCacheTtl \in Nat
  /\ MaxReportAge \in Nat /\ MaxReportAge = IntrospectionTimeout + (IntrospectionCacheTtl - 1)
  /\ SignLag \in {0, 1} /\ TicksInSecond \in Nat \ {0} /\ MinCacheTTL \in Nat \ {0}
<1>1. /\ IntrospectionCacheTtl \in Nat \ {0} /\ IntrospectionTimeout \in Nat \ {0}
      /\ OpaqueCacheMaxSize \in Nat \ {0} /\ IntrospectionNegativeCacheTtl \in Nat
  BY OpaqueAssumption
<1>2. SignLag \in {0, 1} /\ TicksInSecond \in Nat \ {0} /\ MinCacheTTL \in Nat \ {0}
  BY BackendAssumption
<1> QED  BY <1>1, <1>2 DEF MaxReportAge

\* Half a life, or the floor below the life: a second less than the life, for lives of
\* two seconds and more.
LEMMA TtlBounds ==
  ASSUME NEW life \in Nat \ {0}
  PROVE  /\ AssertionTtl(life) \in Nat
         /\ Judged(life) => AssertionTtl(life) >= 1 /\ AssertionTtl(life) <= life - TicksInSecond
<1> DEFINE T == TicksInSecond
<1>1. T \in Nat \ {0} /\ MinCacheTTL \in Nat \ {0} /\ MinCacheTTL % T = 0
  BY BackendAssumption
<1>2. life \div 2 \in Nat /\ 2 * (life \div 2) <= life /\ life <= 2 * (life \div 2) + 1
  OBVIOUS
<1>3. AssertionTtl(life) \in Nat
  BY <1>1, <1>2 DEF AssertionTtl
<1>4. ASSUME Judged(life) PROVE AssertionTtl(life) >= 1 /\ AssertionTtl(life) <= life - T
  <2>1. life >= 2 * T /\ life % T = 0
    BY <1>4 DEF Judged
  <2>2. life \div 2 >= 1 /\ life \div 2 <= life - T
    BY <1>1, <1>2, <2>1
  <2>3. ASSUME MinCacheTTL < life PROVE MinCacheTTL <= life - T
    <3>1. PICK m \in Int : MinCacheTTL = T * m
      <4>1. MinCacheTTL = T * (MinCacheTTL \div T) + (MinCacheTTL % T) /\ MinCacheTTL \div T \in Int
        BY <1>1
      <4> QED  BY <1>1, <4>1
    <3>2. PICK n \in Int : life = T * n
      <4>1. life = T * (life \div T) + (life % T) /\ life \div T \in Int
        BY <1>1
      <4> QED  BY <1>1, <2>1, <4>1
    <3>3. T * m < T * n
      BY <2>3, <3>1, <3>2
    <3>4. m < n
      BY <1>1, <3>3
    <3>5. T * (m + 1) <= T * n
      BY <1>1, <3>4
    <3> HIDE DEF T
    <3> QED  BY <1>1, <3>1, <3>2, <3>5
  <2> QED  BY <1>1, <2>2, <2>3 DEF AssertionTtl
<1> QED  BY <1>3, <1>4

LEMMA IdInitInv == IdentityInit => IdInv
<1> SUFFICES ASSUME IdentityInit PROVE IdInv
  OBVIOUS
<1> USE DEF IdentityInit, OpaqueInit
<1>1. IsList(introspections) /\ ToSet(introspections) = {} /\ IsList(assertions) /\ ToSet(assertions) = {}
  BY DEF IsList, ToSet
<1>2. reports \in [DOMAIN InitialReports -> [OpaqueTokens -> AllReports]]
  BY DEF AllReports
<1>3. assertionSize \in Nat \ {0}
  BY BackendAssumption
<1>4. caller = [r \in IdentityCallers |-> caller[r]]
  OBVIOUS
<1>5. IdTypeInv
  BY <1>1, <1>2, <1>3, <1>4 DEF IdTypeInv
<1> QED  BY <1>1, <1>5 DEF IdInv

-----------------------------------------------------------------------------
(***************************************************************************)
(* Time passes and reports change                                          *)
(***************************************************************************)

ReportsKept ==
    /\ idClock \in Nat /\ idClock' \in Nat /\ idClock <= idClock'
    /\ \A t \in OpaqueTokens : \A rep, since : since \in Int /\ since <= idClock /\ Vouched(t, rep, since)
          => Vouched(t, rep, since)'

LEMMA KnownKept ==
  ASSUME ReportsKept, NEW rt, NEW ctx, NEW since \in Int, since <= idClock, Known(rt, ctx, since)
  PROVE  Known(rt, ctx, since)'
<1>1. CASE rt.others # {}
  BY <1>1 DEF Known
<1>2. CASE rt.others = {}
  <2>1. PICK rep \in AllReports, t \in OpaqueTokens :
            rep.active /\ ctx = AuthContext(rt, rep, t) /\ Vouched(t, rep, since)
    BY <1>2 DEF Known
  <2>2. Vouched(t, rep, since)'
    BY <2>1 DEF ReportsKept
  <2> QED  BY <1>2, <2>1, <2>2 DEF Known
<1> QED  BY <1>1, <1>2

LEMMA CachedReportKept ==
  ASSUME ReportsKept, NEW x, CachedReportInv(x)
  PROVE  CachedReportInv(x)'
<1>1. x.expiresAt \in Int /\ x.result \in AllReports
  BY DEF CachedReportInv
<1>2. ASSUME x.result.active
      PROVE  /\ x.expiresAt <= idClock' + IntrospectionCacheTtl
             /\ \A e \in x.result.exp : x.expiresAt <= e
             /\ \E name : \E t \in OpaqueTokens :
                   /\ x.key = <<name, t>>
                   /\ Vouched(t, x.result, x.expiresAt - (MaxReportAge + 1))'
  <2>1. x.expiresAt <= idClock + IntrospectionCacheTtl /\ \A e \in x.result.exp : x.expiresAt <= e
    BY <1>2 DEF CachedReportInv
  <2>2. PICK name : \E t \in OpaqueTokens :
           x.key = <<name, t>> /\ Vouched(t, x.result, x.expiresAt - (MaxReportAge + 1))
    BY <1>2 DEF CachedReportInv
  <2>3. PICK t \in OpaqueTokens :
           x.key = <<name, t>> /\ Vouched(t, x.result, x.expiresAt - (MaxReportAge + 1))
    BY <2>2
  <2> DEFINE since == x.expiresAt - (MaxReportAge + 1)
  <2>4. idClock \in Nat /\ idClock' \in Nat /\ idClock <= idClock'
    BY DEF ReportsKept
  <2>5. since \in Int /\ since <= idClock
    BY <1>1, <2>1, <2>4, Durations
  <2>6. Vouched(t, x.result, since)
    BY <2>3
  <2> HIDE DEF since
  <2>7. Vouched(t, x.result, since)'
    BY <2>5, <2>6 DEF ReportsKept
  <2>8. x.expiresAt <= idClock' + IntrospectionCacheTtl
    BY <1>1, <2>1, <2>4, Durations
  <2> QED  BY <2>1, <2>3, <2>7, <2>8 DEF since
<1> QED  BY <1>1, <1>2 DEF CachedReportInv

LEMMA CachedAssertionKept ==
  ASSUME ReportsKept, NEW a, CachedAssertionInv(a)
  PROVE  CachedAssertionInv(a)'
<1>1. /\ a.expiresAt \in Int /\ a.exp \in Int /\ a.expiresAt <= idClock + AssertionTtl(a.life)
      /\ Judged(a.life) => a.expiresAt <= a.exp
  BY DEF CachedAssertionInv
<1>2. PICK rt \in IdentityRoutes : \E ctx :
          /\ Says(a, rt, ctx)
          /\ Known(rt, ctx, a.expiresAt - (MaxReportAge + SignLag + AssertionTtl(a.life)))
  BY DEF CachedAssertionInv
<1>3. PICK ctx :
          /\ Says(a, rt, ctx)
          /\ Known(rt, ctx, a.expiresAt - (MaxReportAge + SignLag + AssertionTtl(a.life)))
  BY <1>2
<1> DEFINE since == a.expiresAt - (MaxReportAge + SignLag + AssertionTtl(a.life))
<1>4. idClock \in Nat /\ idClock' \in Nat /\ idClock <= idClock'
  BY DEF ReportsKept
<1>5. AssertionTtl(a.life) \in Nat
  <2>1. a.life \in Nat \ {0}
    BY <1>3, BackendAssumption DEF Says
  <2> QED  BY <2>1, TtlBounds
<1>6. since \in Int /\ since <= idClock
  BY <1>1, <1>4, <1>5, Durations
<1>7. Known(rt, ctx, since)
  BY <1>3
<1> HIDE DEF since
<1>8. Known(rt, ctx, since)'
  BY <1>6, <1>7, KnownKept
<1>9. a.expiresAt <= idClock' + AssertionTtl(a.life)
  BY <1>1, <1>4, <1>5
<1> QED  BY <1>1, <1>3, <1>8, <1>9 DEF CachedAssertionInv, since

LEMMA SignedKept ==
  ASSUME ReportsKept, NEW q, NEW a, NEW at \in Int, at <= idClock, SignedInv(q, a, at)
  PROVE  SignedInv(q, a, at)'
<1>1. /\ a = [key |-> a.key, claims |-> a.claims, life |-> a.life, exp |-> a.exp, expiresAt |-> 0]
      /\ a.exp \in Int /\ (Judged(a.life) => at + (a.life - TicksInSecond) < a.exp)
  BY DEF SignedInv
<1>2. PICK ctx \in q.ctx : Says(a, q.route, ctx) /\ Known(q.route, ctx, at - MaxReportAge)
  BY DEF SignedInv
<1> DEFINE since == at - MaxReportAge
<1>3. idClock \in Nat
  BY DEF ReportsKept
<1>4. since \in Int /\ since <= idClock
  BY <1>3, Durations
<1>5. Known(q.route, ctx, since)
  BY <1>2
<1> HIDE DEF since
<1>6. Known(q.route, ctx, since)'
  BY <1>4, <1>5, KnownKept
<1> QED  BY <1>1, <1>2, <1>6 DEF SignedInv, since

\* A request under way stays as it is: the caller does not move between an acceptance and
\* its assertion, and nothing lasts longer than it may.
LEMMA CallerKept ==
  ASSUME ReportsKept, NEW q, CallerInv(q),
         q.pc = "accepted" => idClock' = idClock,
         q.pc \in {"ask", "reply", "signed"} => idClock' <= q.due
  PROVE  CallerInv(q)'
<1>1. idClock \in Nat /\ idClock' \in Nat /\ idClock <= idClock'
  BY DEF ReportsKept
<1>2. /\ IsCaller(q) /\ q.pc \in {"introspect", "ask", "reply", "accepted", "signed"}
      /\ q.route \in IdentityRoutes /\ q.token \in OpaqueTokens /\ q.todo \subseteq Entries
      /\ q.pc \in {"introspect", "ask", "reply"} => q.route.others = {}
  BY DEF CallerInv
<1>3. q.pc \in {"ask", "reply"} =>
          q.todo # {} /\ q.due \in Int /\ idClock' <= q.due /\ q.due <= idClock' + IntrospectionTimeout
  <2>1. q.pc \in {"ask", "reply"} => q.todo # {} /\ q.due \in Int /\ q.due <= idClock + IntrospectionTimeout
    BY DEF CallerInv
  <2> QED  BY <1>1, <2>1, Durations
<1>4. ASSUME q.pc = "reply", NEW rep \in q.reply
      PROVE  rep \in AllReports /\ Vouched(q.token, rep, q.due - IntrospectionTimeout)'
  <2> DEFINE since == q.due - IntrospectionTimeout
  <2>1. rep \in AllReports /\ Vouched(q.token, rep, since) /\ q.due \in Int /\ q.due <= idClock + IntrospectionTimeout
    BY <1>4 DEF CallerInv
  <2>2. since \in Int /\ since <= idClock
    BY <1>1, <2>1, Durations
  <2> HIDE DEF since
  <2>3. Vouched(q.token, rep, since)'
    BY <1>2, <2>1, <2>2 DEF ReportsKept
  <2> QED  BY <2>1, <2>3 DEF since
<1>5. ASSUME q.pc = "accepted", NEW ctx \in q.ctx
      PROVE  Known(q.route, ctx, idClock - MaxReportAge)'
  <2>1. PICK since \in Int : since = idClock - MaxReportAge
    BY <1>1, Durations
  <2>2. Known(q.route, ctx, since) /\ since <= idClock /\ idClock' - MaxReportAge = since
    BY <1>1, <1>5, <2>1, Durations DEF CallerInv
  <2>3. Known(q.route, ctx, since)'
    BY <2>1, <2>2, KnownKept
  <2> QED  BY <2>2, <2>3
<1>6. ASSUME q.pc = "signed"
      PROVE  /\ q.due \in Int /\ idClock' <= q.due /\ q.due <= idClock' + SignLag
             /\ \A a \in q.reply : SignedInv(q, a, q.due - SignLag)'
  <2>1. /\ q.due \in Int /\ q.due <= idClock + SignLag
        /\ \A a \in q.reply : SignedInv(q, a, q.due - SignLag)
    BY <1>6 DEF CallerInv
  <2>2. q.due - SignLag \in Int /\ q.due - SignLag <= idClock
    BY <1>1, <2>1, Durations
  <2>3. \A a \in q.reply : SignedInv(q, a, q.due - SignLag)'
    BY <2>1, <2>2, SignedKept
  <2> QED  BY <1>1, <1>6, <2>1, <2>3, Durations
<1> QED  BY <1>2, <1>3, <1>4, <1>5, <1>6 DEF CallerInv, IsCaller

LEMMA ReportsStay ==
  ASSUME IdInv, UNCHANGED <<reports, retired, idClock>>
  PROVE  ReportsKept
  BY DEF IdInv, IdTypeInv, ReportsKept, Vouched, Reported

\* A step of a request, whatever it leaves.
LEMMA CallerStepInv ==
  ASSUME IdInv, NEW r \in IdentityCallers, NEW q, q = NoCaller \/ CallerInv(q),
         caller' = [caller EXCEPT ![r] = q],
         UNCHANGED <<reports, retired, idClock, assertionSize>>, misled' = {},
         \A p \in providers' : p.entries \subseteq Entries,
         IsList(introspections'), \A x \in ToSet(introspections') : CachedReportInv(x),
         IsList(assertions'), \A a \in ToSet(assertions') : CachedAssertionInv(a)
  PROVE  IdInv'
<1>1. ReportsKept
  BY ReportsStay
<1>2. IdTypeInv'
  BY DEF IdInv, IdTypeInv
<1>3. ASSUME NEW c \in IdentityCallers PROVE caller'[c] = NoCaller \/ CallerInv(caller[c])'
  <2>1. caller'[c] = IF c = r THEN q ELSE caller[c]
    BY DEF IdInv, IdTypeInv
  <2>2. PICK x : x = caller'[c]
    OBVIOUS
  <2>3. x = NoCaller \/ CallerInv(x)
    BY <2>1, <2>2 DEF IdInv
  <2>4. ASSUME CallerInv(x) PROVE CallerInv(x)'
    <3>1. x.pc \in {"ask", "reply", "signed"} => idClock' <= x.due
      BY <2>4 DEF CallerInv
    <3> QED  BY <1>1, <2>4, <3>1, CallerKept
  <2>5. x = NoCaller \/ CallerInv(x)'
    BY <2>3, <2>4
  <2>6. CallerInv(x)' => CallerInv(caller[c])'
    BY <2>2 DEF CallerInv, SignedInv, Known, Vouched, Reported, IsCaller
  <2> QED  BY <2>2, <2>5, <2>6
<1>4. (\A x \in ToSet(introspections) : CachedReportInv(x))'
  <2> SUFFICES ASSUME NEW x, x \in ToSet(introspections') PROVE CachedReportInv(x)'
    OBVIOUS
  <2> QED  BY <1>1, CachedReportKept
<1>5. (\A a \in ToSet(assertions) : CachedAssertionInv(a))'
  <2> SUFFICES ASSUME NEW a, a \in ToSet(assertions') PROVE CachedAssertionInv(a)'
    OBVIOUS
  <2> QED  BY <1>1, CachedAssertionKept
<1> QED  BY <1>2, <1>3, <1>4, <1>5 DEF IdInv

\* A step of the environment.
LEMMA IdTimeInv ==
  ASSUME IdInv, ReportsKept, UNCHANGED <<caller, misled, providers>>,
         reports' \in [DOMAIN InitialReports -> [OpaqueTokens -> AllReports]],
         \A x \in retired' : x.at \in Nat,
         assertionSize' \in Nat \ {0}, IsList(introspections'), IsList(assertions'),
         ToSet(introspections') \subseteq ToSet(introspections), ToSet(assertions') \subseteq ToSet(assertions),
         \A r \in IdentityCallers :
            /\ caller[r].pc = "accepted" => idClock' = idClock
            /\ caller[r].pc \in {"ask", "reply", "signed"} => idClock' <= caller[r].due
  PROVE  IdInv'
<1>1. IdTypeInv'
  BY DEF IdInv, IdTypeInv, ReportsKept
<1>2. ASSUME NEW c \in IdentityCallers PROVE caller'[c] = NoCaller \/ CallerInv(caller[c])'
  <2>1. PICK x : x = caller[c]
    OBVIOUS
  <2>2. x = NoCaller \/ CallerInv(x)
    BY <2>1 DEF IdInv
  <2>3. CallerInv(x) => CallerInv(x)'
    BY <2>1, CallerKept
  <2>4. CallerInv(x)' => CallerInv(caller[c])'
    BY <2>1 DEF CallerInv, SignedInv, Known, Vouched, Reported, IsCaller
  <2> QED  BY <2>1, <2>2, <2>3, <2>4
<1>3. (\A x \in ToSet(introspections) : CachedReportInv(x))'
  <2> SUFFICES ASSUME NEW x, x \in ToSet(introspections') PROVE CachedReportInv(x)'
    OBVIOUS
  <2> QED  BY CachedReportKept DEF IdInv
<1>4. (\A a \in ToSet(assertions) : CachedAssertionInv(a))'
  <2> SUFFICES ASSUME NEW a, a \in ToSet(assertions') PROVE CachedAssertionInv(a)'
    OBVIOUS
  <2> QED  BY CachedAssertionKept DEF IdInv
<1> QED  BY <1>1, <1>2, <1>3, <1>4 DEF IdInv

LEMMA IdentityTickInv == IdInv /\ IdentityTick => IdInv'
<1> SUFFICES ASSUME IdInv, IdentityTick PROVE IdInv'
  OBVIOUS
<1> USE DEF IdentityTick, backendVars
<1>1. ReportsKept
  BY DEF IdInv, IdTypeInv, ReportsKept, Vouched, Reported
<1>2. ASSUME NEW r \in IdentityCallers, caller[r].pc \in {"ask", "reply", "signed"}
      PROVE  idClock' <= caller[r].due
  <2>1. CallerInv(caller[r])
    BY <1>2 DEF IdInv, NoCaller
  <2>2. caller[r].due \in Int /\ idClock < caller[r].due
    BY <1>2, <2>1 DEF CallerInv
  <2>3. idClock \in Nat
    BY DEF IdInv, IdTypeInv
  <2> QED  BY <2>2, <2>3
<1>3. /\ UNCHANGED <<caller, misled, providers>>
      /\ reports' \in [DOMAIN InitialReports -> [OpaqueTokens -> AllReports]]
      /\ \A x \in retired' : x.at \in Nat
      /\ assertionSize' \in Nat \ {0} /\ IsList(introspections') /\ IsList(assertions')
      /\ ToSet(introspections') \subseteq ToSet(introspections) /\ ToSet(assertions') \subseteq ToSet(assertions)
  BY DEF IdInv, IdTypeInv
<1>4. \A r \in IdentityCallers : caller[r].pc = "accepted" => idClock' = idClock
  OBVIOUS
<1> HIDE DEF IdentityTick, backendVars
<1> QED  BY <1>1, <1>2, <1>3, <1>4, IdTimeInv

LEMMA ReportChangeInv == IdInv /\ ReportChange /\ UNCHANGED backendVars => IdInv'
<1> SUFFICES ASSUME IdInv, ReportChange, UNCHANGED backendVars PROVE IdInv'
  OBVIOUS
<1>1. PICK c \in ReportChanges, t \in OpaqueTokens :
          /\ c.uri \in DOMAIN reports /\ reports[c.uri][t] # c.report
          /\ reports' = [reports EXCEPT ![c.uri][t] = c.report]
          /\ retired' = retired \union {[token |-> t, report |-> reports[c.uri][t], at |-> idClock]}
  BY DEF ReportChange
<1>2. /\ UNCHANGED <<providers, introspections, idClock, caller, misled, assertions, assertionSize>>
      /\ idClock \in Nat /\ reports \in [DOMAIN InitialReports -> [OpaqueTokens -> AllReports]]
      /\ \A x \in retired : x.at \in Nat
  BY DEF ReportChange, backendVars, IdInv, IdTypeInv
<1>3. c.report \in AllReports
  BY DEF AllReports
<1>4. reports' \in [DOMAIN InitialReports -> [OpaqueTokens -> AllReports]]
  BY <1>1, <1>2, <1>3
<1>5. \A x \in retired' : x.at \in Nat
  BY <1>1, <1>2
<1>6. ASSUME NEW t2 \in OpaqueTokens, NEW rep, NEW since, since \in Int, since <= idClock,
             Vouched(t2, rep, since)
      PROVE  Vouched(t2, rep, since)'
  <2>1. CASE rep \in Reported(t2)
    <3>1. PICK u \in DOMAIN reports : rep = reports[u][t2]
      BY <2>1 DEF Reported
    <3>2. CASE u = c.uri /\ t2 = t
      <4>1. PICK x : x = [token |-> t, report |-> reports[c.uri][t], at |-> idClock]
        OBVIOUS
      <4>3. x \in retired' /\ x.token = t2 /\ x.report = rep /\ x.at = idClock
        BY <1>1, <3>1, <3>2, <4>1
      <4>2. x.at >= since
        BY <1>2, <1>6, <4>3
      <4> QED  BY <4>2, <4>3 DEF Vouched
    <3>3. CASE ~(u = c.uri /\ t2 = t)
      <4>1. reports'[u][t2] = reports[u][t2] /\ u \in DOMAIN reports'
        BY <1>1, <1>2, <3>1, <3>3
      <4> QED  BY <3>1, <4>1 DEF Vouched, Reported
    <3> QED  BY <3>2, <3>3
  <2>2. CASE \E x \in retired : x.token = t2 /\ x.report = rep /\ x.at >= since
    BY <1>1, <2>2 DEF Vouched
  <2> QED  BY <1>6, <2>1, <2>2 DEF Vouched
<1>7. ReportsKept
  BY <1>2, <1>6 DEF ReportsKept
<1>8. \A r \in IdentityCallers : caller[r].pc \in {"ask", "reply", "signed"} => idClock' <= caller[r].due
  <2> SUFFICES ASSUME NEW r \in IdentityCallers, caller[r].pc \in {"ask", "reply", "signed"}
               PROVE  idClock <= caller[r].due
    BY <1>2
  <2>1. CallerInv(caller[r])
    BY DEF IdInv, NoCaller
  <2> QED  BY <2>1 DEF CallerInv
<1>9. assertionSize' \in Nat \ {0} /\ IsList(introspections') /\ IsList(assertions')
  BY <1>2 DEF IdInv, IdTypeInv
<1> QED  BY <1>2, <1>4, <1>5, <1>7, <1>8, <1>9, IdTimeInv

LEMMA BackendGetPolicyInv == IdInv /\ BackendGetPolicy => IdInv'
<1> SUFFICES ASSUME IdInv, BackendGetPolicy PROVE IdInv'
  OBVIOUS
<1>1. UNCHANGED <<providers, reports, retired, introspections, idClock, caller, misled>> /\ assertions' = <<>>
  BY DEF BackendGetPolicy, opaqueVars
<1>2. assertionSize' \in Nat \ {0}
  <2>1. PICK n \in AssertionCacheSizes : assertionSize' = IF n <= 0 THEN DefaultAssertionCacheSize ELSE n
    BY DEF BackendGetPolicy
  <2>2. n \in Int /\ DefaultAssertionCacheSize \in Nat \ {0}
    BY BackendAssumption
  <2> QED  BY <2>1, <2>2
<1>3. IsList(assertions') /\ ToSet(assertions') = {}
  BY <1>1 DEF IsList, ToSet
<1>4. ReportsKept
  BY <1>1, ReportsStay
<1>5. \A r \in IdentityCallers : caller[r].pc \in {"ask", "reply", "signed"} => idClock' <= caller[r].due
  <2> SUFFICES ASSUME NEW r \in IdentityCallers, caller[r].pc \in {"ask", "reply", "signed"}
               PROVE  idClock <= caller[r].due
    BY <1>1
  <2>1. CallerInv(caller[r])
    BY DEF IdInv, NoCaller
  <2> QED  BY <2>1 DEF CallerInv
<1>6. /\ reports' \in [DOMAIN InitialReports -> [OpaqueTokens -> AllReports]]
      /\ IsList(introspections') /\ \A x \in retired' : x.at \in Nat
  BY <1>1 DEF IdInv, IdTypeInv
<1> QED  BY <1>1, <1>2, <1>3, <1>4, <1>5, <1>6, IdTimeInv

-----------------------------------------------------------------------------
(***************************************************************************)
(* opaque-token-auth: the steps of a request                               *)
(***************************************************************************)

LEMMA LeastNat ==
  ASSUME NEW S \in SUBSET Nat, S # {}
  PROVE  \E x \in S : \A y \in S : x <= y
<1> DEFINE R == {ss \in Nat \X Nat : ss[1] < ss[2]}
<1>1. IsWellFoundedOn(R, Nat)
  BY NatLessThanWellFounded, Zenon DEF OpToRel
<1>2. PICK x \in S : \A y \in S : <<y, x>> \notin R
  BY <1>1, WFMin, Zenon
<1>3. ASSUME NEW y \in S PROVE x <= y
  <2>1. <<y, x>> \notin R
    BY <1>2, Zenon
  <2>2. ~(y < x)
    BY <2>1
  <2> QED  BY <2>2
<1> QED  BY <1>3

\* The provider asked next is one of those left, and has an endpoint.
LEMMA FirstProvider ==
  ASSUME NEW todo, todo \subseteq Entries, todo # {}
  PROVE  First(todo) \in todo /\ Provider(todo).uri \in DOMAIN InitialReports
<1> DEFINE S == {x[1] : x \in todo}
<1>1. S \in SUBSET Nat /\ S # {}
  BY DEF Entries
<1> HIDE DEF S
<1>2. PICK n \in S : \A m \in S : n <= m
  BY <1>1, LeastNat
<1>3. \E x \in todo : \A y \in todo : x[1] <= y[1]
  <2>1. PICK x \in todo : x[1] = n
    BY DEF S
  <2>2. \A y \in todo : y[1] \in S
    BY DEF S
  <2> QED  BY <1>2, <2>1, <2>2
<1>4. First(todo) \in todo
  BY <1>3 DEF First
<1> QED  BY <1>4 DEF Provider, Entries

LEMMA ParsedEntries ==
  ASSUME NEW list \in IntrospectionConfigs
  PROVE  parseIntrospectionProviders(list).entries \subseteq Entries
<1>1. list \in Seq(ToSet(list)) /\ \A e \in ToSet(list) : e.uri \in DOMAIN InitialReports \union {""}
  BY OpaqueAssumption
<1>2. DOMAIN list \subseteq Nat /\ \A i \in DOMAIN list : list[i] \in ToSet(list)
  <2>1. list \in Seq(ToSet(list))
    BY <1>1
  <2>2. Len(list) \in Nat /\ DOMAIN list = 1..Len(list)
    BY <2>1
  <2> QED  BY <2>2 DEF ToSet
<1>3. parseIntrospectionProviders(list).entries = {<<i, list[i]>> : i \in {j \in DOMAIN list : Introspects(list[j])}}
  BY DEF parseIntrospectionProviders
<1>4. ASSUME NEW i \in DOMAIN list, Introspects(list[i])
      PROVE  <<i, list[i]>> \in Entries
  <2>1. list[i] \in {e \in UNION {ToSet(l) : l \in IntrospectionConfigs} : Introspects(e)}
    BY <1>2, <1>4
  <2>2. list[i].uri \in DOMAIN InitialReports
    BY <1>1, <1>2, <1>4 DEF Introspects
  <2> QED  BY <1>2, <2>1, <2>2 DEF Entries
<1> QED  BY <1>3, <1>4

LEMMA ChosenEntries ==
  ASSUME NEW entries, entries \subseteq Entries, NEW issuers, NEW t
  PROVE  filterProvidersByToken(selectProviders(entries, issuers), t) \subseteq Entries
  BY DEF filterProvidersByToken, selectProviders

LEMMA CallerUpdates ==
  ASSUME NEW q, IsCaller(q), NEW todo, NEW n, NEW reply, NEW due, NEW ctx, NEW pc
  PROVE  /\ [q EXCEPT !.todo = todo, !.attempt = n, !.reply = reply, !.due = due, !.pc = pc]
              \in Holding(pc, q.route, q.token, todo, n, reply, due, q.ctx)
         /\ [q EXCEPT !.todo = todo, !.pc = pc, !.ctx = ctx]
              \in Holding(pc, q.route, q.token, todo, q.attempt, q.reply, q.due, ctx)
         /\ [q EXCEPT !.pc = pc, !.todo = todo, !.ctx = ctx]
              \in Holding(pc, q.route, q.token, todo, q.attempt, q.reply, q.due, ctx)
         /\ [q EXCEPT !.pc = pc, !.reply = reply, !.due = due]
              \in Holding(pc, q.route, q.token, q.todo, q.attempt, reply, due, q.ctx)
         /\ [q EXCEPT !.pc = pc, !.attempt = n, !.reply = reply, !.due = due]
              \in Holding(pc, q.route, q.token, q.todo, n, reply, due, q.ctx)
         /\ [q EXCEPT !.pc = pc, !.todo = todo, !.attempt = n, !.reply = reply, !.due = due]
              \in Holding(pc, q.route, q.token, todo, n, reply, due, q.ctx)
         /\ [q EXCEPT !.pc = pc, !.due = due]
              \in Holding(pc, q.route, q.token, q.todo, q.attempt, q.reply, due, q.ctx)
         /\ [q EXCEPT !.pc = pc, !.reply = reply]
              \in Holding(pc, q.route, q.token, q.todo, q.attempt, reply, q.due, q.ctx)
         /\ [q EXCEPT !.todo = todo]
              \in Holding(q.pc, q.route, q.token, todo, q.attempt, q.reply, q.due, q.ctx)
  BY DEF IsCaller, Holding

\* A report that is usable is not stale.
LEMMA ReportUsable ==
  ASSUME IdInv, NEW q, NEW rep, NEW cached \in BOOLEAN, NEW since \in Int, since >= idClock - MaxReportAge,
         rep.active, Vouched(q.token, rep, since), cached => \A e \in rep.exp : idClock < e,
         rep \in AllReports
  PROVE  ~WrongAcceptance(q, rep, cached)
<1>1. idClock \in Nat /\ \A x \in retired : x.at \in Nat
  BY DEF IdInv, IdTypeInv
<1>2. ASSUME NEW x \in retired, x.token = q.token, x.report = rep, x.at >= since, rep \notin Reported(q.token)
      PROVE  x \in StaleSince(q.token, rep) /\ ~(idClock - x.at > MaxReportAge)
  BY <1>1, <1>2, Durations DEF StaleSince
<1>3. StaleSince(q.token, rep) # {} => \E x \in StaleSince(q.token, rep) : ~(idClock - x.at > MaxReportAge)
  <2>1. StaleSince(q.token, rep) # {} => rep \notin Reported(q.token)
    BY DEF StaleSince
  <2> QED  BY <1>2, <2>1 DEF Vouched
<1>4. \A e \in rep.exp : e \in Int
  BY OpaqueAssumption DEF AllReports
<1> QED  BY <1>1, <1>3, <1>4 DEF WrongAcceptance

\* The answer to a report that is usable.
LEMMA AfterReportInv ==
  ASSUME IdInv, NEW r \in IdentityCallers, NEW q, q = caller[r], CallerInv(q),
         q.pc \in {"introspect", "reply"}, q.route.others = {},
         NEW rep \in AllReports, NEW cached \in BOOLEAN, AfterReport(r, q, rep, cached),
         NEW since \in Int, since >= idClock - MaxReportAge, since <= idClock,
         rep.active => Vouched(q.token, rep, since) /\ (cached => \A e \in rep.exp : idClock < e),
         UNCHANGED <<providers, reports, retired, idClock, assertions, assertionSize>>,
         IsList(introspections'), \A x \in ToSet(introspections') : CachedReportInv(x)
  PROVE  IdInv'
<1> DEFINE next == [q EXCEPT !.todo = Others(@), !.attempt = 0, !.reply = {}, !.due = 0, !.pc = "introspect"]
           accepted == [next EXCEPT !.todo = {}, !.pc = "accepted", !.ctx = {AuthContext(q.route, rep, q.token)}]
<1>1. misled' = {}
  <2>1. rep.active => ~WrongAcceptance(q, rep, cached)
    BY ReportUsable
  <2> QED  BY <2>1 DEF AfterReport, IdInv
<1>2. \E n \in {NoCaller, next} \union (IF rep.active THEN {accepted} ELSE {}) : caller' = [caller EXCEPT ![r] = n]
  BY DEF AfterReport
<1>3. /\ IsCaller(q) /\ q.route \in IdentityRoutes /\ q.token \in OpaqueTokens /\ q.todo \subseteq Entries
  BY DEF CallerInv
<1>4. next \in Holding("introspect", q.route, q.token, Others(q.todo), 0, {}, 0, q.ctx)
  BY <1>3, CallerUpdates, Zenon
<1>5. accepted \in Holding("accepted", q.route, q.token, {}, 0, {}, 0, {AuthContext(q.route, rep, q.token)})
  <2>1. IsCaller(next) /\ next.route = q.route /\ next.token = q.token /\ next.attempt = 0 /\ next.reply = {} /\ next.due = 0
    BY <1>4 DEF Holding, IsCaller
  <2>2. [next EXCEPT !.todo = {}, !.pc = "accepted", !.ctx = {AuthContext(q.route, rep, q.token)}]
          \in Holding("accepted", next.route, next.token, {}, next.attempt, next.reply, next.due,
                      {AuthContext(q.route, rep, q.token)})
    <3> HIDE DEF next
    <3> QED  BY <2>1, CallerUpdates, Zenon
  <2> HIDE DEF next
  <2> QED  BY <2>1, <2>2
<1> HIDE DEF next, accepted
<1>6. CallerInv(next)
  <2>1. Others(q.todo) \subseteq Entries
    BY <1>3 DEF Others
  <2>2. /\ IsCaller(next) /\ next.pc = "introspect" /\ next.route = q.route /\ next.token = q.token
        /\ next.todo = Others(q.todo)
    BY <1>4 DEF Holding, IsCaller
  <2> QED  BY <1>3, <2>1, <2>2 DEF CallerInv
<1>7. ASSUME rep.active PROVE CallerInv(accepted)
  <2> DEFINE ctx == AuthContext(q.route, rep, q.token)
  <2>1. Known(q.route, ctx, idClock - MaxReportAge)
    <3>1. Vouched(q.token, rep, idClock - MaxReportAge)
      <4>1. idClock \in Nat /\ \A x \in retired : x.at \in Nat
        BY DEF IdInv, IdTypeInv
      <4> QED  BY <1>7, <4>1, Durations DEF Vouched
    <3> QED  BY <1>3, <1>7, <3>1 DEF Known
  <2> HIDE DEF ctx
  <2>2. /\ IsCaller(accepted) /\ accepted.pc = "accepted" /\ accepted.route = q.route
        /\ accepted.token = q.token /\ accepted.todo = {} /\ accepted.ctx = {ctx}
    BY <1>5 DEF ctx, Holding, IsCaller
  <2> QED  BY <1>3, <2>1, <2>2 DEF CallerInv
<1>8. PICK n \in {NoCaller, next, accepted} :
         (n = NoCaller \/ CallerInv(n)) /\ caller' = [caller EXCEPT ![r] = n]
  BY <1>2, <1>6, <1>7
<1>9. IsList(assertions') /\ \A a \in ToSet(assertions') : CachedAssertionInv(a)
  BY DEF IdInv, IdTypeInv
<1>10. \A p \in providers' : p.entries \subseteq Entries
  BY DEF IdInv, IdTypeInv
<1> QED  BY <1>1, <1>8, <1>9, <1>10, CallerStepInv

\* What the steps of one request share.
LEMMA CallerFacts ==
  ASSUME IdInv, NEW r \in IdentityCallers, caller[r].pc # "idle"
  PROVE  CallerInv(caller[r])
  BY DEF IdInv, NoCaller

LEMMA CachesStay ==
  ASSUME IdInv
  PROVE  /\ IsList(introspections) /\ \A x \in ToSet(introspections) : CachedReportInv(x)
         /\ IsList(assertions) /\ \A a \in ToSet(assertions) : CachedAssertionInv(a)
         /\ assertionSize \in Nat \ {0} /\ \A p \in providers : p.entries \subseteq Entries
         /\ misled = {} /\ idClock \in Nat
  BY DEF IdInv, IdTypeInv

\* A step of a request that touches nothing but the request.
LEMMA CallerMovesInv ==
  ASSUME IdInv, NEW r \in IdentityCallers, NEW q, q = NoCaller \/ CallerInv(q),
         caller' = [caller EXCEPT ![r] = q],
         UNCHANGED <<providers, reports, retired, introspections, idClock, misled, assertions, assertionSize>>
  PROVE  IdInv'
<1>1. /\ IsList(introspections') /\ \A x \in ToSet(introspections') : CachedReportInv(x)
      /\ IsList(assertions') /\ \A a \in ToSet(assertions') : CachedAssertionInv(a)
      /\ \A p \in providers' : p.entries \subseteq Entries
      /\ misled' = {}
  BY CachesStay
<1> QED  BY <1>1, CallerStepInv

LEMMA NewCaller ==
  ASSUME NEW pc, NEW rt, NEW tok, NEW todo, NEW n, NEW reply, NEW due, NEW ctx
  PROVE  [pc |-> pc, route |-> rt, token |-> tok, todo |-> todo, attempt |-> n,
          reply |-> reply, due |-> due, ctx |-> ctx] \in Holding(pc, rt, tok, todo, n, reply, due, ctx)
  BY DEF Holding

LEMMA IdentityRequestInv ==
  ASSUME IdInv, NEW r \in IdentityCallers, IdentityRequest(r), UNCHANGED backendVars
  PROVE  IdInv'
<1>1. PICK rt \in IdentityRoutes, t \in OpaqueTokens, words \in OpaqueHeaders, parsed \in getProviders :
          LET todo == filterProvidersByToken(selectProviders(parsed.entries, rt.issuers), t)
              q == [pc |-> "introspect", route |-> rt, token |-> t, todo |-> todo, attempt |-> 0,
                    reply |-> {}, due |-> 0, ctx |-> {}]
          IN  /\ providers' = IF rt.others # {} THEN providers ELSE {parsed}
              /\ caller' = [caller EXCEPT ![r] =
                    IF rt.others # {} THEN [q EXCEPT !.pc = "accepted", !.todo = {}, !.ctx = rt.others]
                    ELSE IF parsed.err \/ todo = {} \/ bearerToken(words, rt.scheme) = "" THEN NoCaller
                    ELSE q]
  BY Zenon DEF IdentityRequest
<1>2. UNCHANGED <<reports, retired, introspections, idClock, misled, assertions, assertionSize>>
  BY DEF IdentityRequest, backendVars
<1> DEFINE todo == filterProvidersByToken(selectProviders(parsed.entries, rt.issuers), t)
           q == [pc |-> "introspect", route |-> rt, token |-> t, todo |-> todo, attempt |-> 0,
                 reply |-> {}, due |-> 0, ctx |-> {}]
           accepted == [q EXCEPT !.pc = "accepted", !.todo = {}, !.ctx = rt.others]
<1>3. parsed.entries \subseteq Entries
  BY CachesStay, ParsedEntries DEF getProviders
<1>4. todo \subseteq Entries
  BY <1>3, ChosenEntries
<1>5. /\ providers' = IF rt.others # {} THEN providers ELSE {parsed}
      /\ \E n \in {IF rt.others # {} THEN accepted ELSE NoCaller, IF rt.others = {} THEN q ELSE NoCaller} :
            caller' = [caller EXCEPT ![r] = n]
  BY <1>1
<1> HIDE DEF todo
<1>6. q \in Holding("introspect", rt, t, todo, 0, {}, 0, {})
  BY NewCaller, Zenon
<1> HIDE DEF q
<1>7. IsCaller(q) /\ q.pc = "introspect" /\ q.route = rt /\ q.token = t /\ q.todo = todo
  BY <1>6 DEF Holding, IsCaller
<1>8. accepted \in Holding("accepted", q.route, q.token, {}, q.attempt, q.reply, q.due, rt.others)
  BY <1>7, CallerUpdates, Zenon
<1> HIDE DEF accepted
<1>9. rt.others = {} => CallerInv(q)
  BY <1>4, <1>7 DEF CallerInv
<1>10. rt.others # {} => CallerInv(accepted)
  <2>1. IsCaller(accepted) /\ accepted.pc = "accepted" /\ accepted.route = rt /\ accepted.token = t
        /\ accepted.todo = {} /\ accepted.ctx = rt.others
    BY <1>7, <1>8 DEF Holding, IsCaller
  <2>2. rt.others # {} => \A ctx \in rt.others : Known(rt, ctx, idClock - MaxReportAge)
    BY DEF Known
  <2> QED  BY <2>1, <2>2 DEF CallerInv
<1>11. PICK n : (n = NoCaller \/ CallerInv(n)) /\ caller' = [caller EXCEPT ![r] = n]
  BY <1>5, <1>9, <1>10
<1>12. \A p \in providers' : p.entries \subseteq Entries
  BY <1>3, <1>5, CachesStay
<1>13. /\ IsList(introspections') /\ \A x \in ToSet(introspections') : CachedReportInv(x)
       /\ IsList(assertions') /\ \A a \in ToSet(assertions') : CachedAssertionInv(a)
       /\ misled' = {}
  BY <1>2, CachesStay
<1> QED  BY <1>2, <1>11, <1>12, <1>13, CallerStepInv

LEMMA IntrospectInv ==
  ASSUME IdInv, NEW r \in IdentityCallers, Introspect(r), UNCHANGED backendVars
  PROVE  IdInv'
<1> DEFINE q == caller[r]
           key == introspectionCacheKey(Provider(q.todo), q.token)
<1>1. UNCHANGED <<providers, reports, retired, idClock, assertions, assertionSize>> /\ q.pc = "introspect"
  BY DEF Introspect, backendVars
<1>2. CallerInv(q)
  BY <1>1, CallerFacts
<1>3. /\ IsCaller(q) /\ q.route \in IdentityRoutes /\ q.token \in OpaqueTokens /\ q.todo \subseteq Entries
      /\ q.route.others = {}
  BY <1>1, <1>2 DEF CallerInv
<1>4. \/ caller' = [caller EXCEPT ![r] = NoCaller] /\ UNCHANGED <<introspections, misled>>
      \/ caller' = [caller EXCEPT ![r].todo = Others(@)] /\ UNCHANGED <<introspections, misled>>
      \/ /\ introspections' = Touched(key) /\ q.todo # {}
         /\ \/ caller' = [caller EXCEPT ![r].pc = "ask", ![r].due = idClock + IntrospectionTimeout] /\ UNCHANGED misled
            \/ \E x \in IntrospectionHit(key) : AfterReport(r, q, x.result, TRUE)
  BY DEF Introspect
<1>5. CASE caller' = [caller EXCEPT ![r] = NoCaller] /\ UNCHANGED <<introspections, misled>>
  BY <1>1, <1>5, CallerMovesInv
<1>6. CASE caller' = [caller EXCEPT ![r].todo = Others(@)] /\ UNCHANGED <<introspections, misled>>
  <2> DEFINE n == [q EXCEPT !.todo = Others(q.todo)]
  <2>1. caller' = [caller EXCEPT ![r] = n]
    BY <1>6
  <2>2. n \in Holding(q.pc, q.route, q.token, Others(q.todo), q.attempt, q.reply, q.due, q.ctx)
    BY <1>3, CallerUpdates, Zenon
  <2> HIDE DEF n, q
  <2>3. IsCaller(n) /\ n.pc = "introspect" /\ n.route = q.route /\ n.token = q.token /\ n.todo = Others(q.todo)
    BY <1>1, <2>2 DEF Holding, IsCaller
  <2>4. CallerInv(n)
    BY <1>3, <2>3 DEF CallerInv, Others
  <2> QED  BY <1>1, <1>6, <2>1, <2>4, CallerMovesInv
<1>7. ASSUME introspections' = Touched(key)
      PROVE  IsList(introspections') /\ \A x \in ToSet(introspections') : CachedReportInv(x)
  BY <1>7, CachesStay, LruEntries DEF Touched
<1>8. CASE /\ introspections' = Touched(key) /\ q.todo # {}
           /\ caller' = [caller EXCEPT ![r].pc = "ask", ![r].due = idClock + IntrospectionTimeout] /\ UNCHANGED misled
  <2> DEFINE due == idClock + IntrospectionTimeout
             n == [q EXCEPT !.pc = "ask", !.due = due]
  <2>1. caller' = [caller EXCEPT ![r] = n]
    BY <1>8
  <2>2. n \in Holding("ask", q.route, q.token, q.todo, q.attempt, q.reply, due, q.ctx)
    BY <1>3, CallerUpdates, Zenon
  <2>3. due \in Int /\ idClock <= due /\ due <= idClock + IntrospectionTimeout
    BY CachesStay, Durations
  <2> HIDE DEF n, q, due
  <2>4. IsCaller(n) /\ n.pc = "ask" /\ n.route = q.route /\ n.token = q.token /\ n.todo = q.todo /\ n.due = due
    BY <2>2 DEF Holding, IsCaller
  <2>5. CallerInv(n)
    BY <1>3, <1>8, <2>3, <2>4 DEF CallerInv
  <2>6. /\ IsList(assertions') /\ \A a \in ToSet(assertions') : CachedAssertionInv(a)
        /\ \A p \in providers' : p.entries \subseteq Entries
        /\ misled' = {}
    BY <1>1, <1>8, CachesStay
  <2> QED  BY <1>1, <1>7, <1>8, <2>1, <2>5, <2>6, CallerStepInv
<1>9. ASSUME introspections' = Touched(key), NEW x \in IntrospectionHit(key), AfterReport(r, q, x.result, TRUE)
      PROVE  IdInv'
  <2>1. x \in ToSet(introspections) /\ x.key = key /\ idClock < x.expiresAt /\ CachedReportInv(x)
    BY CachesStay DEF IntrospectionHit
  <2>2. x.expiresAt \in Int /\ x.result \in AllReports /\ idClock \in Nat
    BY <2>1, CachesStay DEF CachedReportInv
  <2>3. PICK since \in Int : since = idClock - MaxReportAge
    BY <2>2, Durations
  <2>4. ASSUME x.result.active
        PROVE  Vouched(q.token, x.result, since) /\ \A e \in x.result.exp : idClock < e
    <3>1. PICK name : \E t \in OpaqueTokens :
                x.key = <<name, t>> /\ Vouched(t, x.result, x.expiresAt - (MaxReportAge + 1))
      BY <2>1, <2>4 DEF CachedReportInv
    <3>2. PICK t \in OpaqueTokens : x.key = <<name, t>> /\ Vouched(t, x.result, x.expiresAt - (MaxReportAge + 1))
      BY <3>1
    <3>3. t = q.token
      BY <2>1, <3>2 DEF introspectionCacheKey
    <3>4. \A y \in retired : y.at \in Nat
      BY DEF IdInv, IdTypeInv
    <3> HIDE DEF q
    <3>5. Vouched(q.token, x.result, since)
      BY <2>1, <2>2, <2>3, <3>2, <3>3, <3>4, Durations DEF Vouched
    <3>6. \A e \in x.result.exp : e \in Int /\ x.expiresAt <= e
      BY <2>1, <2>2, <2>4, OpaqueAssumption DEF CachedReportInv, AllReports
    <3> QED  BY <2>1, <2>2, <3>5, <3>6
  <2>5. since >= idClock - MaxReportAge /\ since <= idClock
    BY <2>2, <2>3, Durations
  <2>6. q.pc \in {"introspect", "reply"} /\ TRUE \in BOOLEAN
    BY <1>1
  <2> QED  BY <1>1, <1>2, <1>3, <1>7, <1>9, <2>2, <2>4, <2>5, <2>6, AfterReportInv
<1> QED  BY <1>4, <1>5, <1>6, <1>8, <1>9

LEMMA IntrospectionServeInv ==
  ASSUME IdInv, NEW r \in IdentityCallers, IntrospectionServe(r), UNCHANGED backendVars
  PROVE  IdInv'
<1> DEFINE q == caller[r]
           rep == reports[Provider(q.todo).uri][q.token]
           n == [q EXCEPT !.pc = "reply", !.reply = {rep}]
<1>1. /\ UNCHANGED <<providers, reports, retired, introspections, idClock, misled, assertions, assertionSize>>
      /\ q.pc = "ask"
  BY DEF IntrospectionServe, backendVars
<1>2. CallerInv(q)
  BY <1>1, CallerFacts
<1>3. /\ IsCaller(q) /\ q.route \in IdentityRoutes /\ q.token \in OpaqueTokens /\ q.todo \subseteq Entries
      /\ q.route.others = {} /\ q.todo # {} /\ q.due \in Int
      /\ idClock <= q.due /\ q.due <= idClock + IntrospectionTimeout
  BY <1>1, <1>2 DEF CallerInv
<1>4. caller' = [caller EXCEPT ![r] = n]
  BY DEF IntrospectionServe
<1>5. n \in Holding("reply", q.route, q.token, q.todo, q.attempt, {rep}, q.due, q.ctx)
  BY <1>3, CallerUpdates, Zenon
<1>6. rep \in AllReports /\ rep \in Reported(q.token)
  <2>1. Provider(q.todo).uri \in DOMAIN InitialReports
    BY <1>3, FirstProvider
  <2>2. reports \in [DOMAIN InitialReports -> [OpaqueTokens -> AllReports]]
    BY DEF IdInv, IdTypeInv
  <2> QED  BY <1>3, <2>1, <2>2 DEF Reported
<1> HIDE DEF n, q, rep
<1>7. IsCaller(n) /\ n.pc = "reply" /\ n.route = q.route /\ n.token = q.token /\ n.todo = q.todo
      /\ n.due = q.due /\ n.reply = {rep}
  BY <1>5 DEF Holding, IsCaller
<1>8. CallerInv(n)
  BY <1>3, <1>6, <1>7 DEF CallerInv, Vouched
<1> QED  BY <1>1, <1>4, <1>8, CallerMovesInv

LEMMA IntrospectionFailsInv ==
  ASSUME IdInv, NEW r \in IdentityCallers, IntrospectionFails(r), UNCHANGED backendVars
  PROVE  IdInv'
<1> DEFINE q == caller[r]
           due == idClock + IntrospectionTimeout
           again == [q EXCEPT !.pc = "ask", !.attempt = q.attempt + 1, !.reply = {}, !.due = due]
           next == [q EXCEPT !.pc = "introspect", !.todo = Others(q.todo), !.attempt = 0, !.reply = {}, !.due = 0]
<1>1. /\ UNCHANGED <<providers, reports, retired, introspections, idClock, misled, assertions, assertionSize>>
      /\ q.pc \in {"ask", "reply"}
  BY DEF IntrospectionFails, backendVars
<1>2. CallerInv(q)
  BY <1>1, CallerFacts
<1>3. /\ IsCaller(q) /\ q.route \in IdentityRoutes /\ q.token \in OpaqueTokens /\ q.todo \subseteq Entries
      /\ q.route.others = {} /\ q.todo # {}
  BY <1>1, <1>2 DEF CallerInv
<1>4. caller' = [caller EXCEPT ![r] = again] \/ caller' = [caller EXCEPT ![r] = next]
  BY DEF IntrospectionFails
<1>5. again \in Holding("ask", q.route, q.token, q.todo, q.attempt + 1, {}, due, q.ctx)
  BY <1>3, CallerUpdates, Zenon
<1>6. next \in Holding("introspect", q.route, q.token, Others(q.todo), 0, {}, 0, q.ctx)
  BY <1>3, CallerUpdates, Zenon
<1>7. due \in Int /\ idClock <= due /\ due <= idClock + IntrospectionTimeout
  BY CachesStay, Durations
<1> HIDE DEF again, next, q, due
<1>8. IsCaller(again) /\ again.pc = "ask" /\ again.route = q.route /\ again.token = q.token
      /\ again.todo = q.todo /\ again.due = due
  BY <1>5 DEF Holding, IsCaller
<1>9. CallerInv(again)
  BY <1>3, <1>7, <1>8 DEF CallerInv
<1>10. IsCaller(next) /\ next.pc = "introspect" /\ next.route = q.route /\ next.token = q.token
       /\ next.todo = Others(q.todo)
  BY <1>6 DEF Holding, IsCaller
<1>11. CallerInv(next)
  BY <1>3, <1>10 DEF CallerInv, Others
<1> QED  BY <1>1, <1>4, <1>9, <1>11, CallerMovesInv

LEMMA KeepUntilLeast ==
  ASSUME NEW rep \in AllReports, idClock \in Nat
  PROVE  /\ KeepUntil(rep) \in Int
         /\ rep.active => /\ KeepUntil(rep) <= idClock + IntrospectionCacheTtl
                          /\ \A e \in rep.exp : KeepUntil(rep) <= e
<1> DEFINE c == idClock + IntrospectionCacheTtl
           S == {c} \cup rep.exp
<1>1. rep.exp \subseteq Int /\ \A m, n \in rep.exp : m = n
  BY OpaqueAssumption DEF AllReports
<1>2. c \in Int /\ idClock + IntrospectionNegativeCacheTtl \in Int
  BY Durations
<1>3. \E x \in S : \A y \in S : x <= y
  <2>1. CASE rep.exp = {}
    BY <1>2, <2>1
  <2>2. CASE rep.exp # {}
    <3>1. PICK e : e \in rep.exp
      BY <2>2
    <3>2. S = {c, e} /\ e \in Int
      BY <1>1, <3>1
    <3> HIDE DEF S, c
    <3>3. c <= e \/ e <= c
      BY <1>2, <3>2
    <3> QED  BY <1>2, <3>2, <3>3
  <2> QED  BY <2>1, <2>2
<1>4. rep.active => KeepUntil(rep) \in S /\ \A y \in S : KeepUntil(rep) <= y
  BY <1>3 DEF KeepUntil
<1>5. ~rep.active => KeepUntil(rep) = idClock + IntrospectionNegativeCacheTtl
  BY DEF KeepUntil
<1> QED  BY <1>1, <1>2, <1>4, <1>5

LEMMA IntrospectionReceivedInv ==
  ASSUME IdInv, NEW r \in IdentityCallers, IntrospectionReceived(r), UNCHANGED backendVars
  PROVE  IdInv'
<1> DEFINE q == caller[r]
           key == introspectionCacheKey(Provider(q.todo), q.token)
<1>1. /\ UNCHANGED <<providers, reports, retired, idClock, assertions, assertionSize>>
      /\ q.pc = "reply"
  BY DEF IntrospectionReceived, backendVars
<1>2. CallerInv(q)
  BY <1>1, CallerFacts
<1>3. /\ q.token \in OpaqueTokens /\ q.route.others = {} /\ q.due \in Int
      /\ idClock <= q.due /\ q.due <= idClock + IntrospectionTimeout
      /\ \A rep \in q.reply : rep \in AllReports /\ Vouched(q.token, rep, q.due - IntrospectionTimeout)
  BY <1>1, <1>2 DEF CallerInv
<1>4. PICK rep \in q.reply : introspections' = Store(key, rep) /\ AfterReport(r, q, rep, FALSE)
  BY DEF IntrospectionReceived
<1>5. rep \in AllReports /\ idClock \in Nat /\ \A x \in retired : x.at \in Nat
  BY <1>3, <1>4 DEF IdInv, IdTypeInv
<1>6. PICK since \in Int : since = q.due - IntrospectionTimeout
  BY <1>3, Durations
<1>7. Vouched(q.token, rep, since) /\ since <= idClock /\ since >= idClock - MaxReportAge
  BY <1>3, <1>5, <1>6, Durations
<1> DEFINE until == KeepUntil(rep)
           added == [key |-> key, result |-> rep, expiresAt |-> until]
<1>8. CachedReportInv(added)
  <2>1. added.key = <<Provider(q.todo).name, q.token>> /\ added.result = rep /\ added.expiresAt = until
    BY DEF introspectionCacheKey
  <2>2. until \in Int /\ rep.active => until <= idClock + IntrospectionCacheTtl /\ \A e \in rep.exp : until <= e
    BY <1>5, KeepUntilLeast
  <2>3. until \in Int
    BY <1>5, KeepUntilLeast
  <2> HIDE DEF added, until, q
  <2>4. rep.active => Vouched(q.token, rep, until - (MaxReportAge + 1))
    BY <1>3, <1>5, <1>6, <1>7, <2>2, <2>3, Durations DEF Vouched
  <2> QED  BY <1>3, <1>5, <2>1, <2>2, <2>3, <2>4 DEF CachedReportInv
<1>9. IsList(introspections') /\ \A x \in ToSet(introspections') : CachedReportInv(x)
  <2>1. introspections' \in {LruPut(introspections, OpaqueCacheMaxSize, added), introspections}
    BY <1>4 DEF Store
  <2> HIDE DEF added
  <2>2. LET put == LruPut(introspections, OpaqueCacheMaxSize, added)
        IN  IsList(put) /\ ToSet(put) \subseteq ToSet(introspections) \union {added}
    BY CachesStay, Durations, LruPutEntries
  <2> QED  BY <1>8, <2>1, <2>2, CachesStay
<1>10. q.pc \in {"introspect", "reply"} /\ FALSE \in BOOLEAN
  BY <1>1
<1> QED  BY <1>1, <1>2, <1>3, <1>4, <1>5, <1>7, <1>9, <1>10, AfterReportInv

-----------------------------------------------------------------------------
(***************************************************************************)
(* backend-jwt: the steps of a request                                     *)
(***************************************************************************)

\* Equal keys: the same configuration, as far as it shapes the key, for the same caller.
LEMMA SameKey ==
  ASSUME NEW b1, NEW ctx1, NEW op1, NEW b2, NEW ctx2, NEW op2,
         assertionKey(b1, ctx1, op1) = assertionKey(b2, ctx2, op2)
  PROVE  SameAssertion(b1, ctx1, op1, b2, ctx2, op2)
<1> DEFINE i1 == KeyIdentity(ctx1)
           i2 == KeyIdentity(ctx2)
           k1 == keyClaims(b1, ctx1, op1)
           k2 == keyClaims(b2, ctx2, op2)
<1>1. <<b1.api, b1.issuer, b1.algorithm, b1.dialect, b1.excludedClaims, i1, op1.path, op1.method, k1>>
      = <<b2.api, b2.issuer, b2.algorithm, b2.dialect, b2.excludedClaims, i2, op2.path, op2.method, k2>>
  BY Zenon DEF assertionKey
<1> HIDE DEF i1, i2, k1, k2
<1>2. /\ b1.api = b2.api /\ b1.issuer = b2.issuer /\ b1.algorithm = b2.algorithm /\ b1.dialect = b2.dialect
      /\ b1.excludedClaims = b2.excludedClaims /\ i1 = i2 /\ op1.path = op2.path /\ op1.method = op2.method
      /\ k1 = k2
  BY <1>1
<1> QED  BY <1>2 DEF SameAssertion, i1, i2, k1, k2

LEMMA SameToken ==
  ASSUME NEW ctx, NEW rt, NEW rep, NEW t, KeyIdentity(ctx) = KeyIdentity(AuthContext(rt, rep, t))
  PROVE  ctx.tokenId = t
<1> DEFINE c == AuthContext(rt, rep, t)
<1>1. c.nil = FALSE /\ c.tokenId = t
  BY DEF AuthContext
<1> HIDE DEF c
<1>2. KeyIdentity(ctx) = KeyIdentity(c)
  BY DEF c
<1>3. CASE t # ""
  <2>1. KeyIdentity(c) = <<"token", t>>
    BY <1>1, <1>3 DEF KeyIdentity
  <2> QED  BY <1>2, <2>1 DEF KeyIdentity
<1>4. CASE t = ""
  <2>1. KeyIdentity(c) = <<"identity", c>>
    BY <1>1, <1>4 DEF KeyIdentity
  <2>2. ctx = c
    BY <1>2, <2>1 DEF KeyIdentity
  <2> QED  BY <1>1, <2>2
<1> QED  BY <1>3, <1>4

\* An assertion about an identity known recently enough is vouched for, to every request
\* with its key.
LEMMA AssertionVouched ==
  ASSUME IdInv, NEW q, NEW ctx \in q.ctx, NEW a, a.key = assertionKey(q.route.backend, ctx, q.route.operation),
         NEW rt \in IdentityRoutes, NEW c, Says(a, rt, c),
         NEW since \in Int, Known(rt, c, since), since >= idClock - MaxAssertionAge(a)
  PROVE  VouchedFor(q, a)
<1>1. /\ SameAssertion(q.route.backend, ctx, q.route.operation, rt.backend, c, rt.operation)
      /\ a.claims = buildClaims(rt.backend, c, rt.operation)
  BY SameKey DEF Says
<1>2. c \in TrueContexts(rt, ctx, a)
  <2>1. CASE rt.others # {}
    BY <2>1 DEF Known, TrueContexts
  <2>2. CASE rt.others = {}
    <3>1. PICK rep \in AllReports, t \in OpaqueTokens :
              rep.active /\ c = AuthContext(rt, rep, t) /\ Vouched(t, rep, since)
      BY <2>2 DEF Known
    <3>2. ctx.tokenId = t
      BY <1>1, <3>1, SameToken DEF SameAssertion
    <3>3. MaxAssertionAge(a) \in Int
      <4>1. a.life \in Nat \ {0}
        BY BackendAssumption DEF Says
      <4>2. AssertionTtl(a.life) \in Nat
        BY <4>1, TtlBounds
      <4> QED  BY <4>2, Durations DEF MaxAssertionAge
    <3>4. idClock \in Nat /\ \A x \in retired : x.at \in Nat
      BY DEF IdInv, IdTypeInv
    <3>5. ASSUME NEW x \in retired, x.token = t /\ x.report = rep /\ x.at >= since
          PROVE  rep \in TrueReports(t, a)
      <4>1. idClock - x.at <= MaxAssertionAge(a)
        BY <3>3, <3>4, <3>5
      <4> QED  BY <3>1, <3>5, <4>1 DEF TrueReports
    <3>6. rep \in TrueReports(t, a)
      BY <3>1, <3>5 DEF Vouched, TrueReports
    <3> QED  BY <2>2, <3>1, <3>2, <3>6 DEF TrueContexts
  <2> QED  BY <2>1, <2>2
<1> QED  BY <1>1, <1>2 DEF VouchedFor

LEMMA ForwardRight ==
  ASSUME IdInv, NEW r, NEW q, NEW a, Forward(r, q, a), VouchedFor(q, a), Judged(a.life) => idClock < a.exp,
         a.exp \in Int
  PROVE  caller' = [caller EXCEPT ![r] = NoCaller] /\ misled' = {}
<1>1. idClock \in Nat /\ misled = {}
  BY CachesStay
<1>2. ~WrongAssertion(q, a)
  BY <1>1 DEF WrongAssertion, Judged
<1> QED  BY <1>1, <1>2 DEF Forward

\* An assertion from the cache.
LEMMA HitRight ==
  ASSUME IdInv, NEW r, NEW q, NEW ctx \in q.ctx,
         NEW a \in AssertionHit(assertionKey(q.route.backend, ctx, q.route.operation)), Forward(r, q, a)
  PROVE  caller' = [caller EXCEPT ![r] = NoCaller] /\ misled' = {}
<1> DEFINE key == assertionKey(q.route.backend, ctx, q.route.operation)
<1>1. a \in ToSet(assertions) /\ a.key = key /\ idClock < a.expiresAt
  BY DEF AssertionHit
<1>2. CachedAssertionInv(a) /\ idClock \in Nat
  BY <1>1, CachesStay
<1>3. a.expiresAt \in Int /\ a.exp \in Int /\ (Judged(a.life) => a.expiresAt <= a.exp)
  BY <1>2 DEF CachedAssertionInv
<1> DEFINE ttl == AssertionTtl(a.life)
<1>4. PICK rt \in IdentityRoutes : \E c :
          Says(a, rt, c) /\ Known(rt, c, a.expiresAt - (MaxReportAge + SignLag + ttl))
  BY <1>2 DEF CachedAssertionInv
<1>5. PICK c : Says(a, rt, c) /\ Known(rt, c, a.expiresAt - (MaxReportAge + SignLag + ttl))
  BY <1>4
<1>6. ttl \in Nat /\ ttl # 0
  <2>1. a.life \in Nat \ {0}
    BY <1>5, BackendAssumption DEF Says
  <2>2. ttl \in Nat
    BY <2>1, TtlBounds
  <2>3. a.expiresAt <= idClock + ttl
    BY <1>2 DEF CachedAssertionInv
  <2> HIDE DEF ttl
  <2> QED  BY <1>1, <1>2, <1>3, <2>2, <2>3
<1>7. MaxAssertionAge(a) = MaxReportAge + SignLag + (ttl - 1)
  BY <1>6 DEF MaxAssertionAge
<1> HIDE DEF ttl
<1>8. PICK since \in Int : since = a.expiresAt - (MaxReportAge + SignLag + ttl)
  BY <1>3, <1>6, Durations
<1>9. since >= idClock - MaxAssertionAge(a)
  BY <1>1, <1>2, <1>3, <1>6, <1>7, <1>8, Durations
<1>10. VouchedFor(q, a)
  BY <1>1, <1>5, <1>8, <1>9, AssertionVouched
<1>11. Judged(a.life) => idClock < a.exp
  BY <1>1, <1>2, <1>3
<1> QED  BY <1>3, <1>10, <1>11, ForwardRight

\* An assertion just signed.
LEMMA SignedRight ==
  ASSUME IdInv, NEW r, NEW q, q.route \in IdentityRoutes, NEW at \in Int, idClock <= at + SignLag,
         NEW a, SignedInv(q, a, at), Forward(r, q, a)
  PROVE  caller' = [caller EXCEPT ![r] = NoCaller] /\ misled' = {}
<1>1. a.exp \in Int /\ (Judged(a.life) => at + (a.life - TicksInSecond) < a.exp)
  BY DEF SignedInv
<1>2. PICK ctx \in q.ctx : Says(a, q.route, ctx) /\ Known(q.route, ctx, at - MaxReportAge)
  BY DEF SignedInv
<1>3. idClock \in Nat
  BY CachesStay
<1>4. a.life \in Nat \ {0}
  BY <1>2, BackendAssumption DEF Says
<1>5. AssertionTtl(a.life) \in Nat
  BY <1>4, TtlBounds
<1>6. PICK since \in Int : since = at - MaxReportAge
  BY Durations
<1>7. MaxAssertionAge(a) \in Nat /\ MaxAssertionAge(a) >= MaxReportAge + SignLag
  BY <1>5, Durations DEF MaxAssertionAge
<1>8. since >= idClock - MaxAssertionAge(a)
  BY <1>3, <1>6, <1>7, Durations
<1>9. a.key = assertionKey(q.route.backend, ctx, q.route.operation)
  BY <1>2 DEF Says
<1>10. VouchedFor(q, a)
  BY <1>2, <1>6, <1>8, <1>9, AssertionVouched
<1>11. ASSUME Judged(a.life) PROVE idClock < a.exp
  <2>1. a.life >= 2 * TicksInSecond
    BY <1>11 DEF Judged
  <2>2. a.life - TicksInSecond >= 1
    BY <1>4, <2>1, Durations
  <2> QED  BY <1>1, <1>3, <1>4, <1>11, <2>2, Durations
<1> QED  BY <1>1, <1>10, <1>11, ForwardRight

\* exp in whole seconds is less than a second early.
LEMMA WholeSeconds ==
  ASSUME NEW n \in Int
  PROVE  /\ (n \div TicksInSecond) * TicksInSecond \in Int
         /\ n - TicksInSecond < (n \div TicksInSecond) * TicksInSecond
<1>1. TicksInSecond \in Nat \ {0}
  BY Durations
<1>2. /\ n \div TicksInSecond \in Int /\ n % TicksInSecond \in 0..(TicksInSecond - 1)
      /\ n = TicksInSecond * (n \div TicksInSecond) + (n % TicksInSecond)
  BY <1>1
<1> QED  BY <1>1, <1>2

\* The assertion that a request signs now.
LEMMA AssertionSigned ==
  ASSUME IdInv, NEW q, q.route \in IdentityRoutes, NEW ctx \in q.ctx,
         Known(q.route, ctx, idClock - MaxReportAge), NEW a,
         a = [key |-> assertionKey(q.route.backend, ctx, q.route.operation),
              claims |-> buildClaims(q.route.backend, ctx, q.route.operation),
              life |-> q.route.backend.tokenExpiry,
              exp |-> ((idClock + q.route.backend.tokenExpiry) \div TicksInSecond) * TicksInSecond,
              expiresAt |-> 0]
  PROVE  SignedInv(q, a, idClock)
<1> DEFINE life == q.route.backend.tokenExpiry
           key == assertionKey(q.route.backend, ctx, q.route.operation)
           claims == buildClaims(q.route.backend, ctx, q.route.operation)
           exp == ((idClock + life) \div TicksInSecond) * TicksInSecond
<1>1. idClock \in Nat /\ life \in Nat \ {0}
  BY CachesStay, BackendAssumption
<1>2. idClock + life \in Int
  BY <1>1
<1>3. exp \in Int /\ (idClock + life) - TicksInSecond < exp
  <2> HIDE DEF life
  <2> QED  BY <1>2, WholeSeconds
<1>4. a = [key |-> key, claims |-> claims, life |-> life, exp |-> exp, expiresAt |-> 0]
  BY Zenon
<1> HIDE DEF life, key, claims, exp
<1>5. a.key = key /\ a.claims = claims /\ a.life = life /\ a.exp = exp
  BY <1>4
<1>6. a = [key |-> a.key, claims |-> a.claims, life |-> a.life, exp |-> a.exp, expiresAt |-> 0]
  BY <1>4, <1>5, Zenon
<1>7. idClock + (a.life - TicksInSecond) < a.exp
  BY <1>1, <1>3, <1>5, Durations
<1>8. Says(a, q.route, ctx)
  BY <1>5 DEF Says, key, claims, life
<1> QED  BY <1>3, <1>5, <1>6, <1>7, <1>8 DEF SignedInv

LEMMA AssertIdentityInv ==
  ASSUME IdInv, NEW r \in IdentityCallers, AssertIdentity(r)
  PROVE  IdInv'
<1> DEFINE q == caller[r]
           b == q.route.backend
           key(ctx) == assertionKey(b, ctx, q.route.operation)
           signed(ctx) == [key |-> key(ctx), claims |-> buildClaims(b, ctx, q.route.operation),
                           life |-> b.tokenExpiry,
                           exp |-> ((idClock + b.tokenExpiry) \div TicksInSecond) * TicksInSecond, expiresAt |-> 0]
<1>1. /\ UNCHANGED <<providers, reports, retired, introspections, idClock, assertionSize>>
      /\ q.pc = "accepted"
  BY DEF AssertIdentity
<1>2. CallerInv(q)
  BY <1>1, CallerFacts
<1>3. /\ IsCaller(q) /\ q.route \in IdentityRoutes /\ q.token \in OpaqueTokens /\ q.todo \subseteq Entries
      /\ \A ctx \in q.ctx : Known(q.route, ctx, idClock - MaxReportAge)
  BY <1>1, <1>2 DEF CallerInv
<1>4. PICK ctx \in q.ctx :
          /\ assertions' \in {assertions, getCachedToken(key(ctx))}
          /\ \/ caller' = [caller EXCEPT ![r] = NoCaller] /\ UNCHANGED misled
             \/ \E x \in AssertionHit(key(ctx)) : Forward(r, q, x)
             \/ Forward(r, q, signed(ctx))
             \/ /\ caller' = [caller EXCEPT ![r].pc = "signed", ![r].reply = {signed(ctx)},
                                            ![r].due = idClock + SignLag]
                /\ UNCHANGED misled
  BY DEF AssertIdentity
<1> DEFINE a == signed(ctx)
           due == idClock + SignLag
           n == [q EXCEPT !.pc = "signed", !.reply = {a}, !.due = due]
<1>5. IsList(assertions') /\ \A x \in ToSet(assertions') : CachedAssertionInv(x)
  <2> HIDE DEF key
  <2>1. IsList(getCachedToken(key(ctx))) /\ ToSet(getCachedToken(key(ctx))) \subseteq ToSet(assertions)
    BY CachesStay, LruEntries DEF getCachedToken
  <2> QED  BY <1>4, <2>1, CachesStay
<1>6. SignedInv(q, a, idClock)
  BY <1>3, AssertionSigned, Zenon
<1>7. idClock \in Nat /\ due \in Int /\ due - SignLag = idClock /\ idClock <= due
  BY CachesStay, Durations
<1>8. n \in Holding("signed", q.route, q.token, q.todo, q.attempt, {a}, due, q.ctx)
  BY <1>3, CallerUpdates, Zenon
<1>9. \/ caller' = [caller EXCEPT ![r] = NoCaller] /\ misled' = {}
      \/ \E x \in AssertionHit(assertionKey(q.route.backend, ctx, q.route.operation)) : Forward(r, q, x)
      \/ Forward(r, q, a)
      \/ caller' = [caller EXCEPT ![r] = n] /\ misled' = {}
  <2> HIDE DEF a
  <2>1. misled = {}
    BY CachesStay
  <2> QED  BY <1>4, <2>1 DEF a
<1>10. /\ \A p \in providers' : p.entries \subseteq Entries
       /\ IsList(introspections') /\ \A x \in ToSet(introspections') : CachedReportInv(x)
  BY <1>1, CachesStay
<1> HIDE DEF a, due, n, key, q
<1>11. CallerInv(n)
  <2>1. IsCaller(n) /\ n.pc = "signed" /\ n.route = q.route /\ n.token = q.token /\ n.todo = q.todo
        /\ n.reply = {a} /\ n.due = due /\ n.ctx = q.ctx
    BY <1>8 DEF Holding, IsCaller
  <2>2. SignedInv(n, a, n.due - SignLag)
    BY <1>6, <1>7, <2>1 DEF SignedInv
  <2> QED  BY <1>3, <1>7, <2>1, <2>2, Durations DEF CallerInv
<1>12. idClock \in Int /\ idClock <= idClock + SignLag
  BY <1>7, Durations
<1>13. \E m \in {NoCaller, n} : caller' = [caller EXCEPT ![r] = m] /\ misled' = {}
  <2>1. \A x \in AssertionHit(assertionKey(q.route.backend, ctx, q.route.operation)) :
           Forward(r, q, x) => caller' = [caller EXCEPT ![r] = NoCaller] /\ misled' = {}
    BY HitRight
  <2>2. Forward(r, q, a) => caller' = [caller EXCEPT ![r] = NoCaller] /\ misled' = {}
    BY <1>3, <1>6, <1>12, SignedRight
  <2> QED  BY <1>9, <2>1, <2>2
<1> QED  BY <1>1, <1>5, <1>10, <1>11, <1>13, CallerStepInv

LEMMA AssertSignedInv ==
  ASSUME IdInv, NEW r \in IdentityCallers, AssertSigned(r)
  PROVE  IdInv'
<1> DEFINE q == caller[r]
<1>1. /\ UNCHANGED <<providers, reports, retired, introspections, idClock, assertionSize>>
      /\ q.pc = "signed"
  BY DEF AssertSigned
<1>2. CallerInv(q)
  BY <1>1, CallerFacts
<1>3. PICK a \in q.reply :
          assertions' = putCachedToken(a, q.route.backend.tokenExpiry) /\ Forward(r, q, a)
  BY DEF AssertSigned
<1>4. /\ q.route \in IdentityRoutes /\ q.due \in Int /\ idClock <= q.due /\ q.due <= idClock + SignLag
      /\ SignedInv(q, a, q.due - SignLag)
  BY <1>1, <1>2, <1>3 DEF CallerInv
<1> HIDE DEF q
<1>5. PICK at \in Int : at = q.due - SignLag
  BY <1>4, Durations
<1>6. idClock \in Nat /\ idClock <= at + SignLag /\ at <= idClock
  BY <1>4, <1>5, CachesStay, Durations
<1>7. caller' = [caller EXCEPT ![r] = NoCaller] /\ misled' = {}
  BY <1>3, <1>4, <1>5, <1>6, SignedRight
<1>8. /\ a = [key |-> a.key, claims |-> a.claims, life |-> a.life, exp |-> a.exp, expiresAt |-> 0]
      /\ a.exp \in Int /\ (Judged(a.life) => at + (a.life - TicksInSecond) < a.exp)
  BY <1>4, <1>5 DEF SignedInv
<1>9. PICK ctx \in q.ctx : Says(a, q.route, ctx) /\ Known(q.route, ctx, at - MaxReportAge)
  BY <1>4, <1>5 DEF SignedInv
<1>10. a.life = q.route.backend.tokenExpiry /\ a.life \in Nat \ {0}
  BY <1>4, <1>9, BackendAssumption DEF Says
<1> DEFINE ttl == AssertionTtl(a.life)
           until == idClock + ttl
           added == [a EXCEPT !.expiresAt = until]
<1>11. ttl \in Nat /\ (Judged(a.life) => ttl >= 1 /\ ttl <= a.life - TicksInSecond)
  BY <1>10, TtlBounds
<1>12. added.key = a.key /\ added.claims = a.claims /\ added.life = a.life /\ added.exp = a.exp
       /\ added.expiresAt = until
  <2> HIDE DEF until
  <2> QED  BY <1>8
<1>13. assertions' = LruPut(assertions, assertionSize, added)
  BY <1>3, <1>10 DEF putCachedToken
<1> HIDE DEF ttl, added
<1>14. until \in Int
  BY <1>6, <1>11
<1>15. Judged(a.life) => until <= a.exp
  BY <1>6, <1>8, <1>10, <1>11, Durations
<1>16. Known(q.route, ctx, until - (MaxReportAge + SignLag + ttl))
  <2>1. \A x \in retired : x.at \in Nat
    BY DEF IdInv, IdTypeInv
  <2>2. PICK s1 \in Int : s1 = at - MaxReportAge
    BY Durations
  <2>3. PICK s2 \in Int : s2 = until - (MaxReportAge + SignLag + ttl)
    BY <1>11, <1>14, Durations
  <2>4. s2 <= s1
    BY <1>6, <1>11, <2>2, <2>3, Durations
  <2>5. Known(q.route, ctx, s1)
    BY <1>9, <2>2
  <2>6. Known(q.route, ctx, s2)
    <3>1. ASSUME NEW t, NEW rep, Vouched(t, rep, s1) PROVE Vouched(t, rep, s2)
      BY <2>1, <2>4, <3>1 DEF Vouched
    <3> QED  BY <2>5, <3>1 DEF Known
  <2> QED  BY <2>3, <2>6
<1> HIDE DEF until
<1>17. until <= idClock + ttl
  BY <1>6, <1>11 DEF until
<1>18. CachedAssertionInv(added)
  <2>1. Says(added, q.route, ctx)
    BY <1>9, <1>12 DEF Says
  <2> QED  BY <1>4, <1>8, <1>12, <1>14, <1>15, <1>16, <1>17, <2>1 DEF CachedAssertionInv, ttl
<1>19. IsList(assertions') /\ \A x \in ToSet(assertions') : CachedAssertionInv(x)
  <2>1. IsList(assertions') /\ ToSet(assertions') \subseteq ToSet(assertions) \union {added}
    BY <1>13, CachesStay, LruPutEntries
  <2> QED  BY <1>18, <2>1, CachesStay
<1>20. /\ \A p \in providers' : p.entries \subseteq Entries
       /\ IsList(introspections') /\ \A x \in ToSet(introspections') : CachedReportInv(x)
  BY <1>1, CachesStay
<1> QED  BY <1>1, <1>7, <1>19, <1>20, CallerStepInv

LEMMA IdNextInv == IdInv /\ [IdentityNext]_identityVars => IdInv'
<1> SUFFICES ASSUME IdInv, [IdentityNext]_identityVars PROVE IdInv'
  OBVIOUS
<1>1. CASE UNCHANGED identityVars
  <2>1. UNCHANGED <<providers, reports, retired, introspections, idClock, caller, misled, assertions, assertionSize>>
    BY <1>1 DEF identityVars, opaqueVars, backendVars
  <2>2. ReportsKept
    BY <2>1, ReportsStay
  <2>3. \A r \in IdentityCallers : caller[r].pc \in {"ask", "reply", "signed"} => idClock' <= caller[r].due
    <3> SUFFICES ASSUME NEW r \in IdentityCallers, caller[r].pc \in {"ask", "reply", "signed"}
                 PROVE  idClock <= caller[r].due
      BY <2>1
    <3> QED  BY CallerFacts DEF CallerInv
  <2>4. /\ reports' \in [DOMAIN InitialReports -> [OpaqueTokens -> AllReports]]
        /\ \A x \in retired' : x.at \in Nat
        /\ assertionSize' \in Nat \ {0} /\ IsList(introspections') /\ IsList(assertions')
    BY <2>1 DEF IdInv, IdTypeInv
  <2> QED  BY <2>1, <2>2, <2>3, <2>4, IdTimeInv
<1>2. ASSUME NEW r \in IdentityCallers, UNCHANGED backendVars,
             \/ IdentityRequest(r) \/ Introspect(r) \/ IntrospectionServe(r)
             \/ IntrospectionFails(r) \/ IntrospectionReceived(r)
      PROVE  IdInv'
  BY <1>2, IdentityRequestInv, IntrospectInv, IntrospectionServeInv, IntrospectionFailsInv, IntrospectionReceivedInv
<1> QED  BY <1>1, <1>2, ReportChangeInv, AssertIdentityInv, AssertSignedInv, BackendGetPolicyInv, IdentityTickInv
     DEF IdentityNext, OpaqueNext

LEMMA IdInvariant == HostSpec => []IdInv
<1>1. HostInit => IdInv
  BY IdInitInv DEF HostInit
<1>2. [HostNext]_hostVars => [IdentityNext]_identityVars
  BY DEF HostNext, hostVars, identityVars
<1>3. IdInv /\ [HostNext]_hostVars => IdInv'
  BY <1>2, IdNextInv
<1> QED  BY <1>1, <1>3, PTL DEF HostSpec

\* Behind opaque-token-auth and backend-jwt the upstream is told the truth: an opaque token
\* is accepted only on a report an authorization server made at most one reply and one life
\* in the introspection cache ago, and not past the token's expiry; an assertion, signed or
\* cached, has not expired and says of the caller what a deployment with the same key is to
\* say of an identity reported at most one more life in the assertion cache ago.
THEOREM IdentityCurrentHolds == HostSpec => []IdentityCurrent
<1>1. IdInv => IdentityCurrent
  BY DEF IdInv, IdentityCurrent
<1> QED  BY <1>1, IdInvariant, PTL
=============================================================================
