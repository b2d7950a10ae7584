------------------------ MODULE RoutingGcraProofs ------------------------
(***************************************************************************)
(* Two of the policies with state of their own, for every configuration,   *)
(* number of requests and order of responses.  model-round-robin and       *)
(* model-weighted-round-robin select no target that an error put out of    *)
(* service and starve none.  The GCRA limiters keep their rate, forget no  *)
(* debt and hide no denial.                                                *)
(***************************************************************************)
EXTENDS PolicyHost, WellFoundedInduction, NaturalsInduction, TLAPS

-----------------------------------------------------------------------------
(***************************************************************************)
(* Arithmetic: least elements and remainders                               *)
(***************************************************************************)

LEMMA NatLeast ==
  ASSUME NEW S \in SUBSET Nat, S # {}
  PROVE  \E x \in S : \A y \in S : x <= y
<1> DEFINE R == {ss \in Nat \X Nat : ss[1] < ss[2]}
<1>1. IsWellFoundedOn(R, Nat)
  BY NatLessThanWellFounded, Zenon DEF OpToRel
<1>2. PICK x \in S : \A y \in S : <<y, x>> \notin R
  BY <1>1, WFMin, Zenon
<1>3. ASSUME NEW y \in S PROVE x <= y
  <2>1. <<y, x>> \notin R
    BY <1>2, Zenon
  <2>2. ~(y < x)
    BY <2>1
  <2> QED  BY <2>2
<1> QED  BY <1>3

LEMMA MinIsLeast ==
  ASSUME NEW S \in SUBSET Nat, S # {}
  PROVE  Min(S) \in S /\ \A y \in S : Min(S) <= y
  BY NatLeast DEF Min

LEMMA DivMod ==
  ASSUME NEW a \in Int, NEW n \in Nat \ {0}
  PROVE  /\ a % n \in 0..(n - 1) /\ a \div n \in Int
         /\ a = n * (a \div n) + (a % n)
  OBVIOUS

LEMMA RemainderUnique ==
  ASSUME NEW n \in Nat \ {0}, NEW e \in Int, NEW r \in 0..(n - 1)
  PROVE  (n * e + r) % n = r
  BY Z3

LEMMA ModAdd ==
  ASSUME NEW a \in Int, NEW j \in Int, NEW n \in Nat \ {0}
  PROVE  ((a % n) + j) % n = (a + j) % n
<1> DEFINE q == a \div n
           d == (a + j) \div n
           r == (a + j) % n
<1>1. a % n = a - n * q /\ q \in Int /\ a % n \in Int
  BY DivMod
<1>2. a + j = n * d + r /\ d \in Int /\ r \in 0..(n - 1)
  <2>1. a + j \in Int
    OBVIOUS
  <2> QED  BY <2>1, DivMod
<1>3. (a % n) + j = n * (d - q) + r
  <2> HIDE DEF q, d, r
  <2> QED  BY <1>1, <1>2
<1>4. d - q \in Int
  BY <1>1, <1>2
<1>5. (n * (d - q) + r) % n = r
  <2> HIDE DEF q, d, r
  <2> QED  BY <1>2, <1>4, RemainderUnique
<1> QED  BY <1>3, <1>5

\* Every position of a sequence of length n is reached within n steps.
LEMMA ModReaches ==
  ASSUME NEW a \in Nat, NEW n \in Nat \ {0}, NEW p \in 1..n
  PROVE  \E k \in 0..(n - 1) : ((a + k) % n) + 1 = p
<1> DEFINE b == a % n
<1>1. b \in 0..(n - 1)
  BY DivMod
<1>2. a \in Int
  OBVIOUS
<1>3. ASSUME NEW k \in Int, NEW e \in Int, b + k = n * e + (p - 1) PROVE ((a + k) % n) + 1 = p
  <2>1. (b + k) % n = (a + k) % n
    BY <1>2, ModAdd, Zenon
  <2>2. (n * e + (p - 1)) % n = p - 1
    BY RemainderUnique
  <2> HIDE DEF b
  <2>3. (a + k) % n = p - 1
    BY <1>3, <2>1, <2>2, Zenon
  <2> QED  BY <2>3
<1> HIDE DEF b
<1>4. CASE p - 1 >= b
  <2> DEFINE k == p - 1 - b
  <2>1. k \in 0..(n - 1) /\ k \in Int /\ 0 \in Int /\ b + k = n * 0 + (p - 1)
    BY <1>1, <1>4
  <2> HIDE DEF k
  <2>2. ((a + k) % n) + 1 = p
    BY <1>3, <2>1, Zenon
  <2> QED  BY <2>1, <2>2
<1>5. CASE p - 1 < b
  <2> DEFINE k == n + p - 1 - b
  <2>1. k \in 0..(n - 1) /\ k \in Int /\ 1 \in Int /\ b + k = n * 1 + (p - 1)
    BY <1>1, <1>5
  <2> HIDE DEF k
  <2>2. ((a + k) % n) + 1 = p
    BY <1>3, <2>1, Zenon
  <2> QED  BY <2>1, <2>2
<1> QED  BY <1>1, <1>4, <1>5

-----------------------------------------------------------------------------
(***************************************************************************)
(* The sequence of targets                                                 *)
(***************************************************************************)

\* The target at an index that wraps around.
SeqAt(s, i) == s[(i % Len(s)) + 1]

LEMMA SeqAtReaches ==
  ASSUME NEW S, NEW s \in Seq(S), s # <<>>, NEW a \in Nat, NEW t \in {s[i] : i \in DOMAIN s}
  PROVE  \E k \in 0..(Len(s) - 1) : SeqAt(s, a + k) = t
<1>1. Len(s) \in Nat \ {0} /\ DOMAIN s = 1..Len(s)
  OBVIOUS
<1>2. PICK p \in 1..Len(s) : s[p] = t
  BY <1>1
<1>3. PICK k \in 0..(Len(s) - 1) : ((a + k) % Len(s)) + 1 = p
  BY <1>1, ModReaches
<1> QED  BY <1>2, <1>3 DEF SeqAt

LEMMA SeqAtWithin ==
  ASSUME NEW S, NEW s \in Seq(S), s # <<>>, NEW a \in Nat
  PROVE  SeqAt(s, a) \in {s[i] : i \in DOMAIN s}
<1>1. Len(s) \in Nat \ {0} /\ DOMAIN s = 1..Len(s)
  OBVIOUS
<1> DEFINE n == Len(s)
<1>2. n \in Nat \ {0} /\ a \in Int
  BY <1>1
<1>3. SeqAt(s, a) = s[(a % n) + 1] /\ DOMAIN s = 1..n
  BY <1>1 DEF SeqAt
<1> HIDE DEF n
<1>4. a % n \in 0..(n - 1)
  BY <1>2, DivMod
<1>5. (a % n) + 1 \in 1..n
  BY <1>2, <1>4
<1> QED  BY <1>3, <1>5

LEMMA SeqAtWraps ==
  ASSUME NEW S, NEW s \in Seq(S), s # <<>>, NEW a \in Nat, NEW j \in Nat
  PROVE  SeqAt(s, (a % Len(s)) + j) = SeqAt(s, a + j)
<1>1. Len(s) \in Nat \ {0} /\ a \in Int /\ j \in Int
  OBVIOUS
<1>2. ((a % Len(s)) + j) % Len(s) = (a + j) % Len(s)
  BY <1>1, ModAdd
<1> QED  BY <1>2 DEF SeqAt

-----------------------------------------------------------------------------
(***************************************************************************)
(* The invariant                                                           *)
(***************************************************************************)

RouteLive == route.kind \in {"roundRobin", "weighted"}
RouteNames == {"", "client"} \union {t[1] : t \in Targets} \union {t[2] : t \in Targets}
RouteRecords ==
    [phase : {"new", "503", "headers", "upstream", "400", "done"}, target : Targets \union {NoTarget},
     upstream : RouteNames, model : RouteNames, query : {"none", "client", "dropped"}]

\* A policy that routes has a list of targets, and none of them is no target.
RouteShape ==
    /\ route.kind \in {"none", "rejected", "roundRobin", "weighted"}
    /\ RouteLive => /\ route.seq \in Seq(Targets) /\ route.seq # <<>>
                    /\ NoTarget \notin Targets /\ route.suspend \in Nat
    /\ ~RouteLive => Targets = {} /\ inFlight = [r \in 1..MaxRouted |-> Waiting] /\ suspended = << >>

RouteTypeInv ==
    /\ index \in Nat /\ second \in Nat /\ second >= 1
    /\ inFlight \in [1..MaxRouted -> RouteRecords]
    /\ \A r \in 1..MaxRouted : inFlight[r].phase \in {"headers", "upstream"} => inFlight[r].target \in Targets
    /\ failedAt \in [Targets -> Nat] /\ passedOver \in [Targets -> Nat]
    /\ \A t \in Targets : failedAt[t] <= second

\* suspendedModels holds the end of the pause after the last error of its targets, and
\* every target that is out of service is in it.
SuspensionInv ==
    /\ DOMAIN suspended \subseteq Targets
    /\ \A t \in DOMAIN suspended : /\ failedAt[t] # 0 /\ suspended[t] = failedAt[t] + route.suspend
                                   /\ route.suspend > 0
    /\ OutOfService \subseteq DOMAIN suspended

\* A target passed over n times comes up within the rest of the round.
TurnInv ==
    \A t \in Targets : \E k \in 0..(Len(route.seq) - 1) :
        SeqAt(route.seq, index + k) = t /\ passedOver[t] + k < Len(route.seq)

RouteInv == RouteShape /\ RouteTypeInv /\ SuspensionInv /\ TurnInv /\ SuspensionHonoured

\* A target is taken for suspended exactly while it is out of service.
LEMMA SuspendedIsOut ==
  ASSUME RouteTypeInv, SuspensionInv, NEW t \in Targets
  PROVE  IsSuspended(t) <=> t \in OutOfService
  BY DEF RouteTypeInv, SuspensionInv, IsSuspended, OutOfService

\* The selection: no target when all are out of service, or else the first that is not.
LEMMA Selection ==
  ASSUME RouteInv, RouteLive
  PROVE  /\ Tries \in 1..Len(route.seq)
         /\ \/ Selected = NoTarget /\ OutOfService = Targets
            \/ /\ Selected \in Targets \ OutOfService
               /\ Selected = SeqAt(route.seq, index + (Tries - 1))
               /\ \A k \in 0..(Len(route.seq) - 1) :
                     SeqAt(route.seq, index + k) \notin OutOfService => Tries - 1 <= k
<1> DEFINE n == Len(route.seq)
           free == {k \in 0..(n - 1) : Usable(index + k)}
<1>1. /\ route.seq \in Seq(Targets) /\ route.seq # <<>> /\ index \in Nat /\ n \in Nat \ {0}
      /\ Targets = {route.seq[i] : i \in DOMAIN route.seq}
  BY DEF RouteInv, RouteShape, RouteTypeInv, Targets
<1>2. ASSUME NEW k \in 0..(n - 1)
      PROVE  SeqAt(route.seq, index + k) \in Targets
  <2>1. index + k \in Nat
    BY <1>1
  <2> QED  BY <1>1, <2>1, SeqAtWithin
<1>3. ASSUME NEW k \in 0..(n - 1)
      PROVE  k \in free <=> SeqAt(route.seq, index + k) \notin OutOfService
  <2>1. At(index + k) = SeqAt(route.seq, index + k)
    BY DEF At, SeqAt
  <2>2. IsSuspended(At(index + k)) <=> SeqAt(route.seq, index + k) \in OutOfService
    BY <1>2, <2>1, SuspendedIsOut DEF RouteInv
  <2> QED  BY <2>2 DEF Usable
<1>4. free \in SUBSET Nat /\ free \subseteq 0..(n - 1)
  BY <1>1
<1>5. CASE free = {}
  <2>1. Tries = n /\ Selected = NoTarget
    BY <1>5 DEF Tries, Selected
  <2>2. ASSUME NEW t \in Targets PROVE t \in OutOfService
    <3>1. t \in {route.seq[i] : i \in DOMAIN route.seq}
      BY DEF Targets
    <3>2. PICK k \in 0..(n - 1) : SeqAt(route.seq, index + k) = t
      BY <1>1, <3>1, SeqAtReaches, Zenon
    <3> QED  BY <1>3, <1>5, <3>2
  <2>3. OutOfService \subseteq Targets
    BY DEF OutOfService
  <2> QED  BY <1>1, <2>1, <2>2, <2>3
<1>6. CASE free # {}
  <2>1. Tries = Min(free) + 1
    BY <1>6 DEF Tries
  <2>2. Min(free) \in free /\ \A k \in free : Min(free) <= k
    BY <1>4, <1>6, MinIsLeast
  <2>3. \E k \in 0..(n - 1) : Usable(index + k)
    BY <1>6
  <2>4. Selected = At(index + Tries - 1)
    BY <2>3 DEF Selected
  <2>5. Tries \in 1..n /\ Tries - 1 = Min(free) /\ index + Tries - 1 = index + (Tries - 1)
    <3>1. Min(free) \in 0..(n - 1)
      BY <1>4, <2>2, Zenon
    <3> HIDE DEF free, n
    <3> QED  BY <1>1, <2>1, <3>1
  <2>6. Selected = SeqAt(route.seq, index + (Tries - 1))
    BY <2>4, <2>5 DEF At, SeqAt
  <2>7. Selected \in Targets \ OutOfService
    BY <1>2, <1>3, <1>4, <2>2, <2>5, <2>6
  <2>8. \A k \in 0..(n - 1) : SeqAt(route.seq, index + k) \notin OutOfService => Tries - 1 <= k
    BY <1>3, <2>2, <2>5
  <2> QED  BY <2>5, <2>6, <2>7, <2>8
<1> QED  BY <1>5, <1>6

-----------------------------------------------------------------------------
(***************************************************************************)
(* GetPolicy                                                               *)
(***************************************************************************)

LEMMA NonEmptyList ==
  ASSUME NEW S, NEW s \in Seq(S), s # <<>>
  PROVE  Len(s) \in Nat /\ DOMAIN s = 1..Len(s) /\ Len(s) # 0
  OBVIOUS

LEMMA SeqOfRange ==
  ASSUME NEW S, NEW s \in Seq(S)
  PROVE  s \in Seq({s[i] : i \in DOMAIN s})
<1>1. Len(s) \in Nat /\ DOMAIN s = 1..Len(s)
  OBVIOUS
<1> QED  BY <1>1

\* f is the list of prefixes the loop of buildWeightedSequence goes through.
Unrolls(f, N, rep) == f = [n \in 0..N |-> IF n = 0 THEN <<>> ELSE f[n - 1] \o rep[n]]

\* Such a list exists, by induction on its length.
LEMMA Unrolled ==
    ASSUME NEW N \in Nat, NEW rep
    PROVE  \E f : Unrolls(f, N, rep)
<1> DEFINE T == {n \in Nat : ~\E f : Unrolls(f, n, rep)}
<1> SUFFICES ASSUME T # {} PROVE FALSE
  OBVIOUS
<1>1. PICK n \in T : \A m \in T : n <= m
  BY NatLeast
<1>2. n \in Nat /\ ~\E f : Unrolls(f, n, rep)
  OBVIOUS
<1>3. CASE n = 0
  <2>1. Unrolls([m \in 0..n |-> <<>>], n, rep)
    BY <1>3 DEF Unrolls
  <2> QED BY <2>1, <1>2
<1>4. CASE n # 0
  <2>1. n - 1 \in Nat /\ n - 1 \notin T
    BY <1>1, <1>2, <1>4
  <2>2. PICK f : Unrolls(f, n - 1, rep)
    BY <2>1
  <2> DEFINE g == [m \in 0..n |-> IF m = n THEN f[n - 1] \o rep[n] ELSE f[m]]
  <2>3. ASSUME NEW m \in 0..n PROVE g[m] = IF m = 0 THEN <<>> ELSE g[m - 1] \o rep[m]
    <3>1. CASE m = n
      BY <1>2, <1>4, <3>1
    <3>2. CASE m # n
      <4>1. m \in 0..(n - 1)
        BY <1>2, <3>2
      <4>2. f[m] = IF m = 0 THEN <<>> ELSE f[m - 1] \o rep[m]
        BY <2>2, <4>1 DEF Unrolls
      <4>3. g[m] = f[m]
        BY <3>2
      <4>4. m # 0 => g[m - 1] = f[m - 1]
        BY <4>1, <1>2
      <4> QED BY <4>2, <4>3, <4>4
    <3> QED BY <3>1, <3>2
  <2>4. g = [m \in 0..n |-> IF m = 0 THEN <<>> ELSE g[m - 1] \o rep[m]]
    BY <2>3
  <2>5. Unrolls(g, n, rep)
    BY <2>4 DEF Unrolls
  <2> QED BY <2>5, <1>2
<1> QED BY <1>3, <1>4

\* Each prefix is a list over K, and the first is the only empty one.
LEMMA UnrolledType ==
    ASSUME NEW N \in Nat, NEW rep, NEW K, NEW f, Unrolls(f, N, rep),
           \A n \in 1..N : rep[n] \in Seq(K) /\ rep[n] # <<>>
    PROVE  f[N] \in Seq(K) /\ (N # 0 => f[N] # <<>>)
<1> DEFINE T == {n \in 0..N : ~(f[n] \in Seq(K) /\ (n # 0 => f[n] # <<>>))}
<1> SUFFICES ASSUME T # {} PROVE FALSE
  OBVIOUS
<1>0. T \subseteq Nat
  OBVIOUS
<1>1. PICK n \in T : \A m \in T : n <= m
  BY <1>0, NatLeast
<1>2. n \in 0..N /\ ~(f[n] \in Seq(K) /\ (n # 0 => f[n] # <<>>))
  OBVIOUS
<1>3. f[n] = IF n = 0 THEN <<>> ELSE f[n - 1] \o rep[n]
  BY <1>2 DEF Unrolls
<1>4. CASE n = 0
  BY <1>2, <1>3, <1>4
<1>5. CASE n # 0
  <2>1. n - 1 \in 0..N /\ n - 1 \notin T
    BY <1>1, <1>2, <1>5
  <2>2. f[n - 1] \in Seq(K)
    BY <2>1
  <2>3. rep[n] \in Seq(K) /\ rep[n] # <<>>
    BY <1>2, <1>5
  <2>4. ASSUME NEW s \in Seq(K), NEW t \in Seq(K), t # <<>> PROVE s \o t \in Seq(K) /\ s \o t # <<>>
    BY <2>4
  <2> QED BY <1>2, <1>3, <1>5, <2>2, <2>3, <2>4
<1> QED BY <1>4, <1>5

\* buildWeightedSequence is a list of the keys of its models, and not empty.
LEMMA WeightedSequence ==
    ASSUME NEW K, NEW S, NEW models \in Seq(S), models # <<>>,
           \A n \in DOMAIN models : models[n].weight.int \in Nat \ {0} /\ suspensionKey(models[n]) \in K
    PROVE  buildWeightedSequence(models) \in Seq(K) \ {<<>>}
<1> DEFINE N == Len(models)
           rep == [n \in 1..N |-> Repeat(models[n])]
<1>1. N \in Nat /\ N # 0 /\ DOMAIN models = 1..N
  OBVIOUS
<1>2. ASSUME NEW n \in 1..N PROVE rep[n] \in Seq(K) /\ rep[n] # <<>>
  <2>1. models[n].weight.int \in Nat \ {0} /\ suspensionKey(models[n]) \in K
    BY <1>1
  <2>2. ASSUME NEW w \in Nat \ {0}, NEW k \in K
        PROVE  [i \in 1..w |-> k] \in Seq(K) /\ [i \in 1..w |-> k] # <<>>
    <3>1. [i \in 1..w |-> k] \in Seq(K)
      OBVIOUS
    <3>2. [i \in 1..w |-> k][1] = k /\ 1 \in DOMAIN [i \in 1..w |-> k]
      OBVIOUS
    <3> QED BY <3>1, <3>2
  <2> QED BY <2>1, <2>2 DEF Repeat
<1> DEFINE fix(f) == f = [n \in 0..N |-> IF n = 0 THEN <<>> ELSE f[n - 1] \o Repeat(models[n])]
<1>3. ASSUME NEW f PROVE fix(f) <=> Unrolls(f, N, rep)
  <2>1. \A n \in 0..N : n # 0 => rep[n] = Repeat(models[n])
    BY <1>1
  <2> HIDE DEF rep
  <2>2. [n \in 0..N |-> IF n = 0 THEN <<>> ELSE f[n - 1] \o Repeat(models[n])]
        = [n \in 0..N |-> IF n = 0 THEN <<>> ELSE f[n - 1] \o rep[n]]
    BY <2>1
  <2> QED BY <2>2, Zenon DEF Unrolls
<1>4. PICK g : Unrolls(g, N, rep)
  BY <1>1, Unrolled
<1>5. fix(CHOOSE f : fix(f))
  BY <1>3, <1>4
<1>6. buildWeightedSequence(models) = (CHOOSE f : fix(f))[N]
  BY Zenon DEF buildWeightedSequence
<1> DEFINE h == CHOOSE f : fix(f)
<1>7. Unrolls(h, N, rep)
  BY <1>3, <1>5
<1> HIDE DEF rep, h, fix
<1>8. h[N] \in Seq(K) /\ h[N] # <<>>
  BY <1>1, <1>2, <1>7, UnrolledType
<1> QED BY <1>6, <1>8 DEF h

\* The sequence of a policy that is not rejected.
LEMMA BuiltSequence ==
  ASSUME NEW c \in RouteConfigs, ParamsValid(c.raw),
         NEW seq, \/ seq = [i \in DOMAIN c.raw.models |-> suspensionKey(c.raw.models[i])]
                  \/ WeightsValid(c.raw.models) /\ seq = buildWeightedSequence(c.raw.models)
  PROVE  LET T == {seq[i] : i \in DOMAIN seq}
         IN  seq \in Seq(T) /\ seq # <<>> /\ NoTarget \notin T
<1> DEFINE models == c.raw.models
           keys == {suspensionKey(models[i]) : i \in DOMAIN models}
<1>1. /\ models \in Seq({models[i] : i \in DOMAIN models})
      /\ \A i \in DOMAIN models : models[i].model # "" /\ models[i].weight.int \in Int
  BY RouteConfigAssumption
<1>2. models # <<>>
  BY DEF ParamsValid
<1>3. NoTarget \notin keys
  BY <1>1 DEF suspensionKey, NoTarget
<1>4. seq \in Seq(keys) /\ seq # <<>>
  <2>1. CASE WeightsValid(models) /\ seq = buildWeightedSequence(models)
    <3>1. ASSUME NEW i \in DOMAIN models
          PROVE  models[i].weight.int \in Nat \ {0} /\ suspensionKey(models[i]) \in keys
      <4>1. extractInt(models[i].weight).int = models[i].weight.int
        BY DEF extractInt
      <4>2. models[i].weight.int >= 1
        BY <2>1, <4>1 DEF WeightsValid
      <4>3. suspensionKey(models[i]) \in keys
        OBVIOUS
      <4>4. models[i].weight.int \in Int
        BY <1>1
      <4> HIDE DEF keys, models
      <4> QED  BY <4>2, <4>3, <4>4
    <3> HIDE DEF models, keys
    <3> QED  BY <2>1, <3>1, <1>1, <1>2, WeightedSequence
  <2>2. CASE seq = [i \in DOMAIN models |-> suspensionKey(models[i])]
    <3> DEFINE n == Len(models)
    <3>1. n \in Nat /\ DOMAIN models = 1..n /\ n # 0
      BY <1>1, <1>2, NonEmptyList, Zenon
    <3>2. \A i \in 1..n : suspensionKey(models[i]) \in keys
      BY <3>1
    <3>3. seq = [i \in 1..n |-> suspensionKey(models[i])]
      BY <2>2, <3>1
    <3> HIDE DEF n, keys, models
    <3>4. seq \in Seq(keys) /\ Len(seq) = n
      BY <3>1, <3>2, <3>3
    <3> QED  BY <3>1, <3>4
  <2> QED  BY <2>1, <2>2
<1> HIDE DEF keys, models
<1>5. seq \in Seq({seq[i] : i \in DOMAIN seq})
  BY <1>4, SeqOfRange
<1>6. \A i \in DOMAIN seq : seq[i] \in keys
  BY <1>4
<1> QED  BY <1>3, <1>4, <1>5, <1>6

LEMMA BuiltSuspension ==
  ASSUME NEW c \in RouteConfigs, ParamsValid(c.raw)
  PROVE  SuspendDuration(c.raw) \in Nat
<1>1. CASE c.raw.suspend = {}
  BY <1>1 DEF SuspendDuration, DefaultSuspendDuration
<1>2. CASE c.raw.suspend # {}
  <2> DEFINE v == CHOOSE v \in c.raw.suspend : TRUE
  <2>1. v \in c.raw.suspend
    BY <1>2
  <2>2. SuspendDuration(c.raw) = extractInt(v).int
    BY <1>2 DEF SuspendDuration
  <2> HIDE DEF v
  <2>3. v.int \in Int
    BY <2>1, RouteConfigAssumption
  <2>4. extractInt(v).int = v.int
    BY DEF extractInt
  <2>5. extractInt(v).int >= 0
    BY <2>1 DEF ParamsValid
  <2> QED  BY <2>2, <2>3, <2>4, <2>5
<1> QED  BY <1>1, <1>2

LEMMA BuiltRoute ==
  ASSUME NEW c \in RouteConfigs, NEW built,
         built = RoundRobinParams(c.raw) \/ built = WeightedParams(c.raw)
  PROVE  LET T == {built.seq[i] : i \in DOMAIN built.seq}
         IN  \/ built.kind = "rejected" /\ built.seq = <<>>
             \/ /\ built.kind \in {"roundRobin", "weighted"}
                /\ built.seq \in Seq(T) /\ built.seq # <<>> /\ NoTarget \notin T /\ built.suspend \in Nat
<1>1. Rejected.kind = "rejected" /\ Rejected.seq = <<>>
  BY DEF Rejected, NoRoute
<1>2. CASE built = Rejected
  BY <1>1, <1>2
<1>3. CASE built # Rejected
  <2>1. ParamsValid(c.raw) /\ built.kind \in {"roundRobin", "weighted"} /\ built.suspend = SuspendDuration(c.raw)
    BY <1>3 DEF RoundRobinParams, WeightedParams
  <2>2. \/ built.seq = [i \in DOMAIN c.raw.models |-> suspensionKey(c.raw.models[i])]
        \/ WeightsValid(c.raw.models) /\ built.seq = buildWeightedSequence(c.raw.models)
    BY <1>3 DEF RoundRobinParams, WeightedParams
  <2> DEFINE q == built.seq
  <2>3. LET T == {q[i] : i \in DOMAIN q} IN q \in Seq(T) /\ q # <<>> /\ NoTarget \notin T
    <3> HIDE DEF q
    <3> QED  BY <2>1, <2>2, BuiltSequence DEF q
  <2> QED  BY <2>1, <2>3, BuiltSuspension
<1> QED  BY <1>2, <1>3

LEMMA RouteInitInv == RouteInit => RouteInv
<1> SUFFICES ASSUME RouteInit PROVE RouteInv
  OBVIOUS
<1>1. route.kind = "none" /\ route.seq = <<>> /\ Targets = {} /\ OutOfService = {}
  BY DEF RouteInit, NoRoute, Targets, OutOfService
<1>2. Waiting \in RouteRecords /\ Waiting.phase = "new"
  BY DEF Waiting, RouteRecords, RouteNames
<1>3. RouteShape
  BY <1>1 DEF RouteInit, RouteShape, RouteLive
<1>4. RouteTypeInv
  BY <1>1, <1>2 DEF RouteInit, RouteTypeInv
<1>5. SuspensionInv /\ TurnInv /\ SuspensionHonoured
  BY <1>1 DEF RouteInit, SuspensionInv, TurnInv, SuspensionHonoured
<1> QED  BY <1>3, <1>4, <1>5 DEF RouteInv

LEMMA InstallInv ==
  ASSUME RouteInv, NEW c \in RouteConfigs, NEW built,
         built = RoundRobinParams(c.raw) \/ built = WeightedParams(c.raw), InstallRoute(built)
  PROVE  RouteInv'
<1> DEFINE T == {built.seq[i] : i \in DOMAIN built.seq}
<1>1. /\ route.kind = "none" /\ route' = built /\ failedAt' = [t \in T |-> 0] /\ passedOver' = [t \in T |-> 0]
      /\ UNCHANGED <<index, suspended, second, inFlight, decided>>
  BY DEF InstallRoute
<1>2. Targets' = T
  BY <1>1 DEF Targets
<1>3. inFlight = [r \in 1..MaxRouted |-> Waiting] /\ suspended = << >> /\ SuspensionHonoured
      /\ index \in Nat /\ second \in Nat /\ second >= 1
  BY <1>1 DEF RouteInv, RouteShape, RouteLive, RouteTypeInv
<1>4. \/ built.kind = "rejected" /\ built.seq = <<>> /\ T = {}
      \/ /\ built.kind \in {"roundRobin", "weighted"}
         /\ built.seq \in Seq(T) /\ built.seq # <<>> /\ NoTarget \notin T /\ built.suspend \in Nat
  <2>1. built.seq = <<>> => T = {}
    OBVIOUS
  <2> QED  BY <2>1, BuiltRoute, Zenon
<1> HIDE DEF T
<1>5. RouteShape'
  BY <1>1, <1>2, <1>3, <1>4 DEF RouteShape, RouteLive
<1>6. Waiting \in RouteRecords' /\ Waiting.phase = "new"
  BY DEF Waiting, RouteRecords, RouteNames
<1>7. RouteTypeInv'
  BY <1>1, <1>2, <1>3, <1>6 DEF RouteTypeInv
<1>8. SuspensionInv'
  <2>1. OutOfService' = {}
    BY <1>1, <1>2 DEF OutOfService
  <2> QED  BY <1>1, <1>3, <2>1 DEF SuspensionInv
<1>9. TurnInv'
  <2> SUFFICES ASSUME NEW t \in T
               PROVE  \E k \in 0..(Len(built.seq) - 1) :
                        SeqAt(built.seq, index + k) = t /\ passedOver'[t] + k < Len(built.seq)
    BY <1>1, <1>2 DEF TurnInv
  <2> DEFINE q == built.seq
             n == Len(q)
  <2>1. q \in Seq(T) /\ q # <<>> /\ T = {q[i] : i \in DOMAIN q}
    BY <1>4 DEF T
  <2>2. PICK k \in 0..(n - 1) : SeqAt(q, index + k) = t
    BY <2>1, <1>3, SeqAtReaches, Zenon
  <2>3. n \in Nat \ {0} /\ passedOver'[t] = 0
    BY <2>1, <1>1
  <2> HIDE DEF n
  <2>4. passedOver'[t] + k < n
    BY <2>3
  <2> QED  BY <2>2, <2>4 DEF n
<1>10. SuspensionHonoured'
  BY <1>1, <1>3 DEF SuspensionHonoured
<1> QED  BY <1>5, <1>7, <1>8, <1>9, <1>10 DEF RouteInv

-----------------------------------------------------------------------------
(***************************************************************************)
(* The handlers                                                            *)
(***************************************************************************)

\* What the header phase sends upstream.
LEMMA RewrittenTypes ==
  ASSUME NEW path, NEW m
  PROVE  /\ Rewritten(path, m).model \in {m, "client"}
         /\ Rewritten(path, m).query \in {"client", "dropped"}
  BY DEF Rewritten, modifyQueryParamInPath, modifyPathParamInPath

\* A request whose sequence stays and whose record is one of the policy's.
LEMMA InFlightMoves ==
  ASSUME RouteTypeInv, route' = route, NEW r \in 1..MaxRouted, NEW q \in RouteRecords,
         q.phase \in {"headers", "upstream"} => q.target \in Targets,
         inFlight' = [inFlight EXCEPT ![r] = q]
  PROVE  /\ Targets' = Targets
         /\ inFlight' \in [1..MaxRouted -> RouteRecords']
         /\ (\A p \in 1..MaxRouted : inFlight[p].phase \in {"headers", "upstream"} => inFlight[p].target \in Targets)'
<1>1. Targets' = Targets
  BY DEF Targets
<1>2. RouteRecords' = RouteRecords
  BY <1>1 DEF RouteRecords, RouteNames
<1> QED  BY <1>1, <1>2 DEF RouteTypeInv

LEMMA RequestHeadersInv ==
  ASSUME RouteInv, RouteLive, NEW r \in 1..MaxRouted, NEW path, RequestHeaders(r, path),
         \/ index' = (index + Tries) % Len(route.seq)
         \/ index' = index + Tries
  PROVE  RouteInv'
<1> DEFINE n == Len(route.seq)
           s == route.seq
<1>1. /\ decided' = [made |-> TRUE, target |-> Selected, out |-> OutOfService, all |-> Targets]
      /\ passedOver' = [u \in Targets |-> IF u = Selected \/ u \in OutOfService THEN 0 ELSE passedOver[u] + 1]
      /\ suspended' = [k \in DOMAIN suspended \ {Selected} |-> suspended[k]]
      /\ UNCHANGED <<route, second, failedAt>>
  BY DEF RequestHeaders, RecordSelection, DropSuspension
<1>2. /\ s \in Seq(Targets) /\ s # <<>> /\ n \in Nat \ {0} /\ NoTarget \notin Targets
      /\ Targets = {s[i] : i \in DOMAIN s} /\ index \in Nat /\ second \in Nat
  BY DEF RouteInv, RouteShape, RouteTypeInv, Targets
<1>3. /\ Tries \in 1..n
      /\ \/ Selected = NoTarget /\ OutOfService = Targets
         \/ /\ Selected \in Targets \ OutOfService
            /\ Selected = SeqAt(s, index + (Tries - 1))
            /\ \A k \in 0..(n - 1) : SeqAt(s, index + k) \notin OutOfService => Tries - 1 <= k
  BY Selection
<1>4. Targets' = Targets /\ OutOfService' = OutOfService /\ OutOfService \subseteq Targets
  BY <1>1 DEF Targets, OutOfService
<1>5. index + Tries \in Nat /\ index' \in Nat
  <2>1. index + Tries \in Nat
    BY <1>2, <1>3
  <2>2. (index + Tries) % n \in 0..(n - 1)
    <3> DEFINE a == index + Tries
    <3>1. n \in Nat \ {0} /\ a \in Int
      BY <1>2, <2>1
    <3> HIDE DEF n, a
    <3>2. a % n \in 0..(n - 1)
      BY <3>1, DivMod
    <3> QED  BY <3>2 DEF a
  <2> HIDE DEF n
  <2>3. (index + Tries) % n \in Nat
    BY <1>2, <2>2
  <2> QED  BY <2>1, <2>3 DEF n
<1>6. ASSUME NEW j \in Nat PROVE SeqAt(s, index' + j) = SeqAt(s, (index + Tries) + j)
  <2> DEFINE b == index + Tries
  <2>1. b \in Nat
    BY <1>5
  <2>2. SeqAt(s, (b % n) + j) = SeqAt(s, b + j)
    BY <1>2, <2>1, SeqAtWraps, Zenon
  <2> QED  BY <2>2
<1>7. TurnInv'
  <2> SUFFICES ASSUME NEW t \in Targets
               PROVE  \E k \in 0..(n - 1) : SeqAt(s, index' + k) = t /\ passedOver'[t] + k < n
    BY <1>1, <1>4 DEF TurnInv
  <2>1. CASE t = Selected \/ t \in OutOfService
    <3>4. t \in {s[i] : i \in DOMAIN s}
      BY DEF Targets
    <3>1. PICK k \in 0..(n - 1) : SeqAt(s, index' + k) = t
      <4>1. s \in Seq(Targets) /\ s # <<>> /\ index' \in Nat
        BY <1>2, <1>5
      <4> HIDE DEF s
      <4>2. \E k \in 0..(Len(s) - 1) : SeqAt(s, index' + k) = t
        BY <4>1, <3>4, SeqAtReaches
      <4> QED  BY <4>2 DEF s
    <3>2. passedOver'[t] = 0
      BY <1>1, <2>1
    <3> HIDE DEF n
    <3>3. passedOver'[t] + k < n
      BY <1>2, <3>2
    <3> QED  BY <3>1, <3>3
  <2>2. CASE t # Selected /\ t \notin OutOfService
    <3>1. passedOver'[t] = passedOver[t] + 1 /\ passedOver[t] \in Nat
      BY <1>1, <2>2 DEF RouteInv, RouteTypeInv
    <3>2. PICK k \in 0..(n - 1) : SeqAt(s, index + k) = t /\ passedOver[t] + k < n
      BY DEF RouteInv, TurnInv
    <3>3. Selected = SeqAt(s, index + (Tries - 1)) /\ Tries - 1 <= k
      BY <1>3, <2>2, <3>2
    <3>4. k # Tries - 1
      BY <2>2, <3>2, <3>3
    <3> DEFINE m == Tries
               j == k - m
    <3>7. m \in 1..n /\ m - 1 <= k /\ k # m - 1 /\ n \in Nat
      BY <1>2, <1>3, <3>3, <3>4
    <3> HIDE DEF n, m
    <3>5. j \in 0..(n - 1) /\ j \in Nat /\ (index + m) + j = index + k /\ passedOver'[t] + j < n
      BY <1>2, <3>1, <3>2, <3>7
    <3> HIDE DEF j
    <3>6. SeqAt(s, index' + j) = t
      BY <1>6, <3>2, <3>5 DEF m
    <3> QED  BY <3>5, <3>6
  <2> QED  BY <2>1, <2>2
<1>8. SuspensionInv'
  <2>1. SuspensionInv
    BY DEF RouteInv
  <2>2. OutOfService \subseteq DOMAIN suspended'
    BY <1>1, <1>3, <2>1, <1>2, <1>4 DEF SuspensionInv
  <2> QED  BY <1>1, <1>4, <2>1, <2>2 DEF SuspensionInv
<1>9. SuspensionHonoured'
  BY <1>1, <1>2, <1>3 DEF SuspensionHonoured
<1>10. RouteShape'
  BY <1>1, <1>4 DEF RouteInv, RouteShape, RouteLive
<1>11. RouteTypeInv'
  <2> DEFINE sent == Rewritten(path, Selected[2])
             q == IF Selected = NoTarget THEN [inFlight[r] EXCEPT !.phase = "503"]
                  ELSE [phase |-> "headers", target |-> Selected, upstream |-> Selected[1],
                        model |-> sent.model, query |-> sent.query]
  <2>1. inFlight' = [inFlight EXCEPT ![r] = q]
    BY DEF RequestHeaders
  <2>2. q \in RouteRecords /\ (q.phase \in {"headers", "upstream"} => q.target \in Targets)
    <3>1. CASE Selected = NoTarget
      <4>1. inFlight[r] \in RouteRecords
        BY DEF RouteInv, RouteTypeInv
      <4> QED  BY <3>1, <4>1 DEF RouteRecords
    <3>2. CASE Selected # NoTarget
      <4>1. Selected \in Targets
        BY <1>3, <3>2
      <4>2. sent.model \in {Selected[2], "client"} /\ sent.query \in {"client", "dropped"}
        BY RewrittenTypes
      <4> HIDE DEF sent
      <4>3. {Selected[1], sent.model} \subseteq RouteNames
        BY <4>1, <4>2 DEF RouteNames
      <4> QED  BY <3>2, <4>1, <4>2, <4>3 DEF RouteRecords
    <3> QED  BY <3>1, <3>2
  <2> HIDE DEF q
  <2>3. /\ inFlight' \in [1..MaxRouted -> RouteRecords']
        /\ (\A p \in 1..MaxRouted : inFlight[p].phase \in {"headers", "upstream"} => inFlight[p].target \in Targets)'
    BY <1>1, <2>1, <2>2, InFlightMoves DEF RouteInv
  <2>4. passedOver' \in [Targets -> Nat]
    BY <1>1 DEF RouteInv, RouteTypeInv
  <2> QED  BY <1>1, <1>4, <1>5, <2>3, <2>4 DEF RouteInv, RouteTypeInv
<1> QED  BY <1>7, <1>8, <1>9, <1>10, <1>11 DEF RouteInv

LEMMA RequestBodyInv ==
  ASSUME RouteInv, RouteLive, NEW r \in 1..MaxRouted, NEW body, RequestBody(r, body)
  PROVE  RouteInv'
<1> DEFINE q == RewriteBody(inFlight[r], body)
<1>1. /\ inFlight[r].phase = "headers" /\ inFlight' = [inFlight EXCEPT ![r] = q]
      /\ UNCHANGED <<route, index, suspended, second, failedAt, decided, passedOver>>
  BY DEF RequestBody
<1>2. inFlight[r] \in RouteRecords /\ inFlight[r].target \in Targets
  BY <1>1 DEF RouteInv, RouteTypeInv
<1>3. inFlight[r].target[2] \in RouteNames
  BY <1>2 DEF RouteNames
<1>4. q \in RouteRecords /\ q.target = inFlight[r].target
  BY <1>2, <1>3 DEF RewriteBody, RouteRecords
<1> HIDE DEF q
<1>5. /\ Targets' = Targets /\ inFlight' \in [1..MaxRouted -> RouteRecords']
      /\ (\A p \in 1..MaxRouted : inFlight[p].phase \in {"headers", "upstream"} => inFlight[p].target \in Targets)'
  BY <1>1, <1>2, <1>4, InFlightMoves DEF RouteInv
<1>6. OutOfService' = OutOfService
  BY <1>1, <1>5 DEF OutOfService
<1> QED  BY <1>1, <1>5, <1>6 DEF RouteInv, RouteShape, RouteLive, RouteTypeInv, SuspensionInv, TurnInv, SuspensionHonoured

LEMMA ResponseHeadersInv ==
  ASSUME RouteInv, RouteLive, NEW r \in 1..MaxRouted, NEW status, ResponseHeaders(r, status)
  PROVE  RouteInv'
<1> DEFINE u == inFlight[r].target
           q == [Waiting EXCEPT !.phase = "done"]
<1>1. /\ inFlight[r].phase = "upstream" /\ inFlight' = [inFlight EXCEPT ![r] = q]
      /\ UNCHANGED <<route, index, second, decided>>
  BY DEF ResponseHeaders
<1>2. u \in Targets /\ second \in Nat /\ second >= 1 /\ route.suspend \in Nat
  BY <1>1 DEF RouteInv, RouteTypeInv, RouteShape
<1>3. q \in RouteRecords /\ q.phase = "done"
  BY DEF Waiting, RouteRecords, RouteNames
<1>4. /\ Targets' = Targets /\ inFlight' \in [1..MaxRouted -> RouteRecords']
      /\ (\A p \in 1..MaxRouted : inFlight[p].phase \in {"headers", "upstream"} => inFlight[p].target \in Targets)'
  <2> HIDE DEF q
  <2> QED  BY <1>1, <1>3, InFlightMoves DEF RouteInv
<1>5. CASE ~IsError(status)
  <2>1. UNCHANGED <<suspended, failedAt, passedOver>>
    BY <1>5 DEF ResponseHeaders
  <2>2. OutOfService' = OutOfService
    BY <1>1, <1>4, <2>1 DEF OutOfService
  <2> QED  BY <1>1, <1>4, <2>1, <2>2
           DEF RouteInv, RouteShape, RouteLive, RouteTypeInv, SuspensionInv, TurnInv, SuspensionHonoured
<1>6. CASE IsError(status)
  <2>1. /\ failedAt' = [failedAt EXCEPT ![u] = second] /\ passedOver' = [passedOver EXCEPT ![u] = 0]
        /\ route.suspend > 0 => Suspend(u)
        /\ ~(route.suspend > 0) => suspended' = suspended
    BY <1>6 DEF ResponseHeaders
  <2> HIDE DEF u, q
  <2>2. RouteShape'
    BY <1>1, <1>4 DEF RouteInv, RouteShape, RouteLive
  <2>3. /\ failedAt \in [Targets -> Nat] /\ passedOver \in [Targets -> Nat] /\ index \in Nat
        /\ \A t \in Targets : failedAt[t] <= second
    BY DEF RouteInv, RouteTypeInv
  <2>4. RouteTypeInv'
    BY <1>1, <1>2, <1>4, <2>1, <2>3 DEF RouteTypeInv
  <2>5. SuspensionInv'
    <3>1. SuspensionInv
      BY DEF RouteInv
    <3>2. CASE route.suspend > 0
      <4>1. suspended' = [k \in DOMAIN suspended \union {u} |-> IF k = u THEN second + route.suspend ELSE suspended[k]]
        BY <2>1, <3>2 DEF Suspend
      <4>2. DOMAIN suspended' = DOMAIN suspended \union {u} /\ DOMAIN suspended' \subseteq Targets
        BY <1>2, <3>1, <4>1 DEF SuspensionInv
      <4>3. ASSUME NEW t \in DOMAIN suspended'
            PROVE  failedAt'[t] # 0 /\ suspended'[t] = failedAt'[t] + route.suspend
        BY <1>2, <2>1, <2>3, <3>1, <4>1, <4>2 DEF SuspensionInv
      <4>4. OutOfService' \subseteq DOMAIN suspended'
        BY <1>1, <1>4, <2>1, <2>3, <3>1, <4>2 DEF SuspensionInv, OutOfService
      <4> QED  BY <1>1, <1>4, <3>2, <4>2, <4>3, <4>4 DEF SuspensionInv
    <3>3. CASE ~(route.suspend > 0)
      <4>1. suspended' = suspended /\ route.suspend = 0
        BY <1>2, <2>1, <3>3
      <4>2. DOMAIN suspended = {}
        BY <3>1, <3>3 DEF SuspensionInv
      <4>3. OutOfService' = {}
        BY <1>1, <1>2, <1>4, <2>1, <2>3, <4>1 DEF OutOfService
      <4> QED  BY <4>1, <4>2, <4>3 DEF SuspensionInv
    <3> QED  BY <3>2, <3>3
  <2>6. TurnInv'
    <3> DEFINE n == Len(route.seq)
               s == route.seq
    <3> SUFFICES ASSUME NEW t \in Targets
                 PROVE  \E k \in 0..(n - 1) : SeqAt(s, index + k) = t /\ passedOver'[t] + k < n
      BY <1>1, <1>4 DEF TurnInv
    <3>1. CASE t # u
      <4>1. passedOver'[t] = passedOver[t]
        BY <2>1, <2>3, <3>1
      <4> QED  BY <4>1 DEF RouteInv, TurnInv
    <3>2. CASE t = u
      <4>1. s \in Seq(Targets) /\ s # <<>> /\ n \in Nat \ {0} /\ Targets = {s[i] : i \in DOMAIN s}
        BY DEF RouteInv, RouteShape, Targets
      <4>5. t \in {s[i] : i \in DOMAIN s}
        BY DEF Targets
      <4>2. PICK k \in 0..(n - 1) : SeqAt(s, index + k) = t
        <5>1. s \in Seq(Targets) /\ s # <<>> /\ index \in Nat
          BY <2>3, <4>1
        <5> HIDE DEF s
        <5>2. \E k \in 0..(Len(s) - 1) : SeqAt(s, index + k) = t
          BY <5>1, <4>5, SeqAtReaches
        <5> QED  BY <5>2 DEF s
      <4>3. passedOver'[t] = 0
        BY <2>1, <2>3, <3>2
      <4> HIDE DEF n
      <4>4. passedOver'[t] + k < n
        BY <4>1, <4>3
      <4> QED  BY <4>2, <4>4
    <3> QED  BY <3>1, <3>2
  <2>7. SuspensionHonoured'
    BY <1>1 DEF RouteInv, SuspensionHonoured
  <2> QED  BY <2>2, <2>4, <2>5, <2>6, <2>7 DEF RouteInv
<1> QED  BY <1>5, <1>6

LEMMA RouteTickInv == ASSUME RouteInv, RouteTick PROVE RouteInv'
<1>1. second' = second + 1 /\ UNCHANGED <<route, index, suspended, inFlight, failedAt, decided, passedOver>>
  BY DEF RouteTick
<1>2. Targets' = Targets
  BY <1>1 DEF Targets
<1>3. RouteRecords' = RouteRecords
  BY <1>2 DEF RouteRecords, RouteNames
<1>4. RouteTypeInv'
  BY <1>1, <1>2, <1>3 DEF RouteInv, RouteTypeInv
<1>5. OutOfService' \subseteq OutOfService
  <2> SUFFICES ASSUME NEW t \in Targets, failedAt[t] # 0, second + 1 < failedAt[t] + route.suspend
               PROVE  second < failedAt[t] + route.suspend
    BY <1>1, <1>2 DEF OutOfService
  <2>1. second \in Nat /\ failedAt[t] \in Nat /\ route.suspend \in Nat
    BY DEF RouteInv, RouteTypeInv, RouteShape
  <2> QED  BY <2>1
<1> QED  BY <1>1, <1>2, <1>4, <1>5
         DEF RouteInv, RouteShape, RouteLive, SuspensionInv, TurnInv, SuspensionHonoured

LEMMA RouteNextInv == RouteInv /\ [RouteNext]_routeVars => RouteInv'
<1> SUFFICES ASSUME RouteInv, [RouteNext]_routeVars PROVE RouteInv'
  OBVIOUS
<1>1. CASE UNCHANGED routeVars
  <2>1. UNCHANGED <<route, index, suspended, second, inFlight, failedAt, decided, passedOver>>
    BY <1>1 DEF routeVars
  <2>2. Targets' = Targets
    BY <2>1 DEF Targets
  <2>3. RouteRecords' = RouteRecords /\ OutOfService' = OutOfService
    BY <2>1, <2>2 DEF RouteRecords, RouteNames, OutOfService
  <2> QED  BY <2>1, <2>2, <2>3
           DEF RouteInv, RouteShape, RouteLive, RouteTypeInv, SuspensionInv, TurnInv, SuspensionHonoured
<1>2. CASE RoundRobinGetPolicy \/ WeightedGetPolicy
  BY <1>2, InstallInv DEF RoundRobinGetPolicy, WeightedGetPolicy
<1>3. ASSUME NEW r \in 1..MaxRouted, NEW path \in RoutePaths,
             RoundRobinOnRequestHeaders(r, path) \/ WeightedOnRequestHeaders(r, path)
      PROVE  RouteInv'
  BY <1>3, RequestHeadersInv DEF RoundRobinOnRequestHeaders, WeightedOnRequestHeaders, RouteLive,
     selectNextAvailableModel, selectNextAvailableWeightedModel
<1>4. ASSUME NEW r \in 1..MaxRouted, NEW body \in RouteBodies,
             RoundRobinOnRequestBody(r, body) \/ WeightedOnRequestBody(r, body)
      PROVE  RouteInv'
  BY <1>4, RequestBodyInv DEF RoundRobinOnRequestBody, WeightedOnRequestBody, RouteLive
<1>5. ASSUME NEW r \in 1..MaxRouted, NEW status \in {200, 429, 500},
             RoundRobinOnResponseHeaders(r, status) \/ WeightedOnResponseHeaders(r, status)
      PROVE  RouteInv'
  BY <1>5, ResponseHeadersInv DEF RoundRobinOnResponseHeaders, WeightedOnResponseHeaders, RouteLive
<1>6. CASE RouteTick
  BY <1>6, RouteTickInv
<1> QED  BY <1>1, <1>2, <1>3, <1>4, <1>5, <1>6 DEF RouteNext

LEMMA RouteHostStep == [HostNext]_hostVars => [RouteNext]_routeVars
  BY DEF HostNext, hostVars, routeVars

LEMMA RouteInvariant == HostSpec => []RouteInv
<1>1. HostInit => RouteInv
  BY RouteInitInv DEF HostInit
<1>2. RouteInv /\ [HostNext]_hostVars => RouteInv'
  BY RouteNextInv, RouteHostStep
<1> QED  BY <1>1, <1>2, PTL DEF HostSpec

\* A target whose error is younger than SuspendDuration is not selected, and 503 is only
\* answered when all are in that state: selectNextAvailableModel and OnResponseHeaders
\* of both policies, for any sequence of targets, any number of overlapping requests
\* and any order of their responses.
THEOREM SuspensionHonouredHolds == HostSpec => []SuspensionHonoured
<1>1. RouteInv => SuspensionHonoured
  BY DEF RouteInv
<1> QED  BY <1>1, RouteInvariant, PTL

\* Fewer selections than the sequence is long go by a target that stays available:
\* the walk of selectNextAvailableModel around the sequence, whatever the targets it
\* skips and whether the index wraps or grows.
THEOREM NoTargetStarvedHolds == HostSpec => []NoTargetStarved
<1>1. RouteInv => NoTargetStarved
  <2> SUFFICES ASSUME RouteInv, NEW t \in DOMAIN passedOver PROVE passedOver[t] < Len(route.seq)
    BY DEF NoTargetStarved
  <2>1. t \in Targets /\ passedOver[t] \in Nat
    BY DEF RouteInv, RouteTypeInv
  <2>2. PICK k \in 0..(Len(route.seq) - 1) : passedOver[t] + k < Len(route.seq)
    BY <2>1 DEF RouteInv, TurnInv
  <2>3. route.seq \in Seq(Targets)
    BY <2>1 DEF RouteInv, RouteShape
  <2> DEFINE n == Len(route.seq)
  <2>4. n \in Nat
    BY <2>3
  <2> HIDE DEF n
  <2> QED  BY <2>1, <2>2, <2>4 DEF n
<1> QED  BY <1>1, RouteInvariant, PTL
-----------------------------------------------------------------------------
(***************************************************************************)
(* Arithmetic                                                              *)
(***************************************************************************)

LEMMA MaxPair ==
  ASSUME NEW a \in Int, NEW b \in Int
  PROVE  Max({a, b}) = IF a >= b THEN a ELSE b
  BY DEF Max

LEMMA MinPair ==
  ASSUME NEW a \in Int, NEW b \in Int
  PROVE  Min({a, b}) = IF a <= b THEN a ELSE b
  BY DEF Min

LEMMA CeilBounds ==
  ASSUME NEW a \in Int, NEW b \in Nat \ {0}
  PROVE  /\ CeilDiv(a, b) \in Int
         /\ a <= b * CeilDiv(a, b)
         /\ b * CeilDiv(a, b) < a + b
<1> DEFINE k == (a + b - 1) \div b
           r == (a + b - 1) % b
<1>1. k \in Int /\ r \in 0..(b - 1) /\ a + b - 1 = b * k + r
  OBVIOUS
<1>2. CeilDiv(a, b) = k
  BY DEF CeilDiv
<1> HIDE DEF k, r
<1> QED  BY <1>1, <1>2

LEMMA FloorBounds ==
  ASSUME NEW a \in Nat, NEW b \in Nat \ {0}
  PROVE  a \div b \in Nat /\ b * (a \div b) <= a
  OBVIOUS

LEMMA TimesMonotone ==
  ASSUME NEW t \in Nat, NEW a \in Int, NEW b \in Int, a <= b
  PROVE  t * a <= t * b
  OBVIOUS

LEMMA TimesCancels ==
  ASSUME NEW t \in Nat \ {0}, NEW a \in Int, NEW b \in Int, t * a < t * b
  PROVE  a < b
  BY TimesMonotone

LEMMA TimesLinear ==
  ASSUME NEW t \in Int, NEW a \in Int, NEW b \in Int
  PROVE  /\ t * a \in Int
         /\ t * (a + b) = t * a + t * b
         /\ t * (a - b) = t * a - t * b
         /\ t * (a - 1) = t * a - t
  OBVIOUS

-----------------------------------------------------------------------------
(***************************************************************************)
(* Policies                                                                *)
(***************************************************************************)

GcraPolicies == {p \in [limit : Nat \ {0}, duration : Nat, burst : Nat \ {0}] : p.duration >= p.limit}
GcraEntries == [tat : Int, expiration : Int]

LEMMA PolicyFacts ==
  ASSUME NEW p \in GcraPolicies
  PROVE  /\ EmissionInterval(p) \in Nat \ {0}
         /\ p.burst \in Nat \ {0} /\ p.duration \in Nat
         /\ EmissionInterval(p) * p.burst \in Nat
         /\ BurstAllowance(p) = EmissionInterval(p) * p.burst - EmissionInterval(p)
         /\ BaseExpiration(p) \in Nat
         /\ BaseExpiration(p) >= EmissionInterval(p) * p.burst
<1>1. p.limit \in Nat \ {0} /\ p.duration \in Nat /\ p.burst \in Nat \ {0} /\ p.duration >= p.limit
  BY DEF GcraPolicies
<1> DEFINE d == p.duration
           l == p.limit
           b == p.burst
           t == d \div l
           r == d % l
<1>2. l \in Nat \ {0} /\ d \in Nat /\ b \in Nat \ {0} /\ d >= l
  BY <1>1
<1>3. /\ EmissionInterval(p) = t
      /\ BurstAllowance(p) = (IF b <= 1 THEN 0 ELSE t * (b - 1))
      /\ BaseExpiration(p) = d + (IF b <= 1 THEN 0 ELSE t * (b - 1))
  BY DEF EmissionInterval, BurstAllowance, BaseExpiration
<1> HIDE DEF d, l, b
<1>4. t \in Int /\ r \in 0..(l - 1) /\ d = l * t + r
  BY <1>2
<1> HIDE DEF t, r
<1>5. t >= 1
  <2>1. SUFFICES ASSUME t <= 0 PROVE FALSE
    BY <1>4
  <2>2. l * t <= l * 0
    BY <1>2, <1>4, <2>1, TimesMonotone
  <2> QED  BY <1>2, <1>4, <2>2
<1>6. t <= d
  <2>1. t * 1 <= t * l
    BY <1>2, <1>4, <1>5, TimesMonotone
  <2> QED  BY <1>2, <1>4, <1>5, <2>1
<1>7. t * b \in Nat /\ t * (b - 1) = t * b - t /\ t * b >= t
  <2>1. t * 1 <= t * b
    BY <1>2, <1>4, <1>5, TimesMonotone
  <2> QED  BY <1>2, <1>4, <1>5, <2>1
<1>8. b = 1 => t * b = t
  BY <1>4
<1>9. p.burst = b /\ p.duration = d
  BY DEF b, d
<1> DEFINE x == t * b
           y == t * (b - 1)
<1>10. x \in Nat /\ y = x - t /\ x >= t /\ (b = 1 => x = t)
  BY <1>7, <1>8
<1>11. BurstAllowance(p) = (IF b <= 1 THEN 0 ELSE y) /\ BaseExpiration(p) = d + (IF b <= 1 THEN 0 ELSE y)
  BY <1>3
<1>12. EmissionInterval(p) * p.burst = x
  BY <1>3, <1>9
<1> HIDE DEF x, y
<1>13. BurstAllowance(p) = x - t
  BY <1>2, <1>4, <1>10, <1>11
<1>14. BaseExpiration(p) = d + (x - t)
  BY <1>2, <1>4, <1>10, <1>11
<1> QED  BY <1>2, <1>3, <1>4, <1>5, <1>6, <1>9, <1>10, <1>12, <1>13, <1>14

\* Where a check starts from.
LEMMA StartTatFacts ==
  ASSUME NEW e \in GcraEntries, tick \in Nat
  PROVE  StartTat(e) \in Nat /\ StartTat(e) >= tick
<1>1. e.tat \in Int /\ e.expiration \in Int
  BY DEF GcraEntries
<1> QED  BY <1>1, MaxPair DEF StartTat

\* What remains is never negative; a policy that is asked in time can grant exactly what
\* takes its TAT one burst ahead, and one interval more than is left would exceed it.
LEMMA RemainingFacts ==
  ASSUME NEW p \in GcraPolicies, tick \in Nat, NEW tat \in Int
  PROVE  /\ calculateRemaining(tat, p) \in Nat
         /\ tat - tick > BurstAllowance(p) => calculateRemaining(tat, p) = 0
         /\ (tat >= tick /\ tat - tick <= BurstAllowance(p)) =>
              /\ tat + EmissionInterval(p) * calculateRemaining(tat, p) <= tick + EmissionInterval(p) * p.burst
              /\ tat + EmissionInterval(p) * calculateRemaining(tat, p) > tick + BurstAllowance(p)
<1> DEFINE t == EmissionInterval(p)
           b == p.burst
           x == t * b
           A == BurstAllowance(p)
           k == CeilDiv(tat - tick, t)
           R == calculateRemaining(tat, p)
<1>1. t \in Nat \ {0} /\ b \in Nat \ {0} /\ x \in Nat /\ A = x - t
  BY PolicyFacts
<1>2. R = IF tat <= tick THEN b ELSE IF tat - tick > A THEN 0 ELSE Max({b - k, 0})
  BY DEF calculateRemaining
<1>3. x = t * b
  OBVIOUS
<1> HIDE DEF A, R, x, b
<1>4. k \in Int /\ tat - tick <= t * k /\ t * k < tat - tick + t
  <2>1. tat - tick \in Int
    OBVIOUS
  <2> HIDE DEF t
  <2> QED  BY <1>1, <2>1, CeilBounds
<1> HIDE DEF t, k
<1>5. CASE tat <= tick
  <2>1. R = b
    BY <1>2, <1>5
  <2>2. t * R = x
    BY <1>3, <2>1
  <2> QED  BY <1>1, <1>5, <2>1, <2>2 DEF A, R, t, b, x
<1>6. CASE tat > tick /\ tat - tick > A
  BY <1>1, <1>2, <1>6 DEF A, R, t, b, x
<1>7. CASE tat > tick /\ tat - tick <= A
  <2>1. t * k < t * b
    BY <1>1, <1>3, <1>4, <1>7
  <2>2. k < b
    BY <1>1, <1>4, <2>1, TimesCancels
  <2>3. Max({b - k, 0}) = b - k
    <3>1. b - k \in Int /\ 0 \in Int /\ b - k >= 0
      BY <1>1, <1>4, <2>2
    <3> QED  BY <3>1, MaxPair
  <2>4. R = b - k
    BY <1>1, <1>2, <1>7, <2>3
  <2>5. t * R = x - t * k /\ t * k \in Int /\ R \in Nat
    BY <1>1, <1>3, <1>4, <2>2, <2>4, TimesLinear
  <2>6. tat + t * R <= tick + x /\ tat + t * R > tick + A
    <3> DEFINE tk == t * k
               tR == t * R
    <3>1. tk \in Int /\ tR = x - tk /\ tat - tick <= tk /\ tk < tat - tick + t
      BY <1>4, <2>5
    <3> HIDE DEF tk, tR
    <3>2. tat + tR <= tick + x /\ tat + tR > tick + A
      BY <1>1, <3>1
    <3> QED  BY <3>2 DEF tk, tR
  <2>7. ~(tat - tick > A)
    BY <1>1, <1>7
  <2> QED  BY <2>5, <2>6, <2>7 DEF A, R, t, b, x
<1> QED  BY <1>1, <1>5, <1>6, <1>7

LEMMA GrantFits ==
  ASSUME NEW p \in GcraPolicies, tick \in Nat, NEW tat \in Int, tat >= tick,
         tick >= tat - BurstAllowance(p), NEW m \in Int, m <= calculateRemaining(tat, p)
  PROVE  tat + EmissionInterval(p) * m <= tick + EmissionInterval(p) * p.burst
<1> DEFINE t == EmissionInterval(p)
           R == calculateRemaining(tat, p)
           A == BurstAllowance(p)
<1>1. t \in Nat /\ R \in Nat /\ A \in Int /\ t * p.burst \in Int
  BY PolicyFacts, RemainingFacts
<1>2. tat - tick <= A
  BY <1>1
<1>3. tat + t * R <= tick + t * p.burst
  BY <1>2, RemainingFacts
<1> HIDE DEF t, R, A
<1>4. t * m <= t * R
  BY <1>1, TimesMonotone DEF R
<1>5. t * m \in Int /\ t * R \in Int
  BY <1>1
<1>6. tat + t * m <= tick + t * p.burst
  BY <1>1, <1>3, <1>4, <1>5
<1> QED  BY <1>6 DEF t

\* A policy that could not grant the whole cost, or was asked too early, has nothing left.
LEMMA NothingLeft ==
  ASSUME NEW p \in GcraPolicies, tick \in Nat, NEW tat \in Int, tat >= tick, NEW m \in Nat,
         ~(tick >= tat - BurstAllowance(p)) \/ m >= calculateRemaining(tat, p)
  PROVE  calculateRemaining(tat + EmissionInterval(p) * m, p) = 0
<1> DEFINE t == EmissionInterval(p)
           R == calculateRemaining(tat, p)
           A == BurstAllowance(p)
           new == tat + t * m
<1>1. t \in Nat /\ R \in Nat /\ A \in Int
  BY PolicyFacts, RemainingFacts
<1>2. t * m \in Nat /\ new \in Int
  <2> HIDE DEF t
  <2> QED  BY <1>1
<1>3. new - tick > A
  <2>1. CASE ~(tick >= tat - A)
    <3> HIDE DEF t, A
    <3> QED  BY <1>1, <1>2, <2>1
  <2>2. CASE tick >= tat - A /\ m >= R
    <3>1. tat + t * R > tick + A
      <4>1. tat - tick <= A
        BY <1>1, <2>2
      <4> QED  BY <4>1, RemainingFacts
    <3> HIDE DEF t, R, A
    <3>2. t * R <= t * m /\ t * R \in Int
      BY <1>1, <2>2, TimesMonotone
    <3> QED  BY <1>1, <1>2, <3>1, <3>2
  <2> QED  BY <2>1, <2>2
<1> HIDE DEF new
<1>4. calculateRemaining(new, p) = 0
  BY <1>2, <1>3, RemainingFacts
<1> QED  BY <1>4 DEF new

-----------------------------------------------------------------------------
(***************************************************************************)
(* What one limiter answers                                                *)
(***************************************************************************)

\* A result stores what it consumed on top of the TAT it started from and, where entries
\* live long enough, until that TAT; it grants no more than takes the TAT one burst
\* ahead; and a clamped or forced cost that is denied leaves nothing.
SoundResult(r, e, p, op) ==
    /\ r.ok \in BOOLEAN /\ r.allowed \in BOOLEAN /\ r.consumed \in Int /\ r.remaining \in Nat
    /\ r.entry \in GcraEntries
    /\ r.consumed <= 0 => r.entry = e
    /\ r.consumed > 0 => r.entry.tat = StartTat(e) + EmissionInterval(p) * r.consumed
    /\ (r.consumed > 0 /\ KeepsTat(p)) => r.entry.tat <= r.entry.expiration
    /\ (r.consumed > 0 /\ op # "force") => r.entry.tat <= tick + EmissionInterval(p) * p.burst
    /\ (r.ok /\ ~r.allowed /\ op # "allow") => r.remaining = 0

\* A result that stores nothing, and one that stores a TAT.
LEMMA IdleSound ==
  ASSUME NEW p \in GcraPolicies, NEW e \in GcraEntries, tick \in Nat, NEW op,
         NEW a \in BOOLEAN, NEW n \in Int, n <= 0, NEW tat \in Int,
         (~a /\ op # "allow") => calculateRemaining(tat, p) = 0
  PROVE  SoundResult(Result(a, n, p, tat, e), e, p, op)
<1> DEFINE r == Result(a, n, p, tat, e)
<1>1. /\ r.ok = TRUE /\ r.allowed = a /\ r.consumed = n /\ r.entry = e
      /\ r.remaining = calculateRemaining(tat, p)
  BY DEF Result
<1>2. calculateRemaining(tat, p) \in Nat
  BY RemainingFacts
<1> HIDE DEF r
<1>3. ~(r.consumed > 0)
  BY <1>1
<1>4. SoundResult(r, e, p, op)
  BY <1>1, <1>2, <1>3 DEF SoundResult
<1> QED  BY <1>4 DEF r

LEMMA StoredSound ==
  ASSUME NEW p \in GcraPolicies, NEW e \in GcraEntries, tick \in Nat, NEW op,
         NEW a \in BOOLEAN, NEW n \in Nat, NEW expires \in Int,
         op # "force" => StartTat(e) + EmissionInterval(p) * n <= tick + EmissionInterval(p) * p.burst,
         KeepsTat(p) => StartTat(e) + EmissionInterval(p) * n <= expires,
         (~a /\ op # "allow") => calculateRemaining(StartTat(e) + EmissionInterval(p) * n, p) = 0
  PROVE  LET tat == StartTat(e) + EmissionInterval(p) * n
         IN  n > 0 => SoundResult(Result(a, n, p, tat, [tat |-> tat, expiration |-> expires]), e, p, op)
<1> DEFINE tat == StartTat(e) + EmissionInterval(p) * n
           f == [tat |-> tat, expiration |-> expires]
           r == Result(a, n, p, tat, f)
<1>1. /\ r.ok = TRUE /\ r.allowed = a /\ r.consumed = n /\ r.entry = f
      /\ r.remaining = calculateRemaining(tat, p)
  BY DEF Result
<1>2. EmissionInterval(p) \in Nat /\ StartTat(e) \in Nat
  BY PolicyFacts, StartTatFacts
<1>3. tat \in Int
  BY <1>2
<1>4. f \in GcraEntries /\ f.tat = tat /\ f.expiration = expires
  BY <1>3 DEF GcraEntries
<1>5. calculateRemaining(tat, p) \in Nat
  BY <1>3, RemainingFacts
<1>6. r.entry.tat = StartTat(e) + EmissionInterval(p) * r.consumed /\ r.entry.tat = tat /\ r.entry.expiration = expires
  BY <1>1, <1>4
<1>7. /\ op # "force" => tat <= tick + EmissionInterval(p) * p.burst
      /\ KeepsTat(p) => tat <= expires
      /\ (~a /\ op # "allow") => calculateRemaining(tat, p) = 0
  OBVIOUS
<1> HIDE DEF r, f, tat
<1>8. ASSUME n > 0 PROVE SoundResult(r, e, p, op)
  <2>1. ~(r.consumed <= 0)
    BY <1>1, <1>8
  <2>2. /\ r.ok \in BOOLEAN /\ r.allowed \in BOOLEAN /\ r.consumed \in Int /\ r.remaining \in Nat
        /\ r.entry \in GcraEntries
    <3>1. n \in Int
      OBVIOUS
    <3> QED  BY <1>1, <1>4, <1>5, <3>1, Zenon
  <2>3. (r.ok /\ ~r.allowed /\ op # "allow") => r.remaining = 0
    BY <1>1, <1>7
  <2>4. /\ KeepsTat(p) => r.entry.tat <= r.entry.expiration
        /\ op # "force" => r.entry.tat <= tick + EmissionInterval(p) * p.burst
    BY <1>6, <1>7
  <2> QED  BY <1>6, <2>1, <2>2, <2>3, <2>4, Zenon DEF SoundResult
<1> QED  BY <1>8 DEF r, f, tat

LEMMA MemoryAllowSound ==
  ASSUME NEW p \in GcraPolicies, NEW e \in GcraEntries, tick \in Nat, NEW n \in Int
  PROVE  SoundResult(MemoryAllowN(e, p, n), e, p, "allow")
<1> DEFINE tat == StartTat(e)
           t == EmissionInterval(p)
           new == tat + t * n
           expires == tick + BaseExpiration(p)
<1>1. tat \in Nat /\ tat >= tick /\ t \in Nat /\ BaseExpiration(p) \in Nat /\ BaseExpiration(p) >= t * p.burst
      /\ t * p.burst \in Nat
  BY PolicyFacts, StartTatFacts
<1>2. new \in Int
  <2> HIDE DEF tat, t
  <2> QED  BY <1>1
<1>3. CASE ~Allowed(tat, p, n)
  <2>1. MemoryAllowN(e, p, n) = Result(FALSE, 0, p, tat, e)
    BY <1>3, Zenon DEF MemoryAllowN
  <2>2. FALSE \in BOOLEAN /\ 0 \in Int /\ 0 <= 0 /\ tat \in Int
    BY <1>1
  <2>3. SoundResult(Result(FALSE, 0, p, tat, e), e, p, "allow")
    BY <2>2, IdleSound
  <2> QED  BY <2>1, <2>3, Zenon
<1>4. CASE Allowed(tat, p, n) /\ n <= 0
  <2>1. ~(n > 0)
    BY <1>4
  <2>2. MemoryAllowN(e, p, n) = Result(TRUE, n, p, new, e)
    BY <1>4, <2>1, Zenon DEF MemoryAllowN
  <2>3. SoundResult(Result(TRUE, n, p, new, e), e, p, "allow")
    BY <1>2, <1>4, IdleSound
  <2> QED  BY <2>2, <2>3, Zenon
<1>5. CASE Allowed(tat, p, n) /\ n > 0
  <2>1. MemoryAllowN(e, p, n) = Result(TRUE, n, p, new, [tat |-> new, expiration |-> expires])
    BY <1>5, Zenon DEF MemoryAllowN
  <2>2. new <= tick + t * p.burst
    <3>1. tick >= tat - BurstAllowance(p) /\ n <= calculateRemaining(tat, p) /\ tat \in Int
      BY <1>1, <1>5 DEF Allowed
    <3> QED  BY <1>1, <3>1, GrantFits
  <2>3. new <= expires /\ n \in Nat /\ expires \in Int
    <3> HIDE DEF new, t, tat
    <3> QED  BY <1>1, <1>2, <1>5, <2>2
  <2>4. SoundResult(Result(TRUE, n, p, new, [tat |-> new, expiration |-> expires]), e, p, "allow")
    <3> HIDE DEF expires
    <3> QED  BY <1>5, <2>2, <2>3, StoredSound
  <2> QED  BY <2>1, <2>4, Zenon
<1>6. n <= 0 \/ n > 0
  OBVIOUS
<1> QED  BY <1>3, <1>4, <1>5, <1>6, Zenon

LEMMA MemoryClampSound ==
  ASSUME NEW p \in GcraPolicies, NEW e \in GcraEntries, tick \in Nat, NEW amount \in Int
  PROVE  SoundResult(MemoryConsumeOrClampN(e, p, amount), e, p, "clamp")
<1> DEFINE n == Max({amount, 0})
           tat == StartTat(e)
           t == EmissionInterval(p)
           timely == ~(tick < tat - BurstAllowance(p))
           room == IF tick < tat - BurstAllowance(p) THEN 0 ELSE calculateRemaining(tat, p)
           consumed == Min({n, room})
           new == tat + t * consumed
           expires == tick + BaseExpiration(p)
           a == consumed = n
<1>1. tat \in Nat /\ tat >= tick /\ t \in Nat /\ BaseExpiration(p) \in Nat /\ BaseExpiration(p) >= t * p.burst
      /\ t * p.burst \in Nat /\ BurstAllowance(p) \in Int
  BY PolicyFacts, StartTatFacts
<1>2. calculateRemaining(tat, p) \in Nat
  BY <1>1, RemainingFacts
<1>3. n \in Nat
  BY MaxPair
<1>4. room \in Nat
  BY <1>2
<1>5. consumed \in Nat /\ consumed <= room /\ (consumed # n => consumed = room)
  <2> HIDE DEF n, room
  <2> QED  BY <1>3, <1>4, MinPair
<1>6. consumed <= calculateRemaining(tat, p)
  <2>1. room <= calculateRemaining(tat, p)
    BY <1>2
  <2> HIDE DEF consumed, room
  <2> QED  BY <1>2, <1>4, <1>5, <2>1
<1>7. new \in Int
  <2> HIDE DEF tat, t, consumed
  <2> QED  BY <1>1, <1>5
<1>8. ~a => calculateRemaining(new, p) = 0
  <2>1. SUFFICES ASSUME ~a PROVE calculateRemaining(new, p) = 0
    OBVIOUS
  <2>2. consumed = room
    BY <1>5, <2>1
  <2>3. ~(tick >= tat - BurstAllowance(p)) \/ consumed >= calculateRemaining(tat, p)
    <3>1. CASE tick < tat - BurstAllowance(p)
      <4> HIDE DEF tat
      <4> QED  BY <1>1, <3>1
    <3>2. CASE ~(tick < tat - BurstAllowance(p))
      <4>1. consumed = calculateRemaining(tat, p)
        BY <2>2, <3>2, Zenon
      <4> HIDE DEF consumed
      <4> QED  BY <1>2, <4>1
    <3> QED  BY <3>1, <3>2
  <2>4. tat \in Int
    BY <1>1
  <2> HIDE DEF consumed
  <2> QED  BY <1>1, <1>5, <2>3, <2>4, NothingLeft
<1>9. a \in BOOLEAN
  BY Zenon
<1>10. MemoryConsumeOrClampN(e, p, amount)
         = Result(a, consumed, p, new, IF consumed > 0 THEN [tat |-> new, expiration |-> expires] ELSE e)
  BY Zenon DEF MemoryConsumeOrClampN
<1>11. CASE consumed <= 0
  <2>1. ~(consumed > 0) /\ consumed \in Int
    <3> HIDE DEF consumed
    <3> QED  BY <1>5, <1>11
  <2>2. SoundResult(Result(a, consumed, p, new, e), e, p, "clamp")
    <3> HIDE DEF a, consumed, new
    <3> QED  BY <1>7, <1>8, <1>9, <1>11, <2>1, IdleSound
  <2> QED  BY <1>10, <2>1, <2>2, Zenon
<1>12. CASE consumed > 0
  <2>1. new <= tick + t * p.burst
    <3>1. tick >= tat - BurstAllowance(p)
      <4>1. room # 0
        <5> HIDE DEF room, consumed
        <5> QED  BY <1>4, <1>5, <1>12
      <4>2. ~(tick < tat - BurstAllowance(p))
        BY <4>1
      <4> HIDE DEF tat
      <4> QED  BY <1>1, <4>2
    <3>2. tat \in Int /\ consumed \in Int
      <4> HIDE DEF consumed
      <4> QED  BY <1>1, <1>5
    <3> HIDE DEF consumed
    <3> QED  BY <1>1, <1>6, <3>1, <3>2, GrantFits
  <2>2. new <= expires /\ expires \in Int
    <3> HIDE DEF new, t, tat
    <3> QED  BY <1>1, <1>7, <2>1
  <2>3. SoundResult(Result(a, consumed, p, new, [tat |-> new, expiration |-> expires]), e, p, "clamp")
    <3> HIDE DEF expires, a, consumed
    <3> QED  BY <1>5, <1>8, <1>9, <1>12, <2>1, <2>2, StoredSound
  <2> QED  BY <1>10, <1>12, <2>3, Zenon
<1>13. consumed <= 0 \/ consumed > 0
  <2> HIDE DEF consumed
  <2> QED  BY <1>5
<1> QED  BY <1>11, <1>12, <1>13, Zenon

LEMMA MemoryForceSound ==
  ASSUME NEW p \in GcraPolicies, NEW e \in GcraEntries, tick \in Nat, NEW amount \in Int
  PROVE  SoundResult(MemoryConsumeN(e, p, amount), e, p, "force")
<1> DEFINE n == Max({amount, 0})
           tat == StartTat(e)
           t == EmissionInterval(p)
           new == tat + t * n
           expires == tick + Max({BaseExpiration(p), new - tick})
           a == Allowed(tat, p, n)
<1>1. tat \in Nat /\ tat >= tick /\ t \in Nat /\ BaseExpiration(p) \in Nat /\ BurstAllowance(p) \in Int
  BY PolicyFacts, StartTatFacts
<1>2. calculateRemaining(tat, p) \in Nat
  BY <1>1, RemainingFacts
<1>3. n \in Nat
  BY MaxPair
<1>4. new \in Int
  <2> HIDE DEF tat, t, n
  <2> QED  BY <1>1, <1>3
<1>5. expires \in Int /\ new <= expires
  <2>1. BaseExpiration(p) \in Int /\ new - tick \in Int
    <3> HIDE DEF new
    <3> QED  BY <1>1, <1>4
  <2>2. Max({BaseExpiration(p), new - tick}) \in Int /\ Max({BaseExpiration(p), new - tick}) >= new - tick
    <3> HIDE DEF new
    <3> QED  BY <2>1, MaxPair
  <2> HIDE DEF new
  <2> QED  BY <1>4, <2>2
<1>6. ~a => calculateRemaining(new, p) = 0
  <2>1. SUFFICES ASSUME ~a PROVE calculateRemaining(new, p) = 0
    OBVIOUS
  <2>2. ~(tick >= tat - BurstAllowance(p)) \/ n >= calculateRemaining(tat, p)
    <3> HIDE DEF n, tat
    <3>1. ~(tick >= tat - BurstAllowance(p)) \/ ~(n <= calculateRemaining(tat, p))
      BY <2>1 DEF Allowed
    <3> QED  BY <1>2, <1>3, <3>1
  <2>3. tat \in Int
    BY <1>1
  <2> HIDE DEF n
  <2> QED  BY <1>1, <1>3, <2>2, <2>3, NothingLeft
<1>7. a \in BOOLEAN
  BY Zenon DEF Allowed
<1>8. MemoryConsumeN(e, p, amount)
        = Result(a, n, p, new, IF n > 0 THEN [tat |-> new, expiration |-> expires] ELSE e)
  BY Zenon DEF MemoryConsumeN
<1>9. CASE n <= 0
  <2>1. ~(n > 0) /\ n \in Int
    <3> HIDE DEF n
    <3> QED  BY <1>3, <1>9
  <2>2. SoundResult(Result(a, n, p, new, e), e, p, "force")
    <3> HIDE DEF a, n, new
    <3> QED  BY <1>4, <1>6, <1>7, <1>9, <2>1, IdleSound
  <2> QED  BY <1>8, <2>1, <2>2, Zenon
<1>10. CASE n > 0
  <2>1. SoundResult(Result(a, n, p, new, [tat |-> new, expiration |-> expires]), e, p, "force")
    <3>1. new <= expires
      BY <1>5
    <3> HIDE DEF expires, a, n
    <3> QED  BY <1>3, <1>5, <1>6, <1>7, <1>10, <3>1, StoredSound
  <2> QED  BY <1>8, <1>10, <2>1, Zenon
<1>11. n <= 0 \/ n > 0
  <2> HIDE DEF n
  <2> QED  BY <1>3
<1> QED  BY <1>9, <1>10, <1>11, Zenon

LEMMA FailedSound ==
  ASSUME NEW p, NEW e \in GcraEntries, NEW op
  PROVE  SoundResult(ScriptFailed(e), e, p, op)
  BY DEF SoundResult, ScriptFailed

\* SET refuses an expiration of 0 and stores nothing for a cost of 0.
LEMMA SetScriptSound ==
  ASSUME NEW p \in GcraPolicies, NEW e \in GcraEntries, tick \in Nat, NEW op,
         NEW a \in BOOLEAN, NEW n \in Nat, NEW seconds \in Nat,
         op # "force" => StartTat(e) + EmissionInterval(p) * n <= tick + EmissionInterval(p) * p.burst,
         (KeepsTat(p) /\ seconds # 0) =>
             StartTat(e) + EmissionInterval(p) * n <= tick + seconds * TicksPerSecond,
         (~a /\ op # "allow") => calculateRemaining(StartTat(e) + EmissionInterval(p) * n, p) = 0
  PROVE  SoundResult(SetScript(a, n, p, StartTat(e) + EmissionInterval(p) * n, e, seconds), e, p, op)
<1> DEFINE tat == StartTat(e) + EmissionInterval(p) * n
           expires == tick + seconds * TicksPerSecond
<1>1. EmissionInterval(p) \in Nat /\ StartTat(e) \in Nat
  BY PolicyFacts, StartTatFacts
<1>2. tat \in Int
  BY <1>1
<1>3. expires \in Int
  BY GcraAssumption
<1>4. CASE n = 0
  <2>1. SetScript(a, n, p, tat, e, seconds) = Result(a, 0, p, tat, e)
    BY <1>4, Zenon DEF SetScript
  <2>2. 0 \in Int /\ 0 <= 0
    OBVIOUS
  <2>3. SoundResult(Result(a, 0, p, tat, e), e, p, op)
    <3>1. (~a /\ op # "allow") => calculateRemaining(tat, p) = 0
      OBVIOUS
    <3> HIDE DEF tat
    <3> QED  BY <1>2, <2>2, <3>1, IdleSound
  <2> QED  BY <2>1, <2>3, Zenon
<1>5. CASE n # 0 /\ seconds = 0
  <2>1. SetScript(a, n, p, tat, e, seconds) = ScriptFailed(e)
    BY <1>5, Zenon DEF SetScript
  <2> QED  BY <2>1, FailedSound, Zenon
<1>6. CASE n # 0 /\ seconds # 0
  <2>1. SetScript(a, n, p, tat, e, seconds) = Result(a, n, p, tat, [tat |-> tat, expiration |-> expires])
    BY <1>6, Zenon DEF SetScript
  <2>2. n > 0 /\ (KeepsTat(p) => tat <= expires)
    BY <1>6
  <2>3. SoundResult(Result(a, n, p, tat, [tat |-> tat, expiration |-> expires]), e, p, op)
    <3> HIDE DEF expires
    <3> QED  BY <1>3, <2>2, StoredSound
  <2> QED  BY <2>1, <2>3, Zenon
<1> QED  BY <1>4, <1>5, <1>6, Zenon

LEMMA ExpirationFacts ==
  ASSUME NEW p \in GcraPolicies
  PROVE  ExpirationSeconds(p) \in Nat
<1>1. BaseExpiration(p) \in Nat
  BY PolicyFacts
<1> QED  BY <1>1, GcraAssumption, FloorBounds DEF ExpirationSeconds

\* The cost the script counts, and what it grants of it.
LEMMA ScriptSound ==
  ASSUME NEW p \in GcraPolicies, NEW e \in GcraEntries, tick \in Nat, NEW amount \in Int,
         gcra.backend = "redis", NEW op \in {"allow", "clamp", "force"}
  PROVE  SoundResult(runScript(e, p, amount, op = "clamp", op = "force"), e, p, op)
<1> DEFINE n == Max({amount, 0})
           tat == StartTat(e)
           t == EmissionInterval(p)
           timely == tick >= tat - BurstAllowance(p)
           room == ScriptRemaining(tat, p)
           consumed == IF op = "force" \/ n <= room THEN n ELSE IF op = "clamp" THEN room ELSE 0
           new == tat + t * consumed
           debt == CeilDiv(new - tick, TicksPerSecond)
           secs == Max({ExpirationSeconds(p), debt})
<1>1. tat \in Nat /\ tat >= tick /\ t \in Nat /\ t * p.burst \in Nat /\ BurstAllowance(p) \in Int /\ p.burst \in Nat
  BY PolicyFacts, StartTatFacts
<1>2. calculateRemaining(tat, p) \in Nat /\ tat \in Int
  BY <1>1, RemainingFacts
<1>3. n \in Nat
  BY MaxPair
<1>4. room \in Nat /\ (timely => room = calculateRemaining(tat, p))
  <2>1. timely => ~(tat - tick > BurstAllowance(p))
    <3> HIDE DEF tat
    <3> QED  BY <1>1
  <2> HIDE DEF tat
  <2> QED  BY <1>1, <1>2, <2>1 DEF ScriptRemaining
<1>5. consumed \in Nat
  <2> HIDE DEF n, room
  <2> QED  BY <1>3, <1>4
<1>6. new \in Int /\ new >= tick
  <2>1. t * consumed \in Nat
    <3> HIDE DEF t, consumed
    <3> QED  BY <1>1, <1>5
  <2> HIDE DEF tat, t, consumed
  <2> QED  BY <1>1, <2>1
<1>7. ExpirationSeconds(p) \in Nat
  BY ExpirationFacts
<1>8. CASE op = "force"
  <2> DEFINE a == timely /\ n <= room
  <2>1. consumed = n
    BY <1>8
  <2>2. debt \in Int /\ new - tick <= TicksPerSecond * debt
    <3>1. new - tick \in Int
      <4> HIDE DEF new
      <4> QED  BY <1>6
    <3> HIDE DEF new
    <3> QED  BY <3>1, GcraAssumption, CeilBounds
  <2>3. secs \in Nat /\ secs >= debt
    <3>1. ExpirationSeconds(p) \in Int
      BY <1>7
    <3> HIDE DEF debt
    <3> QED  BY <1>7, <2>2, <3>1, MaxPair
  <2>4. new <= tick + secs * TicksPerSecond
    <3>1. TicksPerSecond * debt <= TicksPerSecond * secs
      <4> HIDE DEF debt, secs
      <4> QED  BY <2>2, <2>3, GcraAssumption, TimesMonotone
    <3>2. TicksPerSecond * secs = secs * TicksPerSecond /\ TicksPerSecond * debt \in Int /\ secs * TicksPerSecond \in Int
      <4> HIDE DEF debt, secs
      <4> QED  BY <2>2, <2>3, GcraAssumption
    <3> HIDE DEF debt, secs, new
    <3> QED  BY <1>6, <2>2, <3>1, <3>2
  <2>5. a \in BOOLEAN
    BY Zenon
  <2>6. ~a => calculateRemaining(new, p) = 0
    <3>1. SUFFICES ASSUME ~a PROVE calculateRemaining(new, p) = 0
      OBVIOUS
    <3>2. ~timely \/ consumed >= calculateRemaining(tat, p)
      <4>1. timely => ~(consumed <= room) /\ room = calculateRemaining(tat, p)
        BY <1>4, <2>1, <3>1, Zenon
      <4> HIDE DEF consumed, room, timely
      <4> QED  BY <1>2, <1>4, <1>5, <4>1
    <3> HIDE DEF consumed
    <3> QED  BY <1>1, <1>2, <1>5, <3>2, NothingLeft
  <2>7. runScript(e, p, amount, op = "clamp", op = "force") = SetScript(a, consumed, p, new, e, secs)
    BY <1>8, <2>1, Zenon DEF runScript
  <2>8. SoundResult(SetScript(a, consumed, p, new, e, secs), e, p, op)
    <3> HIDE DEF a, consumed, secs
    <3> QED  BY <1>5, <1>8, <2>3, <2>4, <2>5, <2>6, SetScriptSound
  <2> QED  BY <2>7, <2>8, Zenon
<1>9. CASE op # "force" /\ timely
  <2> DEFINE a == consumed = n
             s == ExpirationSeconds(p)
  <2>1. consumed <= calculateRemaining(tat, p)
    <3>1. room = calculateRemaining(tat, p)
      BY <1>4, <1>9
    <3> HIDE DEF n, room, timely
    <3> QED  BY <1>3, <1>4, <1>9, <3>1
  <2>2. new <= tick + t * p.burst
    <3>1. consumed \in Int
      <4> HIDE DEF consumed
      <4> QED  BY <1>5
    <3> HIDE DEF consumed
    <3> QED  BY <1>1, <1>2, <1>9, <2>1, <3>1, GrantFits
  <2>3. (KeepsTat(p) /\ s # 0) => new <= tick + s * TicksPerSecond
    <3>1. (KeepsTat(p) /\ s # 0) => t * p.burst <= s * TicksPerSecond
      BY DEF KeepsTat
    <3>2. s * TicksPerSecond \in Int
      BY <1>7, GcraAssumption
    <3> DEFINE x == t * p.burst
               y == s * TicksPerSecond
    <3>3. x \in Nat /\ y \in Int /\ new <= tick + x /\ ((KeepsTat(p) /\ s # 0) => x <= y)
      BY <1>1, <2>2, <3>1, <3>2
    <3> HIDE DEF x, y, new, s
    <3>4. (KeepsTat(p) /\ s # 0) => new <= tick + y
      BY <1>6, <3>3
    <3> QED  BY <3>4 DEF y
  <2>4. a \in BOOLEAN
    BY Zenon
  <2>5. (~a /\ op # "allow") => calculateRemaining(new, p) = 0
    <3>1. SUFFICES ASSUME ~a, op # "allow" PROVE calculateRemaining(new, p) = 0
      OBVIOUS
    <3>2. consumed = room /\ room = calculateRemaining(tat, p)
      BY <1>4, <1>9, <3>1
    <3>3. consumed >= calculateRemaining(tat, p)
      <4> HIDE DEF consumed, room
      <4> QED  BY <1>2, <3>2
    <3> HIDE DEF consumed
    <3> QED  BY <1>1, <1>2, <1>5, <3>3, NothingLeft
  <2>6. runScript(e, p, amount, op = "clamp", op = "force") = SetScript(a, consumed, p, new, e, s)
    BY <1>9, Zenon DEF runScript
  <2>7. SoundResult(SetScript(a, consumed, p, new, e, s), e, p, op)
    <3>1. s \in Nat
      BY <1>7
    <3> HIDE DEF a, consumed, s
    <3> QED  BY <1>5, <2>2, <2>3, <2>4, <2>5, <3>1, SetScriptSound
  <2> QED  BY <2>6, <2>7, Zenon
<1>10. CASE op # "force" /\ ~timely
  <2>1. runScript(e, p, amount, op = "clamp", op = "force") = Result(FALSE, 0, p, tat, e)
    BY <1>10, Zenon DEF runScript
  <2>2. calculateRemaining(tat, p) = 0
    <3>1. tat - tick > BurstAllowance(p)
      <4> HIDE DEF tat
      <4> QED  BY <1>1, <1>10
    <3> QED  BY <1>2, <3>1, RemainingFacts
  <2>3. FALSE \in BOOLEAN /\ 0 \in Int /\ 0 <= 0
    OBVIOUS
  <2>4. SoundResult(Result(FALSE, 0, p, tat, e), e, p, op)
    <3> HIDE DEF tat
    <3> QED  BY <1>2, <2>2, <2>3, IdleSound
  <2> QED  BY <2>1, <2>4, Zenon
<1> QED  BY <1>8, <1>9, <1>10, Zenon

-----------------------------------------------------------------------------
(***************************************************************************)
(* The inductive invariant                                                 *)
(***************************************************************************)

GcraCallRecords == [op : {"none", "allow", "clamp", "force"}, n : Int, at : Nat,
                    allowed : BOOLEAN, remaining : Nat, denied : BOOLEAN]

GcraLimiters == [backend : {"none", "error", "memory", "redis"}, policies : Seq(GcraPolicies), closed : BOOLEAN]

GcraTypeInv ==
    /\ tick \in Nat \ {0}
    /\ gcra \in GcraLimiters
    /\ Serving => gcra.policies # <<>>
    /\ tats \in [DOMAIN gcra.policies -> GcraEntries]
    /\ ideal \in [DOMAIN gcra.policies -> Nat]
    /\ granted \in [DOMAIN gcra.policies -> Nat]
    /\ calls \in [GcraCalls -> GcraCallRecords]
    /\ \A c \in GcraCalls : calls[c].op # "none" => Serving /\ calls[c].at \in DOMAIN gcra.policies

\* An entry holds the ideal TAT until that TAT has passed.
HoldsTat(e, tat, now) ==
    \/ e.tat = tat /\ tat <= e.expiration
    \/ e.tat <= now /\ tat <= now

GcraEntryInv == \A i \in DOMAIN gcra.policies : KeepsTat(Policy(i)) => HoldsTat(tats[i], ideal[i], tick)

\* Whatever was granted moved the ideal TAT.
GcraDebtInv ==
    \A i \in DOMAIN gcra.policies : granted[i] > 0 => EmissionInterval(Policy(i)) * granted[i] < ideal[i]

\* The result carried from policy to policy denies exactly if one of them denied, and
\* then nothing remains, so that no later result can be smaller.
Carried(call) ==
    /\ call.at = 1 => ~call.denied
    /\ call.at > 1 => /\ call.allowed = ~call.denied
                      /\ call.denied => call.remaining = 0

GcraVerdictInv ==
    /\ misjudged = FALSE
    /\ \A c \in GcraCalls : calls[c].op # "none" => Carried(calls[c])

GcraInv == GcraTypeInv /\ GcraEntryInv /\ GcraDebtInv /\ GcraVerdictInv /\ GcraRateKept

-----------------------------------------------------------------------------
(***************************************************************************)
(* A policy is asked                                                       *)
(***************************************************************************)

LEMMA DivLower ==
  ASSUME NEW t \in Nat \ {0}, NEW a \in Int, NEW x \in Int, t * a <= x
  PROVE  a <= x \div t
<1> DEFINE q == x \div t
           r == x % t
<1>1. q \in Int /\ r \in 0..(t - 1) /\ x = t * q + r
  OBVIOUS
<1> HIDE DEF q, r
<1>2. t * a < t * (q + 1)
  <2>1. t * (q + 1) = t * q + t /\ t * q \in Int /\ t * a \in Int
    BY <1>1
  <2> QED  BY <1>1, <2>1
<1>3. a < q + 1
  <2>1. q + 1 \in Int
    BY <1>1
  <2> QED  BY <1>2, <2>1, TimesCancels
<1>4. a <= q
  BY <1>1, <1>3
<1> QED  BY <1>4 DEF q

LEMMA HoldsStart ==
  ASSUME NEW e \in GcraEntries, NEW tat \in Nat, tick \in Nat, HoldsTat(e, tat, tick)
  PROVE  StartTat(e) = Max({tat, tick})
<1>1. e.tat \in Int /\ e.expiration \in Int
  BY DEF GcraEntries
<1>2. Max({e.tat, tick}) = (IF e.tat >= tick THEN e.tat ELSE tick)
  BY <1>1, MaxPair
<1>3. Max({tat, tick}) = (IF tat >= tick THEN tat ELSE tick)
  BY MaxPair
<1> QED  BY <1>1, <1>2, <1>3 DEF StartTat, HoldsTat

LEMMA AnswerSound ==
  ASSUME GcraTypeInv, NEW c \in GcraCalls, calls[c].op # "none"
  PROVE  /\ calls[c] \in GcraCallRecords
         /\ calls[c].at \in DOMAIN gcra.policies
         /\ Policy(calls[c].at) \in GcraPolicies
         /\ tats[calls[c].at] \in GcraEntries
         /\ SoundResult(LimiterResult(c), tats[calls[c].at], Policy(calls[c].at), calls[c].op)
<1> DEFINE i == calls[c].at
           e == tats[i]
           p == Policy(i)
           n == calls[c].n
           op == calls[c].op
<1>1. calls[c] \in GcraCallRecords /\ i \in DOMAIN gcra.policies /\ Serving
  BY DEF GcraTypeInv
<1>2. n \in Int /\ op \in {"allow", "clamp", "force"}
  BY <1>1 DEF GcraCallRecords
<1>3. p \in GcraPolicies
  <2>1. gcra.policies \in Seq(GcraPolicies)
    BY DEF GcraTypeInv, GcraLimiters
  <2> QED  BY <1>1, <2>1 DEF Policy
<1>4. e \in GcraEntries
  BY <1>1 DEF GcraTypeInv
<1>5. tick \in Nat
  BY DEF GcraTypeInv
<1>6. SoundResult(LimiterResult(c), e, p, op)
  <2>1. CASE gcra.backend = "redis" /\ gcra.closed
    <3>1. LimiterResult(c) = ScriptFailed(e)
      BY <2>1, Zenon DEF LimiterResult
    <3>2. SoundResult(ScriptFailed(e), e, p, op)
      <4> HIDE DEF e, p, op
      <4> QED  BY <1>4, FailedSound
    <3> QED  BY <3>1, <3>2, Zenon
  <2>2. CASE gcra.backend = "redis" /\ ~gcra.closed
    <3>1. LimiterResult(c) = runScript(e, p, n, op = "clamp", op = "force")
      BY <2>2, Zenon DEF LimiterResult
    <3>2. SoundResult(runScript(e, p, n, op = "clamp", op = "force"), e, p, op)
      <4> HIDE DEF e, p, op, n
      <4> QED  BY <1>2, <1>3, <1>4, <1>5, <2>2, ScriptSound
    <3> QED  BY <3>1, <3>2, Zenon
  <2>3. CASE gcra.backend # "redis" /\ op = "allow"
    <3>1. LimiterResult(c) = MemoryAllowN(e, p, n)
      BY <2>3 DEF LimiterResult
    <3>2. SoundResult(MemoryAllowN(e, p, n), e, p, "allow")
      <4> HIDE DEF e, p, n
      <4> QED  BY <1>2, <1>3, <1>4, <1>5, MemoryAllowSound
    <3> QED  BY <2>3, <3>1, <3>2, Zenon
  <2>4. CASE gcra.backend # "redis" /\ op = "clamp"
    <3>1. LimiterResult(c) = MemoryConsumeOrClampN(e, p, n)
      BY <2>4 DEF LimiterResult
    <3>2. SoundResult(MemoryConsumeOrClampN(e, p, n), e, p, "clamp")
      <4> HIDE DEF e, p, n
      <4> QED  BY <1>2, <1>3, <1>4, <1>5, MemoryClampSound
    <3> QED  BY <2>4, <3>1, <3>2, Zenon
  <2>5. CASE gcra.backend # "redis" /\ op = "force"
    <3>1. LimiterResult(c) = MemoryConsumeN(e, p, n)
      BY <2>5 DEF LimiterResult
    <3>2. SoundResult(MemoryConsumeN(e, p, n), e, p, "force")
      <4> HIDE DEF e, p, n
      <4> QED  BY <1>2, <1>3, <1>4, <1>5, MemoryForceSound
    <3> QED  BY <2>5, <3>1, <3>2, Zenon
  <2> QED  BY <1>2, <2>1, <2>2, <2>3, <2>4, <2>5
<1> QED  BY <1>1, <1>3, <1>4, <1>6

\* The new ideal TAT of the policy that was asked, and what it has granted since.
IdealAfter(r, p, tat) ==
    IF r.consumed > 0 THEN Max({tat, tick}) + EmissionInterval(p) * r.consumed ELSE tat
GrantedAfter(r, op, g) == IF op = "force" THEN g ELSE g + Max({r.consumed, 0})

LEMMA PolicyAsked ==
  ASSUME NEW p \in GcraPolicies, NEW e \in GcraEntries, tick \in Nat \ {0}, NEW op, NEW r,
         SoundResult(r, e, p, op), NEW tat \in Nat, NEW g \in Nat,
         KeepsTat(p) => HoldsTat(e, tat, tick),
         g > 0 => EmissionInterval(p) * g < tat,
         KeepsTat(p) => g <= p.burst + (tick - 1) \div EmissionInterval(p)
  PROVE  LET h == GrantedAfter(r, op, g)
             new == IdealAfter(r, p, tat)
         IN  /\ h \in Nat /\ new \in Nat
             /\ KeepsTat(p) => HoldsTat(r.entry, new, tick)
             /\ h > 0 => EmissionInterval(p) * h < new
             /\ KeepsTat(p) => h <= p.burst + (tick - 1) \div EmissionInterval(p)
<1> DEFINE h == GrantedAfter(r, op, g)
           new == IdealAfter(r, p, tat)
           t == EmissionInterval(p)
           m == Max({tat, tick})
           u == r.consumed
           x == t * u
           y == t * g
           b == t * p.burst
<1>1. t \in Nat \ {0} /\ b \in Nat /\ p.burst \in Nat
  BY PolicyFacts
<1>2. u \in Int /\ r.entry \in GcraEntries
  BY DEF SoundResult
<1>3. r.entry.tat \in Int /\ r.entry.expiration \in Int
  BY <1>2 DEF GcraEntries
<1>4. m \in Nat /\ m >= tat /\ m >= tick
  BY MaxPair
<1>5. KeepsTat(p) => StartTat(e) = m
  BY HoldsStart
<1>6. CASE u <= 0
  <2>1. new = tat /\ h = g /\ r.entry = e
    <3>1. ~(u > 0)
      BY <1>2, <1>6
    <3>2. Max({u, 0}) = 0
      <4> HIDE DEF u
      <4> QED  BY <1>2, <1>6, MaxPair
    <3>3. g + 0 = g
      OBVIOUS
    <3> QED  BY <1>6, <3>1, <3>2, <3>3 DEF IdealAfter, GrantedAfter, SoundResult
  <2> QED  BY <2>1, Zenon
<1>7. CASE u > 0
  <2>1. new = m + x
    BY <1>7 DEF IdealAfter
  <2>2. h = IF op = "force" THEN g ELSE g + u
    <3>1. Max({u, 0}) = u
      <4> HIDE DEF u
      <4> QED  BY <1>2, <1>7, MaxPair
    <3> QED  BY <3>1 DEF GrantedAfter
  <2>3. x \in Nat /\ y \in Nat
    <3> HIDE DEF t, u
    <3> QED  BY <1>1, <1>2, <1>7
  <2>4. h \in Nat /\ t * h = IF op = "force" THEN y ELSE y + x
    <3> HIDE DEF t, u, h
    <3>1. h \in Nat
      BY <1>2, <1>7, <2>2
    <3>2. t * (g + u) = y + x
      BY <1>1, <1>2
    <3> QED  BY <2>2, <3>1, <3>2
  <2>5. r.entry.tat = StartTat(e) + x
    BY <1>7 DEF SoundResult
  <2>6. KeepsTat(p) => r.entry.tat = new
    BY <1>5, <2>1, <2>5
  <2>7. (KeepsTat(p) => r.entry.tat <= r.entry.expiration) /\ (op # "force" => r.entry.tat <= tick + b)
    BY <1>7 DEF SoundResult
  <2>8. g = 0 => y = 0
    <3> HIDE DEF t
    <3> QED  BY <1>1
  <2>9. g > 0 => y < tat
    OBVIOUS
  <2> HIDE DEF t, m, u, x, y, b
  <2>10. new \in Nat /\ t * h < new
    <3> HIDE DEF new, h
    <3> DEFINE th == t * h
    <3>1. th = IF op = "force" THEN y ELSE y + x
      BY <2>4
    <3> HIDE DEF th
    <3>2. new \in Nat /\ th < new
      <4>1. y < m
        BY <1>4, <2>3, <2>8, <2>9
      <4> QED  BY <1>4, <2>1, <2>3, <3>1, <4>1
    <3> QED  BY <3>2 DEF th
  <2>11. KeepsTat(p) => HoldsTat(r.entry, new, tick)
    <3> HIDE DEF new
    <3> QED  BY <2>6, <2>7 DEF HoldsTat
  <2>12. KeepsTat(p) => h <= p.burst + (tick - 1) \div t
    <3>1. SUFFICES ASSUME KeepsTat(p) PROVE h <= p.burst + (tick - 1) \div t
      OBVIOUS
    <3>2. CASE op = "force"
      BY <2>2, <3>1, <3>2 DEF t
    <3>3. CASE op # "force"
      <4>1. t * h \in Int /\ t * h <= tick + b - 1
        <5> HIDE DEF new, h
        <5> DEFINE th == t * h
        <5>1. th \in Int
          BY <1>1, <2>4
        <5>2. th < new
          BY <2>10
        <5> HIDE DEF th
        <5>3. th <= tick + b - 1
          BY <1>1, <2>6, <2>7, <2>10, <3>1, <3>3, <5>1, <5>2
        <5> QED  BY <5>1, <5>3 DEF th
      <4>2. t * (h - p.burst) = t * h - b
        <5> HIDE DEF h
        <5> QED  BY <1>1, <2>4 DEF b, t
      <4>3. t * (h - p.burst) <= tick - 1 /\ h - p.burst \in Int /\ tick - 1 \in Int
        <5> HIDE DEF h
        <5> DEFINE th == t * h
                   tx == t * (h - p.burst)
        <5>1. th \in Int /\ th <= tick + b - 1 /\ tx = th - b
          BY <4>1, <4>2
        <5> HIDE DEF th, tx
        <5>2. tx <= tick - 1
          BY <1>1, <5>1
        <5> QED  BY <1>1, <2>4, <5>2 DEF tx
      <4>4. h - p.burst <= (tick - 1) \div t
        <5> HIDE DEF h
        <5> QED  BY <1>1, <4>3, DivLower
      <4>5. (tick - 1) \div t \in Int
        BY <1>1
      <4> HIDE DEF h
      <4> QED  BY <1>1, <2>4, <4>4, <4>5
    <3> QED  BY <3>2, <3>3
  <2> HIDE DEF h, new
  <2> QED  BY <2>4, <2>10, <2>11, <2>12 DEF t, h, new
<1>8. u <= 0 \/ u > 0
  BY <1>2
<1> QED  BY <1>6, <1>7, <1>8

\* The entries, the ideal TATs and the grants after policy at of call c answered r.
Charged(c, r) ==
    LET i == calls[c].at
    IN  /\ tats' = [tats EXCEPT ![i] = r.entry]
        /\ ideal' = [ideal EXCEPT ![i] = IF r.consumed > 0
                         THEN Max({@, tick}) + EmissionInterval(Policy(i)) * r.consumed ELSE @]
        /\ granted' = Granted(c, r)

LEMMA ChargeKeeps ==
  ASSUME GcraInv, NEW c \in GcraCalls, calls[c].op # "none", Charged(c, LimiterResult(c)),
         UNCHANGED <<gcra, tick>>
  PROVE  /\ tats' \in [DOMAIN gcra.policies -> GcraEntries]
         /\ ideal' \in [DOMAIN gcra.policies -> Nat]
         /\ granted' \in [DOMAIN gcra.policies -> Nat]
         /\ GcraEntryInv' /\ GcraDebtInv' /\ GcraRateKept'
<1> DEFINE i == calls[c].at
           D == DOMAIN gcra.policies
           r == LimiterResult(c)
           op == calls[c].op
           Q(p, e, tat, g) ==
               /\ KeepsTat(p) => HoldsTat(e, tat, tick)
               /\ g > 0 => EmissionInterval(p) * g < tat
               /\ KeepsTat(p) => g <= p.burst + (tick - 1) \div EmissionInterval(p)
<1>1. /\ tats \in [D -> GcraEntries] /\ ideal \in [D -> Nat] /\ granted \in [D -> Nat]
      /\ tick \in Nat \ {0}
  BY DEF GcraInv, GcraTypeInv
<1>2. i \in D /\ Policy(i) \in GcraPolicies /\ tats[i] \in GcraEntries /\ SoundResult(r, tats[i], Policy(i), op)
  BY AnswerSound DEF GcraInv
<1>3. \A j \in D : Q(Policy(j), tats[j], ideal[j], granted[j])
  <2>1. DOMAIN granted = D
    BY <1>1
  <2> QED  BY <2>1, Zenon DEF GcraInv, GcraEntryInv, GcraDebtInv, GcraRateKept
<1>4. ideal' = [ideal EXCEPT ![i] = IdealAfter(r, Policy(i), ideal[i])]
  BY <1>1, <1>2 DEF Charged, IdealAfter
<1>5. granted' = [granted EXCEPT ![i] = GrantedAfter(r, op, granted[i])]
  <2>1. CASE op = "force"
    <3>1. granted' = granted /\ GrantedAfter(r, op, granted[i]) = granted[i]
      BY <2>1, Zenon DEF Charged, Granted, GrantedAfter
    <3> QED  BY <1>1, <3>1
  <2>2. CASE op # "force"
    BY <1>1, <2>2 DEF Charged, Granted, GrantedAfter
  <2> QED  BY <2>1, <2>2
<1>6. tats' = [tats EXCEPT ![i] = r.entry] /\ r.entry \in GcraEntries
  BY <1>2, Zenon DEF Charged, SoundResult
<1>7. ideal[i] \in Nat /\ granted[i] \in Nat /\ tick \in Nat
  BY <1>1, <1>2
<1> DEFINE new == IdealAfter(r, Policy(i), ideal[i])
           h == GrantedAfter(r, op, granted[i])
<1>8. new \in Nat /\ h \in Nat /\ Q(Policy(i), r.entry, new, h)
  <2>1. Q(Policy(i), tats[i], ideal[i], granted[i])
    BY <1>2, <1>3
  <2> HIDE DEF r, i, op
  <2> QED  BY <1>1, <1>2, <1>7, <2>1, PolicyAsked
<1> HIDE DEF r, op, new, h
<1>9. /\ tats' \in [D -> GcraEntries] /\ ideal' \in [D -> Nat] /\ granted' \in [D -> Nat]
      /\ tats'[i] = r.entry /\ ideal'[i] = new /\ granted'[i] = h
      /\ \A j \in D \ {i} : tats'[j] = tats[j] /\ ideal'[j] = ideal[j] /\ granted'[j] = granted[j]
  <2> HIDE DEF i
  <2> QED  BY <1>1, <1>2, <1>4, <1>5, <1>6, <1>8 DEF new, h
<1>10. \A j \in D : Q(Policy(j), tats'[j], ideal'[j], granted'[j])
  <2> SUFFICES ASSUME NEW j \in D PROVE Q(Policy(j), tats'[j], ideal'[j], granted'[j])
    OBVIOUS
  <2>1. CASE j = i
    BY <1>8, <1>9, <2>1, Zenon
  <2>2. CASE j # i
    <3>1. Q(Policy(j), tats[j], ideal[j], granted[j])
      BY <1>3
    <3>2. tats'[j] = tats[j] /\ ideal'[j] = ideal[j] /\ granted'[j] = granted[j]
      BY <1>9, <2>2
    <3> QED  BY <3>1, <3>2, Zenon
  <2> QED  BY <2>1, <2>2
<1>11. /\ \A j : Policy(j)' = Policy(j)
       /\ \A p : KeepsTat(p)' = KeepsTat(p)
       /\ (DOMAIN gcra.policies)' = D /\ tick' = tick
  BY DEF Policy, KeepsTat, ExpirationSeconds, BaseExpiration, BurstAllowance, EmissionInterval
<1>12. GcraEntryInv' /\ GcraDebtInv'
  BY <1>10, <1>11, Zenon DEF GcraEntryInv, GcraDebtInv, EmissionInterval
<1>13. GcraRateKept'
  <2>1. DOMAIN granted' = D
    BY <1>9
  <2> QED  BY <1>10, <1>11, <2>1, Zenon DEF GcraRateKept, EmissionInterval
<1> QED  BY <1>9, <1>12, <1>13

\* The result carried on, and the verdict at the end of the call.
LEMMA CarriedOn ==
  ASSUME NEW call \in GcraCallRecords, call.at >= 1, Carried(call), NEW e, NEW p, NEW r,
         SoundResult(r, e, p, call.op), r.ok
  PROVE  /\ MoreRestrictive(call, r) \in GcraCallRecords
         /\ MoreRestrictive(call, r).at = call.at
         /\ MoreRestrictive(call, r).op = call.op
         /\ MoreRestrictive(call, r).allowed = ~MoreRestrictive(call, r).denied
         /\ (r.allowed \/ call.op # "allow") =>
               (MoreRestrictive(call, r).denied => MoreRestrictive(call, r).remaining = 0)
<1> DEFINE m == MoreRestrictive(call, r)
<1>1. /\ call.at \in Nat /\ call.allowed \in BOOLEAN /\ call.denied \in BOOLEAN /\ call.remaining \in Nat
      /\ call.op \in {"none", "allow", "clamp", "force"} /\ call.n \in Int
  BY DEF GcraCallRecords
<1>2. r.allowed \in BOOLEAN /\ r.remaining \in Nat /\ ((~r.allowed /\ call.op # "allow") => r.remaining = 0)
  BY DEF SoundResult
<1>3. CASE call.at = 1 \/ ~r.allowed \/ r.remaining < call.remaining
  <2>1. m = [call EXCEPT !.allowed = r.allowed, !.remaining = r.remaining, !.denied = call.denied \/ ~r.allowed]
    BY <1>3 DEF MoreRestrictive, GcraCallRecords
  <2>2. /\ m \in GcraCallRecords /\ m.at = call.at /\ m.op = call.op
        /\ m.allowed = r.allowed /\ m.remaining = r.remaining /\ m.denied = (call.denied \/ ~r.allowed)
    BY <1>1, <1>2, <2>1 DEF GcraCallRecords
  <2>3. r.allowed => ~call.denied
    <3>1. CASE call.at = 1
      BY <3>1 DEF Carried
    <3>2. CASE call.at # 1 /\ r.allowed /\ r.remaining < call.remaining
      <4>1. call.at > 1 /\ call.remaining # 0
        BY <1>1, <1>2, <3>2
      <4> QED  BY <4>1 DEF Carried
    <3> QED  BY <1>3, <3>1, <3>2
  <2> HIDE DEF m
  <2>4. m.allowed = ~m.denied
    BY <1>1, <1>2, <2>2, <2>3
  <2>5. (r.allowed \/ call.op # "allow") => (m.denied => m.remaining = 0)
    BY <1>1, <1>2, <2>2, <2>3
  <2> QED  BY <2>2, <2>4, <2>5 DEF m
<1>4. CASE ~(call.at = 1 \/ ~r.allowed \/ r.remaining < call.remaining)
  <2>1. m = [call EXCEPT !.denied = call.denied \/ ~r.allowed]
    BY <1>4 DEF MoreRestrictive, GcraCallRecords
  <2>2. /\ m \in GcraCallRecords /\ m.at = call.at /\ m.op = call.op
        /\ m.allowed = call.allowed /\ m.remaining = call.remaining /\ m.denied = (call.denied \/ ~r.allowed)
    BY <1>1, <1>2, <2>1 DEF GcraCallRecords
  <2>3. call.at > 1
    BY <1>1, <1>4
  <2> HIDE DEF m
  <2>4. m.allowed = ~m.denied /\ (m.denied => m.remaining = 0)
    BY <1>1, <1>2, <1>4, <2>2, <2>3 DEF Carried
  <2> QED  BY <2>2, <2>4 DEF m
<1> QED  BY <1>3, <1>4

-----------------------------------------------------------------------------
(***************************************************************************)
(* The steps                                                               *)
(***************************************************************************)

LEMMA EmptyLimiters ==
  NoLimiter \in GcraLimiters /\ [backend |-> "error", policies |-> <<>>, closed |-> FALSE] \in GcraLimiters
<1>1. <<>> \in Seq(GcraPolicies)
  OBVIOUS
<1> QED  BY <1>1, Zenon DEF NoLimiter, GcraLimiters

LEMMA GcraInitInv ==
  ASSUME GcraInit
  PROVE  GcraInv
<1>1. gcra.policies = <<>> /\ gcra.backend = "none" /\ gcra.closed = FALSE
  BY DEF GcraInit, NoLimiter
<1>2. DOMAIN gcra.policies = {} /\ <<>> \in Seq(GcraPolicies)
  BY <1>1
<1>3. ~Serving
  BY <1>1 DEF Serving
<1>4. NoCall \in GcraCallRecords /\ NoCall.op = "none"
  BY DEF NoCall, GcraCallRecords
<1>5. \A c \in GcraCalls : calls[c] = NoCall
  BY DEF GcraInit
<1>6. GcraTypeInv
  <2>1. gcra \in GcraLimiters
    BY EmptyLimiters DEF GcraInit
  <2>2. /\ tats \in [DOMAIN gcra.policies -> GcraEntries] /\ ideal \in [DOMAIN gcra.policies -> Nat]
        /\ granted \in [DOMAIN gcra.policies -> Nat]
    BY <1>2 DEF GcraInit
  <2>3. calls \in [GcraCalls -> GcraCallRecords] /\ tick \in Nat \ {0}
    BY <1>4 DEF GcraInit
  <2> QED  BY <1>3, <1>4, <1>5, <2>1, <2>2, <2>3, Zenon DEF GcraTypeInv
<1>7. GcraEntryInv /\ GcraDebtInv
  BY <1>2 DEF GcraEntryInv, GcraDebtInv
<1>8. GcraVerdictInv
  BY <1>4, <1>5 DEF GcraVerdictInv, GcraInit
<1>9. GcraRateKept
  BY DEF GcraRateKept, GcraInit
<1> QED  BY <1>6, <1>7, <1>8, <1>9 DEF GcraInv

LEMMA ConvertedLimits ==
  ASSUME NEW limits \in Seq(GcraLimits)
  PROVE  convertLimits(limits) \in Seq(GcraPolicies) /\ DOMAIN convertLimits(limits) = DOMAIN limits
<1> DEFINE F(l) == [limit |-> l.limit, duration |-> l.duration, burst |-> IF l.burst = 0 THEN l.limit ELSE l.burst]
<1>1. \A l \in GcraLimits : F(l) \in GcraPolicies
  BY DEF GcraLimits, GcraPolicies
<1>2. convertLimits(limits) = [i \in DOMAIN limits |-> F(limits[i])]
  BY DEF convertLimits
<1>3. DOMAIN limits = 1..Len(limits) /\ Len(limits) \in Nat /\ \A i \in DOMAIN limits : limits[i] \in GcraLimits
  OBVIOUS
<1> HIDE DEF F
<1> QED  BY <1>1, <1>2, <1>3

LEMMA NewLimiterKeeps ==
  ASSUME GcraInv, NewLimiter
  PROVE  GcraInv'
<1> PICK config \in GcraConfigs :
       LET usable == config.limits # <<>> /\ (config.backend = "redis" => config.client)
           policies == convertLimits(config.limits)
       IN  /\ gcra.backend = "none"
           /\ gcra' = IF usable THEN [backend |-> config.backend, policies |-> policies, closed |-> FALSE]
                      ELSE [NoLimiter EXCEPT !.backend = "error"]
           /\ tats' = IF usable THEN [i \in DOMAIN policies |-> NoEntry] ELSE <<>>
           /\ ideal' = [i \in DOMAIN tats' |-> 0]
           /\ granted' = [i \in DOMAIN tats' |-> 0]
           /\ UNCHANGED <<tick, calls, gcraCount, misjudged>>
  BY DEF NewLimiter
<1>1. config.backend \in {"memory", "redis"} /\ config.limits \in Seq(GcraLimits)
  BY GcraConfigAssumption
<1> DEFINE ps == gcra'.policies
           D == DOMAIN ps
<1>2. /\ gcra' \in GcraLimiters
      /\ tats' = [i \in D |-> NoEntry]
      /\ Serving' => ps # <<>>
  <2>1. CASE config.limits # <<>> /\ (config.backend = "redis" => config.client)
    <3> DEFINE q == convertLimits(config.limits)
    <3>1. q \in Seq(GcraPolicies) /\ DOMAIN q = DOMAIN config.limits
      BY <1>1, ConvertedLimits
    <3>2. gcra' = [backend |-> config.backend, policies |-> q, closed |-> FALSE] /\ tats' = [i \in DOMAIN q |-> NoEntry]
      BY <2>1
    <3>3. q # <<>>
      <4>1. \A s \in Seq(GcraLimits) : s # <<>> => 1 \in DOMAIN s
        OBVIOUS
      <4>2. 1 \in DOMAIN config.limits
        BY <1>1, <2>1, <4>1
      <4> QED  BY <3>1, <4>2
    <3> HIDE DEF q
    <3>4. ps = q
      BY <3>2
    <3> QED  BY <1>1, <3>1, <3>2, <3>3, <3>4 DEF GcraLimiters
  <2>2. CASE ~(config.limits # <<>> /\ (config.backend = "redis" => config.client))
    <3>1. gcra' = [NoLimiter EXCEPT !.backend = "error"] /\ tats' = <<>>
      BY <2>2
    <3>2. gcra' = [backend |-> "error", policies |-> <<>>, closed |-> FALSE]
      BY <3>1 DEF NoLimiter
    <3>3. ps = <<>> /\ gcra'.backend = "error" /\ D = {}
      BY <3>2
    <3>4. tats' = [i \in D |-> NoEntry]
      BY <3>1, <3>3
    <3>5. ~Serving'
      BY <3>3 DEF Serving
    <3>6. gcra' \in GcraLimiters
      BY <3>2, EmptyLimiters, Zenon
    <3> QED  BY <3>4, <3>5, <3>6, Zenon
  <2> QED  BY <2>1, <2>2
<1>3. tick' = tick /\ calls' = calls /\ misjudged' = misjudged /\ gcra.backend = "none"
  OBVIOUS
<1>4. ideal' = [i \in D |-> 0] /\ granted' = [i \in D |-> 0]
  BY <1>2
<1> HIDE DEF ps
<1>5. NoEntry \in GcraEntries /\ NoEntry.tat = 0 /\ NoEntry.expiration = 0
  BY DEF NoEntry, GcraEntries
<1>6. \A c \in GcraCalls : calls[c].op = "none"
  BY <1>3 DEF GcraInv, GcraTypeInv, Serving
<1>7. tick \in Nat \ {0} /\ calls \in [GcraCalls -> GcraCallRecords]
  BY DEF GcraInv, GcraTypeInv
<1>8. GcraTypeInv'
  <2>1. tats' \in [D -> GcraEntries] /\ ideal' \in [D -> Nat] /\ granted' \in [D -> Nat]
    BY <1>2, <1>4, <1>5
  <2> QED  BY <1>2, <1>3, <1>6, <1>7, <2>1 DEF GcraTypeInv, ps
<1>9. GcraEntryInv' /\ GcraDebtInv'
  <2>1. \A i \in D : tats'[i].tat <= tick /\ ideal'[i] <= tick /\ granted'[i] = 0
    BY <1>2, <1>4, <1>5, <1>7
  <2>2. \A i \in D : HoldsTat(tats'[i], ideal'[i], tick') /\ ~(granted'[i] > 0)
    BY <1>3, <2>1 DEF HoldsTat
  <2> QED  BY <2>2, Zenon DEF GcraEntryInv, GcraDebtInv, ps
<1>10. GcraVerdictInv'
  BY <1>3, <1>6 DEF GcraVerdictInv, GcraInv
<1>11. GcraRateKept'
  <2> SUFFICES ASSUME NEW i \in D
               PROVE  granted'[i] <= Policy(i)'.burst + (tick' - 1) \div EmissionInterval(Policy(i)')
    BY <1>4 DEF GcraRateKept, EmissionInterval, ps
  <2> DEFINE p == Policy(i)'
  <2>1. p \in GcraPolicies
    BY <1>2 DEF Policy, ps, GcraLimiters
  <2>2. EmissionInterval(p) \in Nat \ {0} /\ p.burst \in Nat
    <3> HIDE DEF p
    <3> QED  BY <2>1, PolicyFacts
  <2> DEFINE t == EmissionInterval(p)
             b == p.burst
  <2>3. t \in Nat \ {0} /\ b \in Nat
    BY <2>2
  <2> HIDE DEF t, b
  <2>4. (tick - 1) \div t \in Nat
    BY <1>7, <2>3
  <2>5. 0 <= b + (tick - 1) \div t
    BY <2>3, <2>4
  <2> QED  BY <1>3, <1>4, <2>5 DEF t, b
<1> QED  BY <1>8, <1>9, <1>10, <1>11 DEF GcraInv

LEMMA BeginKeeps ==
  ASSUME GcraInv, NEW c \in GcraCalls, Begin(c)
  PROVE  GcraInv'
<1>1. PICK op \in {"allow", "clamp", "force"}, n \in GcraCosts :
         calls' = [calls EXCEPT ![c] = [NoCall EXCEPT !.op = op, !.n = n, !.at = 1]]
  BY DEF Begin
<1>2. Serving /\ UNCHANGED <<gcra, tats, tick, ideal, granted, misjudged>>
  BY DEF Begin
<1> DEFINE new == [NoCall EXCEPT !.op = op, !.n = n, !.at = 1]
<1>3. /\ new \in GcraCallRecords /\ new.at = 1 /\ new.denied = FALSE
  BY GcraConfigAssumption DEF NoCall, GcraCallRecords
<1> HIDE DEF new
<1>4. calls \in [GcraCalls -> GcraCallRecords]
  BY DEF GcraInv, GcraTypeInv
<1>5. /\ calls' \in [GcraCalls -> GcraCallRecords] /\ calls'[c] = new
      /\ \A d \in GcraCalls \ {c} : calls'[d] = calls[d]
  BY <1>1, <1>3, <1>4 DEF new
<1>6. 1 \in DOMAIN gcra.policies
  <2>1. gcra.policies \in Seq(GcraPolicies) /\ gcra.policies # <<>>
    BY <1>2 DEF GcraInv, GcraTypeInv, GcraLimiters
  <2> QED  BY <2>1
<1>7. GcraTypeInv'
  <2>1. \A d \in GcraCalls : calls'[d].op # "none" => Serving /\ calls'[d].at \in DOMAIN gcra.policies
    BY <1>2, <1>3, <1>5, <1>6 DEF GcraInv, GcraTypeInv
  <2> QED  BY <1>2, <1>5, <2>1 DEF GcraInv, GcraTypeInv, Serving
<1>8. GcraVerdictInv'
  <2>1. Carried(new)
    BY <1>3 DEF Carried
  <2> QED  BY <1>2, <1>5, <2>1 DEF GcraInv, GcraVerdictInv
<1>9. GcraEntryInv' /\ GcraDebtInv' /\ GcraRateKept'
  BY <1>2 DEF GcraInv, GcraEntryInv, GcraDebtInv, GcraRateKept, KeepsTat, Policy, HoldsTat, EmissionInterval,
              ExpirationSeconds, BaseExpiration, BurstAllowance
<1> QED  BY <1>7, <1>8, <1>9 DEF GcraInv

LEMMA AskLimiterKeeps ==
  ASSUME GcraInv, NEW c \in GcraCalls, AskLimiter(c)
  PROVE  GcraInv'
<1> DEFINE i == calls[c].at
           r == LimiterResult(c)
           call == MoreRestrictive(calls[c], r)
           next == IF EndsAt(c, r) THEN NoCall ELSE [call EXCEPT !.at = i + 1]
<1>1. calls[c].op # "none" /\ Charged(c, r) /\ UNCHANGED <<gcra, tick>>
  BY DEF AskLimiter, Charged
<1>2. calls' = [calls EXCEPT ![c] = next]
      /\ misjudged' = (misjudged \/ (EndsAt(c, r) /\ r.ok /\ call.allowed = call.denied))
  BY DEF AskLimiter
<1>3. /\ tats' \in [DOMAIN gcra.policies -> GcraEntries] /\ ideal' \in [DOMAIN gcra.policies -> Nat]
      /\ granted' \in [DOMAIN gcra.policies -> Nat]
      /\ GcraEntryInv' /\ GcraDebtInv' /\ GcraRateKept'
  BY <1>1, ChargeKeeps
<1>4. /\ calls[c] \in GcraCallRecords /\ i \in DOMAIN gcra.policies
      /\ SoundResult(r, tats[i], Policy(i), calls[c].op)
  BY <1>1, AnswerSound DEF GcraInv
<1>5. gcra.policies \in Seq(GcraPolicies) /\ calls \in [GcraCalls -> GcraCallRecords] /\ Serving
  BY <1>1 DEF GcraInv, GcraTypeInv, GcraLimiters
<1>6. i \in Nat /\ i >= 1 /\ Len(gcra.policies) \in Nat /\ DOMAIN gcra.policies = 1..Len(gcra.policies)
  BY <1>4, <1>5
<1>7. Carried(calls[c]) /\ misjudged = FALSE
  BY <1>1 DEF GcraInv, GcraVerdictInv
<1> HIDE DEF r
<1>8. r.ok => /\ call \in GcraCallRecords /\ call.at = i /\ call.op = calls[c].op
              /\ call.allowed = ~call.denied
              /\ (r.allowed \/ calls[c].op # "allow") => (call.denied => call.remaining = 0)
  BY <1>4, <1>6, <1>7, CarriedOn
<1> HIDE DEF call
<1>9. /\ next \in GcraCallRecords
      /\ next.op # "none" => next.at \in DOMAIN gcra.policies /\ Carried(next)
  <2>1. CASE EndsAt(c, r)
    BY <2>1 DEF NoCall, GcraCallRecords
  <2>2. CASE ~EndsAt(c, r)
    <3>1. r.ok /\ (r.allowed \/ calls[c].op # "allow") /\ i # Len(gcra.policies)
      BY <2>2, Zenon DEF EndsAt
    <3>2. next = [call EXCEPT !.at = i + 1] /\ call \in GcraCallRecords
      BY <1>8, <2>2, <3>1, Zenon
    <3>3. /\ next \in GcraCallRecords /\ next.at = i + 1
          /\ next.allowed = call.allowed /\ next.denied = call.denied /\ next.remaining = call.remaining
      <4> HIDE DEF next, i
      <4> QED  BY <1>6, <3>2 DEF GcraCallRecords
    <3>4. i + 1 \in DOMAIN gcra.policies
      <4> DEFINE n == Len(gcra.policies)
      <4>1. n \in Nat /\ DOMAIN gcra.policies = 1..n /\ i \in 1..n /\ i # n
        BY <1>4, <1>6, <3>1
      <4> HIDE DEF n, i
      <4> QED  BY <4>1
    <3>5. Carried(next)
      <4>1. next.at > 1
        BY <1>6, <3>3
      <4>2. next.at # 1
        BY <1>6, <3>3
      <4> HIDE DEF next
      <4> QED  BY <1>8, <3>1, <3>3, <4>1, <4>2, Zenon DEF Carried
    <3> QED  BY <3>3, <3>4, <3>5, Zenon
  <2> QED  BY <2>1, <2>2
<1> HIDE DEF next
<1>10. /\ calls' \in [GcraCalls -> GcraCallRecords] /\ calls'[c] = next
       /\ \A d \in GcraCalls \ {c} : calls'[d] = calls[d]
  BY <1>2, <1>5, <1>9
<1>11. GcraTypeInv'
  <2>1. Serving' = Serving
    BY <1>1 DEF Serving
  <2>2. \A d \in GcraCalls : calls'[d].op # "none" => Serving /\ calls'[d].at \in DOMAIN gcra.policies
    <3> SUFFICES ASSUME NEW d \in GcraCalls, calls'[d].op # "none"
                 PROVE  Serving /\ calls'[d].at \in DOMAIN gcra.policies
      OBVIOUS
    <3>1. CASE d = c
      BY <1>5, <1>9, <1>10, <3>1
    <3>2. CASE d # c
      BY <1>10, <3>2 DEF GcraInv, GcraTypeInv
    <3> QED  BY <3>1, <3>2
  <2>3. gcra' = gcra /\ tick' = tick
    BY <1>1
  <2> QED  BY <1>3, <1>10, <2>1, <2>2, <2>3, Zenon DEF GcraInv, GcraTypeInv
<1>12. GcraVerdictInv'
  <2>1. misjudged' = FALSE
    BY <1>2, <1>7, <1>8
  <2>2. ASSUME NEW d \in GcraCalls, calls'[d].op # "none" PROVE Carried(calls'[d])
    <3>1. CASE d = c
      BY <1>9, <1>10, <2>2, <3>1
    <3>2. CASE d # c
      BY <1>10, <2>2, <3>2 DEF GcraInv, GcraVerdictInv
    <3> QED  BY <3>1, <3>2
  <2> QED  BY <2>1, <2>2 DEF GcraVerdictInv
<1> QED  BY <1>3, <1>11, <1>12 DEF GcraInv

LEMMA RedisErrorKeeps ==
  ASSUME GcraInv, NEW c \in GcraCalls, RedisError(c)
  PROVE  GcraInv'
<1>1. calls[c].op # "none" /\ calls' = [calls EXCEPT ![c] = NoCall] /\ UNCHANGED <<gcra, tick, misjudged>>
  BY DEF RedisError
<1>2. Charged(c, LimiterResult(c)) \/ UNCHANGED <<tats, ideal, granted>>
  BY DEF RedisError, Charged
<1>3. /\ tats' \in [DOMAIN gcra.policies -> GcraEntries] /\ ideal' \in [DOMAIN gcra.policies -> Nat]
      /\ granted' \in [DOMAIN gcra.policies -> Nat]
      /\ GcraEntryInv' /\ GcraDebtInv' /\ GcraRateKept'
  <2>1. CASE Charged(c, LimiterResult(c))
    BY <1>1, <2>1, ChargeKeeps
  <2>2. CASE UNCHANGED <<tats, ideal, granted>>
    <3>1. GcraEntryInv' /\ GcraDebtInv' /\ GcraRateKept'
      BY <1>1, <2>2 DEF GcraInv, GcraEntryInv, GcraDebtInv, GcraRateKept, KeepsTat, Policy, HoldsTat,
                        EmissionInterval, ExpirationSeconds, BaseExpiration, BurstAllowance
    <3> QED  BY <2>2, <3>1 DEF GcraInv, GcraTypeInv
  <2> QED  BY <1>2, <2>1, <2>2
<1>4. NoCall \in GcraCallRecords /\ NoCall.op = "none"
  BY DEF NoCall, GcraCallRecords
<1>5. /\ calls' \in [GcraCalls -> GcraCallRecords] /\ calls'[c] = NoCall
      /\ \A d \in GcraCalls \ {c} : calls'[d] = calls[d]
  <2>1. calls \in [GcraCalls -> GcraCallRecords]
    BY DEF GcraInv, GcraTypeInv
  <2> QED  BY <1>1, <1>4, <2>1
<1>6. \A d \in GcraCalls : calls'[d].op # "none" => calls'[d] = calls[d]
  BY <1>4, <1>5
<1>7. GcraTypeInv'
  <2>1. \A d \in GcraCalls : calls'[d].op # "none" => Serving /\ calls'[d].at \in DOMAIN gcra.policies
    BY <1>6, Zenon DEF GcraInv, GcraTypeInv
  <2>2. gcra' = gcra /\ tick' = tick /\ Serving' = Serving
    BY <1>1 DEF Serving
  <2> QED  BY <1>3, <1>5, <2>1, <2>2, Zenon DEF GcraInv, GcraTypeInv
<1>8. GcraVerdictInv'
  BY <1>1, <1>6 DEF GcraInv, GcraVerdictInv
<1> QED  BY <1>3, <1>7, <1>8 DEF GcraInv

LEMMA RemoveExpiredKeeps ==
  ASSUME GcraInv, removeExpired
  PROVE  GcraInv'
<1> DEFINE D == DOMAIN gcra.policies
<1>1. /\ tats \in [D -> GcraEntries] /\ ideal \in [D -> Nat] /\ tick \in Nat \ {0}
  BY DEF GcraInv, GcraTypeInv
<1>2. /\ tats' = [i \in D |-> IF tick > tats[i].expiration THEN NoEntry ELSE tats[i]]
      /\ UNCHANGED <<gcra, tick, calls, gcraCount, ideal, granted, misjudged>>
  BY <1>1 DEF removeExpired
<1>3. NoEntry \in GcraEntries /\ NoEntry.tat = 0
  BY DEF NoEntry, GcraEntries
<1>4. tats' \in [D -> GcraEntries]
  BY <1>1, <1>2, <1>3
<1>5. GcraTypeInv'
  BY <1>2, <1>4 DEF GcraInv, GcraTypeInv, Serving
<1>6. ASSUME NEW i \in D, HoldsTat(tats[i], ideal[i], tick) PROVE HoldsTat(tats'[i], ideal[i], tick)
  <2>1. tats[i].tat \in Int /\ tats[i].expiration \in Int /\ ideal[i] \in Nat
    BY <1>1 DEF GcraEntries
  <2>2. CASE tick > tats[i].expiration
    <3>1. tats'[i] = NoEntry
      BY <1>2, <2>2
    <3> QED  BY <1>1, <1>3, <1>6, <2>1, <2>2, <3>1 DEF HoldsTat
  <2>3. CASE ~(tick > tats[i].expiration)
    <3>1. tats'[i] = tats[i]
      BY <1>2, <2>3
    <3> QED  BY <1>6, <3>1
  <2> QED  BY <2>2, <2>3
<1>7. GcraEntryInv'
  <2>1. \A i \in D : KeepsTat(Policy(i)) => HoldsTat(tats'[i], ideal[i], tick)
    BY <1>6 DEF GcraInv, GcraEntryInv
  <2>2. /\ \A i : Policy(i)' = Policy(i) /\ \A p : KeepsTat(p)' = KeepsTat(p)
        /\ (DOMAIN gcra.policies)' = D /\ tick' = tick /\ ideal' = ideal
    BY <1>2 DEF Policy, KeepsTat, ExpirationSeconds, BaseExpiration, BurstAllowance, EmissionInterval
  <2> QED  BY <2>1, <2>2, Zenon DEF GcraEntryInv
<1>8. GcraDebtInv' /\ GcraRateKept' /\ GcraVerdictInv'
  BY <1>2 DEF GcraInv, GcraDebtInv, GcraRateKept, GcraVerdictInv, Carried, KeepsTat, Policy, EmissionInterval,
              ExpirationSeconds, BaseExpiration, BurstAllowance
<1> QED  BY <1>5, <1>7, <1>8 DEF GcraInv

LEMMA CloseLimiterKeeps ==
  ASSUME GcraInv, CloseLimiter
  PROVE  GcraInv'
<1>1. /\ gcra' = [gcra EXCEPT !.closed = TRUE]
      /\ UNCHANGED <<tats, tick, calls, gcraCount, ideal, granted, misjudged>>
  BY DEF CloseLimiter
<1>2. gcra \in GcraLimiters
  BY DEF GcraInv, GcraTypeInv
<1>3. /\ gcra' \in GcraLimiters
      /\ gcra'.policies = gcra.policies /\ gcra'.backend = gcra.backend
  BY <1>1, <1>2 DEF GcraLimiters
<1>4. GcraTypeInv'
  BY <1>1, <1>3 DEF GcraInv, GcraTypeInv, Serving
<1>5. GcraEntryInv' /\ GcraDebtInv' /\ GcraRateKept' /\ GcraVerdictInv'
  BY <1>1, <1>3 DEF GcraInv, GcraEntryInv, HoldsTat, GcraDebtInv, GcraRateKept, GcraVerdictInv, Carried, KeepsTat,
                    Policy, EmissionInterval, ExpirationSeconds, BaseExpiration, BurstAllowance
<1> QED  BY <1>4, <1>5 DEF GcraInv

LEMMA GcraTickKeeps ==
  ASSUME GcraInv, GcraTick
  PROVE  GcraInv'
<1> DEFINE D == DOMAIN gcra.policies
<1>1. tick' = tick + 1 /\ UNCHANGED <<gcra, tats, calls, gcraCount, ideal, granted, misjudged>>
  BY DEF GcraTick
<1>2. /\ tats \in [D -> GcraEntries] /\ ideal \in [D -> Nat] /\ granted \in [D -> Nat] /\ tick \in Nat \ {0}
      /\ gcra.policies \in Seq(GcraPolicies)
  BY DEF GcraInv, GcraTypeInv, GcraLimiters
<1>3. GcraTypeInv'
  BY <1>1, <1>2 DEF GcraInv, GcraTypeInv, Serving
<1>4. /\ \A i : Policy(i)' = Policy(i) /\ \A p : KeepsTat(p)' = KeepsTat(p)
      /\ (DOMAIN gcra.policies)' = D /\ ideal' = ideal /\ tats' = tats /\ granted' = granted
  BY <1>1 DEF Policy, KeepsTat, ExpirationSeconds, BaseExpiration, BurstAllowance, EmissionInterval
<1>5. GcraEntryInv'
  <2>1. ASSUME NEW i \in D, HoldsTat(tats[i], ideal[i], tick) PROVE HoldsTat(tats[i], ideal[i], tick')
    <3>1. tats[i].tat \in Int /\ ideal[i] \in Nat
      BY <1>2 DEF GcraEntries
    <3> QED  BY <1>1, <1>2, <2>1, <3>1 DEF HoldsTat
  <2>2. \A i \in D : KeepsTat(Policy(i)) => HoldsTat(tats[i], ideal[i], tick')
    BY <2>1 DEF GcraInv, GcraEntryInv
  <2> QED  BY <1>4, <2>2, Zenon DEF GcraEntryInv
<1>6. GcraDebtInv' /\ GcraVerdictInv'
  BY <1>1 DEF GcraInv, GcraDebtInv, GcraVerdictInv, Carried, Policy, EmissionInterval
<1>7. GcraRateKept'
  <2>1. ASSUME NEW i \in D, granted[i] <= Policy(i).burst + (tick - 1) \div EmissionInterval(Policy(i))
        PROVE  granted[i] <= Policy(i).burst + (tick' - 1) \div EmissionInterval(Policy(i))
    <3> DEFINE t == EmissionInterval(Policy(i))
               b == Policy(i).burst
               g == granted[i]
               q == (tick - 1) \div t
    <3>1. Policy(i) \in GcraPolicies
      BY <1>2 DEF Policy
    <3>2. t \in Nat \ {0} /\ b \in Nat /\ g \in Nat
      BY <1>2, <3>1, PolicyFacts
    <3>3. g <= b + q
      BY <2>1
    <3> HIDE DEF t, b, g
    <3>4. q \in Int /\ t * q <= tick - 1
      BY <1>2, <3>2
    <3>5. t * q \in Int /\ tick' - 1 \in Int
      <4> HIDE DEF q
      <4> QED  BY <1>1, <1>2, <3>2, <3>4
    <3>6. t * q <= tick' - 1
      <4> DEFINE x == t * q
      <4>1. x \in Int /\ x <= tick - 1
        BY <3>4, <3>5
      <4> HIDE DEF x
      <4>2. x <= tick' - 1
        BY <1>1, <1>2, <4>1
      <4> QED  BY <4>2 DEF x
    <3> HIDE DEF q
    <3>7. q <= (tick' - 1) \div t /\ (tick' - 1) \div t \in Int
      BY <3>2, <3>4, <3>5, <3>6, DivLower
    <3>8. g <= b + (tick' - 1) \div t
      BY <3>2, <3>3, <3>4, <3>7
    <3> QED  BY <3>8 DEF t, b, g
  <2>2. DOMAIN granted = D
    BY <1>2
  <2>3. \A i \in D : KeepsTat(Policy(i)) =>
          granted[i] <= Policy(i).burst + (tick' - 1) \div EmissionInterval(Policy(i))
    BY <2>1, <2>2 DEF GcraInv, GcraRateKept
  <2> QED  BY <1>4, <2>2, <2>3, Zenon DEF GcraRateKept, EmissionInterval
<1> QED  BY <1>3, <1>5, <1>6, <1>7 DEF GcraInv

LEMMA GcraStutters ==
  ASSUME GcraInv, UNCHANGED gcraVars
  PROVE  GcraInv'
  BY DEF gcraVars, GcraInv, GcraTypeInv, Serving, GcraEntryInv, HoldsTat, GcraDebtInv, GcraRateKept, GcraVerdictInv,
         Carried, KeepsTat, Policy, EmissionInterval, ExpirationSeconds, BaseExpiration, BurstAllowance

LEMMA GcraNextKeeps ==
  ASSUME GcraInv, GcraNext
  PROVE  GcraInv'
<1>1. CASE NewLimiter
  BY <1>1, NewLimiterKeeps
<1>2. ASSUME NEW c \in GcraCalls, Begin(c) \/ AskLimiter(c) \/ RedisError(c) PROVE GcraInv'
  BY <1>2, BeginKeeps, AskLimiterKeeps, RedisErrorKeeps
<1>3. CASE removeExpired
  BY <1>3, RemoveExpiredKeeps
<1>4. CASE CloseLimiter
  BY <1>4, CloseLimiterKeeps
<1>5. CASE GcraTick
  BY <1>5, GcraTickKeeps
<1> QED  BY <1>1, <1>2, <1>3, <1>4, <1>5 DEF GcraNext

-----------------------------------------------------------------------------
(***************************************************************************)
(* The theorems                                                            *)
(***************************************************************************)

LEMMA HostKeepsGcraInv == HostSpec => []GcraInv
<1>1. HostInit => GcraInv
  BY GcraInitInv DEF HostInit
<1>2. GcraInv /\ [HostNext]_hostVars => GcraInv'
  <2> SUFFICES ASSUME GcraInv, [HostNext]_hostVars PROVE GcraInv'
    OBVIOUS
  <2>1. GcraNext \/ UNCHANGED gcraVars
    BY DEF HostNext, hostVars
  <2> QED  BY <2>1, GcraNextKeeps, GcraStutters
<1> QED  BY <1>1, <1>2, PTL DEF HostSpec

\* No policy of a GCRA limiter ever grants more than its burst plus what was emitted
\* since the start (GcraRateKept), whatever calls interleave in a multi limiter.
THEOREM GcraRateKeptHolds == HostSpec => []GcraRateKept
<1>1. GcraInv => GcraRateKept
  BY DEF GcraInv
<1> QED  BY <1>1, HostKeepsGcraInv, PTL

\* The verdict of a multi limiter denies exactly if one of its policies denied
\* (MultiDenialWins: MoreRestrictive of multi.go loses no denial).
THEOREM MultiDenialWinsHolds == HostSpec => []MultiDenialWins
<1>1. GcraInv => MultiDenialWins
  BY DEF GcraInv, GcraVerdictInv, MultiDenialWins
<1> QED  BY <1>1, HostKeepsGcraInv, PTL

LEMMA AvailableFaithful ==
  ASSUME GcraInv, NEW i \in DOMAIN gcra.policies, KeepsTat(Policy(i))
  PROVE  /\ StartTat(tats[i]) = Max({ideal[i], tick})
         /\ RedisGetAvailable(tats[i], Policy(i)) = calculateRemaining(Max({ideal[i], tick}), Policy(i))
         /\ MemoryGetAvailable(tats[i], Policy(i)) = calculateRemaining(Max({ideal[i], tick}), Policy(i))
<1> DEFINE e == tats[i]
           p == Policy(i)
           tat == ideal[i]
<1>1. e \in GcraEntries /\ tat \in Nat /\ tick \in Nat
  BY DEF GcraInv, GcraTypeInv
<1>2. HoldsTat(e, tat, tick)
  BY DEF GcraInv, GcraEntryInv
<1>3. e.tat \in Int /\ e.expiration \in Int
  BY <1>1 DEF GcraEntries
<1>4. Max({tat, tick}) = IF tat >= tick THEN tat ELSE tick
  BY <1>1, MaxPair
<1> HIDE DEF e, tat, p
<1>5. StartTat(e) = Max({tat, tick})
  BY <1>1, <1>2, HoldsStart
<1>6. \A x \in Int : x <= tick => calculateRemaining(x, p) = p.burst
  BY DEF calculateRemaining
<1>7. CASE tat <= tick
  <2>1. calculateRemaining(Max({tat, tick}), p) = p.burst
    <3>1. Max({tat, tick}) = tick
      BY <1>1, <1>4, <1>7
    <3>2. tick \in Int /\ tick <= tick
      BY <1>1
    <3> QED  BY <1>6, <3>1, <3>2
  <2>2. e.tat <= tick
    BY <1>1, <1>2, <1>3, <1>7 DEF HoldsTat
  <2>3. calculateRemaining(e.tat, p) = p.burst
    BY <1>3, <1>6, <2>2
  <2> QED  BY <1>5, <2>1, <2>3, Zenon DEF RedisGetAvailable, MemoryGetAvailable, e, tat, p
<1>8. CASE tat > tick
  <2>1. e.tat = tat /\ tat <= e.expiration /\ Max({tat, tick}) = tat
    BY <1>1, <1>2, <1>3, <1>4, <1>8 DEF HoldsTat
  <2>2. ~(tick > e.expiration) /\ ~(tick >= e.expiration)
    BY <1>1, <1>3, <1>8, <2>1
  <2> QED  BY <1>5, <2>1, <2>2, Zenon DEF RedisGetAvailable, MemoryGetAvailable, e, tat, p
<1> QED  BY <1>1, <1>7, <1>8

\* A GCRA limiter forgets no debt before it is paid back (GcraNeverForgets): expiry,
\* clean-up and rounding to seconds cannot be told from a limiter that keeps everything.
THEOREM GcraNeverForgetsHolds == HostSpec => []GcraNeverForgets
<1>1. ASSUME GcraInv PROVE GcraNeverForgets
  <2>1. DOMAIN tats = DOMAIN gcra.policies
    BY <1>1 DEF GcraInv, GcraTypeInv
  <2>2. \A i \in DOMAIN tats : KeepsTat(Policy(i)) => StartTat(tats[i]) = Max({ideal[i], tick})
    BY <1>1, <2>1, AvailableFaithful
  <2>3. ASSUME \A i \in DOMAIN tats : KeepsTat(Policy(i))
        PROVE  GetAvailable = Min({calculateRemaining(Max({ideal[i], tick}), Policy(i)) : i \in DOMAIN tats})
    <3> DEFINE f(i) == IF gcra.backend = "redis" THEN RedisGetAvailable(tats[i], Policy(i))
                                                 ELSE MemoryGetAvailable(tats[i], Policy(i))
               g(i) == calculateRemaining(Max({ideal[i], tick}), Policy(i))
    <3>1. \A i \in DOMAIN tats : f(i) = g(i)
      BY <1>1, <2>1, <2>3, AvailableFaithful
    <3> HIDE DEF f, g
    <3>2. {f(i) : i \in DOMAIN tats} = {g(i) : i \in DOMAIN tats}
      BY <3>1
    <3>3. Min({f(i) : i \in DOMAIN tats}) = Min({g(i) : i \in DOMAIN tats})
      BY <3>2, Zenon
    <3> QED  BY <3>3, Zenon DEF GetAvailable, f, g
  <2> QED  BY <2>2, <2>3, Zenon DEF GcraNeverForgets
<1> QED  BY <1>1, HostKeepsGcraInv, PTL
==============================================================================
