------------------------- MODULE LimiterCacheProofs -------------------------
(***************************************************************************)
(* Proofs about LimiterCache, for every configuration: any routes, levels, *)
(* quotas and parameters, and any number of builds.                        *)
(***************************************************************************)
EXTENDS LimiterCache, FiniteSetTheorems, TLAPS

\* A cached limiter is open, belongs to its key and is no newer than the last build.
CacheOpen ==
    /\ \A k \in QuotaKeys : InCache(k) =>
         /\ lim[k] \in Limiters /\ lim[k].key = k /\ lim[k].made <= builds
         /\ lim[k] \notin closed
    /\ \A x \in closed : x.made <= builds

\* The policy in force for an instance holds the cached limiter of each of its quotas,
\* and its bucket counts on it.
HoldsCached ==
    \A o \in Owners :
        /\ DOMAIN built[o].limiters = DOMAIN built[o].config
        /\ \A i \in DOMAIN built[o].config :
             LET k == QuotaKey(o, built[o].params, built[o].config[i]) IN
             /\ built[o].params \in Params
             /\ k \in buckets[ReconcileKey(o, built[o].params)]
             /\ built[o].limiters[i] = lim[k]

CacheInv == TypeOK /\ RefCountCovers /\ CacheOpen

\* No two instances are attached to the same route at the same level.
OwnBuckets ==
    \A o, u \in Owners : RouteOf[o] = RouteOf[u] /\ LevelOf[o] = LevelOf[u] => o = u

-----------------------------------------------------------------------------
LEMMA TrackersFinite ==
    ASSUME NEW k
    PROVE  IsFiniteSet(Trackers(k)) /\ Cardinality(Trackers(k)) \in Nat
<1>1. IsFiniteSet(Params \X Levels) /\ IsFiniteSet(Routes \X (Params \X Levels))
  BY FS_Product, LimiterCacheAssumption
<1>2. IsFiniteSet(ReconcileKeys)
  BY <1>1 DEF ReconcileKeys
<1>3. Trackers(k) \in SUBSET ReconcileKeys
  BY DEF Trackers
<1>4. IsFiniteSet(Trackers(k))
  BY <1>2, <1>3, FS_Subset
<1> QED BY <1>4, FS_CardinalityType

\* A key some bucket tracks is cached.
LEMMA TrackedCached ==
    ASSUME TypeOK, RefCountCovers, NEW b \in ReconcileKeys, NEW k \in buckets[b]
    PROVE  k \in QuotaKeys /\ InCache(k)
<1>1. k \in QuotaKeys /\ b \in Trackers(k)
  BY DEF TypeOK, Trackers
<1>2. Cardinality(Trackers(k)) # 0
  BY <1>1, TrackersFinite, FS_EmptySet
<1>3. refCount[k] >= Cardinality(Trackers(k)) /\ refCount[k] \in Nat
  BY <1>1 DEF RefCountCovers, TypeOK
<1> QED BY <1>1, <1>2, <1>3, TrackersFinite DEF InCache

LEMMA UsesType ==
    ASSUME NEW keys, NEW n \in Nat, NEW k
    PROVE  /\ Uses(keys, n, k) \in Nat
           /\ Uses(keys, n, k) = 0 <=> \A i \in 1..n : keys[i] # k
<1> DEFINE S == {i \in 1..n : keys[i] = k}
<1>1. IsFiniteSet(1..n)
  BY FS_Interval
<1>2. IsFiniteSet(S)
  BY <1>1, FS_Subset
<1>3. Cardinality(S) \in Nat /\ (Cardinality(S) = 0 <=> S = {})
  BY <1>2, FS_CardinalityType, FS_EmptySet
<1> QED BY <1>3 DEF Uses

LEMMA KeyTypes ==
    ASSUME NEW o \in Owners, NEW p \in Params, NEW c \in Configs
    PROVE  /\ c \in Seq(Quotas) /\ DOMAIN c = 1..Len(c) /\ Len(c) \in Nat
           /\ DOMAIN KeysOf(o, p, c) = 1..Len(c)
           /\ \A i \in 1..Len(c) : /\ KeysOf(o, p, c)[i] = QuotaKey(o, p, c[i])
                                   /\ KeysOf(o, p, c)[i] \in QuotaKeys
           /\ ReconcileKey(o, p) \in ReconcileKeys
<1>1. c \in Seq(Quotas)
  BY LimiterCacheAssumption
<1>2. DOMAIN c = 1..Len(c) /\ Len(c) \in Nat /\ \A i \in 1..Len(c) : c[i] \in Quotas
  BY <1>1
<1>3. ReconcileKey(o, p) \in ReconcileKeys
  BY LimiterCacheAssumption DEF ReconcileKey, ReconcileKeys
<1> QED BY <1>1, <1>2, <1>3 DEF KeysOf, QuotaKeys

LEMMA InitCache == Init => CacheInv /\ HoldsCached
<1> SUFFICES ASSUME Init PROVE CacheInv /\ HoldsCached
  OBVIOUS
<1>1. TypeOK
  <2>1. NotBuilt \in [params : Params \cup {"none"}, config : Seq(Quotas),
                      limiters : Seq(Limiters)]
    BY DEF NotBuilt
  <2> QED BY <2>1, LimiterCacheAssumption DEF Init, TypeOK
<1>2. RefCountCovers
  <2>1. ASSUME NEW k \in QuotaKeys PROVE Cardinality(Trackers(k)) = 0
    <3>1. Trackers(k) = {}
      BY DEF Init, Trackers
    <3> QED BY <3>1, FS_EmptySet
  <2> QED BY <2>1 DEF Init, RefCountCovers
<1>3. CacheOpen
  BY DEF Init, CacheOpen, InCache
<1>4. HoldsCached
  BY DEF Init, HoldsCached, NotBuilt
<1> QED BY <1>1, <1>2, <1>3, <1>4 DEF CacheInv

-----------------------------------------------------------------------------
(* A successful build.                                                     *)

\* The keys a build no longer wants lose one tracker, the keys it wants gain one.
LEMMA BuildTrackers ==
    ASSUME TypeOK, NEW rk \in ReconcileKeys, NEW desired, NEW k,
           buckets' = [buckets EXCEPT ![rk] = desired]
    PROVE  Trackers(k)' = IF k \in desired THEN Trackers(k) \cup {rk}
                                           ELSE Trackers(k) \ {rk}
<1>1. \A b \in ReconcileKeys : buckets'[b] = IF b = rk THEN desired ELSE buckets[b]
  BY DEF TypeOK
<1> QED BY <1>1 DEF Trackers

\* The quota keys of a build, and those of the previous build for its reconcile key.
Wanted(o, p, c) == {KeysOf(o, p, c)[i] : i \in DOMAIN c}
Tracked(o, p)   == buckets[ReconcileKey(o, p)]

\* What a build of instance o does, quota key by quota key.
LEMMA BuildShape ==
    ASSUME CacheInv, NEW o \in Owners, NEW p \in Params, NEW c \in Configs,
           GetPolicy(o, p, c), NEW k \in QuotaKeys
    PROVE  /\ refCount'[k] \in Nat
           /\ refCount'[k] >= Cardinality(Trackers(k))'
           /\ InCache(k)' /\ InCache(k) => lim'[k] = lim[k]
           /\ InCache(k)' /\ ~InCache(k) => k \in Wanted(o, p, c)
           /\ k \in Wanted(o, p, c) => lim'[k] = LimiterFor(p, k)
           /\ k \notin Wanted(o, p, c) => lim'[k] \in {AbsentLimiter, lim[k]}
           /\ k \in Dropped(Tracked(o, p), Wanted(o, p, c)) => InCache(k) /\ ~InCache(k)'
<1> DEFINE rk == ReconcileKey(o, p)
           keys == KeysOf(o, p, c)
           desired == Wanted(o, p, c)
           old == Tracked(o, p)
           gone == Dropped(old, desired)
           uses == Uses(keys, Len(c), k)
           T == Cardinality(Trackers(k))
           U == Cardinality(Trackers(k))'
<1>0. TypeOK /\ RefCountCovers
  BY DEF CacheInv
<1>1. rk \in ReconcileKeys /\ Len(c) \in Nat /\ DOMAIN c = 1..Len(c)
  BY KeyTypes
<1>2. k \in old => InCache(k) /\ rk \in Trackers(k)
  <2> SUFFICES ASSUME k \in old PROVE InCache(k) /\ rk \in Trackers(k)
    OBVIOUS
  <2> QED BY <1>0, <1>1, TrackedCached DEF Trackers, Tracked
<1>3. k \notin old => rk \notin Trackers(k)
  BY DEF Trackers, Tracked
<1>4. refCount[k] \in Nat
  BY <1>0 DEF TypeOK
<1>5. uses \in Nat /\ (uses = 0 <=> k \notin desired)
  <2>1. desired = {keys[i] : i \in 1..Len(c)}
    BY <1>1 DEF Wanted
  <2> QED BY <2>1, <1>1, UsesType
<1>6. refCount'[k] = IF k \in gone THEN 0
                     ELSE IF k \in old \ desired /\ InCache(k) THEN refCount[k] - 1
                     ELSE Counted(old, keys, Len(c), k)
  BY DEF GetPolicy, Wanted, Tracked
<1>7. lim'[k] = IF k \in gone THEN AbsentLimiter
                ELSE IF k \in desired THEN LimiterFor(p, k) ELSE lim[k]
  BY DEF GetPolicy, Wanted, Tracked
<1>8. k \in gone <=> k \in old \ desired /\ InCache(k) /\ refCount[k] - 1 <= 0
  BY DEF Dropped
<1>9. Counted(old, keys, Len(c), k) = IF uses = 0 THEN refCount[k]
         ELSE IF k \in old THEN (IF InCache(k) THEN refCount[k] ELSE 1)
         ELSE refCount[k] + uses
  BY DEF Counted
<1>10. (InCache(k) <=> refCount[k] > 0) /\ (InCache(k)' <=> refCount'[k] > 0)
  BY DEF InCache
<1>11. T \in Nat /\ refCount[k] >= T
  BY <1>0, TrackersFinite DEF RefCountCovers
<1>12. U = IF k \in desired THEN (IF k \in old THEN T ELSE T + 1)
                            ELSE (IF k \in old THEN T - 1 ELSE T)
  <2>1. buckets' = [buckets EXCEPT ![rk] = desired]
    BY DEF GetPolicy, Wanted
  <2>2. Trackers(k)' = IF k \in desired THEN Trackers(k) \cup {rk} ELSE Trackers(k) \ {rk}
    BY <1>0, <1>1, <2>1, BuildTrackers
  <2>3. IsFiniteSet(Trackers(k))
    BY TrackersFinite
  <2>4. /\ Cardinality(Trackers(k) \cup {rk}) = IF rk \in Trackers(k) THEN T ELSE T + 1
        /\ Cardinality(Trackers(k) \ {rk}) = IF rk \in Trackers(k) THEN T - 1 ELSE T
    BY <2>3, FS_AddElement, FS_RemoveElement
  <2>5. U = IF k \in desired THEN Cardinality(Trackers(k) \cup {rk})
                             ELSE Cardinality(Trackers(k) \ {rk})
    BY <2>2
  <2> QED BY <2>4, <2>5, <1>2, <1>3
<1> HIDE DEF uses, gone, keys, desired, old, T, U
<1>13. refCount'[k] \in Nat /\ refCount'[k] >= U
  <2>1. CASE k \in gone
    BY <2>1, <1>2, <1>4, <1>6, <1>8, <1>10, <1>11, <1>12
  <2>2. CASE k \notin gone /\ k \in old \ desired
    BY <2>2, <1>2, <1>4, <1>6, <1>8, <1>10, <1>11, <1>12
  <2>3. CASE k \notin old \ desired
    <3>1. refCount'[k] = Counted(old, keys, Len(c), k)
      BY <2>3, <1>6, <1>8
    <3> QED BY <2>3, <3>1, <1>2, <1>4, <1>5, <1>9, <1>11, <1>12
  <2> QED BY <2>1, <2>2, <2>3
<1>14. InCache(k)' /\ InCache(k) => lim'[k] = lim[k]
  <2> SUFFICES ASSUME InCache(k)', InCache(k) PROVE lim'[k] = lim[k]
    OBVIOUS
  <2>1. k \notin gone
    BY <1>6, <1>10
  <2> QED BY <2>1, <1>7 DEF LimiterFor
<1>15. InCache(k)' /\ ~InCache(k) => k \in desired
  <2> SUFFICES ASSUME InCache(k)', ~InCache(k), k \notin desired PROVE FALSE
    OBVIOUS
  <2>1. refCount'[k] = refCount[k]
    BY <1>2, <1>5, <1>6, <1>8, <1>9
  <2> QED BY <2>1, <1>10
<1>16. /\ k \in desired => lim'[k] = LimiterFor(p, k)
       /\ k \notin desired => lim'[k] \in {AbsentLimiter, lim[k]}
  BY <1>7, <1>8
<1>17. k \in gone => InCache(k) /\ ~InCache(k)'
  BY <1>6, <1>8, <1>10
<1> QED BY <1>13, <1>14, <1>15, <1>16, <1>17 DEF desired, old, gone, U

\* The limiter a successful build gives to a quota is a limiter, new or open.
LEMMA BuildLimiter ==
    ASSUME CacheInv, NEW o \in Owners, NEW p \in Params, NEW c \in Configs,
           GetPolicy(o, p, c), NEW k \in Wanted(o, p, c)
    PROVE  /\ k \in QuotaKeys
           /\ LimiterFor(p, k) \in Limiters
           /\ LimiterFor(p, k).key = k
           /\ ~InCache(k) => LimiterFor(p, k).made = builds + 1
<1>1. k \in QuotaKeys
  BY KeyTypes DEF Wanted
<1>2. Creatable(p, k) /\ builds < MaxBuilds
  BY DEF GetPolicy, Wanted
<1>3. CASE InCache(k)
  BY <1>1, <1>3 DEF CacheInv, CacheOpen, LimiterFor
<1>4. CASE ~InCache(k)
  <2>1. p \in Known
    BY <1>2, <1>4 DEF Creatable
  <2>2. builds + 1 \in 1..MaxBuilds
    BY <1>2, LimiterCacheAssumption DEF CacheInv, TypeOK
  <2>3. LimiterFor(p, k) = [key |-> k, made |-> builds + 1, params |-> p]
    BY <1>4 DEF LimiterFor
  <2> QED BY <1>1, <2>1, <2>2, <2>3 DEF Limiters
<1> QED BY <1>3, <1>4

LEMMA BuildType ==
    ASSUME CacheInv, NEW o \in Owners, NEW p \in Params, NEW c \in Configs,
           GetPolicy(o, p, c)
    PROVE  TypeOK'
<1>0. TypeOK
  BY DEF CacheInv
<1>1. c \in Seq(Quotas) /\ DOMAIN c = 1..Len(c) /\ Len(c) \in Nat
  BY KeyTypes
<1>2. \A i \in 1..Len(c) : KeysOf(o, p, c)[i] \in Wanted(o, p, c)
  BY <1>1 DEF Wanted
<1>3. refCount' \in [QuotaKeys -> Nat]
  <2>1. refCount' = [k \in QuotaKeys |-> refCount'[k]]
    BY DEF GetPolicy
  <2> QED BY <2>1, BuildShape
<1>4. lim' \in [QuotaKeys -> Limiters \cup {AbsentLimiter}]
  <2>1. lim' = [k \in QuotaKeys |-> lim'[k]]
    BY DEF GetPolicy
  <2>2. ASSUME NEW k \in QuotaKeys PROVE lim'[k] \in Limiters \cup {AbsentLimiter}
    <3>1. CASE k \in Wanted(o, p, c)
      BY <3>1, BuildShape, BuildLimiter
    <3>2. CASE k \notin Wanted(o, p, c)
      <4>1. lim'[k] \in {AbsentLimiter, lim[k]}
        BY <3>2, BuildShape
      <4>2. lim[k] \in Limiters \cup {AbsentLimiter}
        BY <1>0 DEF TypeOK
      <4> QED BY <4>1, <4>2
    <3> QED BY <3>1, <3>2
  <2> QED BY <2>1, <2>2
<1>5. buckets' \in [ReconcileKeys -> SUBSET QuotaKeys]
  <2>1. buckets' = [buckets EXCEPT ![ReconcileKey(o, p)] = Wanted(o, p, c)]
    BY DEF GetPolicy, Wanted
  <2>2. Wanted(o, p, c) \in SUBSET QuotaKeys
    BY BuildLimiter
  <2> QED BY <1>0, <2>1, <2>2 DEF TypeOK
<1>6. closed' \subseteq Limiters
  <2>1. closed' = closed \cup {lim[k] : k \in Dropped(Tracked(o, p), Wanted(o, p, c))}
    BY DEF GetPolicy, Wanted, Tracked
  <2>2. ASSUME NEW k \in Dropped(Tracked(o, p), Wanted(o, p, c)) PROVE lim[k] \in Limiters
    <3>1. Tracked(o, p) \subseteq QuotaKeys
      BY <1>0, KeyTypes DEF TypeOK, Tracked
    <3>2. k \in QuotaKeys /\ InCache(k)
      BY <3>1 DEF Dropped
    <3> QED BY <3>2 DEF CacheInv, CacheOpen
  <2> QED BY <1>0, <2>1, <2>2 DEF TypeOK
<1>7. built' \in [Owners -> [params : Params \cup {"none"}, config : Seq(Quotas),
                             limiters : Seq(Limiters)]]
  <2> DEFINE ls == [i \in DOMAIN c |-> LimiterFor(p, KeysOf(o, p, c)[i])]
  <2>1. ls \in Seq(Limiters)
    BY <1>1, <1>2, BuildLimiter
  <2>2. built' = [built EXCEPT ![o] = [params |-> p, config |-> c, limiters |-> ls]]
    BY DEF GetPolicy
  <2> HIDE DEF ls
  <2> QED BY <1>0, <1>1, <2>1, <2>2 DEF TypeOK
<1>8. builds' \in 0..MaxBuilds
  BY <1>0, LimiterCacheAssumption DEF TypeOK, GetPolicy
<1> QED BY <1>3, <1>4, <1>5, <1>6, <1>7, <1>8 DEF TypeOK

LEMMA BuildOpen ==
    ASSUME CacheInv, NEW o \in Owners, NEW p \in Params, NEW c \in Configs,
           GetPolicy(o, p, c)
    PROVE  CacheOpen'
<1> DEFINE gone == Dropped(Tracked(o, p), Wanted(o, p, c))
<1>0. TypeOK /\ CacheOpen /\ builds \in Nat
  BY LimiterCacheAssumption DEF CacheInv, TypeOK
<1>1. closed' = closed \cup {lim[k] : k \in gone} /\ builds' = builds + 1
  BY DEF GetPolicy, Wanted, Tracked
<1>2. ASSUME NEW k \in gone
      PROVE  k \in QuotaKeys /\ InCache(k) /\ ~InCache(k)'
  <2>1. Tracked(o, p) \subseteq QuotaKeys
    BY <1>0, KeyTypes DEF TypeOK, Tracked
  <2>2. k \in QuotaKeys
    BY <2>1 DEF Dropped
  <2> QED BY <2>2, BuildShape
<1>3. \A k \in gone : lim[k].key = k /\ lim[k].made <= builds /\ lim[k].made \in Nat
  <2> TAKE k \in gone
  <2>1. lim[k] \in Limiters /\ lim[k].key = k /\ lim[k].made <= builds
    BY <1>0, <1>2 DEF CacheOpen
  <2> QED BY <2>1 DEF Limiters
<1>4. \A x \in closed : x.made <= builds /\ x.made \in Nat
  BY <1>0 DEF CacheOpen, TypeOK, Limiters
<1>5. \A x \in closed' : x.made <= builds'
  BY <1>0, <1>1, <1>3, <1>4
<1>6. ASSUME NEW k \in QuotaKeys, InCache(k)'
      PROVE  /\ lim'[k] \in Limiters /\ lim'[k].key = k /\ lim'[k].made <= builds'
             /\ lim'[k] \notin closed'
  <2>1. CASE InCache(k)
    <3>1. lim'[k] = lim[k]
      BY <1>6, <2>1, BuildShape
    <3>2. lim[k] \in Limiters /\ lim[k].key = k /\ lim[k].made <= builds /\ lim[k] \notin closed
      BY <1>0, <2>1 DEF CacheOpen
    <3>3. k \notin gone
      BY <1>2, <1>6
    <3>4. \A j \in gone : lim[j] # lim[k]
      BY <1>3, <3>2, <3>3
    <3>5. lim[k].made <= builds'
      BY <1>0, <1>1, <3>2 DEF Limiters
    <3> QED BY <1>1, <3>1, <3>2, <3>4, <3>5
  <2>2. CASE ~InCache(k)
    <3>1. k \in Wanted(o, p, c) /\ lim'[k] = LimiterFor(p, k)
      BY <1>6, <2>2, BuildShape
    <3>2. lim'[k] \in Limiters /\ lim'[k].key = k /\ lim'[k].made = builds + 1
      BY <2>2, <3>1, BuildLimiter
    <3>3. lim'[k] \notin closed'
      BY <1>0, <1>1, <1>3, <1>4, <3>2
    <3> QED BY <1>0, <1>1, <3>2, <3>3
  <2> QED BY <2>1, <2>2
<1> QED BY <1>5, <1>6 DEF CacheOpen

LEMMA BuildInv ==
    ASSUME CacheInv, NEW o \in Owners, NEW p \in Params, NEW c \in Configs,
           GetPolicy(o, p, c)
    PROVE  CacheInv'
<1>1. RefCountCovers'
  BY BuildShape DEF RefCountCovers
<1> QED BY <1>1, BuildType, BuildOpen DEF CacheInv

\* The limiter of a key that another bucket tracks stays in the cache.
LEMMA BuildKeepsOthers ==
    ASSUME CacheInv, NEW o \in Owners, NEW p \in Params, NEW c \in Configs,
           GetPolicy(o, p, c),
           NEW b \in ReconcileKeys, b # ReconcileKey(o, p), NEW k \in buckets[b]
    PROVE  k \in buckets'[b] /\ lim'[k] = lim[k]
<1>0. TypeOK /\ RefCountCovers /\ TypeOK' /\ RefCountCovers'
  BY BuildInv DEF CacheInv
<1>1. k \in QuotaKeys /\ InCache(k)
  BY <1>0, TrackedCached
<1>2. buckets'[b] = buckets[b]
  <2>1. buckets' = [buckets EXCEPT ![ReconcileKey(o, p)] = Wanted(o, p, c)]
    BY DEF GetPolicy, Wanted
  <2> QED BY <1>0, <2>1 DEF TypeOK
<1>3. InCache(k)'
  <2> DEFINE T == Trackers(k)'
  <2>1. T \in SUBSET ReconcileKeys /\ b \in T
    BY <1>2 DEF Trackers
  <2>2. IsFiniteSet(ReconcileKeys)
    BY FS_Product, LimiterCacheAssumption DEF ReconcileKeys
  <2>3. IsFiniteSet(T) /\ Cardinality(T) \in Nat
    BY <2>1, <2>2, FS_Subset, FS_CardinalityType
  <2>4. Cardinality(T) # 0
    BY <2>1, <2>3, FS_EmptySet
  <2>5. refCount'[k] >= Cardinality(T) /\ refCount'[k] \in Nat
    BY <1>0, <1>1 DEF RefCountCovers, TypeOK
  <2> HIDE DEF T
  <2> QED BY <2>3, <2>4, <2>5 DEF InCache
<1> QED BY <1>1, <1>2, <1>3, BuildShape

\* The build of instance o leaves the limiters of every other instance in the cache,
\* because the others have buckets of their own.
LEMMA BuildHolds ==
    ASSUME OwnBuckets, CacheInv, HoldsCached,
           NEW o \in Owners, NEW p \in Params, NEW c \in Configs, GetPolicy(o, p, c)
    PROVE  HoldsCached'
<1> DEFINE keys == KeysOf(o, p, c)
           ls == [i \in DOMAIN c |-> LimiterFor(p, keys[i])]
           new == [params |-> p, config |-> c, limiters |-> ls]
<1>0. TypeOK /\ TypeOK' /\ RefCountCovers' /\ DOMAIN built = Owners
  BY BuildInv DEF CacheInv, TypeOK
<1>1. built' = [built EXCEPT ![o] = new]
  BY DEF GetPolicy
<1>2. buckets' = [buckets EXCEPT ![ReconcileKey(o, p)] = Wanted(o, p, c)]
  BY DEF GetPolicy, Wanted
<1>3. ReconcileKey(o, p) \in ReconcileKeys
  BY KeyTypes
<1> SUFFICES ASSUME NEW u \in Owners
             PROVE  /\ DOMAIN built'[u].limiters = DOMAIN built'[u].config
                    /\ \A i \in DOMAIN built'[u].config :
                         /\ built'[u].params \in Params
                         /\ QuotaKey(u, built'[u].params, built'[u].config[i])
                              \in buckets'[ReconcileKey(u, built'[u].params)]
                         /\ built'[u].limiters[i]
                              = lim'[QuotaKey(u, built'[u].params, built'[u].config[i])]
  BY DEF HoldsCached
<1>4. CASE u = o
  <2>1. built'[u] = new
    BY <1>0, <1>1, <1>4
  <2>2. /\ built'[u].params = p /\ built'[u].config = c /\ built'[u].limiters = ls
    BY <2>1
  <2>3. DOMAIN ls = DOMAIN c
    OBVIOUS
  <2>4. ASSUME NEW i \in DOMAIN c
        PROVE  /\ QuotaKey(o, p, c[i]) \in buckets'[ReconcileKey(o, p)]
               /\ ls[i] = lim'[QuotaKey(o, p, c[i])]
    <3>1. keys[i] = QuotaKey(o, p, c[i]) /\ keys[i] \in QuotaKeys
      BY KeyTypes
    <3>2. keys[i] \in Wanted(o, p, c)
      BY DEF Wanted
    <3>3. buckets'[ReconcileKey(o, p)] = Wanted(o, p, c)
      BY <1>0, <1>2, <1>3 DEF TypeOK
    <3>4. lim'[keys[i]] = LimiterFor(p, keys[i])
      BY <3>1, <3>2, BuildShape
    <3> QED BY <3>1, <3>2, <3>3, <3>4
  <2> HIDE DEF ls
  <2> QED BY <1>4, <2>2, <2>3, <2>4
<1>5. CASE u # o
  <2>1. built'[u] = built[u]
    BY <1>0, <1>1, <1>5
  <2>2. DOMAIN built[u].limiters = DOMAIN built[u].config
    BY DEF HoldsCached
  <2>3. ASSUME NEW i \in DOMAIN built[u].config
        PROVE  /\ built[u].params \in Params
               /\ QuotaKey(u, built[u].params, built[u].config[i])
                    \in buckets'[ReconcileKey(u, built[u].params)]
               /\ built[u].limiters[i]
                    = lim'[QuotaKey(u, built[u].params, built[u].config[i])]
    <3> DEFINE k == QuotaKey(u, built[u].params, built[u].config[i])
               b == ReconcileKey(u, built[u].params)
    <3>1. built[u].params \in Params /\ k \in buckets[b] /\ built[u].limiters[i] = lim[k]
      BY DEF HoldsCached
    <3>2. b \in ReconcileKeys
      BY <3>1, LimiterCacheAssumption DEF ReconcileKey, ReconcileKeys
    <3>3. b # ReconcileKey(o, p)
      BY <1>5 DEF ReconcileKey, OwnBuckets
    <3> HIDE DEF k, b
    <3>4. k \in buckets'[b] /\ lim'[k] = lim[k]
      BY <3>1, <3>2, <3>3, BuildKeepsOthers
    <3> QED BY <3>1, <3>4 DEF k, b
  <2> QED BY <2>1, <2>2, <2>3
<1> QED BY <1>4, <1>5

-----------------------------------------------------------------------------
(* The other steps.                                                        *)

\* A build that fails only adds references, and only to limiters that are cached.
LEMMA FailInv ==
    ASSUME CacheInv, NEW o \in Owners, NEW p \in Params, NEW c \in Configs,
           GetPolicyFails(o, p, c)
    PROVE  CacheInv' /\ UNCHANGED <<lim, buckets, closed, built>>
<1> DEFINE keys == KeysOf(o, p, c)
           old == Tracked(o, p)
<1>0. TypeOK /\ RefCountCovers /\ CacheOpen /\ builds \in Nat
  BY LimiterCacheAssumption DEF CacheInv, TypeOK
<1>1. Len(c) \in Nat /\ ReconcileKey(o, p) \in ReconcileKeys
  BY KeyTypes
<1>2. PICK n \in 0..(Len(c) - 1) :
             /\ ~Creatable(p, keys[n + 1])
             /\ \A i \in 1..n : Creatable(p, keys[i])
             /\ refCount' = [k \in QuotaKeys |-> Counted(old, keys, n, k)]
  BY DEF GetPolicyFails, Tracked
<1>3. n \in Nat
  BY <1>1, <1>2
<1>4. /\ UNCHANGED <<lim, buckets, closed, built>>
      /\ builds' = builds + 1 /\ builds < MaxBuilds
  BY DEF GetPolicyFails
<1>5. \A i \in 1..n : InCache(keys[i])
  BY <1>2 DEF Creatable
<1>6. ASSUME NEW k \in QuotaKeys
      PROVE  /\ refCount'[k] \in Nat /\ refCount'[k] >= refCount[k]
             /\ InCache(k)' => InCache(k)
  <2> DEFINE uses == Uses(keys, n, k)
  <2>1. refCount[k] \in Nat
    BY <1>0 DEF TypeOK
  <2>2. k \in old => InCache(k)
    <3> SUFFICES ASSUME k \in old PROVE InCache(k)
      OBVIOUS
    <3> QED BY <1>0, <1>1, TrackedCached DEF Tracked
  <2>3. uses \in Nat /\ (uses = 0 <=> \A i \in 1..n : keys[i] # k)
    BY <1>3, UsesType
  <2>4. uses # 0 => InCache(k)
    BY <1>5, <2>3
  <2>5. refCount'[k] = IF uses = 0 THEN refCount[k]
                       ELSE IF k \in old THEN (IF InCache(k) THEN refCount[k] ELSE 1)
                       ELSE refCount[k] + uses
    BY <1>2 DEF Counted
  <2>6. (InCache(k) <=> refCount[k] > 0) /\ (InCache(k)' <=> refCount'[k] > 0)
    BY DEF InCache
  <2> HIDE DEF uses, old, keys
  <2> QED BY <2>1, <2>2, <2>3, <2>4, <2>5, <2>6
<1>7. TypeOK'
  <2>1. refCount' \in [QuotaKeys -> Nat]
    BY <1>2, <1>6
  <2>2. builds' \in 0..MaxBuilds
    BY <1>0, <1>4, LimiterCacheAssumption
  <2> QED BY <1>0, <1>4, <2>1, <2>2 DEF TypeOK
<1>8. RefCountCovers'
  <2> SUFFICES ASSUME NEW k \in QuotaKeys
               PROVE  refCount'[k] >= Cardinality(Trackers(k))'
    BY DEF RefCountCovers
  <2>1. Trackers(k)' = Trackers(k)
    BY <1>4 DEF Trackers
  <2>2. Cardinality(Trackers(k)) \in Nat /\ refCount[k] >= Cardinality(Trackers(k))
        /\ refCount[k] \in Nat
    BY <1>0, TrackersFinite DEF RefCountCovers, TypeOK
  <2> QED BY <1>6, <2>1, <2>2
<1>9. CacheOpen'
  <2>1. ASSUME NEW k \in QuotaKeys, InCache(k)'
        PROVE  /\ lim'[k] \in Limiters /\ lim'[k].key = k /\ lim'[k].made <= builds'
               /\ lim'[k] \notin closed'
    <3>1. InCache(k)
      BY <1>6, <2>1
    <3>2. lim[k] \in Limiters /\ lim[k].key = k /\ lim[k].made <= builds /\ lim[k] \notin closed
      BY <1>0, <3>1 DEF CacheOpen
    <3>3. lim[k].made \in Nat
      BY <3>2 DEF Limiters
    <3> QED BY <1>0, <1>4, <3>2, <3>3
  <2>2. \A x \in closed' : x.made <= builds'
    BY <1>0, <1>4 DEF CacheOpen, TypeOK, Limiters
  <2> QED BY <2>1, <2>2 DEF CacheOpen
<1> QED BY <1>4, <1>7, <1>8, <1>9 DEF CacheInv

LEMMA DetachInv ==
    ASSUME CacheInv, NEW o \in Owners, Detach(o)
    PROVE  CacheInv' /\ (HoldsCached => HoldsCached')
<1>1. UNCHANGED <<refCount, lim, buckets, closed, builds>>
  BY DEF Detach
<1>2. built' = [built EXCEPT ![o] = NotBuilt]
  BY DEF Detach
<1>3. NotBuilt \in [params : Params \cup {"none"}, config : Seq(Quotas),
                    limiters : Seq(Limiters)]
  BY DEF NotBuilt
<1>4. TypeOK'
  BY <1>1, <1>2, <1>3 DEF CacheInv, TypeOK
<1>5. RefCountCovers' /\ CacheOpen'
  BY <1>1 DEF CacheInv, RefCountCovers, CacheOpen, Trackers, InCache
<1>6. ASSUME HoldsCached PROVE HoldsCached'
  <2>1. \A u \in Owners : built'[u] = IF u = o THEN NotBuilt ELSE built[u]
    BY <1>2 DEF CacheInv, TypeOK
  <2>2. NotBuilt.limiters = <<>> /\ NotBuilt.config = <<>>
    BY DEF NotBuilt
  <2>3. DOMAIN <<>> = {}
    OBVIOUS
  <2> QED BY <1>1, <1>6, <2>1, <2>2, <2>3 DEF HoldsCached
<1> QED BY <1>4, <1>5, <1>6 DEF CacheInv

LEMMA StutterInv ==
    ASSUME CacheInv, UNCHANGED vars
    PROVE  CacheInv' /\ (HoldsCached => HoldsCached')
<1>1. UNCHANGED <<refCount, lim, buckets, closed, built, builds>>
  BY DEF vars
<1> QED BY <1>1 DEF CacheInv, TypeOK, RefCountCovers, CacheOpen, HoldsCached, Trackers, InCache

-----------------------------------------------------------------------------
\* The inductive step, with and without the hypothesis on buckets.
LEMMA StepInv ==
    ASSUME CacheInv, [Next]_vars
    PROVE  CacheInv' /\ (OwnBuckets /\ HoldsCached => HoldsCached')
<1>1. ASSUME NEW o \in Owners, NEW p \in Params, NEW c \in Configs, GetPolicy(o, p, c)
      PROVE  CacheInv' /\ (OwnBuckets /\ HoldsCached => HoldsCached')
  BY <1>1, BuildInv, BuildHolds
<1>2. ASSUME NEW o \in Owners, NEW p \in Params, NEW c \in Configs,
             GetPolicyFails(o, p, c)
      PROVE  CacheInv' /\ (OwnBuckets /\ HoldsCached => HoldsCached')
  <2>1. CacheInv' /\ UNCHANGED <<lim, buckets, built>>
    BY <1>2, FailInv
  <2> QED BY <2>1 DEF HoldsCached
<1>3. ASSUME NEW o \in Owners, Detach(o)
      PROVE  CacheInv' /\ (OwnBuckets /\ HoldsCached => HoldsCached')
  BY <1>3, DetachInv
<1>4. CASE UNCHANGED vars
  BY <1>4, StutterInv
<1> QED BY <1>1, <1>2, <1>3, <1>4 DEF Next

\* In every configuration, whatever is reloaded, fails or is detached, the cache of
\* GetPolicy keeps its types and creates limiters of registered algorithms only.
THEOREM CacheTypeCorrect == Spec => []TypeOK
<1>1. Init => CacheInv
  BY InitCache
<1>2. CacheInv /\ [Next]_vars => CacheInv'
  BY StepInv
<1>3. CacheInv => TypeOK
  BY DEF CacheInv
<1> QED BY <1>1, <1>2, <1>3, PTL DEF Spec

\* The reference count GetPolicy keeps for a limiter is never below the number of
\* reconcile keys that use it, whoever shares it.
THEOREM CountsCover == Spec => []RefCountCovers
<1>1. Init => CacheInv
  BY InitCache
<1>2. CacheInv /\ [Next]_vars => CacheInv'
  BY StepInv
<1>3. CacheInv => RefCountCovers
  BY DEF CacheInv
<1> QED BY <1>1, <1>2, <1>3, PTL DEF Spec

\* With one instance per route and level, no build or reload closes a limiter that the
\* policy in force for any instance holds.
THEOREM LimitersStayOpen ==
    ASSUME OwnBuckets PROVE Spec => []LiveNotClosed
<1>1. Init => CacheInv /\ HoldsCached
  BY InitCache
<1>2. CacheInv /\ HoldsCached /\ [Next]_vars => (CacheInv /\ HoldsCached)'
  BY StepInv
<1>3. CacheInv /\ HoldsCached => LiveNotClosed
  <2> SUFFICES ASSUME CacheInv, HoldsCached,
                      NEW o \in Owners, NEW i \in DOMAIN built[o].limiters
               PROVE  built[o].limiters[i] \notin closed
    BY DEF LiveNotClosed
  <2> DEFINE k == QuotaKey(o, built[o].params, built[o].config[i])
             b == ReconcileKey(o, built[o].params)
  <2>1. built[o].params \in Params /\ k \in buckets[b] /\ built[o].limiters[i] = lim[k]
    BY DEF HoldsCached
  <2>2. b \in ReconcileKeys
    BY <2>1, LimiterCacheAssumption DEF ReconcileKey, ReconcileKeys
  <2> HIDE DEF k, b
  <2>3. k \in QuotaKeys /\ InCache(k)
    BY <2>1, <2>2, TrackedCached DEF CacheInv
  <2> QED BY <2>1, <2>3 DEF CacheInv, CacheOpen
<1> QED BY <1>1, <1>2, <1>3, PTL DEF Spec

\* With one instance per route and level, two policies in force whose quotas have the same
\* cache key share one limiter, in every configuration and after every reload.
THEOREM KeysShareLimiters ==
    ASSUME OwnBuckets PROVE Spec => []SameKeySameLimiter
<1>1. Init => CacheInv /\ HoldsCached
  BY InitCache
<1>2. CacheInv /\ HoldsCached /\ [Next]_vars => (CacheInv /\ HoldsCached)'
  BY StepInv
<1>3. HoldsCached => SameKeySameLimiter
  BY DEF HoldsCached, SameKeySameLimiter
<1> QED BY <1>1, <1>2, <1>3, PTL DEF Spec

=============================================================================
