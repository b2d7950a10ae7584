---------------------------- MODULE LimiterCache ----------------------------
(***************************************************************************)
(* The process-wide cache of rate limiters of the advanced-ratelimit       *)
(* policy: GetPolicy of ratelimit.go, which every (re)load of the gateway  *)
(* configuration calls once per attached policy, and the wrappers          *)
(* basic-ratelimit, token-based-ratelimit, llm-cost-based-ratelimit and    *)
(* mcp-ratelimit call for their delegates.                                 *)
(*                                                                         *)
(* A limiter is shared by every quota with the same cache key and counted  *)
(* by reference; the keys an instance uses are remembered under its        *)
(* reconcile key, so that the next build for that key can release the      *)
(* limiters it no longer wants.  All of it happens under                   *)
(* globalLimiterCache.mu, so a build is one step.                          *)
(***************************************************************************)
EXTENDS Integers, Sequences, FiniteSets

CONSTANTS
    Routes, ApiOf,     \* routes, and the API each belongs to
    Levels,            \* policy.Level: where a policy is attached
    Params,            \* system parameters: algorithm, backend, Redis endpoint, tuning
    Known,             \* the parameters whose algorithm is registered
    Quotas,            \* quotas as configured: name, limits and key extraction
    ApiScoped,         \* those keyed by apiname and not by routename
    Configs,           \* sequences of quotas a policy may be configured with
    Owners,            \* policy instances of the configuration
    RouteOf, LevelOf,  \* the route and the level each instance is attached to
    MaxBuilds          \* bound: calls of GetPolicy

ASSUME LimiterCacheAssumption ==
    /\ IsFiniteSet(Routes) /\ IsFiniteSet(Levels) /\ IsFiniteSet(Params)
    /\ Known \subseteq Params
    /\ ApiScoped \subseteq Quotas
    /\ Configs \subseteq Seq(Quotas)
    /\ RouteOf \in [Owners -> Routes]
    /\ LevelOf \in [Owners -> Levels]
    /\ MaxBuilds \in Nat

\* getBaseCacheKey hashes the route, its API and the system parameters; reconcileKeyFor
\* extends it with the attachment level.
ReconcileKeys == Routes \X (Params \X Levels)
ReconcileKey(o, p) == <<RouteOf[o], <<p, LevelOf[o]>>>>

\* getQuotaCacheKey: an API-scoped quota is keyed by the name of the API, any other by
\* the base key, and both by the quota itself.
QuotaKey(o, p, q) ==
    IF q \in ApiScoped THEN [scope |-> <<ApiOf[RouteOf[o]]>>, quota |-> q]
                       ELSE [scope |-> <<RouteOf[o], p>>, quota |-> q]
QuotaKeys == {QuotaKey(o, p, q) : o \in Owners, p \in Params, q \in Quotas}

VARIABLES
    refCount,   \* byQuotaKey[k].refCount; 0 for an absent entry
    lim,        \* byQuotaKey[k].lim: the build that created it and its parameters
    buckets,    \* quotaKeysByBaseKey; {} for an absent entry
    closed,     \* limiters that were closed
    built,      \* the last policy built for each instance
    builds      \* calls of GetPolicy so far

vars == <<refCount, lim, buckets, closed, built, builds>>

NoKey     == [scope |-> <<>>, quota |-> "none"]
AbsentLimiter == [key |-> NoKey, made |-> 0, params |-> "none"]
NotBuilt  == [params |-> "none", config |-> <<>>, limiters |-> <<>>]

\* The keys of config c, position by position.
KeysOf(o, p, c) == [i \in DOMAIN c |-> QuotaKey(o, p, c[i])]

\* How many of the first n quotas have key k.
Uses(keys, n, k) == Cardinality({i \in 1..n : keys[i] = k})

InCache(k) == refCount[k] > 0

\* Mutant: the error of CreateLimiter is ignored.
CreatableAlways(p, k) == TRUE

\* CreateLimiter fails for an unregistered algorithm, on the first quota not in the cache.
Creatable(p, k) == p \in Known \/ InCache(k)

-----------------------------------------------------------------------------
\* Mutant: a reference to a cached limiter is not counted.
CountedOnce(old, keys, n, k) ==
    IF InCache(k) THEN refCount[k] ELSE IF Uses(keys, n, k) = 0 THEN 0 ELSE 1

\* The reference count of k after the loop over the first n quotas: every use counts,
\* unless the previous build for the same reconcile key already counted.
Counted(old, keys, n, k) ==
    IF Uses(keys, n, k) = 0 THEN refCount[k]
    ELSE IF k \in old THEN (IF InCache(k) THEN refCount[k] ELSE 1)
    ELSE refCount[k] + Uses(keys, n, k)

\* Mutant: a stale limiter is closed while others still use it.
DroppedEagerly(old, desired) == old \ desired

\* The stale keys whose last reference goes away.
Dropped(old, desired) == {k \in old \ desired : InCache(k) /\ refCount[k] - 1 <= 0}

\* Mutant: the cached limiter is not reused.
LimiterForNew(p, k) == [key |-> k, made |-> builds + 1, params |-> p]

\* The limiter of key k after a build with parameters p: reused, or created.
LimiterFor(p, k) ==
    IF InCache(k) THEN lim[k] ELSE [key |-> k, made |-> builds + 1, params |-> p]

\* GetPolicy builds the policy of instance o with parameters p and quotas c.
GetPolicy(o, p, c) ==
    LET rk      == ReconcileKey(o, p)
        keys    == KeysOf(o, p, c)
        desired == {keys[i] : i \in DOMAIN c}
        old     == buckets[rk]
        gone    == Dropped(old, desired)
    IN  /\ builds < MaxBuilds
        /\ \A k \in desired : Creatable(p, k)
        /\ refCount' = [k \in QuotaKeys |->
              IF k \in gone THEN 0
              ELSE IF k \in old \ desired /\ InCache(k) THEN refCount[k] - 1
              ELSE Counted(old, keys, Len(c), k)]
        /\ lim' = [k \in QuotaKeys |->
              IF k \in gone THEN AbsentLimiter
              ELSE IF k \in desired THEN LimiterFor(p, k) ELSE lim[k]]
        /\ closed' = closed \cup {lim[k] : k \in gone}
        /\ buckets' = [buckets EXCEPT ![rk] = desired]
        /\ built' = [built EXCEPT ![o] = [params |-> p, config |-> c,
              limiters |-> [i \in DOMAIN c |-> LimiterFor(p, keys[i])]]]
        /\ builds' = builds + 1

\* GetPolicy fails on quota n + 1, whose limiter cannot be created: the references taken
\* for the quotas before it stay, the bucket is not updated, and no policy is returned.
GetPolicyFails(o, p, c) ==
    LET keys == KeysOf(o, p, c)
        old  == buckets[ReconcileKey(o, p)]
    IN  /\ builds < MaxBuilds
        /\ \E n \in 0..(Len(c) - 1) :
             /\ ~Creatable(p, keys[n + 1])
             /\ \A i \in 1..n : Creatable(p, keys[i])
             /\ refCount' = [k \in QuotaKeys |-> Counted(old, keys, n, k)]
        /\ builds' = builds + 1
        /\ UNCHANGED <<lim, buckets, closed, built>>

\* The instance leaves the configuration: the gateway forgets its policy, and nothing
\* tells the cache.
Detach(o) ==
    /\ built[o] # NotBuilt
    /\ built' = [built EXCEPT ![o] = NotBuilt]
    /\ UNCHANGED <<refCount, lim, buckets, closed, builds>>

Init ==
    /\ refCount = [k \in QuotaKeys |-> 0]
    /\ lim = [k \in QuotaKeys |-> AbsentLimiter]
    /\ buckets = [b \in ReconcileKeys |-> {}]
    /\ closed = {}
    /\ built = [o \in Owners |-> NotBuilt]
    /\ builds = 0

Next ==
    \E o \in Owners :
        \/ \E p \in Params, c \in Configs : GetPolicy(o, p, c) \/ GetPolicyFails(o, p, c)
        \/ Detach(o)

Spec == Init /\ [][Next]_vars

-----------------------------------------------------------------------------
(* Properties.                                                             *)

Limiters == [key : QuotaKeys, made : 1..MaxBuilds, params : Known]

\* The cache, its index and the policies keep their types; every limiter was created for
\* an algorithm that is registered.
TypeOK ==
    /\ refCount \in [QuotaKeys -> Nat]
    /\ lim \in [QuotaKeys -> Limiters \cup {AbsentLimiter}]
    /\ buckets \in [ReconcileKeys -> SUBSET QuotaKeys]
    /\ closed \subseteq Limiters
    /\ built \in [Owners -> [params : Params \cup {"none"}, config : Seq(Quotas),
                             limiters : Seq(Limiters)]]
    /\ builds \in 0..MaxBuilds

\* The buckets that count on the limiter of key k.
Trackers(k) == {b \in ReconcileKeys : k \in buckets[b]}

\* The reference count never falls below the number of buckets that use a limiter,
\* through shared keys, repeated quotas, reloads and failed builds: a count that is too
\* low closes a limiter somebody still uses.
RefCountCovers == \A k \in QuotaKeys : refCount[k] >= Cardinality(Trackers(k))

\* The policy in force for an instance never holds a limiter that the build of another
\* instance, or of a later configuration, has closed.
LiveNotClosed ==
    \A o \in Owners : \A i \in DOMAIN built[o].limiters :
        built[o].limiters[i] \notin closed

\* Cross-route sharing: two policies in force whose quotas have the same cache key count
\* against one limiter, whatever was reloaded in between.
SameKeySameLimiter ==
    \A o, u \in Owners : \A i \in DOMAIN built[o].config, j \in DOMAIN built[u].config :
        QuotaKey(o, built[o].params, built[o].config[i])
            = QuotaKey(u, built[u].params, built[u].config[j])
        => built[o].limiters[i] = built[u].limiters[j]

\* The comment of getBaseCacheKey: a reload that changes the system parameters rebuilds
\* the cached limiter instead of silently reusing the old one.
LimiterMatchesParams ==
    \A o \in Owners : \A i \in DOMAIN built[o].limiters :
        built[o].limiters[i].params = built[o].params

=============================================================================
