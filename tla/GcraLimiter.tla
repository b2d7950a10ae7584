---------------------------- MODULE GcraLimiter ----------------------------
(***************************************************************************)
(* The GCRA limiters of advanced-ratelimit: memory.go, redis.go with       *)
(* gcra.lua, and multi.go, which asks several of them one after the other. *)
(*                                                                         *)
(* A limiter keeps one time per key, the theoretical arrival time (TAT),   *)
(* and lets its entry expire.  Time is counted in ticks; Redis expires its *)
(* entries after whole seconds.  One key; the calls of two requests        *)
(* interleave between the limiters of a multi limiter.                     *)
(***************************************************************************)
EXTENDS Integers, Sequences, FiniteSets, FiniteSetsExt

CONSTANTS
    GcraConfigs,     \* limiter.Config: backend, whether it has a client, limits
    GcraCalls,       \* the requests that may be in the limiter at one time
    GcraCosts,       \* costs
    TicksPerSecond,
    GcraHorizon,     \* bound: the clock, in ticks
    MaxGcraCalls     \* bound: calls

ASSUME GcraAssumption == TicksPerSecond \in Nat \ {0} /\ GcraHorizon \in Nat /\ MaxGcraCalls \in Nat

\* A limit is at least 1 (policy-definition.yaml), a burst of 0 stands for the limit, and
\* there is at least one tick per request: a limit of more than one request per
\* nanosecond has no emission interval.
GcraLimits == {l \in [limit : Nat \ {0}, duration : Nat, burst : Nat] : l.duration >= l.limit}
ASSUME GcraConfigAssumption ==
    /\ \A config \in GcraConfigs : config.backend \in {"memory", "redis"} /\ config.limits \in Seq(GcraLimits)
    /\ GcraCosts \subseteq Int

VARIABLES
    gcra,       \* the limiter: backend, policies, whether it was closed
    tats,       \* per policy, the stored entry: TAT and expiration
    tick,       \* clock.Now()
    calls,      \* the calls under way: operation, cost, next policy, most restrictive result
    gcraCount,  \* calls so far
    ideal,      \* history: the TAT of a limiter whose entries never expire
    granted,    \* history: per policy, the cost AllowN and ConsumeOrClampN were granted
    misjudged   \* history: whether a verdict contradicted the results it was made of

gcraVars == <<gcra, tats, tick, calls, gcraCount, ideal, granted, misjudged>>

NoLimiter == [backend |-> "none", policies |-> <<>>, closed |-> FALSE]
NoEntry == [tat |-> 0, expiration |-> 0]
NoCall == [op |-> "none", n |-> 0, at |-> 0, allowed |-> TRUE, remaining |-> 0, denied |-> FALSE]

-----------------------------------------------------------------------------
\* Policies (policy.go, gcra.go).

convertLimits(limits) ==
    [i \in DOMAIN limits |->
        [limit |-> limits[i].limit, duration |-> limits[i].duration,
         burst |-> IF limits[i].burst = 0 THEN limits[i].limit ELSE limits[i].burst]]

EmissionInterval(p) == p.duration \div p.limit
BurstAllowance(p) == IF p.burst <= 1 THEN 0 ELSE EmissionInterval(p) * (p.burst - 1)

CeilDiv(a, b) == (a + b - 1) \div b

\* calculateRemaining and calculateRemainingGCRA.
calculateRemaining(tat, p) ==
    IF tat <= tick THEN p.burst
    ELSE IF tat - tick > BurstAllowance(p) THEN 0
    ELSE Max({p.burst - CeilDiv(tat - tick, EmissionInterval(p)), 0})

\* The TAT every operation starts from.
StartTat(e) == IF tick < e.expiration THEN Max({e.tat, tick}) ELSE tick

Result(allowed, consumed, p, tat, e) ==
    [ok |-> TRUE, allowed |-> allowed, consumed |-> consumed,
     remaining |-> calculateRemaining(tat, p), entry |-> e]

-----------------------------------------------------------------------------
\* memory.go: each operation holds the mutex.

BaseExpiration(p) == p.duration + BurstAllowance(p)

\* Mutant: what remains is not compared with the cost.
AllowedTimely(tat, p, n) == tick >= tat - BurstAllowance(p)

\* Not too early, and room for the whole cost.
Allowed(tat, p, n) == tick >= tat - BurstAllowance(p) /\ n <= calculateRemaining(tat, p)

\* AllowN: all or nothing; a cost of 0 stores nothing.
MemoryAllowN(e, p, n) ==
    LET tat == StartTat(e)
        new == tat + EmissionInterval(p) * n
    IN  IF ~Allowed(tat, p, n) THEN Result(FALSE, 0, p, tat, e)
        ELSE Result(TRUE, n, p, new,
                    IF n > 0 THEN [tat |-> new, expiration |-> tick + BaseExpiration(p)] ELSE e)

\* ConsumeOrClampN: as much of the cost as there is room for.
MemoryConsumeOrClampN(e, p, cost) ==
    LET n == Max({cost, 0})
        tat == StartTat(e)
        room == IF tick < tat - BurstAllowance(p) THEN 0 ELSE calculateRemaining(tat, p)
        consumed == Min({n, room})
        new == tat + EmissionInterval(p) * consumed
    IN  Result(consumed = n, consumed, p, new,
               IF consumed > 0 THEN [tat |-> new, expiration |-> tick + BaseExpiration(p)] ELSE e)

\* Mutant: a forced cost expires with the window.
MemoryConsumeNBase(e, p, cost) ==
    LET n == Max({cost, 0})
        tat == StartTat(e)
        new == tat + EmissionInterval(p) * n
    IN  Result(Allowed(tat, p, n), n, p, new,
               IF n > 0 THEN [tat |-> new, expiration |-> tick + BaseExpiration(p)] ELSE e)

\* ConsumeN: the whole cost; the entry is kept for as long as the debt lasts.
MemoryConsumeN(e, p, cost) ==
    LET n == Max({cost, 0})
        tat == StartTat(e)
        new == tat + EmissionInterval(p) * n
    IN  Result(Allowed(tat, p, n), n, p, new,
               IF n > 0 THEN [tat |-> new, expiration |-> tick + Max({BaseExpiration(p), new - tick})]
                        ELSE e)

\* GetAvailable: unlike the others it still reads the entry at its expiration.
MemoryGetAvailable(e, p) ==
    IF tick > e.expiration THEN p.burst ELSE calculateRemaining(e.tat, p)

-----------------------------------------------------------------------------
\* redis.go and gcra.lua: the script is atomic; SET ... EX takes whole seconds.

ExpirationSeconds(p) == BaseExpiration(p) \div TicksPerSecond
ScriptFailed(e) == [ok |-> FALSE, allowed |-> FALSE, consumed |-> 0, remaining |-> 0, entry |-> e]

\* SET with EX 0 is refused by Redis, and so is the script.
SetScript(allowed, consumed, p, tat, e, seconds) ==
    IF consumed = 0 THEN Result(allowed, 0, p, tat, e)
    ELSE IF seconds = 0 THEN ScriptFailed(e)
    ELSE Result(allowed, consumed, p, tat, [tat |-> tat, expiration |-> tick + seconds * TicksPerSecond])

\* The capacity the script compares with: not reduced when the debt exceeds the allowance.
ScriptRemaining(tat, p) ==
    IF tat - tick > BurstAllowance(p) THEN p.burst ELSE calculateRemaining(tat, p)

runScript(e, p, cost, clamp, force) ==
    LET n == Max({cost, 0})
        tat == StartTat(e)
        timely == tick >= tat - BurstAllowance(p)
        room == ScriptRemaining(tat, p)
        consumed == IF force \/ n <= room THEN n ELSE IF clamp THEN room ELSE 0
        new == tat + EmissionInterval(p) * consumed
    IN  IF force
        THEN SetScript(timely /\ n <= room, n, p, new, e,
                       Max({ExpirationSeconds(p), CeilDiv(new - tick, TicksPerSecond)}))
        ELSE IF timely THEN SetScript(consumed = n, consumed, p, new, e, ExpirationSeconds(p))
        ELSE Result(FALSE, 0, p, tat, e)

\* GetAvailable: GET finds nothing once the entry expired.  A failed GET, or an entry
\* that is not a number, which the script never writes, gives an error and no number.
RedisGetAvailable(e, p) ==
    IF tick >= e.expiration THEN p.burst ELSE calculateRemaining(e.tat, p)

-----------------------------------------------------------------------------
Policy(i) == gcra.policies[i]
LimiterResult(c) ==
    LET i == calls[c].at
        n == calls[c].n
        e == tats[i]
        p == Policy(i)
    IN  IF gcra.backend = "redis"
        THEN IF gcra.closed THEN ScriptFailed(e)
             ELSE runScript(e, p, n, calls[c].op = "clamp", calls[c].op = "force")
        ELSE CASE calls[c].op = "allow" -> MemoryAllowN(e, p, n)
               [] calls[c].op = "clamp" -> MemoryConsumeOrClampN(e, p, n)
               [] OTHER                 -> MemoryConsumeN(e, p, n)

\* GetAvailable of the multi limiter: the least of them.
GetAvailable ==
    Min({IF gcra.backend = "redis" THEN RedisGetAvailable(tats[i], Policy(i))
                                   ELSE MemoryGetAvailable(tats[i], Policy(i)) : i \in DOMAIN tats})

\* NewLimiter: limits are required, and a client for the Redis backend.
NewLimiter ==
    \E config \in GcraConfigs :
       LET usable == config.limits # <<>> /\ (config.backend = "redis" => config.client)
           policies == convertLimits(config.limits)
       IN  /\ gcra.backend = "none"
           /\ gcra' = IF usable THEN [backend |-> config.backend, policies |-> policies, closed |-> FALSE]
                      ELSE [NoLimiter EXCEPT !.backend = "error"]
           /\ tats' = IF usable THEN [i \in DOMAIN policies |-> NoEntry] ELSE <<>>
           /\ ideal' = [i \in DOMAIN tats' |-> 0]
           /\ granted' = [i \in DOMAIN tats' |-> 0]
           /\ UNCHANGED <<tick, calls, gcraCount, misjudged>>

Serving == gcra.backend \in {"memory", "redis"}

\* A call begins; calls are alike, so it is the first of those not under way.
Begin(c) ==
    /\ Serving /\ gcraCount < MaxGcraCalls
    /\ calls[c].op = "none" /\ c = CHOOSE d \in GcraCalls : calls[d].op = "none"
    /\ \E op \in {"allow", "clamp", "force"}, n \in GcraCosts :
          calls' = [calls EXCEPT ![c] = [NoCall EXCEPT !.op = op, !.n = n, !.at = 1]]
    /\ gcraCount' = gcraCount + 1
    /\ UNCHANGED <<gcra, tats, tick, ideal, granted, misjudged>>

\* Mutant: the last result wins.
MoreRestrictiveLast(call, r) ==
    [call EXCEPT !.allowed = r.allowed, !.remaining = r.remaining, !.denied = @ \/ ~r.allowed]

\* The most restrictive result so far: the last denial, or the fewest remaining.
MoreRestrictive(call, r) ==
    IF call.at = 1 \/ ~r.allowed \/ r.remaining < call.remaining
    THEN [call EXCEPT !.allowed = r.allowed, !.remaining = r.remaining, !.denied = @ \/ ~r.allowed]
    ELSE [call EXCEPT !.denied = @ \/ ~r.allowed]

\* AllowN of the multi limiter stops at the first denial, and every operation at
\* the first error; the policies already asked stay charged.
EndsAt(c, r) == ~r.ok \/ (calls[c].op = "allow" /\ ~r.allowed) \/ calls[c].at = Len(gcra.policies)

\* What the policy granted, whether or not the others agree and the answer arrives.
Granted(c, r) ==
    IF calls[c].op = "force" THEN granted
    ELSE [granted EXCEPT ![calls[c].at] = @ + Max({r.consumed, 0})]

\* Ask the next policy.  (r is bound by \E so that TLC evaluates it once.)
AskLimiter(c) ==
    /\ calls[c].op # "none"
    /\ \E i \in {calls[c].at}, r \in {LimiterResult(c)} : \E call \in {MoreRestrictive(calls[c], r)} :
           /\ tats' = [tats EXCEPT ![i] = r.entry]
           /\ ideal' = [ideal EXCEPT ![i] = IF r.consumed > 0
                            THEN Max({@, tick}) + EmissionInterval(Policy(i)) * r.consumed ELSE @]
           /\ granted' = Granted(c, r)
           /\ calls' = [calls EXCEPT ![c] = IF EndsAt(c, r) THEN NoCall ELSE [call EXCEPT !.at = i + 1]]
           /\ misjudged' = (misjudged \/ (EndsAt(c, r) /\ r.ok /\ call.allowed = call.denied))
           /\ UNCHANGED <<gcra, tick, gcraCount>>

\* The script ran but its answer is lost, or it could not be run at all.
RedisError(c) ==
    /\ calls[c].op # "none" /\ gcra.backend = "redis" /\ ~gcra.closed
    /\ \E i \in {calls[c].at}, r \in {LimiterResult(c)}, ran \in BOOLEAN :
              IF ran
              THEN /\ tats' = [tats EXCEPT ![i] = r.entry]
                   /\ ideal' = [ideal EXCEPT ![i] = IF r.consumed > 0
                                    THEN Max({@, tick}) + EmissionInterval(Policy(i)) * r.consumed ELSE @]
                   /\ granted' = Granted(c, r)
              ELSE UNCHANGED <<tats, ideal, granted>>
    /\ calls' = [calls EXCEPT ![c] = NoCall]
    /\ UNCHANGED <<gcra, tick, gcraCount, misjudged>>

\* removeExpired, from the cleanup loop until the limiter is closed.
removeExpired ==
    /\ gcra.backend = "memory" /\ ~gcra.closed
    /\ \E i \in DOMAIN tats : tats[i] # NoEntry /\ tick > tats[i].expiration
    /\ tats' = [i \in DOMAIN tats |-> IF tick > tats[i].expiration THEN NoEntry ELSE tats[i]]
    /\ UNCHANGED <<gcra, tick, calls, gcraCount, ideal, granted, misjudged>>

\* Close: the memory limiter stops its cleanup, the Redis one its client.  Requests
\* that hold the limiter may still be inside it.
CloseLimiter ==
    /\ Serving /\ ~gcra.closed
    /\ gcra' = [gcra EXCEPT !.closed = TRUE]
    /\ UNCHANGED <<tats, tick, calls, gcraCount, ideal, granted, misjudged>>

GcraTick ==
    /\ Serving /\ tick < GcraHorizon
    /\ tick' = tick + 1
    /\ UNCHANGED <<gcra, tats, calls, gcraCount, ideal, granted, misjudged>>

GcraInit ==
    /\ gcra = NoLimiter /\ tats = <<>> /\ tick = 1
    /\ calls = [c \in GcraCalls |-> NoCall] /\ gcraCount = 0
    /\ ideal = <<>> /\ granted = <<>> /\ misjudged = FALSE

GcraNext ==
    \/ NewLimiter
    \/ \E c \in GcraCalls : Begin(c) \/ AskLimiter(c) \/ RedisError(c)
    \/ removeExpired
    \/ CloseLimiter
    \/ GcraTick

-----------------------------------------------------------------------------
\* Whether an entry lives as long as the TATs that are granted lie ahead.  In memory it
\* always does.  Redis cuts the expiration down to whole seconds: with 3 per second and
\* a burst of 4 it keeps for 1 s a TAT that lies 1.33 s ahead.
KeepsTat(p) ==
    gcra.backend = "redis" =>
        \/ ExpirationSeconds(p) = 0
        \/ EmissionInterval(p) * p.burst <= ExpirationSeconds(p) * TicksPerSecond

\* Expiry, clean-up and the two readings of the expiration (now.Before in AllowN,
\* now.After in GetAvailable) are invisible: what the next check starts from, and what
\* GetAvailable reports, is what a limiter would see that never drops an entry.  In
\* particular a forced cost is not forgotten before it is paid back.  On Redis this
\* takes limits that leave room for the rounding.
GcraNeverForgets ==
    /\ \A i \in DOMAIN tats : KeepsTat(Policy(i)) => StartTat(tats[i]) = Max({ideal[i], tick})
    /\ (DOMAIN tats # {} /\ \A i \in DOMAIN tats : KeepsTat(Policy(i))) =>
          GetAvailable = Min({calculateRemaining(Max({ideal[i], tick}), Policy(i)) : i \in DOMAIN tats})

\* The cost a policy grants to AllowN and ConsumeOrClampN never exceeds its burst plus
\* what was emitted since, although the calls of a multi limiter interleave, stop half
\* way at a denial, lose answers and are mixed with forced costs.
GcraRateKept ==
    \A i \in DOMAIN granted :
        KeepsTat(Policy(i)) => granted[i] <= Policy(i).burst + (tick - 1) \div EmissionInterval(Policy(i))

\* The verdict of the multi limiter is a denial exactly if one of its policies denied:
\* no later, more restrictive-looking result hides it.
MultiDenialWins == ~misjudged
=============================================================================
