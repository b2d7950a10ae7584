----------------------- MODULE SubscriptionValidation -----------------------
(***************************************************************************)
(* subscription-validation: a request is admitted when its subscription    *)
(* token (from a header, else from a cookie) or else its application has   *)
(* an active subscription, within the quota of the subscription's plan.    *)
(*                                                                         *)
(* The counters are shared by every instance of the policy and evicted     *)
(* when they were not used for a while.  A request takes its time stamp    *)
(* and looks its subscription up before it waits for the mutex.  One API.  *)
(***************************************************************************)
EXTENDS Integers, Sequences, FiniteSets

CONSTANTS
    SubParams,        \* the parameters a policy may be given
    SubRequests,      \* header, cookies and application of a request
    Subscriptions,    \* the store's entries: <<kind, id>> -> plan
    WindowTicks,      \* ticks of a "min", an "hour", a "day" and a "month"
    EvictionTTL,      \* rateLimitEvictionTTL, in ticks
    LockLag,          \* bound: ticks between the stamp and the mutex
    SubCallers,       \* requests that may be in the policy at one time
    MaxSubRequests,   \* bound: requests
    MaxInactive,      \* bound: subscriptions inactive at one time
    SubHorizon        \* bound: the clock

\* Waiting for the mutex takes less than half the eviction TTL (an hour).
ASSUME SubscriptionAssumption ==
    /\ \A s \in DOMAIN Subscriptions : Subscriptions[s].limit \in Int
    /\ \A unit \in DOMAIN WindowTicks : WindowTicks[unit] \in Nat
    /\ EvictionTTL \in Nat \ {0} /\ LockLag \in Nat /\ 2 * LockLag <= EvictionTTL + 1
    /\ MaxSubRequests \in Nat /\ MaxInactive \in Nat /\ SubHorizon \in Nat

VARIABLES
    subConfig,   \* the policy's header and cookie names; "" disables the cookie
    active,      \* the store: the subscriptions that are active
    rateLimits,  \* id -> window start, count and last use
    subClock,    \* time.Now()
    waiting,     \* per caller: the request between its lookup and its verdict
    subCount,    \* requests so far
    stamps,      \* history: per id, its admissions <<stamp, number among those of that stamp>>
    evictions    \* history: per id, the counters evicted

subVars == <<subConfig, active, rateLimits, subClock, waiting, subCount, stamps, evictions>>

Ids == {s[2] : s \in DOMAIN Subscriptions}
NoConfig == [header |-> "none", cookie |-> "none"]
Idle == [busy |-> FALSE, by |-> "none", id |-> "none", stamp |-> 0]

-----------------------------------------------------------------------------
\* mergeConfig: without a usable name the header keeps its default, and the cookie stays
\* disabled, as its default name is empty.
mergeConfig(params) ==
    [header |-> IF params.header \in {"absent", "blank", "bad"} THEN "Subscription-Key" ELSE params.header,
     cookie |-> IF params.cookie \in {"absent", "blank", "bad"} THEN "" ELSE params.cookie]

\* windowDuration: an unknown unit has no window.
windowDuration(unit) == IF unit \in DOMAIN WindowTicks THEN WindowTicks[unit] ELSE 0

\* getCookieValue: the first cookie of that name; "" when there is none.
getCookieValue(cookies, name) ==
    LET found == SelectSeq(cookies, LAMBDA c : c.name = name)
    IN  IF found = <<>> THEN "" ELSE found[1].value

\* The identity a request is checked under: header, then cookie, then application.
Identity(r) ==
    LET token == IF subConfig.header \in DOMAIN r.headers THEN r.headers[subConfig.header] ELSE ""
        cookie == IF subConfig.cookie = "" THEN "" ELSE getCookieValue(r.cookies, subConfig.cookie)
    IN  CASE token # ""                   -> [by |-> "header", id |-> token]
          [] token = "" /\ cookie # ""    -> [by |-> "cookie", id |-> cookie]
          [] token = "" /\ cookie = "" /\ r.app # "" -> [by |-> "application", id |-> r.app]
          [] OTHER                        -> [by |-> "none", id |-> ""]

\* Which entry of the store: IsActiveByApplication or IsActiveByToken.
Entry(who) == <<IF who.by = "application" THEN "application" ELSE "token", who.id>>
Plan(who) == Subscriptions[Entry(who)]

-----------------------------------------------------------------------------
SubGetPolicy ==
    /\ subConfig = NoConfig
    /\ \E params \in SubParams : subConfig' = mergeConfig(params)
    /\ UNCHANGED <<active, rateLimits, subClock, waiting, subCount, stamps, evictions>>

\* OnRequestHeaders up to the mutex.  A missing API id, store or identity, and an
\* inactive subscription, end here with 403.  Callers are alike: the first idle one.
Lookup(c) ==
    /\ subConfig # NoConfig /\ subCount < MaxSubRequests
    /\ ~waiting[c].busy /\ c = CHOOSE d \in SubCallers : ~waiting[d].busy
    /\ subCount' = subCount + 1
    /\ \E r \in SubRequests :
          LET who == Identity(r)
              found == r.apiKnown /\ who.by # "none" /\ Entry(who) \in active
              counted == found /\ Plan(who).limit > 0 /\ windowDuration(Plan(who).unit) > 0
          IN  /\ waiting' = [waiting EXCEPT ![c] =
                    IF counted THEN [busy |-> TRUE, by |-> who.by, id |-> who.id, stamp |-> subClock]
                    ELSE Idle]
    /\ UNCHANGED <<subConfig, active, rateLimits, subClock, stamps, evictions>>

\* Mutant: the counter starts again with every tick.
NewWindowEarly(id, stamp, window) ==
    id \notin DOMAIN rateLimits \/ stamp - rateLimits[id].windowStart >= 1

\* No counter, or its window ran out.
NewWindow(id, stamp, window) ==
    id \notin DOMAIN rateLimits \/ stamp - rateLimits[id].windowStart >= window

SetCounter(id, entry) ==
    rateLimits' = [k \in DOMAIN rateLimits \union {id} |-> IF k = id THEN entry ELSE rateLimits[k]]

\* The next admission of an id with this stamp.
Admission(id, stamp) == <<stamp, Cardinality({a \in stamps[id] : a[1] = stamp})>>

\* checkRateLimit, under the mutex, and the rest of OnRequestHeaders.  The stamp may
\* be older than the window another request has opened meanwhile.
checkRateLimit(c) ==
    LET w == waiting[c]
        plan == Plan(w)
        opens == NewWindow(w.id, w.stamp, windowDuration(plan.unit))
        count == IF opens THEN 1 ELSE rateLimits[w.id].count + 1
        admit == opens \/ count <= plan.limit \/ ~plan.stop
    IN  /\ w.busy
        /\ SetCounter(w.id, [windowStart |-> IF opens THEN w.stamp ELSE rateLimits[w.id].windowStart,
                             count |-> count, lastSeen |-> w.stamp])
        /\ waiting' = [waiting EXCEPT ![c] = Idle]
        /\ stamps' = IF admit THEN [stamps EXCEPT ![w.id] = @ \union {Admission(w.id, w.stamp)}] ELSE stamps
        /\ UNCHANGED <<subConfig, active, subClock, subCount, evictions>>

\* Not used since the cutoff.
Stale(id) == rateLimits[id].lastSeen < subClock - EvictionTTL

\* runRateLimitCleaner: one pass over the map, under the mutex.
runRateLimitCleaner ==
    LET stale == {id \in DOMAIN rateLimits : Stale(id)}
    IN  /\ stale # {}
        /\ rateLimits' = [id \in DOMAIN rateLimits \ stale |-> rateLimits[id]]
        /\ evictions' = [id \in Ids |-> evictions[id] + (IF id \in stale THEN 1 ELSE 0)]
        /\ UNCHANGED <<subConfig, active, subClock, waiting, subCount, stamps>>

\* The control plane changes the store (outside the policy).
ChangeSubscription ==
    /\ subConfig # NoConfig
    /\ \E s \in DOMAIN Subscriptions :
          active' = IF s \in active THEN active \ {s} ELSE active \union {s}
    /\ Cardinality(DOMAIN Subscriptions \ active') <= MaxInactive
    /\ UNCHANGED <<subConfig, rateLimits, subClock, waiting, subCount, stamps, evictions>>

SubTick ==
    /\ subConfig # NoConfig /\ subClock < SubHorizon
    /\ \A c \in SubCallers : waiting[c].busy => subClock < waiting[c].stamp + LockLag
    /\ subClock' = subClock + 1
    /\ UNCHANGED <<subConfig, active, rateLimits, waiting, subCount, stamps, evictions>>

SubInit ==
    /\ subConfig = NoConfig /\ active = DOMAIN Subscriptions
    /\ rateLimits = << >> /\ subClock = 0 /\ subCount = 0
    /\ waiting = [c \in SubCallers |-> Idle]
    /\ stamps = [id \in Ids |-> {}]
    /\ evictions = [id \in Ids |-> 0]

SubNext ==
    \/ SubGetPolicy
    \/ \E c \in SubCallers : Lookup(c) \/ checkRateLimit(c)
    \/ runRateLimitCleaner
    \/ ChangeSubscription
    \/ SubTick

-----------------------------------------------------------------------------
\* The admissions with stamps x to y.
Within(admissions, x, y) == {a \in admissions : a[1] \in x..y}

\* The subscriptions of this identity (a token may be the id of an application, and then
\* the two share a counter) agree on one plan, and the plan stops at its quota.
OnePlan(s) ==
    LET plan == Subscriptions[s]
    IN  /\ plan.stop /\ plan.limit > 0 /\ windowDuration(plan.unit) > 0
        /\ \A r \in DOMAIN Subscriptions : r[2] = s[2] => Subscriptions[r] = plan

\* The evictions that may each cost another quota: none where a counter is always kept
\* until its window has run out for every request that still waits.
Lost(s) ==
    IF windowDuration(Subscriptions[s].unit) + 2 * LockLag <= EvictionTTL + 1 THEN 0
    ELSE evictions[s[2]]

\* A plan that stops at its quota (checkRateLimit) admits at most two quotas in any span
\* as long as its window less the wait for the mutex (the end of one fixed window and the
\* start of the next), however requests overlap and the cleaner runs in between; every
\* eviction of an unused counter may add one more, which can only happen to windows
\* longer than the eviction TTL.
SubscriptionQuota ==
    \A s \in DOMAIN Subscriptions :
        OnePlan(s) =>
            LET plan == Subscriptions[s]
                span == windowDuration(plan.unit) - LockLag
            IN  \A a \in stamps[s[2]] :
                    Cardinality(Within(stamps[s[2]], a[1], a[1] + span)) <= plan.limit * (2 + Lost(s))
=============================================================================
