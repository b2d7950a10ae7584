----------------------------- MODULE LocalAsync -----------------------------
(***************************************************************************)
(* One redis-local-async fixed-window limiter of the advanced-ratelimit    *)
(* policy (algorithms/fixedwindow/redis_local_async.go) together with the  *)
(* shard worker of the flush coordinator that drives it                    *)
(* (flush_coordinator.go), its Close() drain, the Redis server behind it   *)
(* and the other replicas that count against the same Redis keys.          *)
(*                                                                         *)
(* Atomicity follows the code's locks and atomics: a request thread reads  *)
(* the clock, then decides in one stripe-lock section, then does the       *)
(* `enqueued` CAS, then markActive, each a step of its own; a flush visits *)
(* one stripe per step, executes one pipeline, and applies one result per  *)
(* step.  Time is a tick counter; a window is Duration ticks.              *)
(***************************************************************************)
EXTENDS Integers, Sequences, FiniteSets, SequencesExt

CONSTANTS
    Keys,            \* logical rate-limit keys
    Threads,         \* request goroutines calling AllowN
    NumStripes,      \* numStripes
    StripeOf,        \* stripeFor: the stripe of each key
    StripeCap,       \* stripeCap = max(1, MaxLocalEntries / numStripes)
    ScanLimit,       \* how many states the victim scan looks at (8)
    Limit,           \* policy.Limit
    Duration,        \* policy.Duration, in ticks
    Grace,           \* the minute an expired state is kept, in ticks
    Jitter,          \* upper bound of the TTL jitter, in ticks
    Costs,           \* values of n passed to AllowN
    FailOpen,        \* cfg.FailOpen
    MaxPipeline,     \* cfg.MaxPipelineCommands: budget of one snapshot
    Threshold,       \* failClosedThreshold
    MaxTime,         \* bound: the clock stops here
    MaxRequests,     \* bound: AllowN calls
    MaxOthers,       \* bound: increments by other replicas
    MaxOutages,      \* bound: Redis outages
    MayClose         \* whether Close() may be called

ASSUME LocalAsyncAssumption ==
    /\ IsFiniteSet(Keys)
    /\ NumStripes \in Nat \ {0}
    /\ StripeOf \in [Keys -> 0..(NumStripes - 1)]
    /\ StripeCap \in Nat \ {0}
    /\ ScanLimit \in Nat
    /\ Limit \in Nat
    /\ Duration \in Nat \ {0}
    /\ Grace \in Nat /\ Jitter \in Nat
    /\ Costs \subseteq Int
    /\ FailOpen \in BOOLEAN /\ MayClose \in BOOLEAN
    /\ MaxPipeline \in Nat \ {0}
    /\ Threshold \in Nat \ {0}
    /\ MaxTime \in Nat /\ MaxRequests \in Nat
    /\ MaxOthers \in Nat /\ MaxOutages \in Nat

Stripes  == 0..(NumStripes - 1)
Worker   == "worker"
Closer   == "closer"
Flushers == {Worker, Closer}

\* policy.WindowStart / WindowEnd: the time truncated to the duration.
WindowStart(t) == t - (t % Duration)
WindowEnd(w)   == w + Duration
Windows        == {WindowStart(t) : t \in 0..MaxTime}

Nobody == "nobody"                                   \* flushMu is free
Nil == [windowStart |-> -1, globalBase |-> 0, localDelta |-> 0, blocked |-> FALSE]
Fresh(w) == [Nil EXCEPT !.windowStart = w]           \* &localState{windowStart: w}

VARIABLES
    now,             \* the limiter's clock
    states,          \* s.states; Nil for an absent key
    dirty,           \* s.dirty
    evictedPending,  \* s.evictedPending of each stripe
    enqueued,        \* atomic flag
    active,          \* membership in the coordinator shard's active set
    redisDown,       \* fail-closed latch read on the hot path
    failStreak,      \* consecutive failed flushes (saturates at Threshold)
    flushCursor,     \* rotating first stripe of a snapshot
    flushMu,         \* holder of flushMu
    fl,              \* each flusher's progress through a flush
    drains,          \* flushPending calls made by Close
    req,             \* each request thread's progress through AllowN
    redis,           \* the counters of the window keys
    ttl,             \* window keys that carry a TTL
    redisUp,         \* whether an exchange with Redis completes
    issued, outages, \* progress towards the bounds
    admitted,        \* history: units admitted per key and window
    others,          \* history: units counted by other replicas
    hist             \* history: <<key, window, event>>

stripeVars == <<states, dirty, evictedPending>>
wakeVars   == <<enqueued, active>>
healthVars == <<redisDown, failStreak>>
flushVars  == <<flushCursor, flushMu, fl, drains>>
redisVars  == <<redis, ttl, redisUp, outages>>
ghostVars  == <<admitted, others, hist>>
vars == <<now, stripeVars, wakeVars, healthVars, flushVars, req, redisVars,
          issued, ghostVars>>

KeyWindows == Keys \X Windows

LocalState == [windowStart : Windows \cup {-1}, globalBase : Nat,
               localDelta : Nat, blocked : BOOLEAN]
Pending    == [key : Keys, ws : Windows, flushN : Nat, evicted : BOOLEAN]
Events     == {"created", "recreated", "dropped", "evictedInFlight",
               "lostReply", "noTTL", "expired"}

FlusherPc == {"idle", "clear", "lock", "snap", "probe", "exec", "apply", "note",
              "expire", "release", "recas", "remark", "deregister", "closed"}
FlushProgress ==
    [pc : FlusherPc, visited : 0..NumStripes, budget : 0..MaxPipeline, at : 0..MaxTime,
     batch : Seq(Pending), res : Seq(Nat \cup {-1}), more : BOOLEAN, tickErr : BOOLEAN,
     creators : SUBSET KeyWindows]
Request   == [pc : {"idle", "lock", "enqueue", "mark"}, key : Keys \cup {"none"},
              n : Nat, now : 0..MaxTime]
IdleFlush == [pc |-> "idle", visited |-> 0, budget |-> 0, at |-> 0, batch |-> <<>>,
              res |-> <<>>, more |-> FALSE, tickErr |-> FALSE, creators |-> {}]
IdleReq   == [pc |-> "idle", key |-> "none", n |-> 0, now |-> 0]

-----------------------------------------------------------------------------
(* Local state of a stripe.                                                *)

Live(S, s) == {k \in Keys : S[k] # Nil /\ StripeOf[k] = s}

\* evictExpiredLocked: fully flushed states whose window ended over Grace ago.
Expired(S, s, t) ==
    {k \in Live(S, s) : S[k].localDelta = 0 /\ t > WindowEnd(S[k].windowStart) + Grace}

\* The states the approximate-random scan of ensureCapacityLocked may settle on:
\* a fully flushed one if it meets one within ScanLimit entries, else the first.
Victims(cand) ==
    LET flushed == {k \in cand : states[k].localDelta = 0}
        owing   == cand \ flushed
    IN  IF flushed = {} \/ Cardinality(owing) >= ScanLimit THEN cand ELSE flushed

\* ensureCapacityLocked: the sets of states that may be removed before an insert,
\* the expired ones and, if that is not enough, one victim.
Removals(s, t) ==
    LET gone == Expired(states, s, t)
        rest == Live(states, s) \ gone
    IN  IF Cardinality(Live(states, s)) < StripeCap THEN {{}}
        ELSE IF Cardinality(rest) < StripeCap THEN {gone}
        ELSE {gone \cup {v} : v \in Victims(rest)}

\* redisKeyFor and the pendingFlush made from a state.
PendingOf(k, evicted) ==
    [key |-> k, ws |-> states[k].windowStart, flushN |-> states[k].localDelta,
     evicted |-> evicted]

EvictedFull(s) == Len(evictedPending[s]) >= 2 * StripeCap

\* The entries of flusher f's batch whose result is not applied yet.
Unsettled(f) ==
    IF fl[f].pc \in {"snap", "exec", "apply"}
    THEN {fl[f].batch[i] : i \in DOMAIN fl[f].batch} ELSE {}

\* The delta of k's state for window w is in the batch of a flush.
InFlight(k, w) ==
    \E f \in Flushers : \E p \in Unsettled(f) : p.key = k /\ p.ws = w /\ ~p.evicted

-----------------------------------------------------------------------------
(* The request path: AllowN.                                               *)

\* now is read before the stripe lock is taken.
AllowNEnter(t, k, n) ==
    /\ req[t].pc = "idle"
    /\ issued < MaxRequests
    /\ issued' = issued + 1
    /\ req' = [req EXCEPT ![t] = [pc |-> "lock", key |-> k, now |-> now,
                                  n |-> IF n < 0 THEN 0 ELSE n]]
    /\ UNCHANGED <<now, stripeVars, wakeVars, healthVars, flushVars, redisVars, ghostVars>>

\* The switch of AllowN on the key's state: why a request is denied, or "admit".
Verdict(st, n) ==
    CASE st.blocked                                -> "blocked"
      [] ~st.blocked /\ ~FailOpen /\ redisDown     -> "redisDown"
      [] ~st.blocked /\ (FailOpen \/ ~redisDown)
           /\ st.globalBase + st.localDelta + n > Limit -> "over"
      [] OTHER                                     -> "admit"

\* The state of the key after the verdict: deny latched or units counted.
Counted(st, verdict, n) ==
    [st EXCEPT !.blocked = IF verdict = "over" THEN TRUE ELSE @,
               !.localDelta = IF verdict = "admit" THEN @ + n ELSE @]

\* needEnqueue: the thread goes on to the CAS when there is anything to flush or probe.
AfterDecide(carried, verdict, n) ==
    [IdleReq EXCEPT !.pc = IF \/ carried # <<>>
                              \/ verdict = "redisDown"
                              \/ verdict = "admit" /\ n > 0
                           THEN "enqueue" ELSE "idle"]

\* Mutant: an evicted delta is forgotten.
CarriedForgets(s, R) == evictedPending[s]

\* What the removal of states R from stripe s leaves in evictedPending: evictLocked
\* appends the unflushed delta of the victim unless the buffer is full.
Carried(s, R) ==
    LET owing == {v \in R : states[v].localDelta > 0}
    IN  IF owing = {} \/ EvictedFull(s) THEN evictedPending[s]
        ELSE Append(evictedPending[s], PendingOf(CHOOSE v \in owing : TRUE, TRUE))

\* History of a state replaced or removed with an unflushed delta, and of a state made.
RemovalEvents(s, R) ==
    LET owing == {v \in R : states[v].localDelta > 0}
    IN  {<<v, states[v].windowStart, "dropped">> : v \in {u \in owing : EvictedFull(s)}}
        \cup {<<v, states[v].windowStart, "evictedInFlight">> :
                v \in {u \in owing : InFlight(u, states[u].windowStart)}}
CreationEvents(k, w) ==
    IF states[k].windowStart = w THEN {}
    ELSE {<<k, w, IF <<k, w, "created">> \in hist THEN "recreated" ELSE "created">>}
         \cup (IF states[k].localDelta > 0
               THEN {<<k, states[k].windowStart, "dropped">>} ELSE {})

\* The stripe-lock section of AllowN: make room, find or make the state of this
\* request's window, decide, count and mark dirty.
AllowNDecide(t) ==
    LET k == req[t].key
        n == req[t].n
        w == WindowStart(req[t].now)
        s == StripeOf[k]
        st == IF states[k].windowStart = w THEN states[k] ELSE Fresh(w)
        verdict == Verdict(st, n)
    IN  /\ req[t].pc = "lock"
        /\ \E R \in IF states[k] = Nil THEN Removals(s, req[t].now) ELSE {{}} :
             /\ states' = [j \in Keys |->
                  IF j = k THEN Counted(st, verdict, n)
                  ELSE IF j \in R THEN Nil ELSE states[j]]
             /\ dirty' = (dirty \ R) \cup (IF verdict = "admit" /\ n > 0 THEN {k} ELSE {})
             /\ evictedPending' = [evictedPending EXCEPT ![s] = Carried(s, R)]
             /\ hist' = hist \cup RemovalEvents(s, R) \cup CreationEvents(k, w)
        /\ req' = [req EXCEPT ![t] = AfterDecide(evictedPending'[s], verdict, n)]
        /\ admitted' = [admitted EXCEPT ![<<k, w>>] = @ + (IF verdict = "admit" THEN n ELSE 0)]
        /\ UNCHANGED <<now, wakeVars, healthVars, flushVars, redisVars, issued, others>>

\* r.enqueued.CompareAndSwap(false, true)
AllowNEnqueue(t) ==
    /\ req[t].pc = "enqueue"
    /\ enqueued' = TRUE
    /\ req' = [req EXCEPT ![t].pc = IF enqueued THEN "idle" ELSE "mark"]
    /\ UNCHANGED <<now, stripeVars, active, healthVars, flushVars, redisVars, issued, ghostVars>>

\* coordShard.mu is held by a worker from removing the limiter from the active set
\* until it has cleared enqueued.
ShardMuFree == fl[Worker].pc # "clear"

\* coord.markActive(r)
AllowNMarkActive(t) ==
    /\ req[t].pc = "mark"
    /\ ShardMuFree
    /\ active' = TRUE
    /\ req' = [req EXCEPT ![t].pc = "idle"]
    /\ UNCHANGED <<now, stripeVars, enqueued, healthVars, flushVars, redisVars, issued, ghostVars>>

-----------------------------------------------------------------------------
(* A flush: phases shared by the shard worker and by Close's drain.        *)

\* Mutant: flushes of the worker and of Close are not serialised.
FlushMuIgnored == TRUE

FlushMuFree == flushMu = Nobody

\* flushMu.Lock() and the start of snapshotPendingLocked.
FlushLock(f) ==
    /\ fl[f].pc = "lock"
    /\ FlushMuFree
    /\ flushMu' = f
    /\ fl' = [fl EXCEPT ![f] = [IdleFlush EXCEPT !.pc = "snap", !.budget = MaxPipeline,
                                                 !.at = now]]
    /\ drains' = IF f = Closer THEN drains + 1 ELSE drains
    /\ UNCHANGED <<now, stripeVars, wakeVars, healthVars, flushCursor, req, redisVars,
                   issued, ghostVars>>

\* x % numStripes, for x below 2 * numStripes.
Wrap(x) == IF x < NumStripes THEN x ELSE x - NumStripes

\* How many of the evicted deltas of stripe s fit in the budget of the snapshot.
Taken(f, s) ==
    IF Len(evictedPending[s]) <= fl[f].budget THEN Len(evictedPending[s]) ELSE fl[f].budget

\* The pending entries of dirty keys, in the order the map iteration met them.
EntriesOf(order) == [i \in DOMAIN order |-> PendingOf(order[i], FALSE)]

\* One stripe of snapshotPendingLocked: evicted deltas first, then dirty keys in any
\* order while the budget lasts, then the expired states.
SnapshotStripe(f) ==
    LET s == Wrap(flushCursor + fl[f].visited)
        ev == evictedPending[s]
        take == Taken(f, s)
        left == fl[f].budget - take
        mine == {k \in dirty : StripeOf[k] = s}
    IN  /\ fl[f].pc = "snap"
        /\ fl[f].visited < NumStripes
        /\ fl[f].budget > 0
        /\ \E seen \in SUBSET mine :
             LET owing == {k \in seen : states[k].localDelta > 0} IN
             /\ Cardinality(owing) <= left
             /\ seen # mine => Cardinality(owing) = left
             /\ left = 0 => seen = {}
             /\ \E order \in SetToSeqs(owing) :
                  fl' = [fl EXCEPT ![f] = [fl[f] EXCEPT
                      !.visited = fl[f].visited + 1,
                      !.budget = left - Cardinality(owing),
                      !.batch = (fl[f].batch \o SubSeq(ev, 1, take)) \o EntriesOf(order),
                      !.more = IF take < Len(ev) \/ seen # mine THEN TRUE ELSE fl[f].more]]
             /\ dirty' = (dirty \ seen) \ Expired(states, s, fl[f].at)
        /\ states' = [k \in Keys |-> IF k \in Expired(states, s, fl[f].at) THEN Nil
                                     ELSE states[k]]
        /\ evictedPending' = [evictedPending EXCEPT ![s] = SubSeq(ev, take + 1, Len(ev))]
        /\ UNCHANGED <<now, wakeVars, healthVars, flushCursor, flushMu, drains, req,
                       redisVars, issued, ghostVars>>

\* Mutant: the cursor is not wrapped around.
NextCursorUnwrapped(c) == c + 1

NextCursor(c) == Wrap(c + 1)

\* The end of snapshotPendingLocked: all stripes seen, or the budget spent; the rotating
\* cursor moves on.
SnapshotEnd(f) ==
    /\ fl[f].pc = "snap"
    /\ fl[f].visited = NumStripes \/ fl[f].budget = 0
    /\ flushCursor' = NextCursor(flushCursor)
    /\ fl' = [fl EXCEPT ![f] = [fl[f] EXCEPT
                 !.pc = IF fl[f].batch = <<>> THEN "probe" ELSE "exec",
                 !.more = IF fl[f].visited < NumStripes THEN TRUE ELSE fl[f].more,
                 !.visited = 0, !.budget = 0, !.at = 0]]
    /\ UNCHANGED <<now, stripeVars, wakeVars, healthVars, flushMu, drains, req, redisVars,
                   issued, ghostVars>>

\* The count the INCRBY of entry p returns, or -1.
Reply(p) == IF redisUp THEN redis[<<p.key, p.ws>>] + p.flushN ELSE -1

\* One INCRBY of the pipeline of execIncrBatch reaches Redis and runs, or is not sent.
ExecCommand(f) ==
    LET p == fl[f].batch[Len(fl[f].res) + 1]
    IN  /\ fl[f].pc = "exec"
        /\ Len(fl[f].res) < Len(fl[f].batch)
        /\ redis' = IF redisUp THEN [redis EXCEPT ![<<p.key, p.ws>>] = Reply(p)] ELSE redis
        /\ fl' = [fl EXCEPT ![f].res = Append(fl[f].res, Reply(p))]
        /\ UNCHANGED <<now, stripeVars, wakeVars, healthVars, flushCursor, flushMu, drains,
                       req, ttl, redisUp, outages, issued, ghostVars>>

\* What execIncrBatch hands on of the replies res: the first m counts, then errors.
Replied(res, m) == [i \in 1..Len(res) |-> IF i <= m THEN res[i] ELSE -1]

\* The keys whose increment ran although its reply is an error.
LostReplies(f, m) ==
    {<<fl[f].batch[i].key, fl[f].batch[i].ws, "lostReply">> :
        i \in {j \in 1..Len(fl[f].batch) : j > m /\ fl[f].res[j] # -1}}

\* pipe.Exec returns.  The commands of the chunks before the first failing chunk (m of
\* them) keep their count; every later one gets the error, whether or not Redis ran it.
\* The drain issues a single chunk.
ExecEnd(f) ==
    LET res == fl[f].res
        n == Len(res)
        allRan == \A i \in 1..n : res[i] # -1
    IN  /\ fl[f].pc = "exec"
        /\ n = Len(fl[f].batch)
        /\ \E m \in 0..n :
             /\ \A i \in 1..m : res[i] # -1
             /\ m = n <=> redisUp /\ allRan
             /\ f = Closer => m \in {0, n}
             /\ fl' = [fl EXCEPT ![f] = [fl[f] EXCEPT !.pc = "apply",
                                                      !.res = Replied(res, m)]]
             /\ hist' = hist \cup LostReplies(f, m)
        /\ UNCHANGED <<now, stripeVars, wakeVars, healthVars, flushCursor, flushMu, drains,
                       req, redisVars, issued, admitted, others>>

\* What pc follows the last applied result: the worker notes the outcome before the
\* EXPIRE pipeline, the drain after it.
AfterApply(f) == IF f = Worker THEN "note" ELSE "expire"

\* Mutant: the key of a failed command is not marked dirty again.
RetriedForgets(p) == {}

\* The key to mark dirty again for failed entry p: its state still has the delta.
Retried(p) == IF ~p.evicted /\ states[p.key].windowStart = p.ws THEN {p.key} ELSE {}

\* One iteration of applyResultsLocked that found an error: keep the delta for a retry.
ApplyError(f) ==
    LET p == Head(fl[f].batch)
        s == StripeOf[p.key]
        full == EvictedFull(s)
    IN  /\ fl[f].pc = "apply"
        /\ Head(fl[f].res) = -1
        /\ fl' = [fl EXCEPT ![f] = [fl[f] EXCEPT
                    !.pc = IF Len(fl[f].batch) = 1 THEN AfterApply(f) ELSE "apply",
                    !.batch = Tail(fl[f].batch), !.res = Tail(fl[f].res),
                    !.more = TRUE, !.tickErr = TRUE]]
        /\ evictedPending' = [evictedPending EXCEPT ![s] =
                                IF p.evicted /\ ~full THEN Append(@, p) ELSE @]
        /\ dirty' = dirty \cup Retried(p)
        /\ hist' = IF p.evicted /\ full THEN hist \cup {<<p.key, p.ws, "dropped">>} ELSE hist
        /\ UNCHANGED <<now, states, wakeVars, healthVars, flushCursor, flushMu, drains, req,
                       redisVars, issued, admitted, others>>

\* Mutant: the delta is cleared, with what was admitted during the flush.
ReconciledResets(st, p, g) ==
    [st EXCEPT !.globalBase = g, !.localDelta = 0, !.blocked = IF g >= Limit THEN TRUE ELSE @]

\* Mutant: the flushed delta is not deducted.
ReconciledKeeps(st, p, g) == [st EXCEPT !.globalBase = g, !.blocked = IF g >= Limit THEN TRUE ELSE @]

\* The state of a key once the count g read back for entry p is applied to it.
Reconciled(st, p, g) ==
    LET owed == IF p.evicted THEN st.localDelta ELSE st.localDelta - p.flushN
    IN  [st EXCEPT !.globalBase = g,
                   !.localDelta = IF owed < 0 THEN 0 ELSE owed,
                   !.blocked = IF g >= Limit THEN TRUE ELSE @]

\* Mutant: only an increment by one is taken for the creation of the key.
CreatesByOne(p, g) == g = 1

\* The INCRBY of entry p created its window key.
Creates(p, g) == g = p.flushN

\* One iteration of applyResultsLocked with a count read back from Redis.
ApplyOk(f) ==
    LET p == Head(fl[f].batch)
        g == Head(fl[f].res)
        st == states[p.key]
        same == st.windowStart = p.ws
        residue == same /\ Reconciled(st, p, g).localDelta # 0
    IN  /\ fl[f].pc = "apply"
        /\ Head(fl[f].res) # -1
        /\ fl' = [fl EXCEPT ![f] = [fl[f] EXCEPT
                    !.pc = IF Len(fl[f].batch) = 1 THEN AfterApply(f) ELSE "apply",
                    !.batch = Tail(fl[f].batch), !.res = Tail(fl[f].res),
                    !.more = IF residue THEN TRUE ELSE fl[f].more,
                    !.creators = fl[f].creators
                        \cup (IF Creates(p, g) THEN {<<p.key, p.ws>>} ELSE {})]]
        /\ states' = IF same THEN [states EXCEPT ![p.key] = Reconciled(st, p, g)] ELSE states
        /\ dirty' = IF residue THEN dirty \cup {p.key} ELSE dirty
        /\ UNCHANGED <<now, evictedPending, wakeVars, healthVars, flushCursor, flushMu,
                       drains, req, redisVars, issued, ghostVars>>

\* Mutant: a success resets the streak and leaves the latch.
NotedSticks(failed) ==
    /\ failStreak' = IF ~failed THEN 0
                     ELSE IF failStreak < Threshold THEN failStreak + 1 ELSE Threshold
    /\ redisDown' = (redisDown \/ (failed /\ ~FailOpen /\ failStreak' >= Threshold))

\* noteFlushOutcomeLocked
Noted(failed) ==
    LET streak == IF ~failed THEN 0
                  ELSE IF failStreak < Threshold THEN failStreak + 1 ELSE Threshold
    IN  /\ failStreak' = streak
        /\ redisDown' = (failed /\ ~FailOpen /\ streak >= Threshold)

NoteOutcome(f) ==
    /\ fl[f].pc = "note"
    /\ Noted(fl[f].tickErr)
    /\ fl' = [fl EXCEPT ![f].pc = IF f = Worker THEN "expire" ELSE "release"]
    /\ UNCHANGED <<now, stripeVars, wakeVars, flushCursor, flushMu, drains, req, redisVars,
                   issued, ghostVars>>

\* execExpire: a TTL for every freshly created key whose jittered TTL is still positive.
\* A failed pipeline is only logged.
ExecExpire(f) ==
    LET made == fl[f].creators
        must == {kw \in made : WindowEnd(kw[2]) > now}
        may  == {kw \in made : WindowEnd(kw[2]) + Jitter > now}
    IN  /\ fl[f].pc = "expire"
        /\ \E X \in SUBSET may :
             /\ redisUp => must \subseteq X
             /\ ttl' = ttl \cup X
             /\ hist' = hist \cup {<<kw[1], kw[2], "noTTL">> : kw \in made \ X}
        /\ fl' = [fl EXCEPT ![f] = [fl[f] EXCEPT !.creators = {},
                    !.pc = IF f = Worker THEN "release" ELSE "note"]]
        /\ UNCHANGED <<now, stripeVars, wakeVars, healthVars, flushCursor, flushMu, drains,
                       req, redis, redisUp, outages, issued, admitted, others>>

\* Mutant: a limiter that is still down after the probe is not kept enqueued.
ProbeStillDownIgnored(f) == FALSE

\* probeStillDown of flushDue.
ProbeStillDown(f) == f = Worker /\ ~FailOpen /\ redisDown /\ redisDown'

\* An empty snapshot: a fail-closed limiter that is latched down pings Redis
\* (probeRedisLocked); the worker stays enqueued while the probe fails.
Probe(f) ==
    /\ fl[f].pc = "probe"
    /\ IF ~FailOpen /\ redisDown THEN Noted(~redisUp) ELSE UNCHANGED healthVars
    /\ fl' = [fl EXCEPT ![f] = [fl[f] EXCEPT
                 !.pc = "release",
                 !.more = IF ProbeStillDown(f) THEN TRUE ELSE fl[f].more]]
    /\ UNCHANGED <<now, stripeVars, wakeVars, flushCursor, flushMu, drains, req, redisVars,
                   issued, ghostVars>>

\* Mutant: flushDue does not re-enqueue a limiter with work left.
WorkerAfterIdles(more) == "idle"

WorkerAfter(more) == IF more THEN "recas" ELSE "idle"
CloserAfter(more) == IF more /\ drains <= NumStripes THEN "lock" ELSE "closed"

\* flushMu.Unlock(), then the caller's use of more: the worker re-enqueues, the drain
\* loops, at most NumStripes + 1 times (a closed drain with more left gave up).
Release(f) ==
    /\ fl[f].pc = "release"
    /\ flushMu' = Nobody
    /\ fl' = [fl EXCEPT ![f] = [IdleFlush EXCEPT
                !.pc = IF f = Worker THEN WorkerAfter(fl[f].more) ELSE CloserAfter(fl[f].more),
                !.more = IF f = Closer THEN fl[f].more ELSE FALSE]]
    /\ UNCHANGED <<now, stripeVars, wakeVars, healthVars, flushCursor, drains, req,
                   redisVars, issued, ghostVars>>

-----------------------------------------------------------------------------
(* The shard worker: tickShard and the re-enqueue of flushDue.             *)

\* A timer tick that finds no due limiter in the active set.
IdleTick ==
    /\ fl[Worker].pc = "idle"
    /\ ~active
    /\ UNCHANGED vars

\* The limiter is due: out of the active set first ...
TickTake ==
    /\ fl[Worker].pc = "idle"
    /\ active
    /\ active' = FALSE
    /\ fl' = [fl EXCEPT ![Worker].pc = "clear"]
    /\ UNCHANGED <<now, stripeVars, enqueued, healthVars, flushCursor, flushMu, drains, req,
                   redisVars, issued, ghostVars>>

\* Mutant: the enqueued flag is not cleared.
TickClearForgets ==
    /\ fl[Worker].pc = "clear"
    /\ fl' = [fl EXCEPT ![Worker].pc = "lock"]
    /\ UNCHANGED <<now, stripeVars, wakeVars, healthVars, flushCursor, flushMu, drains, req,
                   redisVars, issued, ghostVars>>

\* ... then enqueued is cleared, still under coordShard.mu and before the snapshot.
TickClear ==
    /\ fl[Worker].pc = "clear"
    /\ enqueued' = FALSE
    /\ fl' = [fl EXCEPT ![Worker].pc = "lock"]
    /\ UNCHANGED <<now, stripeVars, active, healthVars, flushCursor, flushMu, drains, req,
                   redisVars, issued, ghostVars>>

\* Re-enqueue of a limiter with work left: the CAS ...
ReenqueueCas ==
    /\ fl[Worker].pc = "recas"
    /\ enqueued' = TRUE
    /\ fl' = [fl EXCEPT ![Worker].pc = IF enqueued THEN "idle" ELSE "remark"]
    /\ UNCHANGED <<now, stripeVars, active, healthVars, flushCursor, flushMu, drains, req,
                   redisVars, issued, ghostVars>>

\* ... and the active set.
ReenqueueMark ==
    /\ fl[Worker].pc = "remark"
    /\ active' = TRUE
    /\ fl' = [fl EXCEPT ![Worker].pc = "idle"]
    /\ UNCHANGED <<now, stripeVars, enqueued, healthVars, flushCursor, flushMu, drains, req,
                   redisVars, issued, ghostVars>>

-----------------------------------------------------------------------------
(* Close: deregister, then drain.                                          *)

CloseDeregister ==
    /\ MayClose
    /\ fl[Closer].pc = "idle"
    /\ ShardMuFree
    /\ active' = FALSE
    /\ fl' = [fl EXCEPT ![Closer].pc = "deregister"]
    /\ UNCHANGED <<now, stripeVars, enqueued, healthVars, flushCursor, flushMu, drains, req,
                   redisVars, issued, ghostVars>>

CloseClear ==
    /\ fl[Closer].pc = "deregister"
    /\ enqueued' = FALSE
    /\ fl' = [fl EXCEPT ![Closer].pc = "lock"]
    /\ UNCHANGED <<now, stripeVars, active, healthVars, flushCursor, flushMu, drains, req,
                   redisVars, issued, ghostVars>>

-----------------------------------------------------------------------------
(* The surroundings: the clock, Redis and the other replicas.              *)

ClockTick ==
    /\ now < MaxTime
    /\ now' = now + 1
    /\ UNCHANGED <<stripeVars, wakeVars, healthVars, flushVars, req, redisVars, issued,
                   ghostVars>>

RedisFails ==
    /\ redisUp
    /\ outages < MaxOutages
    /\ redisUp' = FALSE
    /\ outages' = outages + 1
    /\ UNCHANGED <<now, stripeVars, wakeVars, healthVars, flushVars, req, redis, ttl,
                   issued, ghostVars>>

RedisRecovers ==
    /\ ~redisUp
    /\ redisUp' = TRUE
    /\ UNCHANGED <<now, stripeVars, wakeVars, healthVars, flushVars, req, redis, ttl, outages,
                   issued, ghostVars>>

\* Redis drops a key whose TTL, set to the end of its window plus jitter, has passed.
KeyExpires(k, w) ==
    /\ <<k, w>> \in ttl
    /\ now >= WindowEnd(w)
    /\ redis' = [redis EXCEPT ![<<k, w>>] = 0]
    /\ ttl' = ttl \ {<<k, w>>}
    /\ hist' = hist \cup {<<k, w, "expired">>}
    /\ UNCHANGED <<now, stripeVars, wakeVars, healthVars, flushVars, req, redisUp, outages,
                   issued, admitted, others>>

\* Another replica flushes one unit of the current window and, as its creator, sets the TTL.
OtherReplica(k) ==
    LET w == WindowStart(now) IN
    /\ others[<<k, w>>] < MaxOthers
    /\ redis' = [redis EXCEPT ![<<k, w>>] = @ + 1]
    /\ others' = [others EXCEPT ![<<k, w>>] = @ + 1]
    /\ ttl' = IF redis[<<k, w>>] = 0 THEN ttl \cup {<<k, w>>} ELSE ttl
    /\ UNCHANGED <<now, stripeVars, wakeVars, healthVars, flushVars, req, redisUp, outages,
                   issued, admitted, hist>>

-----------------------------------------------------------------------------
Init ==
    /\ now = 0
    /\ states = [k \in Keys |-> Nil]
    /\ dirty = {}
    /\ evictedPending = [s \in Stripes |-> <<>>]
    /\ enqueued = FALSE
    /\ active = FALSE
    /\ redisDown = FALSE
    /\ failStreak = 0
    /\ flushCursor = 0
    /\ flushMu = Nobody
    /\ fl = [f \in Flushers |-> IdleFlush]
    /\ drains = 0
    /\ req = [t \in Threads |-> IdleReq]
    /\ redis = [kw \in KeyWindows |-> 0]
    /\ ttl = {}
    /\ redisUp = TRUE
    /\ issued = 0
    /\ outages = 0
    /\ admitted = [kw \in KeyWindows |-> 0]
    /\ others = [kw \in KeyWindows |-> 0]
    /\ hist = {}

AllowN(t) ==
    \/ AllowNDecide(t)
    \/ AllowNEnqueue(t)
    \/ AllowNMarkActive(t)

Flush(f) ==
    \/ FlushLock(f) \/ SnapshotStripe(f) \/ SnapshotEnd(f)
    \/ ExecCommand(f) \/ ExecEnd(f) \/ ApplyError(f) \/ ApplyOk(f)
    \/ NoteOutcome(f) \/ ExecExpire(f) \/ Probe(f) \/ Release(f)

ShardTick == TickTake \/ TickClear \/ ReenqueueCas \/ ReenqueueMark

Environment ==
    \/ ClockTick \/ RedisFails \/ RedisRecovers
    \/ \E k \in Keys : OtherReplica(k)
    \/ \E k \in Keys, w \in Windows : KeyExpires(k, w)

Next ==
    \/ \E t \in Threads, k \in Keys, n \in Costs : AllowNEnter(t, k, n)
    \/ \E t \in Threads : AllowN(t)
    \/ \E f \in Flushers : Flush(f)
    \/ ShardTick \/ IdleTick
    \/ CloseDeregister \/ CloseClear
    \/ Environment

Spec == Init /\ [][Next]_vars

\* Goroutines of started calls, the worker and a running Close are scheduled; nothing is
\* assumed of clients, of the clock or of Redis.
Fairness ==
    /\ \A t \in Threads : WF_vars(AllowN(t))
    /\ \A f \in Flushers : WF_vars(Flush(f))
    /\ WF_vars(ShardTick)
    /\ WF_vars(CloseClear)

FairSpec == Spec /\ Fairness

-----------------------------------------------------------------------------
(* Properties.                                                             *)

StripeTypes ==
    /\ states \in [Keys -> LocalState]
    /\ dirty \subseteq Keys
    /\ evictedPending \in [Stripes -> Seq(Pending)]
FlagTypes ==
    /\ enqueued \in BOOLEAN /\ active \in BOOLEAN
    /\ redisDown \in BOOLEAN /\ redisUp \in BOOLEAN
FlushTypes ==
    /\ failStreak \in 0..Threshold
    /\ flushCursor \in Stripes
    /\ flushMu \in Flushers \cup {Nobody}
    /\ fl \in [Flushers -> FlushProgress]
    /\ drains \in Nat
RequestTypes ==
    /\ now \in 0..MaxTime
    /\ req \in [Threads -> Request]
    /\ issued \in 0..MaxRequests
RedisTypes ==
    /\ redis \in [KeyWindows -> Nat]
    /\ ttl \subseteq KeyWindows
    /\ outages \in 0..MaxOutages
HistoryTypes ==
    /\ admitted \in [KeyWindows -> Nat]
    /\ others \in [KeyWindows -> Nat]
    /\ hist \subseteq Keys \X Windows \X Events

\* Every variable of the limiter, the coordinator and Redis keeps its type.
TypeOK ==
    /\ StripeTypes /\ FlagTypes /\ FlushTypes
    /\ RequestTypes /\ RedisTypes /\ HistoryTypes

Marked(k, w, events) == \E e \in events : <<k, w, e>> \in hist

\* Stripes a snapshot in progress has yet to visit.
Unvisited(f) ==
    {Wrap(flushCursor + i) : i \in fl[f].visited..(NumStripes - 1)}

\* A flush that has not passed stripe s yet, or knows of work for another one.
ComesBy(f, s) ==
    \/ fl[f].pc = "lock"
    \/ fl[f].pc = "snap" /\ s \in Unvisited(f)
    \/ fl[f].more

\* Whoever is going to look at stripe s: an enqueued limiter, a thread on its way to
\* enqueue it, a flush that has not passed s yet, or one that knows of more work.
WillVisit(s) ==
    \/ active
    \/ \E t \in Threads : req[t].pc \in {"enqueue", "mark"}
    \/ fl[Worker].pc \in {"clear", "recas", "remark"}
    \/ fl[Closer].pc = "deregister"
    \/ \E f \in Flushers : ComesBy(f, s)

\* Concurrency invariant 2 of the limiter: however AllowN's dirty mark, its enqueued CAS
\* and markActive interleave with tickShard, a failing flush, a budget spill and Close, a
\* dirty delta or an evicted one is always in front of somebody who will flush it (or of
\* a Close that gave up after its bounded drain).
NoLostWakeup ==
    \A s \in Stripes :
        (evictedPending[s] # <<>>
            \/ \E k \in dirty : StripeOf[k] = s /\ states[k].localDelta > 0)
        => WillVisit(s)

\* A delta that is counted locally and not marked dirty is in the batch of a flush that
\* will settle it: snapshot, error, window change and residue never strand a delta.
NoStrandedDelta ==
    \A k \in Keys :
        states[k].localDelta > 0 => k \in dirty \/ InFlight(k, states[k].windowStart)

\* While a fail-closed limiter is latched down, something keeps it being flushed or
\* probed, also when its only delta was dropped by a window change: otherwise it would
\* deny for ever (comment of probeRedisLocked).
RedisDownProbed ==
    redisDown /\ fl[Closer].pc = "idle" =>
        \/ active
        \/ \E t \in Threads : req[t].pc \in {"enqueue", "mark"}
        \/ fl[Worker].pc # "idle"

\* Concurrency invariant 3: flushes of the worker and of Close are serialised, so the
\* count read back from Redis never goes backwards in a state that stays in place.
GlobalBaseNeverRegresses ==
    [][\A k \in Keys :
        /\ states[k] # Nil
        /\ states'[k].windowStart = states[k].windowStart
        /\ ~Marked(k, states[k].windowStart, {"expired"})
        => states'[k].globalBase >= states[k].globalBase]_vars

\* One replica alone never admits more than Limit units of a window, whatever its
\* flushes do, as long as the window's state is not lost: evicted, replaced by a request
\* that read the clock before a window change, or reset by the key's expiry.
ReplicaQuota ==
    \A k \in Keys, w \in Windows :
        ~Marked(k, w, {"recreated", "expired"}) => admitted[<<k, w>>] <= Limit

\* Redis never counts more than was admitted: deltas are sent once, unless the reply of
\* a pipeline was lost or a state was evicted while its delta was in flight.
NoOvercount ==
    \A k \in Keys, w \in Windows :
        ~Marked(k, w, {"lostReply", "evictedInFlight"})
        => redis[<<k, w>>] <= admitted[<<k, w>>] + others[<<k, w>>]

PendingFor(k, w) ==
    \/ states[k].windowStart = w /\ states[k].localDelta > 0
    \/ \E i \in DOMAIN evictedPending[StripeOf[k]] :
          evictedPending[StripeOf[k]][i].key = k /\ evictedPending[StripeOf[k]][i].ws = w
    \/ \E f \in Flushers : \E p \in Unsettled(f) : p.key = k /\ p.ws = w

\* Nothing admitted goes missing: once no delta of a window is pending anywhere, Redis
\* holds all of it, unless a delta was dropped (window change, full eviction buffer).
NoUndercount ==
    \A k \in Keys, w \in Windows :
        \/ PendingFor(k, w)
        \/ Marked(k, w, {"dropped", "evictedInFlight", "expired"})
        \/ redis[<<k, w>>] >= admitted[<<k, w>>] + others[<<k, w>>]

\* The flush whose INCRBY created a window key is the one that gives it a TTL: a key is
\* left without one only by a lost reply, a failed EXPIRE or a flush after the window.
CreatedKeyHasTTL ==
    \A k \in Keys, w \in Windows :
        \/ redis[<<k, w>>] = 0
        \/ <<k, w>> \in ttl
        \/ Marked(k, w, {"lostReply", "noTTL"})
        \/ \E f \in Flushers : \/ <<k, w>> \in fl[f].creators
                               \/ \E p \in Unsettled(f) : p.key = k /\ p.ws = w

\* The comment on ensureCapacityLocked and the option maxLocalEntries: eviction carries
\* the unflushed delta to Redis, and (no reply lost) Redis counts what was admitted.
EvictionCountsOnce ==
    \A k \in Keys, w \in Windows :
        ~Marked(k, w, {"lostReply"}) => redis[<<k, w>>] <= admitted[<<k, w>>] + others[<<k, w>>]

\* Once Redis stays reachable a latched limiter is released, with or without traffic.
RedisDownClears == <>[]redisUp => (redisDown ~> ~redisDown)

\* Once Redis stays reachable every admitted unit reaches the shared counter, except
\* for a window whose delta was dropped or whose key has expired.
AdmittedReachesRedis ==
    <>[]redisUp =>
        \A k \in Keys, w \in Windows, c \in 1..MaxRequests :
            admitted[<<k, w>>] >= c ~>
                redis[<<k, w>>] - others[<<k, w>>] >= c \/ Marked(k, w, {"dropped", "evictedInFlight", "expired"})

=============================================================================
