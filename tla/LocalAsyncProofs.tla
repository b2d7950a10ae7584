-------------------------- MODULE LocalAsyncProofs --------------------------
(***************************************************************************)
(* Proofs about LocalAsync, for every set of keys and threads, every       *)
(* number of stripes, and every limit, budget and bound.                   *)
(***************************************************************************)
EXTENDS LocalAsync, FiniteSetTheorems, SequenceTheorems, TLAPS

\* A request waiting for its stripe lock has a key; a state that owes a delta belongs to
\* a window.
Shape ==
    /\ \A t \in Threads : req[t].pc = "lock" => req[t].key \in Keys
    /\ \A k \in Keys : states[k].localDelta > 0 => states[k].windowStart \in Windows

TypeInv == TypeOK /\ Shape

LEMMA WindowType == ASSUME NEW t \in 0..MaxTime PROVE WindowStart(t) \in Windows
BY DEF Windows

LEMMA InitType == Init => TypeInv
<1> USE LocalAsyncAssumption
<1> SUFFICES ASSUME Init PROVE TypeInv
  OBVIOUS
<1>1. Nil \in LocalState /\ IdleReq \in Request
  BY DEF Nil, LocalState, IdleReq, Request
<1>2. IdleFlush \in FlushProgress
  BY DEF IdleFlush, FlushProgress, FlusherPc
<1>3. StripeTypes
  BY <1>1 DEF Init, StripeTypes
<1>4. FlagTypes
  BY DEF Init, FlagTypes
<1>5. FlushTypes
  BY <1>2 DEF Init, FlushTypes, Stripes
<1>6. RequestTypes
  BY <1>1 DEF Init, RequestTypes
<1>7. RedisTypes /\ HistoryTypes
  BY DEF Init, RedisTypes, HistoryTypes
<1>8. Shape
  BY DEF Init, Shape, Nil, IdleReq
<1> QED BY <1>3, <1>4, <1>5, <1>6, <1>7, <1>8 DEF TypeInv, TypeOK

LEMMA EnterType ==
    ASSUME TypeInv, NEW t \in Threads, NEW k \in Keys, NEW n \in Costs, AllowNEnter(t, k, n)
    PROVE  TypeInv'
<1> USE LocalAsyncAssumption
<1>1. RequestTypes'
  BY DEF TypeInv, TypeOK, RequestTypes, AllowNEnter, Request
<1>2. Shape'
  BY DEF TypeInv, TypeOK, RequestTypes, Shape, AllowNEnter, stripeVars, Request
<1>3. StripeTypes' /\ FlagTypes' /\ FlushTypes' /\ RedisTypes' /\ HistoryTypes'
  BY DEF TypeInv, TypeOK, AllowNEnter, StripeTypes, FlagTypes, FlushTypes, RedisTypes,
     HistoryTypes, stripeVars, wakeVars, healthVars, flushVars, redisVars, ghostVars
<1> QED BY <1>1, <1>2, <1>3 DEF TypeInv, TypeOK

\* The states ensureCapacityLocked removes are keys.
LEMMA RemovalsType == ASSUME NEW s, NEW t, NEW R \in Removals(s, t) PROVE R \subseteq Keys
BY DEF Removals, Victims, Expired, Live

\* A state that owes a delta makes a well-formed pending entry.
LEMMA PendingType ==
    ASSUME TypeInv, NEW v \in Keys, states[v].localDelta > 0, NEW e \in BOOLEAN
    PROVE  PendingOf(v, e) \in Pending
BY DEF TypeInv, TypeOK, Shape, StripeTypes, LocalState, PendingOf, Pending

LEMMA CarriedType ==
    ASSUME TypeInv, NEW s \in Stripes, NEW R \in SUBSET Keys
    PROVE  Carried(s, R) \in Seq(Pending)
<1> DEFINE owing == {v \in R : states[v].localDelta > 0}
<1>1. evictedPending[s] \in Seq(Pending)
  BY DEF TypeInv, TypeOK, StripeTypes
<1>2. CASE owing = {} \/ EvictedFull(s)
  BY <1>1, <1>2 DEF Carried
<1>3. CASE ~(owing = {} \/ EvictedFull(s))
  <2> DEFINE v == CHOOSE u \in owing : TRUE
  <2>1. v \in owing
    BY <1>3
  <2> HIDE DEF v
  <2>2. PendingOf(v, TRUE) \in Pending
    BY <2>1, PendingType
  <2>3. Carried(s, R) = Append(evictedPending[s], PendingOf(v, TRUE))
    BY <1>3 DEF Carried, v
  <2>4. Append(evictedPending[s], PendingOf(v, TRUE)) \in Seq(Pending)
    BY <1>1, <2>2, AppendProperties, Zenon
  <2> QED BY <2>3, <2>4
<1> QED BY <1>2, <1>3

LEMMA AfterDecideType ==
    \A carried, verdict, n : /\ AfterDecide(carried, verdict, n) \in Request
                             /\ AfterDecide(carried, verdict, n).pc \in {"idle", "enqueue"}
BY LocalAsyncAssumption DEF AfterDecide, IdleReq, Request

LEMMA DecideType ==
    ASSUME TypeInv, NEW t \in Threads, AllowNDecide(t)
    PROVE  TypeInv'
<1> USE LocalAsyncAssumption
<1> DEFINE k == req[t].key
           n == req[t].n
           w == WindowStart(req[t].now)
           s == StripeOf[k]
           st == IF states[k].windowStart = w THEN states[k] ELSE Fresh(w)
           verdict == Verdict(st, n)
           new == Counted(st, verdict, n)
<1>1. k \in Keys /\ n \in Nat /\ w \in Windows /\ s \in Stripes
  <2>1. req[t] \in Request /\ req[t].pc = "lock"
    BY DEF TypeInv, TypeOK, RequestTypes, AllowNDecide
  <2>2. k \in Keys
    BY <2>1 DEF TypeInv, Shape
  <2>3. w \in Windows
    BY <2>1, WindowType DEF Request
  <2> QED BY <2>1, <2>2, <2>3 DEF Request, Stripes
<1>2. st \in LocalState /\ st.windowStart = w
  BY <1>1 DEF TypeInv, TypeOK, StripeTypes, LocalState, Fresh, Nil
<1>3. new \in LocalState /\ new.windowStart = w
  <2>1. ASSUME NEW x \in LocalState, NEW v, NEW m \in Nat
        PROVE  Counted(x, v, m) \in LocalState /\ Counted(x, v, m).windowStart = x.windowStart
    <3>1. CASE v = "over"
      BY <3>1 DEF LocalState, Counted
    <3>2. CASE v = "admit"
      <4> DEFINE d == x.localDelta + m
      <4>1. d \in Nat
        BY DEF LocalState
      <4>2. Counted(x, v, m) = [x EXCEPT !.blocked = x.blocked, !.localDelta = d]
        BY <3>2 DEF Counted
      <4> HIDE DEF d
      <4> QED BY <4>1, <4>2 DEF LocalState
    <3>3. CASE v # "over" /\ v # "admit"
      BY <3>3 DEF LocalState, Counted
    <3> QED BY <3>1, <3>2, <3>3
  <2> HIDE DEF st, verdict, n, w
  <2> QED BY <1>1, <1>2, <2>1
<1>4. PICK R : /\ R \in IF states[k] = Nil THEN Removals(s, req[t].now) ELSE {{}}
               /\ states' = [j \in Keys |-> IF j = k THEN new
                                            ELSE IF j \in R THEN Nil ELSE states[j]]
               /\ dirty' = (dirty \ R) \cup (IF verdict = "admit" /\ n > 0 THEN {k} ELSE {})
               /\ evictedPending' = [evictedPending EXCEPT ![s] = Carried(s, R)]
               /\ hist' = hist \cup RemovalEvents(s, R) \cup CreationEvents(k, w)
  BY DEF AllowNDecide
<1> HIDE DEF k, n, w, s, st, verdict, new
<1>5. R \in SUBSET Keys
  BY <1>4, RemovalsType
<1>6. Nil \in LocalState
  BY DEF Nil, LocalState
<1>7. StripeTypes'
  BY <1>1, <1>3, <1>4, <1>5, <1>6, CarriedType DEF TypeInv, TypeOK, StripeTypes
<1>8. RequestTypes'
  <2>1. req' = [req EXCEPT ![t] = AfterDecide(evictedPending'[s], verdict, n)]
    BY DEF AllowNDecide, k, n, w, s, st, verdict
  <2>2. AfterDecide(evictedPending'[s], verdict, n) \in Request
    BY AfterDecideType
  <2> QED BY <2>1, <2>2 DEF TypeInv, TypeOK, RequestTypes, AllowNDecide
<1>9. Shape'
  <2>1. \A u \in Threads : req'[u].pc = "lock" => req'[u].key \in Keys
    BY AfterDecideType DEF AllowNDecide, TypeInv, TypeOK, Shape, RequestTypes
  <2>2. \A j \in Keys : states'[j].localDelta > 0 => states'[j].windowStart \in Windows
    BY <1>1, <1>3, <1>4 DEF TypeInv, Shape, Nil
  <2> QED BY <2>1, <2>2 DEF Shape
<1>10. HistoryTypes'
  <2>1. RemovalEvents(s, R) \subseteq Keys \X Windows \X Events
    BY <1>5 DEF RemovalEvents, TypeInv, Shape, Events
  <2>2. CreationEvents(k, w) \subseteq Keys \X Windows \X Events
    BY <1>1 DEF CreationEvents, TypeInv, Shape, Events
  <2>3. admitted' = [admitted EXCEPT ![<<k, w>>] = @ + (IF verdict = "admit" THEN n ELSE 0)]
    BY DEF AllowNDecide, k, n, w, verdict, st
  <2>4. admitted' \in [KeyWindows -> Nat]
    BY <1>1, <2>3 DEF TypeInv, TypeOK, HistoryTypes, KeyWindows
  <2>5. others' = others
    BY DEF AllowNDecide
  <2> QED BY <1>4, <2>1, <2>2, <2>4, <2>5 DEF TypeInv, TypeOK, HistoryTypes
<1>11. FlagTypes' /\ FlushTypes' /\ RedisTypes'
  BY DEF TypeInv, TypeOK, AllowNDecide, FlagTypes, FlushTypes, RedisTypes, wakeVars,
     healthVars, flushVars, redisVars
<1> QED BY <1>7, <1>8, <1>9, <1>10, <1>11 DEF TypeInv, TypeOK

\* A flusher that only moves on keeps its type.
LEMMA PcType ==
    ASSUME TypeInv, NEW f \in Flushers, NEW c \in FlusherPc
    PROVE  [fl EXCEPT ![f].pc = c] \in [Flushers -> FlushProgress]
BY DEF TypeInv, TypeOK, FlushTypes, FlushProgress

LEMMA RequestStepType ==
    ASSUME TypeInv, NEW t \in Threads, AllowNEnqueue(t) \/ AllowNMarkActive(t)
    PROVE  TypeInv'
<1> USE DEF TypeInv, TypeOK
<1>1. RequestTypes' /\ Shape'
  BY DEF AllowNEnqueue, AllowNMarkActive, RequestTypes, Request, Shape, stripeVars
<1>2. FlagTypes'
  BY DEF AllowNEnqueue, AllowNMarkActive, FlagTypes, healthVars, redisVars
<1>3. StripeTypes' /\ FlushTypes' /\ RedisTypes' /\ HistoryTypes'
  BY DEF AllowNEnqueue, AllowNMarkActive, StripeTypes, FlushTypes, RedisTypes,
     HistoryTypes, stripeVars, healthVars, flushVars, redisVars, ghostVars
<1> QED BY <1>1, <1>2, <1>3

LEMMA ShardType ==
    ASSUME TypeInv, ShardTick \/ CloseDeregister \/ CloseClear
    PROVE  TypeInv'
<1> USE DEF ShardTick, TickTake, TickClear, ReenqueueCas, ReenqueueMark, CloseDeregister,
            CloseClear, TypeInv, TypeOK
<1>1. PICK f \in Flushers, c \in FlusherPc : fl' = [fl EXCEPT ![f].pc = c]
  BY DEF Flushers, Worker, Closer, FlusherPc
<1>2. FlushTypes'
  BY <1>1, PcType DEF FlushTypes, healthVars
<1>3. FlagTypes'
  BY DEF FlagTypes, healthVars, redisVars
<1>4. RequestTypes' /\ Shape' /\ StripeTypes'
  BY DEF RequestTypes, Shape, StripeTypes, stripeVars
<1>5. RedisTypes' /\ HistoryTypes'
  BY DEF RedisTypes, HistoryTypes, redisVars, ghostVars
<1> QED BY <1>2, <1>3, <1>4, <1>5

LEMMA EnvironmentType ==
    ASSUME TypeInv, Environment \/ IdleTick \/ UNCHANGED vars
    PROVE  TypeInv'
<1> USE LocalAsyncAssumption DEF TypeInv, TypeOK
<1>1. CASE ClockTick
  <2>1. RequestTypes'
    BY <1>1 DEF ClockTick, RequestTypes
  <2>2. FlagTypes'
    BY <1>1 DEF ClockTick, FlagTypes, wakeVars, healthVars, flushVars, redisVars
  <2>5. FlushTypes'
    BY <1>1 DEF ClockTick, FlushTypes, healthVars, flushVars
  <2>3. RedisTypes' /\ HistoryTypes'
    BY <1>1 DEF ClockTick, RedisTypes, HistoryTypes, redisVars, ghostVars
  <2>4. Shape' /\ StripeTypes'
    BY <1>1 DEF ClockTick, Shape, StripeTypes, stripeVars
  <2> QED BY <2>1, <2>2, <2>3, <2>4, <2>5
<1>2. CASE RedisFails \/ RedisRecovers
  <2>1. FlagTypes'
    BY <1>2 DEF RedisFails, RedisRecovers, FlagTypes, wakeVars, healthVars
  <2>2. RedisTypes'
    BY <1>2 DEF RedisFails, RedisRecovers, RedisTypes
  <2> QED BY <1>2, <2>1, <2>2 DEF RedisFails, RedisRecovers, RequestTypes, Shape,
     StripeTypes, FlushTypes, HistoryTypes, stripeVars, healthVars, flushVars, ghostVars
<1>3. CASE \E k \in Keys, w \in Windows : KeyExpires(k, w)
  <2>1. PICK k \in Keys, w \in Windows : KeyExpires(k, w)
    BY <1>3
  <2>2. RedisTypes' /\ HistoryTypes'
    BY <2>1 DEF KeyExpires, RedisTypes, HistoryTypes, KeyWindows, Events
  <2>3. FlagTypes' /\ FlushTypes'
    BY <2>1 DEF KeyExpires, FlagTypes, FlushTypes, wakeVars, healthVars, flushVars
  <2> QED BY <2>1, <2>2, <2>3 DEF KeyExpires, RequestTypes, Shape, StripeTypes, stripeVars
<1>4. CASE \E k \in Keys : OtherReplica(k)
  <2>1. PICK k \in Keys : OtherReplica(k)
    BY <1>4
  <2>2. WindowStart(now) \in Windows
    BY WindowType DEF RequestTypes
  <2>3. RedisTypes' /\ HistoryTypes'
    BY <2>1, <2>2 DEF OtherReplica, RedisTypes, HistoryTypes, KeyWindows
  <2>4. FlagTypes' /\ FlushTypes'
    BY <2>1 DEF OtherReplica, FlagTypes, FlushTypes, wakeVars, healthVars, flushVars
  <2> QED BY <2>1, <2>3, <2>4 DEF OtherReplica, RequestTypes, Shape, StripeTypes, stripeVars
<1>5. CASE IdleTick \/ UNCHANGED vars
  <2> USE <1>5 DEF IdleTick, vars
  <2>1. RequestTypes' /\ Shape' /\ StripeTypes'
    BY DEF RequestTypes, Shape, StripeTypes, stripeVars
  <2>2. FlagTypes'
    BY DEF FlagTypes, wakeVars, healthVars, flushVars, redisVars
  <2>4. FlushTypes'
    BY DEF FlushTypes, healthVars, flushVars
  <2>3. RedisTypes' /\ HistoryTypes'
    BY DEF RedisTypes, HistoryTypes, redisVars, ghostVars
  <2> QED BY <2>1, <2>2, <2>3, <2>4
<1> QED BY <1>1, <1>2, <1>3, <1>4, <1>5 DEF Environment

\* Each field of a flusher's progress may be set to any value of its type.
LEMMA FieldType ==
    ASSUME NEW r \in FlushProgress
    PROVE  /\ \A c \in FlusherPc : [r EXCEPT !.pc = c] \in FlushProgress
           /\ \A c \in 0..NumStripes : [r EXCEPT !.visited = c] \in FlushProgress
           /\ \A c \in 0..MaxPipeline : [r EXCEPT !.budget = c] \in FlushProgress
           /\ \A c \in 0..MaxTime : [r EXCEPT !.at = c] \in FlushProgress
           /\ \A c \in Seq(Pending) : [r EXCEPT !.batch = c] \in FlushProgress
           /\ \A c \in Seq(Nat \cup {-1}) : [r EXCEPT !.res = c] \in FlushProgress
           /\ \A c \in BOOLEAN : [r EXCEPT !.more = c] \in FlushProgress
           /\ \A c \in BOOLEAN : [r EXCEPT !.tickErr = c] \in FlushProgress
           /\ \A c \in SUBSET KeyWindows : [r EXCEPT !.creators = c] \in FlushProgress
BY DEF FlushProgress

\* Steps of a flush that leave the stripes, the requests and Redis alone.
LEMMA FlushControlType ==
    ASSUME TypeInv, NEW f \in Flushers,
           FlushLock(f) \/ SnapshotEnd(f) \/ NoteOutcome(f) \/ Probe(f) \/ Release(f)
    PROVE  TypeInv'
<1> USE LocalAsyncAssumption DEF TypeInv, TypeOK
<1> DEFINE r == fl[f]
<1>1. r \in FlushProgress
  BY DEF FlushTypes
<1>2. IdleFlush \in FlushProgress
  BY DEF IdleFlush, FlushProgress, FlusherPc
<1>3. RequestTypes' /\ Shape' /\ StripeTypes' /\ RedisTypes' /\ HistoryTypes'
  BY DEF FlushLock, SnapshotEnd, NoteOutcome, Probe, Release, RequestTypes, Shape,
     StripeTypes, RedisTypes, HistoryTypes, stripeVars, redisVars, ghostVars
<1>4. FlagTypes'
  BY DEF FlushLock, SnapshotEnd, NoteOutcome, Probe, Release, Noted, FlagTypes, wakeVars,
     healthVars, redisVars
<1>5. failStreak' \in 0..Threshold
  BY DEF FlushLock, SnapshotEnd, NoteOutcome, Probe, Release, Noted, FlushTypes, healthVars
<1>6. flushCursor' \in Stripes /\ flushMu' \in Flushers \cup {Nobody} /\ drains' \in Nat
  BY DEF FlushLock, SnapshotEnd, NoteOutcome, Probe, Release, FlushTypes, Stripes,
     NextCursor, Wrap
<1>7. fl' \in [Flushers -> FlushProgress]
  <2>1. CASE FlushLock(f)
    <3> DEFINE r1 == [IdleFlush EXCEPT !.pc = "snap"]
               r2 == [r1 EXCEPT !.budget = MaxPipeline]
               r3 == [r2 EXCEPT !.at = now]
    <3>1. r1 \in FlushProgress
      BY <1>2, FieldType DEF FlusherPc
    <3>2. r2 \in FlushProgress
      <4>1. MaxPipeline \in 0..MaxPipeline
        OBVIOUS
      <4> HIDE DEF r1
      <4> QED BY <3>1, <4>1, FieldType
    <3>3. r3 \in FlushProgress
      <4>1. now \in 0..MaxTime
        BY DEF RequestTypes
      <4> HIDE DEF r2
      <4> QED BY <3>2, <4>1, FieldType
    <3> QED BY <2>1, <3>3 DEF FlushLock, FlushTypes
  <2>2. CASE SnapshotEnd(f)
    <3> DEFINE r1 == [r EXCEPT !.pc = IF r.batch = <<>> THEN "probe" ELSE "exec"]
               r2 == [r1 EXCEPT !.more = IF r.visited < NumStripes THEN TRUE ELSE r.more]
               r3 == [r2 EXCEPT !.visited = 0]
               r4 == [r3 EXCEPT !.budget = 0]
               r5 == [r4 EXCEPT !.at = 0]
    <3>1. r1 \in FlushProgress
      BY <1>1, FieldType DEF FlusherPc
    <3>2. r.more \in BOOLEAN
      BY <1>1 DEF FlushProgress
    <3>3. r2 \in FlushProgress
      BY <3>1, <3>2, FieldType
    <3>4. r5 \in FlushProgress
      <4>1. 0 \in 0..NumStripes /\ 0 \in 0..MaxPipeline /\ 0 \in 0..MaxTime
        OBVIOUS
      <4> HIDE DEF r2
      <4>2. r3 \in FlushProgress
        BY <3>3, <4>1, FieldType
      <4> HIDE DEF r3
      <4>3. r4 \in FlushProgress
        BY <4>1, <4>2, FieldType
      <4> HIDE DEF r4
      <4> QED BY <4>1, <4>3, FieldType
    <3> QED BY <2>2, <3>4 DEF SnapshotEnd, FlushTypes
  <2>3. CASE NoteOutcome(f)
    BY <1>1, <2>3, PcType DEF NoteOutcome, FlusherPc
  <2>4. CASE Probe(f)
    BY <1>1, <2>4 DEF Probe, FlushTypes, FlushProgress, FlusherPc
  <2>5. CASE Release(f)
    BY <1>2, <2>5 DEF Release, FlushTypes, FlushProgress, FlusherPc, WorkerAfter, CloserAfter
  <2> QED BY <2>1, <2>2, <2>3, <2>4, <2>5
<1> QED BY <1>3, <1>4, <1>5, <1>6, <1>7 DEF FlushTypes

LEMMA ReplyType ==
    ASSUME TypeInv, NEW p \in Pending
    PROVE  Reply(p) \in Nat \cup {-1} /\ (redisUp => Reply(p) \in Nat)
<1>1. redis[<<p.key, p.ws>>] + p.flushN \in Nat
  BY DEF TypeInv, TypeOK, RedisTypes, KeyWindows, Pending
<1>2. CASE redisUp
  BY <1>1, <1>2 DEF Reply
<1>3. CASE ~redisUp
  BY <1>3 DEF Reply
<1> QED BY <1>2, <1>3

LEMMA RepliedType ==
    ASSUME NEW q \in Seq(Nat \cup {-1}), NEW m \in Nat
    PROVE  Replied(q, m) \in Seq(Nat \cup {-1}) /\ Len(Replied(q, m)) = Len(q)
<1> DEFINE n == Len(q)
           T == Nat \cup {-1}
<1>1. n \in Nat /\ \A i \in 1..n : q[i] \in T
  OBVIOUS
<1>2. -1 \in T
  OBVIOUS
<1> HIDE DEF T
<1>3. Replied(q, m) = [i \in 1..n |-> IF i <= m THEN q[i] ELSE -1]
  BY DEF Replied
<1> HIDE DEF n
<1>4. Replied(q, m) \in [1..n -> T]
  BY <1>1, <1>2, <1>3
<1>5. Replied(q, m) \in Seq(T)
  BY <1>1, <1>4, IsASeq
<1>6. Len(Replied(q, m)) = n
  BY <1>1, <1>4, <1>5, LenProperties
<1> QED BY <1>5, <1>6 DEF n, T

LEMMA ExecType ==
    ASSUME TypeInv, NEW f \in Flushers, ExecCommand(f) \/ ExecEnd(f)
    PROVE  TypeInv'
<1> USE LocalAsyncAssumption DEF TypeInv, TypeOK
<1> DEFINE r == fl[f]
<1>1. r \in FlushProgress /\ r.batch \in Seq(Pending) /\ r.res \in Seq(Nat \cup {-1})
  BY DEF FlushTypes, FlushProgress
<1>2. RequestTypes' /\ Shape' /\ StripeTypes'
  BY DEF ExecCommand, ExecEnd, RequestTypes, Shape, StripeTypes, stripeVars
<1>3. FlagTypes'
  BY DEF ExecCommand, ExecEnd, FlagTypes, wakeVars, healthVars, redisVars
<1>4. CASE ExecCommand(f)
  <2> DEFINE p == r.batch[Len(r.res) + 1]
  <2>1. p \in Pending
    <3>1. Len(r.res) < Len(r.batch)
      BY <1>4, Zenon DEF ExecCommand
    <3>2. Len(r.res) + 1 \in 1..Len(r.batch)
      BY <1>1, <3>1
    <3> QED BY <1>1, <3>2
  <2>2. redis' = IF redisUp THEN [redis EXCEPT ![<<p.key, p.ws>>] = Reply(p)] ELSE redis
    BY <1>4 DEF ExecCommand
  <2>3. fl' = [fl EXCEPT ![f] = [r EXCEPT !.res = Append(r.res, Reply(p))]]
    BY <1>4 DEF ExecCommand
  <2> HIDE DEF p
  <2>4. Reply(p) \in Nat \cup {-1} /\ (redisUp => Reply(p) \in Nat)
    BY <2>1, ReplyType
  <2>5. redis' \in [KeyWindows -> Nat]
    <3>1. <<p.key, p.ws>> \in KeyWindows
      BY <2>1 DEF Pending, KeyWindows
    <3> QED BY <2>2, <2>4, <3>1 DEF RedisTypes
  <2>6. Append(r.res, Reply(p)) \in Seq(Nat \cup {-1})
    BY <1>1, <2>4, AppendProperties, Zenon
  <2>7. fl' \in [Flushers -> FlushProgress]
    <3>1. [r EXCEPT !.res = Append(r.res, Reply(p))] \in FlushProgress
      BY <1>1, <2>6, FieldType
    <3> QED BY <2>3, <3>1 DEF FlushTypes
  <2> QED BY <1>2, <1>3, <1>4, <2>5, <2>7 DEF ExecCommand, FlushTypes, RedisTypes,
     HistoryTypes, healthVars, ghostVars
<1>5. CASE ExecEnd(f)
  <2>1. PICK m \in 0..Len(r.res) :
          /\ fl' = [fl EXCEPT ![f] = [fl[f] EXCEPT !.pc = "apply", !.res = Replied(r.res, m)]]
          /\ hist' = hist \cup LostReplies(f, m)
    BY <1>5 DEF ExecEnd
  <2>2. m \in Nat
    BY <1>1
  <2>3. [[r EXCEPT !.pc = "apply"] EXCEPT !.res = Replied(r.res, m)] \in FlushProgress
    <3>1. [r EXCEPT !.pc = "apply"] \in FlushProgress
      BY <1>1, FieldType DEF FlusherPc
    <3>2. Replied(r.res, m) \in Seq(Nat \cup {-1})
      BY <1>1, <2>2, RepliedType
    <3> QED BY <3>1, <3>2, FieldType
  <2>4. fl' \in [Flushers -> FlushProgress]
    BY <2>1, <2>3 DEF FlushTypes
  <2>5. hist' \subseteq Keys \X Windows \X Events
    <3>1. \A i \in 1..Len(r.batch) : r.batch[i] \in Pending
      BY <1>1
    <3>2. LostReplies(f, m) \subseteq Keys \X Windows \X Events
      BY <3>1 DEF LostReplies, Pending, Events
    <3> QED BY <2>1, <3>2 DEF HistoryTypes
  <2> QED BY <1>2, <1>3, <1>5, <2>4, <2>5 DEF ExecEnd, FlushTypes, RedisTypes, HistoryTypes,
     healthVars, redisVars
<1> QED BY <1>4, <1>5

\* An entry for each key that owes a delta.
LEMMA EntriesType ==
    ASSUME TypeInv, NEW owing \in SUBSET Keys, \A k \in owing : states[k].localDelta > 0,
           NEW order \in SetToSeqs(owing)
    PROVE  EntriesOf(order) \in Seq(Pending)
<1> DEFINE n == Cardinality(owing)
<1>1. n \in Nat
  BY LocalAsyncAssumption, FS_Subset, FS_CardinalityType
<1>2. order \in [1..n -> owing]
  BY DEF SetToSeqs
<1> HIDE DEF n
<1>3. DOMAIN order = 1..n /\ \A i \in 1..n : order[i] \in owing
  BY <1>2
<1>4. \A i \in 1..n : PendingOf(order[i], FALSE) \in Pending
  BY <1>3, PendingType
<1>5. EntriesOf(order) \in [1..n -> Pending]
  BY <1>3, <1>4 DEF EntriesOf
<1> QED BY <1>1, <1>5

LEMMA SnapshotType ==
    ASSUME TypeInv, NEW f \in Flushers, SnapshotStripe(f)
    PROVE  TypeInv'
<1> USE LocalAsyncAssumption DEF TypeInv, TypeOK
<1> DEFINE r == fl[f]
           s == Wrap(flushCursor + r.visited)
           ev == evictedPending[s]
           take == Taken(f, s)
           left == r.budget - take
           mine == {k \in dirty : StripeOf[k] = s}
           gone == Expired(states, s, r.at)
<1>1. r \in FlushProgress /\ r.batch \in Seq(Pending) /\ r.more \in BOOLEAN
  BY DEF FlushTypes, FlushProgress
<1>2. r.visited \in 0..NumStripes /\ r.budget \in 0..MaxPipeline
  BY <1>1 DEF FlushProgress
<1>3. r.visited < NumStripes
  BY DEF SnapshotStripe
<1>4. s \in Stripes
  BY <1>2, <1>3 DEF FlushTypes, Stripes, Wrap
<1>5. PICK seen \in SUBSET mine :
        LET owing == {k \in seen : states[k].localDelta > 0} IN
        /\ Cardinality(owing) <= left
        /\ \E order \in SetToSeqs(owing) :
             fl' = [fl EXCEPT ![f] = [fl[f] EXCEPT
                 !.visited = fl[f].visited + 1,
                 !.budget = left - Cardinality(owing),
                 !.batch = (fl[f].batch \o SubSeq(ev, 1, take)) \o EntriesOf(order),
                 !.more = IF take < Len(ev) \/ seen # mine THEN TRUE ELSE fl[f].more]]
        /\ dirty' = (dirty \ seen) \ gone
  BY Zenon DEF SnapshotStripe
<1>6. states' = [k \in Keys |-> IF k \in gone THEN Nil ELSE states[k]]
  BY Zenon DEF SnapshotStripe
<1>7. evictedPending' = [evictedPending EXCEPT ![s] = SubSeq(ev, take + 1, Len(ev))]
  BY Zenon DEF SnapshotStripe
<1> HIDE DEF s, gone
<1>8. ev \in Seq(Pending)
  BY <1>4 DEF StripeTypes
<1>9. take \in 0..Len(ev) /\ left \in 0..MaxPipeline
  BY <1>2, <1>8 DEF Taken
<1>10. SubSeq(ev, 1, take) \in Seq(Pending) /\ SubSeq(ev, take + 1, Len(ev)) \in Seq(Pending)
  <2> HIDE DEF take, ev
  <2>1. Len(ev) \in Nat /\ \A i \in 1..Len(ev) : ev[i] \in Pending
    BY <1>8
  <2> QED BY <1>9, <2>1, SubSeqProperties
<1>11. StripeTypes'
  <2>1. Nil \in LocalState
    BY DEF Nil, LocalState
  <2> HIDE DEF take, ev
  <2>2. states' \in [Keys -> LocalState]
    BY <1>6, <2>1 DEF StripeTypes
  <2>3. dirty' \subseteq Keys
    BY <1>5, Zenon DEF StripeTypes
  <2>4. evictedPending' \in [Stripes -> Seq(Pending)]
    BY <1>4, <1>7, <1>10 DEF StripeTypes
  <2> QED BY <2>2, <2>3, <2>4 DEF StripeTypes
<1>12. fl' \in [Flushers -> FlushProgress]
  <2> DEFINE owing == {k \in seen : states[k].localDelta > 0}
             m == IF take < Len(ev) \/ seen # mine THEN TRUE ELSE fl[f].more
             b == left - Cardinality(owing)
  <2>1. PICK order \in SetToSeqs(owing) :
          fl' = [fl EXCEPT ![f] = [fl[f] EXCEPT
                 !.visited = fl[f].visited + 1,
                 !.budget = b,
                 !.batch = (fl[f].batch \o SubSeq(ev, 1, take)) \o EntriesOf(order),
                 !.more = m]]
    BY <1>5, Zenon
  <2>2. b \in 0..MaxPipeline
    <3>1. owing \in SUBSET Keys
      BY DEF StripeTypes
    <3>2. Cardinality(owing) \in Nat
      BY <3>1, FS_Subset, FS_CardinalityType
    <3>3. Cardinality(owing) <= left
      BY <1>5, Zenon
    <3> HIDE DEF owing, left, take
    <3> QED BY <1>9, <3>2, <3>3
  <2>3. EntriesOf(order) \in Seq(Pending)
    <3>1. owing \in SUBSET Keys
      BY DEF StripeTypes
    <3>2. \A k \in owing : states[k].localDelta > 0
      OBVIOUS
    <3> HIDE DEF owing
    <3> QED BY <3>1, <3>2, EntriesType
  <2> DEFINE q == (fl[f].batch \o SubSeq(ev, 1, take)) \o EntriesOf(order)
  <2>4. q \in Seq(Pending)
    BY <1>1, <1>10, <2>3, ConcatProperties, Zenon
  <2>5. m \in BOOLEAN
    BY <1>1
  <2>6. r.visited + 1 \in 0..NumStripes
    BY <1>2, <1>3
  <2> HIDE DEF m, b, q
  <2> DEFINE r1 == [r EXCEPT !.visited = r.visited + 1]
             r2 == [r1 EXCEPT !.budget = b]
             r3 == [r2 EXCEPT !.batch = q]
             r4 == [r3 EXCEPT !.more = m]
  <2>7. r1 \in FlushProgress
    BY <1>1, <2>6, FieldType
  <2> HIDE DEF r1
  <2>8. r2 \in FlushProgress
    BY <2>2, <2>7, FieldType
  <2> HIDE DEF r2
  <2>9. r3 \in FlushProgress
    BY <2>4, <2>8, FieldType
  <2> HIDE DEF r3
  <2>10. r4 \in FlushProgress
    BY <2>5, <2>9, FieldType
  <2>11. fl' = [fl EXCEPT ![f] = r4]
    BY <2>1 DEF r1, r2, r3, q
  <2> HIDE DEF r4
  <2> QED BY <2>10, <2>11 DEF FlushTypes
<1>13. Shape'
  <2>1. req' = req
    BY Zenon DEF SnapshotStripe
  <2> QED BY <1>6, <2>1 DEF Shape, Nil
<1>14. UNCHANGED <<now, wakeVars, healthVars, flushCursor, flushMu, drains, req,
                   redisVars, issued, ghostVars>>
  BY Zenon DEF SnapshotStripe
<1> QED BY <1>11, <1>12, <1>13, <1>14 DEF FlagTypes, FlushTypes, RequestTypes, RedisTypes,
     HistoryTypes, wakeVars, healthVars, redisVars, ghostVars

\* A pipeline in progress is not empty, and each result belongs to an entry.
BatchShape ==
    \A f \in Flushers :
        /\ fl[f].pc = "exec" => fl[f].batch # <<>>
        /\ fl[f].pc = "apply" => fl[f].batch # <<>> /\ Len(fl[f].res) = Len(fl[f].batch)

LEMMA HeadsType ==
    ASSUME TypeInv, BatchShape, NEW f \in Flushers, fl[f].pc = "apply"
    PROVE  /\ fl[f].batch \in Seq(Pending) /\ fl[f].res \in Seq(Nat \cup {-1})
           /\ Head(fl[f].batch) \in Pending /\ Tail(fl[f].batch) \in Seq(Pending)
           /\ Head(fl[f].res) \in Nat \cup {-1} /\ Tail(fl[f].res) \in Seq(Nat \cup {-1})
           /\ Len(fl[f].batch) \in Nat \ {0}
           /\ Len(Tail(fl[f].batch)) = Len(fl[f].batch) - 1
           /\ Len(Tail(fl[f].res)) = Len(fl[f].batch) - 1
<1> DEFINE b == fl[f].batch
           q == fl[f].res
<1>1. b \in Seq(Pending) /\ q \in Seq(Nat \cup {-1})
  BY DEF TypeInv, TypeOK, FlushTypes, FlushProgress
<1>2. b # <<>> /\ Len(q) = Len(b)
  BY DEF BatchShape
<1> HIDE DEF b, q
<1>3. Len(b) \in Nat \ {0} /\ q # <<>>
  BY <1>1, <1>2
<1>4. Head(b) \in Pending /\ Tail(b) \in Seq(Pending) /\ Len(Tail(b)) = Len(b) - 1
  BY <1>1, <1>2, HeadTailProperties
<1>5. /\ Head(q) \in Nat \cup {-1} /\ Tail(q) \in Seq(Nat \cup {-1})
      /\ Len(Tail(q)) = Len(q) - 1
  BY <1>1, <1>3, HeadTailProperties
<1> QED BY <1>1, <1>2, <1>3, <1>4, <1>5 DEF b, q

LEMMA ApplyErrorType ==
    ASSUME TypeInv, BatchShape, NEW f \in Flushers, ApplyError(f)
    PROVE  TypeInv'
<1> USE LocalAsyncAssumption DEF TypeInv, TypeOK
<1> DEFINE r == fl[f]
           p == Head(r.batch)
           s == StripeOf[p.key]
           c == IF Len(r.batch) = 1 THEN AfterApply(f) ELSE "apply"
<1>1. r \in FlushProgress /\ r.pc = "apply"
  <2>1. r.pc = "apply"
    BY Zenon DEF ApplyError
  <2> QED BY <2>1 DEF FlushTypes
<1>2. /\ p \in Pending /\ Tail(r.batch) \in Seq(Pending)
      /\ Tail(r.res) \in Seq(Nat \cup {-1})
  BY <1>1, HeadsType
<1>3. fl' \in [Flushers -> FlushProgress]
  <2> DEFINE r1 == [r EXCEPT !.pc = c]
             r2 == [r1 EXCEPT !.batch = Tail(r.batch)]
             r3 == [r2 EXCEPT !.res = Tail(r.res)]
             r4 == [r3 EXCEPT !.more = TRUE]
             r5 == [r4 EXCEPT !.tickErr = TRUE]
  <2>1. c \in FlusherPc
    BY DEF AfterApply, FlusherPc
  <2>2. fl' = [fl EXCEPT ![f] = r5]
    BY DEF ApplyError
  <2> HIDE DEF c
  <2>3. r1 \in FlushProgress
    BY <1>1, <2>1, FieldType
  <2> HIDE DEF r1
  <2>4. r2 \in FlushProgress
    BY <1>2, <2>3, FieldType
  <2> HIDE DEF r2
  <2>5. r3 \in FlushProgress
    BY <1>2, <2>4, FieldType
  <2> HIDE DEF r3
  <2>6. r5 \in FlushProgress
    BY <2>5, FieldType
  <2> HIDE DEF r5
  <2> QED BY <2>2, <2>6 DEF FlushTypes
<1> HIDE DEF p
<1>4. s \in Stripes /\ p.key \in Keys /\ p.ws \in Windows
  BY <1>2 DEF Pending, Stripes
<1>5. StripeTypes'
  <2>1. evictedPending[s] \in Seq(Pending)
    BY <1>4 DEF StripeTypes
  <2>2. Append(evictedPending[s], p) \in Seq(Pending)
    BY <1>2, <2>1, AppendProperties, Zenon
  <2>3. evictedPending' = [evictedPending EXCEPT ![s] =
            IF p.evicted /\ ~EvictedFull(s) THEN Append(evictedPending[s], p)
            ELSE evictedPending[s]]
    BY DEF ApplyError, p
  <2> HIDE DEF s
  <2>4. evictedPending' \in [Stripes -> Seq(Pending)]
    BY <1>4, <2>1, <2>2, <2>3 DEF StripeTypes
  <2>5. dirty' = dirty \cup Retried(p) /\ states' = states
    BY DEF ApplyError, p
  <2> QED BY <1>4, <2>4, <2>5 DEF StripeTypes, Retried
<1>6. HistoryTypes'
  <2>1. /\ hist' = IF p.evicted /\ EvictedFull(s) THEN hist \cup {<<p.key, p.ws, "dropped">>}
                   ELSE hist
        /\ admitted' = admitted /\ others' = others
    BY DEF ApplyError, p
  <2> HIDE DEF s
  <2> QED BY <1>4, <2>1 DEF HistoryTypes, Events
<1>7. UNCHANGED <<now, states, wakeVars, healthVars, flushCursor, flushMu, drains, req,
                  redisVars, issued>>
  BY Zenon DEF ApplyError
<1> QED BY <1>3, <1>5, <1>6, <1>7 DEF FlagTypes, FlushTypes, RequestTypes, RedisTypes, Shape,
     wakeVars, healthVars, redisVars

LEMMA ReconciledType ==
    ASSUME NEW st \in LocalState, NEW p \in Pending, NEW g \in Nat, TypeInv
    PROVE  Reconciled(st, p, g) \in LocalState /\ Reconciled(st, p, g).windowStart = st.windowStart
<1> DEFINE owed == IF p.evicted THEN st.localDelta ELSE st.localDelta - p.flushN
           d == IF owed < 0 THEN 0 ELSE owed
           b == IF g >= Limit THEN TRUE ELSE st.blocked
<1>1. d \in Nat
  <2>1. st.localDelta \in Nat /\ p.flushN \in Nat
    BY DEF LocalState, Pending
  <2>2. owed \in Int
    BY <2>1
  <2> HIDE DEF owed
  <2> QED BY <2>2
<1>2. b \in BOOLEAN
  BY DEF LocalState
<1>3. Reconciled(st, p, g) = [st EXCEPT !.globalBase = g, !.localDelta = d, !.blocked = b]
  BY DEF Reconciled
<1> HIDE DEF d, b
<1> QED BY <1>1, <1>2, <1>3 DEF LocalState

LEMMA ApplyOkType ==
    ASSUME TypeInv, BatchShape, NEW f \in Flushers, ApplyOk(f)
    PROVE  TypeInv'
<1> USE LocalAsyncAssumption DEF TypeInv, TypeOK
<1> DEFINE r == fl[f]
           p == Head(r.batch)
           g == Head(r.res)
           st == states[p.key]
           same == st.windowStart = p.ws
           residue == same /\ Reconciled(st, p, g).localDelta # 0
           c == IF Len(r.batch) = 1 THEN AfterApply(f) ELSE "apply"
           m == IF residue THEN TRUE ELSE r.more
           made == r.creators \cup (IF Creates(p, g) THEN {<<p.key, p.ws>>} ELSE {})
<1>1. r \in FlushProgress /\ r.pc = "apply" /\ g # -1
  <2>1. r.pc = "apply" /\ g # -1
    BY Zenon DEF ApplyOk
  <2> QED BY <2>1 DEF FlushTypes
<1>2. /\ p \in Pending /\ Tail(r.batch) \in Seq(Pending)
      /\ g \in Nat /\ Tail(r.res) \in Seq(Nat \cup {-1})
  BY <1>1, HeadsType
<1>3. /\ fl' = [fl EXCEPT ![f] = [fl[f] EXCEPT !.pc = c, !.batch = Tail(fl[f].batch),
                     !.res = Tail(fl[f].res), !.more = m, !.creators = made]]
      /\ states' = IF same THEN [states EXCEPT ![p.key] = Reconciled(st, p, g)] ELSE states
      /\ dirty' = IF residue THEN dirty \cup {p.key} ELSE dirty
  BY Zenon DEF ApplyOk
<1> HIDE DEF p, g
<1>4. p.key \in Keys /\ p.ws \in Windows /\ st \in LocalState
  BY <1>2 DEF Pending, StripeTypes
<1> HIDE DEF st
<1>5. fl' \in [Flushers -> FlushProgress]
  <2>1. c \in FlusherPc
    BY DEF AfterApply, FlusherPc
  <2>2. m \in BOOLEAN
    BY <1>1 DEF FlushProgress
  <2>3. made \in SUBSET KeyWindows
    BY <1>1, <1>4 DEF FlushProgress, KeyWindows
  <2> HIDE DEF c, m, made
  <2> DEFINE r1 == [r EXCEPT !.pc = c]
             r2 == [r1 EXCEPT !.batch = Tail(r.batch)]
             r3 == [r2 EXCEPT !.res = Tail(r.res)]
             r4 == [r3 EXCEPT !.more = m]
             r5 == [r4 EXCEPT !.creators = made]
  <2>4. r1 \in FlushProgress
    BY <1>1, <2>1, FieldType
  <2> HIDE DEF r1
  <2>5. r2 \in FlushProgress
    BY <1>2, <2>4, FieldType
  <2> HIDE DEF r2
  <2>6. r3 \in FlushProgress
    BY <1>2, <2>5, FieldType
  <2> HIDE DEF r3
  <2>7. r4 \in FlushProgress
    BY <2>2, <2>6, FieldType
  <2> HIDE DEF r4
  <2>8. r5 \in FlushProgress
    BY <2>3, <2>7, FieldType
  <2>9. fl' = [fl EXCEPT ![f] = r5]
    BY <1>3 DEF r1, r2, r3, r4
  <2> HIDE DEF r5
  <2> QED BY <2>8, <2>9 DEF FlushTypes
<1>6. Reconciled(st, p, g) \in LocalState /\ Reconciled(st, p, g).windowStart = st.windowStart
  BY <1>2, <1>4, ReconciledType
<1>7. states' \in [Keys -> LocalState] /\ dirty' \subseteq Keys
  <2> HIDE DEF residue
  <2>1. states' \in [Keys -> LocalState]
    BY <1>3, <1>4, <1>6 DEF StripeTypes
  <2>2. dirty' \subseteq Keys
    BY <1>3, <1>4 DEF StripeTypes
  <2> QED BY <2>1, <2>2
<1>8. UNCHANGED <<now, evictedPending, wakeVars, healthVars, flushCursor, flushMu,
                  drains, req, redisVars, issued, ghostVars>>
  BY Zenon DEF ApplyOk
<1>9. Shape'
  <2>1. ASSUME NEW k \in Keys, states'[k].localDelta > 0 PROVE states'[k].windowStart \in Windows
    <3>1. CASE same /\ k = p.key
      BY <1>3, <1>4, <1>6, <3>1 DEF StripeTypes
    <3>2. CASE ~(same /\ k = p.key)
      BY <1>3, <2>1, <3>2 DEF StripeTypes, Shape
    <3> QED BY <3>1, <3>2
  <2> QED BY <1>8, <2>1 DEF Shape
<1> QED BY <1>5, <1>7, <1>8, <1>9 DEF StripeTypes, FlagTypes, FlushTypes, RequestTypes,
     RedisTypes, HistoryTypes, wakeVars, healthVars, redisVars, ghostVars

LEMMA ExpireType ==
    ASSUME TypeInv, NEW f \in Flushers, ExecExpire(f)
    PROVE  TypeInv'
<1> USE LocalAsyncAssumption DEF TypeInv, TypeOK
<1> DEFINE made == fl[f].creators
           c == IF f = Worker THEN "release" ELSE "note"
<1>1. fl[f] \in FlushProgress /\ made \in SUBSET KeyWindows
  BY DEF FlushTypes, FlushProgress
<1>2. PICK X \in SUBSET made :
        /\ ttl' = ttl \cup X
        /\ hist' = hist \cup {<<kw[1], kw[2], "noTTL">> : kw \in made \ X}
  BY DEF ExecExpire
<1>3. fl' = [fl EXCEPT ![f] = [fl[f] EXCEPT !.creators = {}, !.pc = c]]
  BY Zenon DEF ExecExpire
<1>4. fl' \in [Flushers -> FlushProgress]
  <2>1. c \in FlusherPc
    BY DEF FlusherPc
  <2> HIDE DEF c
  <2> DEFINE r1 == [fl[f] EXCEPT !.creators = {}]
             r2 == [r1 EXCEPT !.pc = c]
  <2>2. r1 \in FlushProgress
    BY <1>1, FieldType
  <2> HIDE DEF r1
  <2>3. r2 \in FlushProgress
    BY <2>1, <2>2, FieldType
  <2>4. fl' = [fl EXCEPT ![f] = r2]
    BY <1>3 DEF r1
  <2> HIDE DEF r2
  <2> QED BY <2>3, <2>4 DEF FlushTypes
<1>5. ttl' \subseteq KeyWindows
  BY <1>1, <1>2 DEF RedisTypes
<1>6. hist' \subseteq Keys \X Windows \X Events
  <2>1. \A kw \in made : kw[1] \in Keys /\ kw[2] \in Windows
    BY <1>1 DEF KeyWindows
  <2> HIDE DEF made
  <2> QED BY <1>2, <2>1 DEF HistoryTypes, Events
<1>7. UNCHANGED <<now, stripeVars, wakeVars, healthVars, flushCursor, flushMu, drains,
                  req, redis, redisUp, outages, issued, admitted, others>>
  BY Zenon DEF ExecExpire
<1> QED BY <1>4, <1>5, <1>6, <1>7 DEF StripeTypes, FlagTypes, FlushTypes, RequestTypes,
     RedisTypes, HistoryTypes, Shape, stripeVars, wakeVars, healthVars

\* Applying one result leaves as many results as entries, or ends the loop.
LEMMA ApplyShape ==
    ASSUME TypeInv, BatchShape, NEW f \in Flushers, ApplyError(f) \/ ApplyOk(f)
    PROVE  BatchShape'
<1> DEFINE r == fl[f]
<1>1. r.pc = "apply"
  BY Zenon DEF ApplyError, ApplyOk
<1>2. /\ Len(r.batch) \in Nat \ {0} /\ Len(Tail(r.batch)) = Len(r.batch) - 1
      /\ Len(Tail(r.res)) = Len(r.batch) - 1
  BY <1>1, HeadsType
<1>3. fl'[f].batch = Tail(r.batch) /\ fl'[f].res = Tail(r.res)
  <2>1. CASE ApplyError(f)
    BY <2>1 DEF ApplyError, TypeInv, TypeOK, FlushTypes, FlushProgress
  <2>2. CASE ApplyOk(f)
    BY <2>2 DEF ApplyOk, TypeInv, TypeOK, FlushTypes, FlushProgress
  <2> QED BY <2>1, <2>2
<1>4. fl'[f].pc = IF Len(r.batch) = 1 THEN AfterApply(f) ELSE "apply"
  <2>1. CASE ApplyError(f)
    BY <2>1 DEF ApplyError, TypeInv, TypeOK, FlushTypes, FlushProgress
  <2>2. CASE ApplyOk(f)
    BY <2>2 DEF ApplyOk, TypeInv, TypeOK, FlushTypes, FlushProgress
  <2> QED BY <2>1, <2>2
<1>5. \A g \in Flushers : g # f => fl'[g] = fl[g]
  <2>1. CASE ApplyError(f)
    BY <2>1 DEF ApplyError, TypeInv, TypeOK, FlushTypes
  <2>2. CASE ApplyOk(f)
    BY <2>2 DEF ApplyOk, TypeInv, TypeOK, FlushTypes
  <2> QED BY <2>1, <2>2
<1>6. fl'[f].pc = "apply" => Tail(r.batch) # <<>>
  <2>1. fl'[f].pc = "apply" => Len(r.batch) # 1
    BY <1>4 DEF AfterApply
  <2>2. Len(r.batch) # 1 => Len(Tail(r.batch)) # 0
    BY <1>2
  <2>3. Len(<<>>) = 0
    OBVIOUS
  <2> QED BY <2>1, <2>2, <2>3, Zenon
<1>7. fl'[f].pc # "exec"
  BY <1>4 DEF AfterApply
<1> QED BY <1>2, <1>3, <1>5, <1>6, <1>7 DEF BatchShape

LEMMA StepShape ==
    ASSUME TypeInv, BatchShape, [Next]_vars
    PROVE  BatchShape'
<1> USE DEF TypeInv, TypeOK, FlushTypes
<1>1. CASE UNCHANGED fl
  BY <1>1 DEF BatchShape
<1>2. ASSUME NEW f \in Flushers, ApplyError(f) \/ ApplyOk(f) PROVE BatchShape'
  BY <1>2, ApplyShape
<1>3. ASSUME NEW f \in Flushers, NEW r, fl' = [fl EXCEPT ![f] = r],
             r.pc \notin {"exec", "apply"}
      PROVE  BatchShape'
  BY <1>3 DEF BatchShape
<1>4. ASSUME NEW f \in Flushers, NEW c, fl' = [fl EXCEPT ![f].pc = c],
             c \notin {"exec", "apply"}
      PROVE  BatchShape'
  <2>1. fl[f] \in FlushProgress
    OBVIOUS
  <2>2. [fl[f] EXCEPT !.pc = c].pc = c
    BY <2>1 DEF FlushProgress
  <2> QED BY <1>3, <1>4, <2>2
<1>5. ASSUME NEW f \in Flushers, ExecEnd(f) PROVE BatchShape'
  <2>1. PICK m \in 0..Len(fl[f].res) :
          fl' = [fl EXCEPT ![f] = [fl[f] EXCEPT !.pc = "apply", !.res = Replied(fl[f].res, m)]]
    BY <1>5, Zenon DEF ExecEnd
  <2>2. fl[f].pc = "exec" /\ Len(fl[f].res) = Len(fl[f].batch)
    BY <1>5, Zenon DEF ExecEnd
  <2>3. Len(Replied(fl[f].res, m)) = Len(fl[f].res)
    <3>1. fl[f].res \in Seq(Nat \cup {-1}) /\ m \in Nat
      BY DEF FlushProgress
    <3> QED BY <3>1, RepliedType
  <2>4. fl'[f].batch = fl[f].batch /\ fl'[f].pc = "apply" /\ fl'[f].res = Replied(fl[f].res, m)
    BY <2>1 DEF FlushProgress
  <2>5. \A g \in Flushers : g # f => fl'[g] = fl[g]
    BY <2>1
  <2> QED BY <2>2, <2>3, <2>4, <2>5 DEF BatchShape
<1>6. ASSUME NEW f \in Flushers, ExecCommand(f) PROVE BatchShape'
  <2>1. /\ fl[f].pc = "exec"
        /\ fl' = [fl EXCEPT ![f].res =
                    Append(fl[f].res, Reply(fl[f].batch[Len(fl[f].res) + 1]))]
    BY <1>6, Zenon DEF ExecCommand
  <2>2. fl'[f].batch = fl[f].batch /\ fl'[f].pc = "exec"
    BY <2>1 DEF FlushProgress
  <2>3. \A g \in Flushers : g # f => fl'[g] = fl[g]
    BY <2>1
  <2> QED BY <2>1, <2>2, <2>3 DEF BatchShape
<1>7. ASSUME NEW f \in Flushers, SnapshotEnd(f) PROVE BatchShape'
  <2>1. /\ fl'[f].batch = fl[f].batch
        /\ fl'[f].pc = IF fl[f].batch = <<>> THEN "probe" ELSE "exec"
    BY <1>7 DEF SnapshotEnd, FlushProgress
  <2>2. \A g \in Flushers : g # f => fl'[g] = fl[g]
    BY <1>7 DEF SnapshotEnd
  <2> QED BY <2>1, <2>2 DEF BatchShape
<1>8. ASSUME NEW f \in Flushers, SnapshotStripe(f) PROVE BatchShape'
  <2>1. fl[f].pc = "snap"
    BY <1>8, Zenon DEF SnapshotStripe
  <2>2. PICK v, b, q, m : fl' = [fl EXCEPT ![f] =
           [fl[f] EXCEPT !.visited = v, !.budget = b, !.batch = q, !.more = m]]
    BY <1>8, Zenon DEF SnapshotStripe
  <2>3. [fl[f] EXCEPT !.visited = v, !.budget = b, !.batch = q, !.more = m].pc = "snap"
    BY <2>1 DEF FlushProgress
  <2> QED BY <1>3, <2>2, <2>3
<1>9. ASSUME NEW f \in Flushers, FlushLock(f) PROVE BatchShape'
  <2>1. [IdleFlush EXCEPT !.pc = "snap", !.budget = MaxPipeline, !.at = now].pc = "snap"
    BY DEF IdleFlush
  <2> QED BY <1>3, <1>9, <2>1 DEF FlushLock
<1>10. ASSUME NEW f \in Flushers, NoteOutcome(f) \/ ExecExpire(f) \/ Probe(f) \/ Release(f)
       PROVE  BatchShape'
  <2>1. CASE NoteOutcome(f)
    <3> DEFINE c == IF f = Worker THEN "expire" ELSE "release"
    <3>1. fl' = [fl EXCEPT ![f].pc = c]
      BY <2>1, Zenon DEF NoteOutcome
    <3>2. c \notin {"exec", "apply"}
      OBVIOUS
    <3> HIDE DEF c
    <3> QED BY <1>4, <3>1, <3>2
  <2>2. CASE ExecExpire(f)
    <3> DEFINE c == IF f = Worker THEN "release" ELSE "note"
    <3>1. [fl[f] EXCEPT !.creators = {}, !.pc = c].pc = c
      BY DEF FlushProgress
    <3>2. fl' = [fl EXCEPT ![f] = [fl[f] EXCEPT !.creators = {}, !.pc = c]]
      BY <2>2, Zenon DEF ExecExpire
    <3>3. c \notin {"exec", "apply"}
      OBVIOUS
    <3> HIDE DEF c
    <3> QED BY <1>3, <3>1, <3>2, <3>3
  <2>3. CASE Probe(f)
    <3>1. PICK m : fl' = [fl EXCEPT ![f] = [fl[f] EXCEPT !.pc = "release", !.more = m]]
      BY <2>3, Zenon DEF Probe
    <3>2. [fl[f] EXCEPT !.pc = "release", !.more = m].pc = "release"
      BY DEF FlushProgress
    <3> QED BY <1>3, <3>1, <3>2
  <2>4. CASE Release(f)
    <3> DEFINE c == IF f = Worker THEN WorkerAfter(fl[f].more) ELSE CloserAfter(fl[f].more)
               m == IF f = Closer THEN fl[f].more ELSE FALSE
    <3>1. fl' = [fl EXCEPT ![f] = [IdleFlush EXCEPT !.pc = c, !.more = m]]
      BY <2>4, Zenon DEF Release
    <3>2. [IdleFlush EXCEPT !.pc = c, !.more = m].pc = c
      BY DEF IdleFlush
    <3>3. c \notin {"exec", "apply"}
      BY DEF WorkerAfter, CloserAfter
    <3> QED BY <1>3, <3>1, <3>2, <3>3
  <2> QED BY <1>10, <2>1, <2>2, <2>3, <2>4
<1>11. CASE ShardTick \/ CloseDeregister \/ CloseClear
  <2>1. PICK f \in Flushers, c \in FlusherPc \ {"exec", "apply"} : fl' = [fl EXCEPT ![f].pc = c]
    BY <1>11 DEF ShardTick, TickTake, TickClear, ReenqueueCas, ReenqueueMark,
       CloseDeregister, CloseClear, Flushers, Worker, Closer, FlusherPc
  <2> QED BY <1>4, <2>1
<1>12. ASSUME NEW f \in Flushers, Flush(f) PROVE BatchShape'
  BY <1>2, <1>5, <1>6, <1>7, <1>8, <1>9, <1>10, <1>12, Zenon DEF Flush
<1>13. CASE \E t \in Threads, k \in Keys, n \in Costs : AllowNEnter(t, k, n)
  BY <1>1, <1>13 DEF AllowNEnter, flushVars
<1>14. CASE \E t \in Threads : AllowN(t)
  BY <1>1, <1>14 DEF AllowN, AllowNDecide, AllowNEnqueue, AllowNMarkActive, flushVars
<1>15. CASE Environment \/ IdleTick \/ UNCHANGED vars
  BY <1>1, <1>15 DEF Environment, ClockTick, RedisFails, RedisRecovers, OtherReplica, KeyExpires,
     IdleTick, vars, flushVars
<1> QED BY <1>11, <1>12, <1>13, <1>14, <1>15 DEF Next

\* One step keeps the types, whichever of the actions it is.
LEMMA StepType ==
    ASSUME TypeInv, BatchShape, [Next]_vars
    PROVE  TypeInv'
<1>1. ASSUME NEW f \in Flushers, Flush(f) PROVE TypeInv'
  BY <1>1, FlushControlType, SnapshotType, ExecType, ApplyErrorType, ApplyOkType, ExpireType
     DEF Flush
<1>2. ASSUME NEW t \in Threads, AllowN(t) PROVE TypeInv'
  BY <1>2, DecideType, RequestStepType DEF AllowN
<1> QED BY <1>1, <1>2, EnterType, ShardType, EnvironmentType DEF Next

\* Every reachable state of the limiter, its coordinator shard and Redis is well typed: in
\* particular the stripe a snapshot visits exists, its budget never goes below zero, an
\* unflushed delta never becomes negative, and applyResultsLocked never runs out of results.
THEOREM TypeCorrect == Spec => []TypeOK
<1>1. Init => TypeInv /\ BatchShape
  <2>1. Init => BatchShape
    BY DEF Init, BatchShape, IdleFlush
  <2> QED BY <2>1, InitType
<1>2. TypeInv /\ BatchShape /\ [Next]_vars => TypeInv' /\ BatchShape'
  BY StepType, StepShape
<1>3. TypeInv => TypeOK
  BY DEF TypeInv
<1> QED BY <1>1, <1>2, <1>3, PTL DEF Spec

-----------------------------------------------------------------------------
(***************************************************************************)
(* No wakeup of the flush coordinator is lost, for every number of keys,   *)
(* request threads and stripes.  NoLostWakeup is not inductive by itself:  *)
(* a CAS that fails is harmless only because a limiter that is already     *)
(* enqueued is backed by somebody about to act on it (EnqueuedBacked), and *)
(* a snapshot visits the stripes it has still to visit only because no     *)
(* other flush moves the cursor meanwhile (Mutex).                         *)
(***************************************************************************)

\* The control points of a flush between flushMu.Lock and flushMu.Unlock.
Holding == {"snap", "probe", "exec", "apply", "note", "expire", "release"}

\* Exactly the holder of flushMu is inside a flush.
Mutex == \A f \in Flushers : fl[f].pc \in Holding <=> flushMu = f

\* A limiter whose enqueued flag is set is in the active set, or somebody is between the
\* two accesses that keep the flag and the set together.
EnqueuedBacked ==
    enqueued => \/ active
                \/ \E t \in Threads : req[t].pc = "mark"
                \/ fl[Worker].pc \in {"clear", "remark"}
                \/ fl[Closer].pc = "deregister"

WakeupInv == TypeInv /\ BatchShape /\ Mutex /\ EnqueuedBacked /\ NoLostWakeup

\* Stripe s holds a delta to flush.
Work(s) ==
    \/ evictedPending[s] # <<>>
    \/ \E k \in dirty : StripeOf[k] = s /\ states[k].localDelta > 0

\* The step leaves the progress of every flusher but f alone.
OnlyMoves(f) == \A g \in Flushers : g # f => fl'[g] = fl[g]

-----------------------------------------------------------------------------
(* What each step of a flush does to the control of the flusher.           *)

LEMMA LockMoves ==
    ASSUME TypeInv, NEW f \in Flushers, FlushLock(f)
    PROVE  /\ fl[f].pc = "lock" /\ flushMu = Nobody /\ flushMu' = f /\ flushCursor' = flushCursor
           /\ fl'[f].pc = "snap" /\ fl'[f].visited = 0 /\ OnlyMoves(f)
           /\ UNCHANGED <<stripeVars, wakeVars, req>>
BY DEF TypeInv, TypeOK, FlushTypes, FlushLock, FlushMuFree, IdleFlush, OnlyMoves

LEMMA StripeMoves ==
    ASSUME TypeInv, NEW f \in Flushers, SnapshotStripe(f)
    PROVE  /\ fl[f].pc = "snap" /\ fl'[f].pc = "snap" /\ OnlyMoves(f)
           /\ fl[f].visited \in 0..NumStripes /\ fl[f].visited < NumStripes
           /\ fl'[f].visited = fl[f].visited + 1
           /\ fl[f].more => fl'[f].more
           /\ UNCHANGED <<wakeVars, req, flushCursor, flushMu>>
<1> USE DEF TypeInv, TypeOK, FlushTypes
<1>1. fl[f].pc = "snap" /\ fl[f].visited < NumStripes
  BY Zenon DEF SnapshotStripe
<1>2. UNCHANGED <<wakeVars, req, flushCursor, flushMu>>
  BY Zenon DEF SnapshotStripe
<1>3. fl[f] \in FlushProgress
  OBVIOUS
<1>4. PICK b, q, m : /\ fl' = [fl EXCEPT ![f] = [fl[f] EXCEPT !.visited = fl[f].visited + 1,
                                 !.budget = b, !.batch = q, !.more = m]]
                     /\ fl[f].more => m
  <2>1. PICK seen, c, order :
          fl' = [fl EXCEPT ![f] = [fl[f] EXCEPT
             !.visited = fl[f].visited + 1,
             !.budget = c,
             !.batch = (fl[f].batch \o SubSeq(evictedPending[Wrap(flushCursor + fl[f].visited)],
                           1, Taken(f, Wrap(flushCursor + fl[f].visited)))) \o EntriesOf(order),
             !.more = IF Taken(f, Wrap(flushCursor + fl[f].visited))
                            < Len(evictedPending[Wrap(flushCursor + fl[f].visited)])
                         \/ seen # {k \in dirty : StripeOf[k] = Wrap(flushCursor + fl[f].visited)}
                      THEN TRUE ELSE fl[f].more]]
    BY Zenon DEF SnapshotStripe
  <2> QED BY <2>1, Zenon
<1>5. fl'[f].pc = fl[f].pc /\ fl'[f].visited = fl[f].visited + 1 /\ fl'[f].more = m
  BY <1>3, <1>4 DEF FlushProgress
<1>6. OnlyMoves(f)
  BY <1>4 DEF OnlyMoves
<1>7. fl[f].visited \in 0..NumStripes
  BY <1>3 DEF FlushProgress
<1> QED BY <1>1, <1>2, <1>4, <1>5, <1>6, <1>7

LEMMA EndMoves ==
    ASSUME TypeInv, NEW f \in Flushers, SnapshotEnd(f)
    PROVE  /\ fl[f].pc = "snap" /\ fl'[f].pc \in {"probe", "exec"} /\ OnlyMoves(f)
           /\ fl[f].visited < NumStripes => fl'[f].more
           /\ fl[f].more => fl'[f].more
           /\ UNCHANGED <<stripeVars, wakeVars, req, flushMu>>
<1> USE DEF TypeInv, TypeOK, FlushTypes
<1>1. UNCHANGED <<stripeVars, wakeVars, req, flushMu>> /\ fl[f].pc = "snap"
  BY Zenon DEF SnapshotEnd
<1>2. OnlyMoves(f)
  BY DEF SnapshotEnd, OnlyMoves
<1>3. /\ fl'[f].pc = IF fl[f].batch = <<>> THEN "probe" ELSE "exec"
      /\ fl'[f].more = IF fl[f].visited < NumStripes THEN TRUE ELSE fl[f].more
  BY DEF SnapshotEnd, FlushProgress
<1> QED BY <1>1, <1>2, <1>3

\* The steps from the pipeline to the outcome, all inside flushMu.
Middle == {"probe", "exec", "apply", "note", "expire"}
Inner(f) == \/ ExecCommand(f) \/ ExecEnd(f) \/ ApplyError(f) \/ ApplyOk(f)
            \/ NoteOutcome(f) \/ ExecExpire(f) \/ Probe(f)

LEMMA InnerMoves ==
    ASSUME TypeInv, NEW f \in Flushers, Inner(f)
    PROVE  /\ fl[f].pc \in Middle
           /\ fl'[f].pc \in Middle \cup {"release"} /\ OnlyMoves(f)
           /\ fl[f].more => fl'[f].more
           /\ UNCHANGED <<wakeVars, req, flushMu, flushCursor>>
<1> USE DEF TypeInv, TypeOK, FlushTypes, Middle
<1>1. fl[f] \in FlushProgress
  OBVIOUS
<1>2. CASE ExecCommand(f)
  <2>1. /\ fl[f].pc = "exec"
        /\ fl' = [fl EXCEPT ![f].res =
                    Append(fl[f].res, Reply(fl[f].batch[Len(fl[f].res) + 1]))]
        /\ UNCHANGED <<wakeVars, req, flushMu, flushCursor>>
    BY <1>2, Zenon DEF ExecCommand
  <2> QED BY <1>1, <2>1 DEF FlushProgress, OnlyMoves
<1>3. CASE ExecEnd(f)
  <2>1. fl[f].pc = "exec" /\ UNCHANGED <<wakeVars, req, flushMu, flushCursor>>
    BY <1>3, Zenon DEF ExecEnd
  <2>2. PICK q : fl' = [fl EXCEPT ![f] = [fl[f] EXCEPT !.pc = "apply", !.res = q]]
    BY <1>3, Zenon DEF ExecEnd
  <2> QED BY <1>1, <2>1, <2>2 DEF FlushProgress, OnlyMoves
<1>4. CASE ApplyError(f)
  <2>1. fl[f].pc = "apply" /\ UNCHANGED <<wakeVars, req, flushMu, flushCursor>>
    BY <1>4, Zenon DEF ApplyError
  <2>2. PICK c, b, q : /\ fl' = [fl EXCEPT ![f] = [fl[f] EXCEPT !.pc = c, !.batch = b,
                                   !.res = q, !.more = TRUE, !.tickErr = TRUE]]
                       /\ c = IF Len(fl[f].batch) = 1 THEN AfterApply(f) ELSE "apply"
    BY <1>4, Zenon DEF ApplyError
  <2>3. c \in Middle
    BY <2>2 DEF AfterApply
  <2>4. fl'[f].pc = c /\ fl'[f].more
    BY <1>1, <2>2 DEF FlushProgress
  <2>5. OnlyMoves(f)
    BY <2>2 DEF OnlyMoves
  <2> QED BY <2>1, <2>3, <2>4, <2>5
<1>5. CASE ApplyOk(f)
  <2> DEFINE p == Head(fl[f].batch)
             g == Head(fl[f].res)
             residue == /\ states[p.key].windowStart = p.ws
                        /\ Reconciled(states[p.key], p, g).localDelta # 0
  <2>1. fl[f].pc = "apply" /\ UNCHANGED <<wakeVars, req, flushMu, flushCursor>>
    BY <1>5, Zenon DEF ApplyOk
  <2>2. PICK c, b, q, m, h :
          /\ fl' = [fl EXCEPT ![f] = [fl[f] EXCEPT !.pc = c, !.batch = b, !.res = q,
                                        !.more = m, !.creators = h]]
          /\ c = IF Len(fl[f].batch) = 1 THEN AfterApply(f) ELSE "apply"
          /\ m = IF residue THEN TRUE ELSE fl[f].more
    BY <1>5, Zenon DEF ApplyOk
  <2>3. c \in Middle
    BY <2>2 DEF AfterApply
  <2>4. fl'[f].pc = c /\ fl'[f].more = m
    BY <1>1, <2>2 DEF FlushProgress
  <2>5. OnlyMoves(f)
    BY <2>2 DEF OnlyMoves
  <2>6. fl[f].more => m
    BY <2>2, Zenon
  <2> QED BY <2>1, <2>3, <2>4, <2>5, <2>6
<1>6. CASE NoteOutcome(f)
  <2>1. /\ fl[f].pc = "note" /\ UNCHANGED <<wakeVars, req, flushMu, flushCursor>>
        /\ fl' = [fl EXCEPT ![f].pc = IF f = Worker THEN "expire" ELSE "release"]
    BY <1>6, Zenon DEF NoteOutcome
  <2> QED BY <1>1, <2>1 DEF FlushProgress, OnlyMoves
<1>7. CASE ExecExpire(f)
  <2>1. /\ fl[f].pc = "expire" /\ UNCHANGED <<wakeVars, req, flushMu, flushCursor>>
        /\ fl' = [fl EXCEPT ![f] = [fl[f] EXCEPT !.creators = {},
                    !.pc = IF f = Worker THEN "release" ELSE "note"]]
    BY <1>7, Zenon DEF ExecExpire
  <2> QED BY <1>1, <2>1 DEF FlushProgress, OnlyMoves
<1>8. CASE Probe(f)
  <2>1. fl[f].pc = "probe" /\ UNCHANGED <<wakeVars, req, flushMu, flushCursor>>
    BY <1>8, Zenon DEF Probe
  <2>2. PICK m : /\ fl' = [fl EXCEPT ![f] = [fl[f] EXCEPT !.pc = "release", !.more = m]]
                 /\ m = IF ProbeStillDown(f) THEN TRUE ELSE fl[f].more
    BY <1>8, Zenon DEF Probe
  <2>3. fl'[f].pc = "release" /\ fl'[f].more = m /\ OnlyMoves(f)
    BY <1>1, <2>2 DEF FlushProgress, OnlyMoves
  <2>4. fl[f].more => m
    BY <2>2, Zenon
  <2> QED BY <2>1, <2>3, <2>4
<1> QED BY <1>2, <1>3, <1>4, <1>5, <1>6, <1>7, <1>8, Zenon DEF Inner

LEMMA ReleaseMoves ==
    ASSUME TypeInv, NEW f \in Flushers, Release(f)
    PROVE  /\ fl[f].pc = "release" /\ flushMu' = Nobody /\ OnlyMoves(f)
           /\ fl'[f].pc \notin Holding
           /\ f = Worker /\ fl[f].more => fl'[f].pc = "recas"
           /\ f = Closer /\ fl[f].more => fl'[f].more
           /\ UNCHANGED <<stripeVars, wakeVars, req, flushCursor>>
<1> USE DEF TypeInv, TypeOK, FlushTypes
<1> DEFINE c == IF f = Worker THEN WorkerAfter(fl[f].more) ELSE CloserAfter(fl[f].more)
           m == IF f = Closer THEN fl[f].more ELSE FALSE
<1>1. /\ fl[f].pc = "release" /\ flushMu' = Nobody
      /\ UNCHANGED <<stripeVars, wakeVars, req, flushCursor>>
      /\ fl' = [fl EXCEPT ![f] = [IdleFlush EXCEPT !.pc = c, !.more = m]]
  BY Zenon DEF Release
<1>2. c \notin Holding /\ (f = Worker /\ fl[f].more => c = "recas")
  BY DEF WorkerAfter, CloserAfter, Holding
<1>3. f = Closer /\ fl[f].more => m
  OBVIOUS
<1> HIDE DEF c, m
<1>4. fl'[f].pc = c /\ fl'[f].more = m /\ OnlyMoves(f)
  BY <1>1 DEF IdleFlush, OnlyMoves
<1> QED BY <1>1, <1>2, <1>3, <1>4

\* The shard worker's own steps and Close's first two: one flusher moves outside flushMu.
ShardStep == ShardTick \/ CloseDeregister \/ CloseClear

LEMMA ShardMoves ==
    ASSUME TypeInv, ShardStep
    PROVE  /\ UNCHANGED <<stripeVars, flushCursor, flushMu, req>>
           /\ \E f \in Flushers, c \in FlusherPc \ Holding :
                  /\ fl[f].pc \notin Holding
                  /\ fl' = [fl EXCEPT ![f].pc = c]
<1> USE DEF ShardStep, ShardTick, TickTake, TickClear, ReenqueueCas, ReenqueueMark,
            CloseDeregister, CloseClear
<1>1. UNCHANGED <<stripeVars, flushCursor, flushMu, req>>
  OBVIOUS
<1>2. \E f \in Flushers, c \in FlusherPc \ Holding :
         fl[f].pc \notin Holding /\ fl' = [fl EXCEPT ![f].pc = c]
  BY DEF Flushers, Worker, Closer, FlusherPc, Holding
<1> QED BY <1>1, <1>2

\* Steps that do not touch the flushers.
LEMMA OtherMoves ==
    ASSUME \/ \E t \in Threads, k \in Keys, n \in Costs : AllowNEnter(t, k, n)
           \/ \E t \in Threads : AllowN(t)
           \/ Environment \/ IdleTick \/ UNCHANGED vars
    PROVE  UNCHANGED <<fl, flushMu, flushCursor>>
BY DEF AllowNEnter, AllowN, AllowNDecide, AllowNEnqueue, AllowNMarkActive, Environment,
   ClockTick, RedisFails, RedisRecovers, OtherReplica, KeyExpires, IdleTick, vars, flushVars

\* The disjuncts of Next, grouped by what they move.
LEMMA StepCases ==
    ASSUME [Next]_vars
    PROVE  \/ \E t \in Threads, k \in Keys, n \in Costs : AllowNEnter(t, k, n)
           \/ \E t \in Threads : AllowN(t)
           \/ Environment \/ IdleTick \/ UNCHANGED vars
           \/ ShardStep
           \/ \E f \in Flushers : FlushLock(f)
           \/ \E f \in Flushers : SnapshotStripe(f)
           \/ \E f \in Flushers : SnapshotEnd(f)
           \/ \E f \in Flushers : Inner(f)
           \/ \E f \in Flushers : Release(f)
BY Zenon DEF Next, Flush, Inner, ShardStep

-----------------------------------------------------------------------------
(* flushMu serialises the flushes.                                         *)

LEMMA MutexStep ==
    ASSUME TypeInv, Mutex, [Next]_vars
    PROVE  Mutex'
<1>1. ASSUME UNCHANGED <<fl, flushMu>> PROVE Mutex'
  BY <1>1 DEF Mutex
<1>2. ASSUME NEW f \in Flushers, OnlyMoves(f), flushMu' = flushMu,
             fl'[f].pc \in Holding <=> fl[f].pc \in Holding
      PROVE  Mutex'
  BY <1>2 DEF Mutex, OnlyMoves
<1>3. CASE ShardStep
  <2>1. PICK f \in Flushers, c \in FlusherPc \ Holding :
           fl[f].pc \notin Holding /\ fl' = [fl EXCEPT ![f].pc = c]
    BY <1>3, ShardMoves
  <2>2. fl'[f].pc = c /\ OnlyMoves(f)
    BY <2>1 DEF OnlyMoves, TypeInv, TypeOK, FlushTypes, FlushProgress
  <2>3. flushMu' = flushMu
    BY <1>3, ShardMoves
  <2> QED BY <1>2, <2>1, <2>2, <2>3
<1>4. ASSUME NEW f \in Flushers, FlushLock(f) PROVE Mutex'
  <2>1. /\ flushMu = Nobody /\ flushMu' = f /\ fl'[f].pc = "snap" /\ OnlyMoves(f)
    BY <1>4, LockMoves
  <2>2. \A g \in Flushers : fl[g].pc \notin Holding
    BY <2>1 DEF Mutex, Flushers, Nobody, Worker, Closer
  <2> QED BY <2>1, <2>2 DEF Mutex, OnlyMoves, Holding
<1>5. ASSUME NEW f \in Flushers, SnapshotStripe(f) \/ SnapshotEnd(f) \/ Inner(f) PROVE Mutex'
  <2>1. fl[f].pc \in Holding /\ fl'[f].pc \in Holding /\ OnlyMoves(f) /\ flushMu' = flushMu
    BY <1>5, StripeMoves, EndMoves, InnerMoves DEF Holding, Middle
  <2> QED BY <1>2, <2>1
<1>6. ASSUME NEW f \in Flushers, Release(f) PROVE Mutex'
  <2>1. /\ fl[f].pc = "release" /\ flushMu' = Nobody /\ fl'[f].pc \notin Holding
        /\ OnlyMoves(f)
    BY <1>6, ReleaseMoves
  <2>2. \A g \in Flushers : g # f => fl[g].pc \notin Holding
    BY <2>1 DEF Mutex, Holding
  <2>3. Nobody \notin Flushers
    BY DEF Nobody, Flushers, Worker, Closer
  <2> QED BY <2>1, <2>2, <2>3 DEF Mutex, OnlyMoves
<1> QED BY <1>1, <1>3, <1>4, <1>5, <1>6, StepCases, OtherMoves

-----------------------------------------------------------------------------
(* The enqueued flag and the active set stay together.                     *)

LEMMA RequestPcs ==
    ASSUME TypeInv, NEW t \in Threads, NEW c, req' = [req EXCEPT ![t].pc = c]
    PROVE  /\ req'[t].pc = c
           /\ \A u \in Threads : u # t => req'[u] = req[u]
BY DEF TypeInv, TypeOK, RequestTypes, Request

LEMMA BackedStep ==
    ASSUME TypeInv, EnqueuedBacked, [Next]_vars
    PROVE  EnqueuedBacked'
<1>1. ASSUME UNCHANGED <<enqueued, active, fl>>,
             \A t \in Threads : req[t].pc = "mark" => req'[t].pc = "mark"
      PROVE  EnqueuedBacked'
  BY <1>1 DEF EnqueuedBacked
<1>2. CASE \E t \in Threads, k \in Keys, n \in Costs : AllowNEnter(t, k, n)
  BY <1>1, <1>2 DEF AllowNEnter, wakeVars, flushVars, TypeInv, TypeOK, RequestTypes
<1>3. ASSUME NEW t \in Threads, AllowNDecide(t) PROVE EnqueuedBacked'
  BY <1>1, <1>3 DEF AllowNDecide, wakeVars, flushVars, TypeInv, TypeOK, RequestTypes
<1>4. ASSUME NEW t \in Threads, AllowNEnqueue(t) PROVE EnqueuedBacked'
  <2> DEFINE c == IF enqueued THEN "idle" ELSE "mark"
  <2>1. /\ req[t].pc = "enqueue" /\ req' = [req EXCEPT ![t].pc = c]
        /\ UNCHANGED <<active, flushVars>>
    BY <1>4, Zenon DEF AllowNEnqueue
  <2> HIDE DEF c
  <2>2. req'[t].pc = c /\ \A u \in Threads : u # t => req'[u] = req[u]
    BY <2>1, RequestPcs
  <2>3. UNCHANGED <<active, fl>>
    BY <2>1 DEF flushVars
  <2>4. CASE enqueued
    <3>1. \A u \in Threads : req[u].pc = "mark" => req'[u].pc = "mark"
      BY <2>1, <2>2
    <3> QED BY <2>3, <2>4, <3>1 DEF EnqueuedBacked
  <2>5. CASE ~enqueued
    <3>1. req'[t].pc = "mark"
      BY <2>2, <2>5 DEF c
    <3> QED BY <3>1 DEF EnqueuedBacked
  <2> QED BY <2>4, <2>5
<1>5. ASSUME NEW t \in Threads, AllowNMarkActive(t) PROVE EnqueuedBacked'
  BY <1>5 DEF AllowNMarkActive, EnqueuedBacked
<1>6. CASE Environment \/ IdleTick \/ UNCHANGED vars
  BY <1>1, <1>6 DEF Environment, ClockTick, RedisFails, RedisRecovers, OtherReplica,
     KeyExpires, IdleTick, vars, wakeVars, flushVars
<1>7. ASSUME NEW f \in Flushers, OnlyMoves(f), UNCHANGED <<wakeVars, req>>,
             fl[f].pc \notin {"clear", "remark", "deregister"}
      PROVE  EnqueuedBacked'
  BY <1>7 DEF OnlyMoves, EnqueuedBacked, wakeVars, Flushers, Worker, Closer
<1>8. ASSUME NEW f \in Flushers,
             \/ FlushLock(f) \/ SnapshotStripe(f) \/ SnapshotEnd(f) \/ Inner(f) \/ Release(f)
      PROVE  EnqueuedBacked'
  <2>1. OnlyMoves(f) /\ UNCHANGED <<wakeVars, req>>
    BY <1>8, LockMoves, StripeMoves, EndMoves, InnerMoves, ReleaseMoves
  <2>2. fl[f].pc \notin {"clear", "remark", "deregister"}
    BY <1>8, LockMoves, StripeMoves, EndMoves, InnerMoves, ReleaseMoves DEF Middle
  <2> QED BY <1>7, <2>1, <2>2
<1>9. CASE ShardStep
  <2>1. ASSUME NEW f \in Flushers, NEW c, fl' = [fl EXCEPT ![f].pc = c]
        PROVE  fl'[f].pc = c /\ OnlyMoves(f)
    BY <2>1 DEF OnlyMoves, TypeInv, TypeOK, FlushTypes, FlushProgress
  <2>2. Worker \in Flushers /\ Closer \in Flushers /\ Worker # Closer
    BY DEF Flushers, Worker, Closer
  <2>3. UNCHANGED req
    BY <1>9, ShardMoves
  <2>4. CASE TickTake
    <3>1. fl'[Worker].pc = "clear"
      BY <2>1, <2>2, <2>4 DEF TickTake
    <3> QED BY <3>1 DEF EnqueuedBacked
  <2>5. CASE TickClear
    BY <2>5 DEF TickClear, EnqueuedBacked
  <2>6. CASE CloseClear
    BY <2>6 DEF CloseClear, EnqueuedBacked
  <2>7. CASE ReenqueueMark
    BY <2>7 DEF ReenqueueMark, EnqueuedBacked
  <2>8. CASE CloseDeregister
    <3>1. fl'[Closer].pc = "deregister"
      BY <2>1, <2>2, <2>8 DEF CloseDeregister
    <3> QED BY <3>1 DEF EnqueuedBacked
  <2>9. CASE ReenqueueCas
    <3> DEFINE c == IF enqueued THEN "idle" ELSE "remark"
    <3>1. /\ fl[Worker].pc = "recas" /\ fl' = [fl EXCEPT ![Worker].pc = c]
          /\ UNCHANGED active
      BY <2>9, Zenon DEF ReenqueueCas
    <3> HIDE DEF c
    <3>2. fl'[Worker].pc = c /\ fl'[Closer] = fl[Closer]
      BY <2>1, <2>2, <3>1 DEF OnlyMoves
    <3>3. CASE enqueued
      BY <2>3, <3>1, <3>2, <3>3 DEF EnqueuedBacked
    <3>4. CASE ~enqueued
      BY <3>2, <3>4 DEF EnqueuedBacked, c
    <3> QED BY <3>3, <3>4
  <2> QED BY <1>9, <2>4, <2>5, <2>6, <2>7, <2>8, <2>9, Zenon DEF ShardStep, ShardTick
<1>10. CASE \E t \in Threads : AllowN(t)
  BY <1>3, <1>4, <1>5, <1>10 DEF AllowN
<1> QED BY <1>2, <1>6, <1>8, <1>9, <1>10, StepCases, Zenon

-----------------------------------------------------------------------------
(* Nothing to flush is ever out of sight.                                  *)

\* NoLostWakeup after a step that adds no work, when no visit to come is lost.
LEMMA NoNewWork ==
    ASSUME NoLostWakeup, \A s \in Stripes : Work(s)' => Work(s),
           \A s \in Stripes : WillVisit(s) => WillVisit(s)'
    PROVE  NoLostWakeup'
<1>1. NoLostWakeup <=> \A s \in Stripes : Work(s) => WillVisit(s)
  BY DEF NoLostWakeup, Work
<1>2. NoLostWakeup' <=> \A s \in Stripes : Work(s)' => WillVisit(s)'
  BY DEF NoLostWakeup, Work
<1> QED BY <1>1, <1>2

LEMMA SameWork ==
    ASSUME UNCHANGED stripeVars
    PROVE  \A s \in Stripes : Work(s)' => Work(s)
BY DEF Work, stripeVars

\* A flush that is past its snapshot keeps every visit to come.
LEMMA VisitsKept ==
    ASSUME NEW f \in Flushers, OnlyMoves(f), UNCHANGED <<wakeVars, req, flushCursor>>,
           fl[f].more => fl'[f].more, fl[f].pc \in Middle
    PROVE  \A s \in Stripes : WillVisit(s) => WillVisit(s)'
<1> SUFFICES ASSUME NEW s \in Stripes, WillVisit(s) PROVE WillVisit(s)'
  OBVIOUS
<1>1. CASE \/ active \/ \E t \in Threads : req[t].pc \in {"enqueue", "mark"}
           \/ fl[f].more
  BY <1>1 DEF WillVisit, ComesBy, wakeVars
<1>2. CASE \/ fl[Worker].pc \in {"clear", "recas", "remark"}
           \/ fl[Closer].pc = "deregister"
  BY <1>2 DEF WillVisit, ComesBy, OnlyMoves, Middle, Flushers, Worker, Closer
<1>3. CASE \E g \in Flushers : g # f /\ ComesBy(g, s)
  <2>1. PICK g \in Flushers : g # f /\ ComesBy(g, s)
    BY <1>3
  <2>2. fl'[g] = fl[g] /\ Unvisited(g)' = Unvisited(g)
    BY <2>1 DEF OnlyMoves, Middle, Unvisited
  <2> QED BY <2>1, <2>2 DEF WillVisit, ComesBy
<1>4. ComesBy(f, s) => fl[f].more
  BY DEF ComesBy, Middle
<1> QED BY <1>1, <1>2, <1>3, <1>4 DEF WillVisit

\* The stripe-lock section of AllowN: a request that adds work goes on to enqueue.
LEMMA DecideWakes ==
    ASSUME TypeInv, NoLostWakeup, NEW t \in Threads, AllowNDecide(t)
    PROVE  NoLostWakeup'
<1> USE LocalAsyncAssumption
<1> DEFINE k == req[t].key
           n == req[t].n
           w == WindowStart(req[t].now)
           s0 == StripeOf[k]
           st == IF states[k].windowStart = w THEN states[k] ELSE Fresh(w)
           verdict == Verdict(st, n)
           c == AfterDecide(evictedPending'[s0], verdict, n).pc
<1>1. k \in Keys /\ req[t].pc = "lock" /\ s0 \in Stripes /\ n \in Nat
  <2>1. req[t].pc = "lock" /\ req[t] \in Request
    BY DEF AllowNDecide, TypeInv, TypeOK, RequestTypes
  <2> QED BY <2>1 DEF TypeInv, Shape, Stripes, Request
<1>2. PICK R : /\ states' = [j \in Keys |-> IF j = k THEN Counted(st, verdict, n)
                                            ELSE IF j \in R THEN Nil ELSE states[j]]
               /\ dirty' = (dirty \ R) \cup (IF verdict = "admit" /\ n > 0 THEN {k} ELSE {})
               /\ evictedPending' = [evictedPending EXCEPT ![s0] = Carried(s0, R)]
  BY Zenon DEF AllowNDecide
<1>3. /\ req' = [req EXCEPT ![t] = AfterDecide(evictedPending'[s0], verdict, n)]
      /\ UNCHANGED <<wakeVars, flushVars>>
  BY Zenon DEF AllowNDecide
<1>4. c = IF evictedPending'[s0] # <<>> \/ verdict = "redisDown" \/ (verdict = "admit" /\ n > 0)
          THEN "enqueue" ELSE "idle"
  BY DEF AfterDecide, IdleReq
<1>5. req'[t].pc = c /\ \A u \in Threads : u # t => req'[u] = req[u]
  BY <1>3 DEF TypeInv, TypeOK, RequestTypes
<1>6. CASE c = "enqueue"
  BY <1>5, <1>6 DEF NoLostWakeup, WillVisit, ComesBy
<1>7. CASE c # "enqueue"
  <2>1. evictedPending'[s0] = <<>> /\ ~(verdict = "admit" /\ n > 0)
    BY <1>4, <1>7
  <2>2. \A s \in Stripes : WillVisit(s) => WillVisit(s)'
    <3>1. \A u \in Threads : req[u].pc \in {"enqueue", "mark"}
                             => req'[u].pc \in {"enqueue", "mark"}
      BY <1>1, <1>5
    <3>2. UNCHANGED <<active, fl, flushCursor>>
      BY <1>3 DEF wakeVars, flushVars
    <3>3. \A f \in Flushers : Unvisited(f)' = Unvisited(f)
      BY <3>2 DEF Unvisited
    <3> QED BY <3>1, <3>2, <3>3 DEF WillVisit, ComesBy
  <2>3. ASSUME NEW j \in dirty', states'[j].localDelta > 0
        PROVE  j \in dirty /\ j \in Keys /\ states[j].localDelta > 0
    <3>1. j \in dirty /\ j \in Keys
      BY <1>2, <2>1, <2>3 DEF TypeInv, TypeOK, StripeTypes
    <3>2. CASE j # k
      BY <1>2, <2>3, <3>1, <3>2 DEF Nil
    <3>3. CASE j = k
      <4>1. states'[k] = Counted(st, verdict, n)
        BY <1>1, <1>2
      <4>2. st \in LocalState
        <5>1. w \in Windows
          BY <1>1, WindowType DEF TypeInv, TypeOK, RequestTypes, Request
        <5> QED BY <1>1, <5>1 DEF TypeInv, TypeOK, StripeTypes, LocalState, Fresh, Nil
      <4> HIDE DEF st, verdict
      <4>3. Counted(st, verdict, n).localDelta
              = IF verdict = "admit" THEN st.localDelta + n ELSE st.localDelta
        <5>1. \A b, d : [st EXCEPT !.blocked = b, !.localDelta = d].localDelta = d
          BY <4>2 DEF LocalState
        <5>2. Counted(st, verdict, n) =
                [st EXCEPT !.blocked = IF verdict = "over" THEN TRUE ELSE st.blocked,
                           !.localDelta = IF verdict = "admit" THEN st.localDelta + n
                                          ELSE st.localDelta]
          BY DEF Counted
        <5> QED BY <5>1, <5>2, Zenon
      <4>4. st.localDelta \in Nat
        BY <4>2 DEF LocalState
      <4>5. st.localDelta > 0
        BY <1>1, <2>1, <2>3, <3>3, <4>1, <4>3, <4>4
      <4> QED BY <3>1, <3>3, <4>5 DEF st, Fresh, Nil
    <3> QED BY <3>1, <3>2, <3>3
  <2>4. \A s \in Stripes : Work(s)' => Work(s)
    <3>1. \A s \in Stripes : evictedPending'[s] # <<>> => evictedPending[s] # <<>>
      BY <1>2, <2>1 DEF TypeInv, TypeOK, StripeTypes
    <3> QED BY <2>3, <3>1 DEF Work
  <2> QED BY <2>2, <2>4, NoNewWork
<1> QED BY <1>6, <1>7

\* The CAS of AllowN: one that fails leaves the work to whoever backs the flag.
LEMMA EnqueueWakes ==
    ASSUME TypeInv, EnqueuedBacked, NoLostWakeup, NEW t \in Threads,
           AllowNEnqueue(t) \/ AllowNMarkActive(t)
    PROVE  NoLostWakeup'
<1>1. CASE AllowNMarkActive(t)
  BY <1>1 DEF AllowNMarkActive, NoLostWakeup, WillVisit, ComesBy
<1>2. CASE AllowNEnqueue(t)
  <2> DEFINE c == IF enqueued THEN "idle" ELSE "mark"
  <2>1. /\ req[t].pc = "enqueue" /\ req' = [req EXCEPT ![t].pc = c]
        /\ UNCHANGED <<active, flushVars>>
    BY <1>2, Zenon DEF AllowNEnqueue
  <2> HIDE DEF c
  <2>2. req'[t].pc = c /\ \A u \in Threads : u # t => req'[u] = req[u]
    BY <2>1, RequestPcs
  <2>3. UNCHANGED <<active, fl>>
    BY <2>1 DEF flushVars
  <2>4. CASE enqueued
    <3>1. \A u \in Threads : req[u].pc = "mark" => req'[u].pc = "mark"
      BY <2>1, <2>2
    <3> QED BY <2>3, <2>4, <3>1 DEF EnqueuedBacked, NoLostWakeup, WillVisit, ComesBy
  <2>5. CASE ~enqueued
    <3>1. req'[t].pc = "mark"
      BY <2>2, <2>5 DEF c
    <3> QED BY <3>1 DEF NoLostWakeup, WillVisit, ComesBy
  <2> QED BY <2>4, <2>5
<1> QED BY <1>1, <1>2

\* A snapshot that begins has every stripe before it.
LEMMA LockWakes ==
    ASSUME TypeInv, NEW f \in Flushers, FlushLock(f)
    PROVE  NoLostWakeup'
<1>1. fl'[f].pc = "snap" /\ fl'[f].visited = 0 /\ flushCursor' = flushCursor
  BY LockMoves
<1>2. ASSUME NEW s \in Stripes PROVE \E i \in 0..(NumStripes - 1) : s = Wrap(flushCursor + i)
  <2> DEFINE i == IF s >= flushCursor THEN s - flushCursor ELSE s - flushCursor + NumStripes
  <2>1. flushCursor \in Stripes
    BY DEF TypeInv, TypeOK, FlushTypes
  <2>2. i \in 0..(NumStripes - 1) /\ s = Wrap(flushCursor + i)
    BY <2>1, LocalAsyncAssumption DEF Stripes, Wrap
  <2> QED BY <2>2
<1>3. \A s \in Stripes : s \in Unvisited(f)'
  BY <1>1, <1>2 DEF Unvisited, Wrap
<1> QED BY <1>1, <1>3 DEF NoLostWakeup, WillVisit, ComesBy

\* One stripe of the snapshot: what it leaves behind in its stripe it announces.
LEMMA StripeWakes ==
    ASSUME TypeInv, Mutex, NoLostWakeup, NEW f \in Flushers, SnapshotStripe(f)
    PROVE  NoLostWakeup'
<1> USE LocalAsyncAssumption
<1> DEFINE v == fl[f].visited
           s0 == Wrap(flushCursor + v)
           ev == evictedPending[s0]
           take == Taken(f, s0)
           mine == {k \in dirty : StripeOf[k] = s0}
           gone == Expired(states, s0, fl[f].at)
<1>1. /\ fl[f].pc = "snap" /\ fl'[f].pc = "snap" /\ OnlyMoves(f)
      /\ v \in 0..NumStripes /\ v < NumStripes /\ fl'[f].visited = v + 1
      /\ fl[f].more => fl'[f].more
      /\ UNCHANGED <<wakeVars, req, flushCursor, flushMu>>
  BY StripeMoves
<1>2. PICK seen \in SUBSET mine :
        /\ dirty' = (dirty \ seen) \ gone
        /\ take < Len(ev) \/ seen # mine => fl'[f].more
  <2>1. PICK seen, b, q :
          /\ seen \in SUBSET mine
          /\ fl' = [fl EXCEPT ![f] = [fl[f] EXCEPT !.visited = fl[f].visited + 1, !.budget = b,
                !.batch = q,
                !.more = IF take < Len(ev) \/ seen # mine THEN TRUE ELSE fl[f].more]]
          /\ dirty' = (dirty \ seen) \ gone
    BY Zenon DEF SnapshotStripe
  <2> DEFINE m == IF take < Len(ev) \/ seen # mine THEN TRUE ELSE fl[f].more
  <2>2. take < Len(ev) \/ seen # mine => m
    BY Zenon
  <2> HIDE DEF m
  <2>3. fl'[f].more = m
    BY <2>1 DEF m, TypeInv, TypeOK, FlushTypes, FlushProgress
  <2> HIDE DEF take, ev, mine
  <2> QED BY <2>1, <2>2, <2>3
<1>3. /\ states' = [k \in Keys |-> IF k \in gone THEN Nil ELSE states[k]]
      /\ evictedPending' = [evictedPending EXCEPT ![s0] = SubSeq(ev, take + 1, Len(ev))]
  BY Zenon DEF SnapshotStripe
<1>4. s0 \in Stripes
  BY <1>1 DEF TypeInv, TypeOK, FlushTypes, Stripes, Wrap
<1>5. take \in Nat /\ Len(ev) \in Nat /\ take <= Len(ev)
  <2>1. ev \in Seq(Pending) /\ fl[f].budget \in 0..MaxPipeline
    BY <1>4 DEF TypeInv, TypeOK, StripeTypes, FlushTypes, FlushProgress
  <2> QED BY <2>1 DEF Taken
<1> HIDE DEF take, gone
<1>6. ASSUME NEW j \in dirty', states'[j].localDelta > 0
      PROVE  j \in dirty \ seen /\ states[j].localDelta > 0
  BY <1>2, <1>3, <1>6 DEF TypeInv, TypeOK, StripeTypes, Nil
<1>7. ASSUME NEW s \in Stripes, s = s0, Work(s)' PROVE fl'[f].more
  <2>1. CASE evictedPending'[s0] # <<>>
    <3>1. evictedPending'[s0] = SubSeq(ev, take + 1, Len(ev))
      BY <1>3, <1>4 DEF TypeInv, TypeOK, StripeTypes
    <3>2. take < Len(ev)
      <4> SUFFICES ASSUME take = Len(ev) PROVE FALSE
        BY <1>5
      <4> HIDE DEF ev
      <4> QED BY <1>5, <2>1, <3>1, SubSeqEmpty
    <3> QED BY <1>2, <3>2
  <2>2. CASE \E j \in dirty' : StripeOf[j] = s0 /\ states'[j].localDelta > 0
    BY <1>2, <1>6, <2>2
  <2>3. \/ evictedPending'[s] # <<>>
        \/ \E j \in dirty' : StripeOf[j] = s /\ states'[j].localDelta > 0
    BY <1>7 DEF Work
  <2> QED BY <1>7, <2>1, <2>2, <2>3
<1>8. ASSUME NEW s \in Stripes, s # s0, Work(s)' PROVE Work(s)
  BY <1>3, <1>6, <1>8 DEF Work, TypeInv, TypeOK, StripeTypes
<1>9. ASSUME NEW s \in Stripes, s # s0, WillVisit(s) PROVE WillVisit(s)'
  <2>1. CASE \/ active \/ \E t \in Threads : req[t].pc \in {"enqueue", "mark"}
             \/ fl[f].more
    BY <1>1, <2>1 DEF WillVisit, ComesBy, wakeVars
  <2>2. CASE \/ fl[Worker].pc \in {"clear", "recas", "remark"}
             \/ fl[Closer].pc = "deregister"
    BY <1>1, <2>2 DEF WillVisit, ComesBy, OnlyMoves, Flushers, Worker, Closer
  <2>3. CASE \E g \in Flushers : g # f /\ ComesBy(g, s)
    <3>1. PICK g \in Flushers : g # f /\ ComesBy(g, s)
      BY <2>3
    <3>2. fl'[g] = fl[g] /\ Unvisited(g)' = Unvisited(g)
      BY <1>1, <3>1 DEF OnlyMoves, Unvisited
    <3> QED BY <3>1, <3>2 DEF WillVisit, ComesBy
  <2>4. CASE s \in Unvisited(f)
    <3>1. PICK i \in v..(NumStripes - 1) : s = Wrap(flushCursor + i)
      BY <2>4 DEF Unvisited
    <3>2. i # v
      BY <1>9, <3>1
    <3>3. i \in (v + 1)..(NumStripes - 1)
      BY <1>1, <3>1, <3>2
    <3>4. s \in Unvisited(f)'
      BY <1>1, <3>1, <3>3 DEF Unvisited, Wrap
    <3> QED BY <1>1, <3>4 DEF WillVisit, ComesBy
  <2>5. ComesBy(f, s) => s \in Unvisited(f) \/ fl[f].more
    BY <1>1 DEF ComesBy
  <2> QED BY <1>9, <2>1, <2>2, <2>3, <2>4, <2>5 DEF WillVisit
<1>10. fl'[f].more => \A s \in Stripes : WillVisit(s)'
  BY DEF WillVisit, ComesBy
<1>11. ASSUME NEW s \in Stripes, Work(s)' PROVE WillVisit(s)'
  <2>1. CASE s = s0
    BY <1>7, <1>10, <1>11, <2>1
  <2>2. CASE s # s0
    BY <1>8, <1>9, <1>11, <2>2 DEF NoLostWakeup, Work
  <2> QED BY <2>1, <2>2
<1> QED BY <1>11 DEF NoLostWakeup, Work

\* The end of the snapshot: stripes left out for want of budget are announced, and no
\* other snapshot is in progress when the cursor moves.
LEMMA EndWakes ==
    ASSUME TypeInv, Mutex, NoLostWakeup, NEW f \in Flushers, SnapshotEnd(f)
    PROVE  NoLostWakeup'
<1>1. /\ fl[f].pc = "snap" /\ OnlyMoves(f)
      /\ fl[f].visited < NumStripes => fl'[f].more
      /\ fl[f].more => fl'[f].more
      /\ UNCHANGED <<stripeVars, wakeVars, req, flushMu>>
  BY EndMoves
<1>2. \A g \in Flushers : g # f => fl[g].pc # "snap"
  BY <1>1 DEF Mutex, Holding
<1>3. ASSUME NEW s \in Stripes, WillVisit(s) PROVE WillVisit(s)'
  <2>1. CASE active \/ (\E t \in Threads : req[t].pc \in {"enqueue", "mark"}) \/ fl[f].more
    BY <1>1, <2>1 DEF WillVisit, ComesBy, wakeVars
  <2>2. CASE \/ fl[Worker].pc \in {"clear", "recas", "remark"}
             \/ fl[Closer].pc = "deregister"
    BY <1>1, <2>2 DEF WillVisit, ComesBy, OnlyMoves, Flushers, Worker, Closer
  <2>3. CASE \E g \in Flushers : g # f /\ ComesBy(g, s)
    BY <1>1, <1>2, <2>3 DEF WillVisit, ComesBy, OnlyMoves
  <2>4. CASE s \in Unvisited(f)
    <3>1. fl[f].visited < NumStripes
      <4>1. \E i \in fl[f].visited..(NumStripes - 1) : TRUE
        BY <2>4 DEF Unvisited
      <4>2. fl[f].visited \in 0..NumStripes
        BY DEF TypeInv, TypeOK, FlushTypes, FlushProgress
      <4> QED BY <4>1, <4>2, LocalAsyncAssumption
    <3> QED BY <1>1, <3>1 DEF WillVisit, ComesBy
  <2>5. ComesBy(f, s) => s \in Unvisited(f) \/ fl[f].more
    BY <1>1 DEF ComesBy
  <2> QED BY <1>3, <2>1, <2>2, <2>3, <2>4, <2>5 DEF WillVisit
<1> QED BY <1>1, <1>3, SameWork, NoNewWork

\* The pipeline and its results: a delta given back, or left by requests admitted
\* meanwhile, makes the flush ask for another one.
LEMMA InnerWakes ==
    ASSUME TypeInv, NoLostWakeup, NEW f \in Flushers, Inner(f)
    PROVE  NoLostWakeup'
<1>1. \A s \in Stripes : WillVisit(s) => WillVisit(s)'
  BY InnerMoves, VisitsKept
<1>2. CASE ApplyError(f)
  <2>1. fl'[f].more
    BY <1>2 DEF ApplyError, TypeInv, TypeOK, FlushTypes, FlushProgress
  <2> QED BY <2>1 DEF NoLostWakeup, WillVisit, ComesBy
<1>3. CASE ApplyOk(f)
  <2> DEFINE p == Head(fl[f].batch)
             new == Reconciled(states[p.key], p, Head(fl[f].res))
             same == states[p.key].windowStart = p.ws
             residue == same /\ new.localDelta # 0
  <2>1. PICK c, b, q, h : fl' = [fl EXCEPT ![f] = [fl[f] EXCEPT !.pc = c, !.batch = b,
             !.res = q, !.more = IF residue THEN TRUE ELSE fl[f].more, !.creators = h]]
    BY <1>3, Zenon DEF ApplyOk
  <2>2. /\ states' = IF same THEN [states EXCEPT ![p.key] = new] ELSE states
        /\ dirty' = IF residue THEN dirty \cup {p.key} ELSE dirty
        /\ evictedPending' = evictedPending
    BY <1>3, Zenon DEF ApplyOk
  <2> HIDE DEF new, p
  <2>3. CASE residue
    <3>1. fl'[f].more
      BY <2>1, <2>3 DEF TypeInv, TypeOK, FlushTypes, FlushProgress
    <3> QED BY <3>1 DEF NoLostWakeup, WillVisit, ComesBy
  <2>4. CASE ~residue
    <3>1. ASSUME NEW j \in dirty', states'[j].localDelta > 0
          PROVE  j \in dirty /\ states[j].localDelta > 0
      BY <2>2, <2>4, <3>1 DEF TypeInv, TypeOK, StripeTypes
    <3>2. \A s \in Stripes : Work(s)' => Work(s)
      BY <2>2, <3>1 DEF Work
    <3> QED BY <1>1, <3>2, NoNewWork
  <2> QED BY <2>3, <2>4
<1>4. CASE ~ApplyError(f) /\ ~ApplyOk(f)
  <2>1. UNCHANGED stripeVars
    BY <1>4, Zenon DEF Inner, ExecCommand, ExecEnd, NoteOutcome, ExecExpire, Probe
  <2> QED BY <1>1, <2>1, SameWork, NoNewWork
<1> QED BY <1>2, <1>3, <1>4

\* Leaving flushMu: the worker goes on to re-enqueue, the drain to its next round.
LEMMA ReleaseWakes ==
    ASSUME TypeInv, NoLostWakeup, NEW f \in Flushers, Release(f)
    PROVE  NoLostWakeup'
<1>1. /\ fl[f].pc = "release" /\ OnlyMoves(f)
      /\ f = Worker /\ fl[f].more => fl'[f].pc = "recas"
      /\ f = Closer /\ fl[f].more => fl'[f].more
      /\ UNCHANGED <<stripeVars, wakeVars, req, flushCursor>>
  BY ReleaseMoves
<1>2. ASSUME NEW s \in Stripes, WillVisit(s) PROVE WillVisit(s)'
  <2>1. CASE active \/ \E t \in Threads : req[t].pc \in {"enqueue", "mark"}
    BY <1>1, <2>1 DEF WillVisit, ComesBy, wakeVars
  <2>2. CASE \/ fl[Worker].pc \in {"clear", "recas", "remark"}
             \/ fl[Closer].pc = "deregister"
    BY <1>1, <2>2 DEF WillVisit, ComesBy, OnlyMoves, Flushers, Worker, Closer
  <2>3. CASE fl[f].more
    BY <1>1, <2>3 DEF WillVisit, ComesBy, Flushers
  <2>4. CASE \E g \in Flushers : g # f /\ ComesBy(g, s)
    <3>1. PICK g \in Flushers : g # f /\ ComesBy(g, s)
      BY <2>4
    <3>2. fl'[g] = fl[g] /\ Unvisited(g)' = Unvisited(g)
      BY <1>1, <3>1 DEF OnlyMoves, Unvisited
    <3> QED BY <3>1, <3>2 DEF WillVisit, ComesBy
  <2>5. ComesBy(f, s) => fl[f].more
    BY <1>1 DEF ComesBy
  <2> QED BY <1>2, <2>1, <2>2, <2>3, <2>4, <2>5 DEF WillVisit
<1> QED BY <1>1, <1>2, SameWork, NoNewWork

\* The worker's and Close's own steps hand the limiter on.
LEMMA ShardWakes ==
    ASSUME TypeInv, EnqueuedBacked, NoLostWakeup, ShardStep
    PROVE  NoLostWakeup'
<1>1. ASSUME NEW f \in Flushers, NEW c, fl' = [fl EXCEPT ![f].pc = c]
      PROVE  fl'[f].pc = c /\ fl'[f].more = fl[f].more /\ OnlyMoves(f)
  BY <1>1 DEF OnlyMoves, TypeInv, TypeOK, FlushTypes, FlushProgress
<1>2. Worker \in Flushers /\ Closer \in Flushers /\ Worker # Closer
  BY DEF Flushers, Worker, Closer
<1>3. CASE TickTake
  <2>1. fl'[Worker].pc = "clear"
    BY <1>1, <1>2, <1>3 DEF TickTake
  <2> QED BY <2>1 DEF NoLostWakeup, WillVisit
<1>4. CASE TickClear
  <2>1. fl'[Worker].pc = "lock"
    BY <1>1, <1>2, <1>4 DEF TickClear
  <2> QED BY <1>2, <2>1 DEF NoLostWakeup, WillVisit, ComesBy
<1>5. CASE ReenqueueMark
  BY <1>5 DEF ReenqueueMark, NoLostWakeup, WillVisit
<1>6. CASE CloseDeregister
  <2>1. fl'[Closer].pc = "deregister"
    BY <1>1, <1>2, <1>6 DEF CloseDeregister
  <2> QED BY <2>1 DEF NoLostWakeup, WillVisit
<1>7. CASE CloseClear
  <2>1. fl'[Closer].pc = "lock"
    BY <1>1, <1>2, <1>7 DEF CloseClear
  <2> QED BY <1>2, <2>1 DEF NoLostWakeup, WillVisit, ComesBy
<1>8. CASE ReenqueueCas
  <2> DEFINE c == IF enqueued THEN "idle" ELSE "remark"
  <2>1. /\ fl[Worker].pc = "recas" /\ fl' = [fl EXCEPT ![Worker].pc = c]
        /\ UNCHANGED <<active, req>>
    BY <1>8, Zenon DEF ReenqueueCas
  <2> HIDE DEF c
  <2>2. fl'[Worker].pc = c /\ fl'[Closer] = fl[Closer]
    BY <1>1, <1>2, <2>1 DEF OnlyMoves
  <2>3. CASE enqueued
    BY <2>1, <2>2, <2>3 DEF EnqueuedBacked, NoLostWakeup, WillVisit
  <2>4. CASE ~enqueued
    BY <2>2, <2>4 DEF NoLostWakeup, WillVisit, c
  <2> QED BY <2>3, <2>4
<1> QED BY <1>3, <1>4, <1>5, <1>6, <1>7, <1>8, Zenon DEF ShardStep, ShardTick

\* Steps of clients, of the clock and of Redis neither add nor hide work.
LEMMA QuietWakes ==
    ASSUME TypeInv, NoLostWakeup,
           \/ \E t \in Threads, k \in Keys, n \in Costs : AllowNEnter(t, k, n)
           \/ Environment \/ IdleTick \/ UNCHANGED vars
    PROVE  NoLostWakeup'
<1>1. UNCHANGED <<stripeVars, wakeVars, fl, flushCursor>>
  BY DEF AllowNEnter, Environment, ClockTick, RedisFails, RedisRecovers, OtherReplica,
     KeyExpires, IdleTick, vars, flushVars
<1>2. \A t \in Threads : req[t].pc \in {"enqueue", "mark"} => req'[t].pc = req[t].pc
  <2>1. CASE \E t \in Threads, k \in Keys, n \in Costs : AllowNEnter(t, k, n)
    BY <2>1 DEF AllowNEnter, TypeInv, TypeOK, RequestTypes
  <2>2. CASE Environment \/ IdleTick \/ UNCHANGED vars
    BY <2>2 DEF Environment, ClockTick, RedisFails, RedisRecovers, OtherReplica, KeyExpires,
       IdleTick, vars
  <2> QED BY <2>1, <2>2
<1>3. \A f \in Flushers, s \in Stripes : ComesBy(f, s) => ComesBy(f, s)'
  BY <1>1 DEF ComesBy, Unvisited
<1>4. \A s \in Stripes : WillVisit(s) => WillVisit(s)'
  BY <1>1, <1>2, <1>3 DEF WillVisit, wakeVars
<1> QED BY <1>1, <1>4, SameWork, NoNewWork

LEMMA WakeupStep ==
    ASSUME WakeupInv, [Next]_vars
    PROVE  WakeupInv'
<1> USE DEF WakeupInv
<1>1. TypeInv' /\ BatchShape' /\ Mutex' /\ EnqueuedBacked'
  BY StepType, StepShape, MutexStep, BackedStep
<1>2. ASSUME NEW t \in Threads, AllowN(t) PROVE NoLostWakeup'
  BY <1>2, DecideWakes, EnqueueWakes DEF AllowN
<1>3. NoLostWakeup'
  BY <1>2, StepCases, QuietWakes, ShardWakes, LockWakes, StripeWakes, EndWakes, InnerWakes,
     ReleaseWakes
<1> QED BY <1>1, <1>3

\* Concurrency invariant 2 of redis_local_async.go: a dirty or evicted delta is always in
\* front of an enqueued limiter, of a thread about to enqueue it, or of a flush that will
\* reach it or ask for another one, whatever the keys, threads, stripes and budgets.
THEOREM WakeupNeverLost == Spec => []NoLostWakeup
<1>1. Init => WakeupInv
  <2>1. Init => TypeInv
    BY InitType
  <2>2. Init => BatchShape /\ Mutex /\ EnqueuedBacked
    BY DEF Init, BatchShape, Mutex, EnqueuedBacked, IdleFlush, Holding, Nobody, Flushers,
       Worker, Closer
  <2>3. Init => NoLostWakeup
    BY DEF Init, NoLostWakeup
  <2> QED BY <2>1, <2>2, <2>3 DEF WakeupInv
<1>2. WakeupInv /\ [Next]_vars => WakeupInv'
  BY WakeupStep
<1>3. WakeupInv => NoLostWakeup
  BY DEF WakeupInv
<1> QED BY <1>1, <1>2, <1>3, PTL DEF Spec

\* Concurrency invariant 3: the worker and a Close never flush the limiter at once.
THEOREM FlushesSerialised == Spec => []Mutex
<1>1. Init => TypeInv /\ BatchShape /\ Mutex
  BY InitType DEF Init, BatchShape, Mutex, IdleFlush, Holding, Nobody, Flushers, Worker, Closer
<1>2. TypeInv /\ BatchShape /\ Mutex /\ [Next]_vars => TypeInv' /\ BatchShape' /\ Mutex'
  BY StepType, StepShape, MutexStep
<1> QED BY <1>1, <1>2, PTL DEF Spec

=============================================================================
