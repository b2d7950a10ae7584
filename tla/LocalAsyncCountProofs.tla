------------------------ MODULE LocalAsyncCountProofs ------------------------
(***************************************************************************)
(* What the redis-local-async limiter counts, for every number of keys,    *)
(* threads and stripes: a latched limiter is probed, no delta is stranded, *)
(* created keys get their TTL, the count read back never goes backwards,   *)
(* one replica keeps its quota, and of the units admitted none is counted  *)
(* twice and none goes missing.                                            *)
(***************************************************************************)
EXTENDS LocalAsyncProofs

-----------------------------------------------------------------------------
(* What each step of a flush does to the progress of the flusher.          *)

LEMMA LockFlow ==
    ASSUME TypeInv, NEW f \in Flushers, FlushLock(f)
    PROVE  /\ fl[f].pc = "lock" /\ flushMu = Nobody
           /\ fl'[f].pc = "snap" /\ fl'[f].batch = <<>> /\ fl'[f].res = <<>> /\ ~fl'[f].tickErr
           /\ fl'[f].creators = {} /\ fl'[f].visited = 0
           /\ OnlyMoves(f)
           /\ UNCHANGED <<now, stripeVars, wakeVars, healthVars, flushCursor, req, redisVars, ghostVars>>
<1>1. /\ fl[f].pc = "lock" /\ flushMu = Nobody
      /\ fl' = [fl EXCEPT ![f] = [IdleFlush EXCEPT !.pc = "snap", !.budget = MaxPipeline, !.at = now]]
      /\ UNCHANGED <<now, stripeVars, wakeVars, healthVars, flushCursor, req, redisVars, ghostVars>>
  BY Zenon DEF FlushLock, FlushMuFree
<1>2. fl'[f] = [IdleFlush EXCEPT !.pc = "snap", !.budget = MaxPipeline, !.at = now] /\ OnlyMoves(f)
  BY <1>1 DEF TypeInv, TypeOK, FlushTypes, OnlyMoves
<1>3. /\ fl'[f].pc = "snap" /\ fl'[f].batch = <<>> /\ fl'[f].res = <<>> /\ fl'[f].tickErr = FALSE
      /\ fl'[f].creators = {} /\ fl'[f].visited = 0
  BY <1>2 DEF IdleFlush
<1> QED BY <1>1, <1>2, <1>3

LEMMA StripeFlow ==
    ASSUME TypeInv, NEW f \in Flushers, SnapshotStripe(f)
    PROVE  LET s == Wrap(flushCursor + fl[f].visited)
               ev == evictedPending[s]
               take == Taken(f, s)
               gone == Expired(states, s, fl[f].at)
           IN  /\ s \in Stripes /\ ev \in Seq(Pending) /\ take \in 0..Len(ev)
               /\ fl[f].visited \in Nat /\ fl[f].visited < NumStripes
               /\ fl[f].pc = "snap" /\ fl'[f].pc = "snap" /\ fl'[f].res = fl[f].res
               /\ fl'[f].creators = fl[f].creators /\ fl'[f].tickErr = fl[f].tickErr
               /\ fl'[f].visited = fl[f].visited + 1
               /\ fl[f].more => fl'[f].more
               /\ OnlyMoves(f)
               /\ \E seen \in SUBSET {k \in dirty : StripeOf[k] = s} :
                     \E order \in SetToSeqs({k \in seen : states[k].localDelta > 0}) :
                        /\ fl'[f].batch = (fl[f].batch \o SubSeq(ev, 1, take)) \o EntriesOf(order)
                        /\ dirty' = (dirty \ seen) \ gone
               /\ states' = [k \in Keys |-> IF k \in gone THEN Nil ELSE states[k]]
               /\ evictedPending' = [evictedPending EXCEPT ![s] = SubSeq(ev, take + 1, Len(ev))]
               /\ UNCHANGED <<now, wakeVars, healthVars, flushCursor, req, redisVars, ghostVars>>
<1> USE LocalAsyncAssumption
<1> DEFINE s == Wrap(flushCursor + fl[f].visited)
           ev == evictedPending[s]
           take == Taken(f, s)
           gone == Expired(states, s, fl[f].at)
           mine == {k \in dirty : StripeOf[k] = s}
<1>1. PICK seen \in SUBSET mine :
        /\ \E order \in SetToSeqs({k \in seen : states[k].localDelta > 0}) : \E b, m :
              fl' = [fl EXCEPT ![f] = [fl[f] EXCEPT !.visited = fl[f].visited + 1, !.budget = b,
                      !.batch = (fl[f].batch \o SubSeq(ev, 1, take)) \o EntriesOf(order), !.more = m]]
        /\ dirty' = (dirty \ seen) \ gone
  BY Zenon DEF SnapshotStripe
<1>2. PICK order \in SetToSeqs({k \in seen : states[k].localDelta > 0}) : \E b, m :
              fl' = [fl EXCEPT ![f] = [fl[f] EXCEPT !.visited = fl[f].visited + 1, !.budget = b,
                      !.batch = (fl[f].batch \o SubSeq(ev, 1, take)) \o EntriesOf(order), !.more = m]]
  BY <1>1, Zenon
<1>3. /\ states' = [k \in Keys |-> IF k \in gone THEN Nil ELSE states[k]]
      /\ evictedPending' = [evictedPending EXCEPT ![s] = SubSeq(ev, take + 1, Len(ev))]
      /\ UNCHANGED <<now, wakeVars, healthVars, flushCursor, req, redisVars, ghostVars>>
  BY Zenon DEF SnapshotStripe
<1>4. /\ fl[f].pc = "snap" /\ fl[f].visited \in 0..NumStripes /\ fl[f].visited < NumStripes
      /\ fl[f].more => fl'[f].more
      /\ fl'[f].visited = fl[f].visited + 1 /\ OnlyMoves(f)
  BY StripeMoves
<1>5. s \in Stripes
  BY <1>4 DEF TypeInv, TypeOK, FlushTypes, Stripes, Wrap
<1>6. ev \in Seq(Pending)
  BY <1>5 DEF TypeInv, TypeOK, StripeTypes
<1>7. take \in 0..Len(ev)
  <2>1. fl[f].budget \in 0..MaxPipeline
    BY DEF TypeInv, TypeOK, FlushTypes, FlushProgress
  <2> QED BY <1>6, <2>1 DEF Taken
<1> DEFINE q == (fl[f].batch \o SubSeq(ev, 1, take)) \o EntriesOf(order)
<1>8. /\ fl'[f].pc = fl[f].pc /\ fl'[f].res = fl[f].res /\ fl'[f].batch = q
      /\ fl'[f].creators = fl[f].creators /\ fl'[f].tickErr = fl[f].tickErr
  <2>1. PICK v, b, m : fl' = [fl EXCEPT ![f] = [fl[f] EXCEPT !.visited = v, !.budget = b, !.batch = q, !.more = m]]
    BY <1>2, Zenon
  <2> HIDE DEF q
  <2>2. fl[f] \in FlushProgress
    BY DEF TypeInv, TypeOK, FlushTypes
  <2>3. fl'[f] = [fl[f] EXCEPT !.visited = v, !.budget = b, !.batch = q, !.more = m]
    BY <2>1 DEF TypeInv, TypeOK, FlushTypes
  <2> QED BY <2>2, <2>3 DEF FlushProgress
<1> HIDE DEF s, ev, take, gone, q
<1>9. \E sn \in SUBSET mine : \E o \in SetToSeqs({k \in sn : states[k].localDelta > 0}) :
          /\ fl'[f].batch = (fl[f].batch \o SubSeq(ev, 1, take)) \o EntriesOf(o)
          /\ dirty' = (dirty \ sn) \ gone
  BY <1>1, <1>2, <1>8 DEF q
<1>10. fl[f].visited \in Nat
  BY <1>4
<1> QED BY <1>3, <1>4, <1>5, <1>6, <1>7, <1>8, <1>9, <1>10 DEF s, ev, take, gone

LEMMA EndFlow ==
    ASSUME TypeInv, NEW f \in Flushers, SnapshotEnd(f)
    PROVE  /\ fl[f].pc = "snap"
           /\ fl'[f].pc = IF fl[f].batch = <<>> THEN "probe" ELSE "exec"
           /\ fl'[f].batch = fl[f].batch /\ fl'[f].res = fl[f].res /\ fl'[f].tickErr = fl[f].tickErr
           /\ fl'[f].creators = fl[f].creators
           /\ fl[f].more => fl'[f].more
           /\ OnlyMoves(f)
           /\ UNCHANGED <<now, stripeVars, wakeVars, healthVars, req, redisVars, ghostVars>>
<1>1. UNCHANGED <<now, stripeVars, wakeVars, healthVars, req, redisVars, ghostVars>>
  BY Zenon DEF SnapshotEnd
<1>2. /\ fl'[f].pc = IF fl[f].batch = <<>> THEN "probe" ELSE "exec"
      /\ fl'[f].batch = fl[f].batch /\ fl'[f].res = fl[f].res /\ fl'[f].tickErr = fl[f].tickErr
      /\ fl'[f].creators = fl[f].creators
  BY DEF SnapshotEnd, TypeInv, TypeOK, FlushTypes, FlushProgress
<1> QED BY <1>1, <1>2, EndMoves

LEMMA CommandFlow ==
    ASSUME TypeInv, NEW f \in Flushers, ExecCommand(f)
    PROVE  LET n == Len(fl[f].res) + 1
               p == fl[f].batch[n]
           IN  /\ fl[f].pc = "exec" /\ n \in 1..Len(fl[f].batch) /\ p \in Pending
               /\ fl'[f].pc = "exec" /\ fl'[f].batch = fl[f].batch
               /\ fl'[f].res = Append(fl[f].res, Reply(p))
               /\ fl'[f].creators = fl[f].creators /\ fl'[f].tickErr = fl[f].tickErr
               /\ fl'[f].more = fl[f].more
               /\ OnlyMoves(f)
               /\ redis' = IF redisUp THEN [redis EXCEPT ![<<p.key, p.ws>>] = Reply(p)] ELSE redis
               /\ UNCHANGED <<now, stripeVars, wakeVars, healthVars, flushCursor, req, ttl, ghostVars>>
<1> DEFINE n == Len(fl[f].res) + 1
           p == fl[f].batch[n]
<1>1. /\ fl[f].pc = "exec" /\ Len(fl[f].res) < Len(fl[f].batch)
      /\ redis' = IF redisUp THEN [redis EXCEPT ![<<p.key, p.ws>>] = Reply(p)] ELSE redis
      /\ fl' = [fl EXCEPT ![f].res = Append(fl[f].res, Reply(p))]
      /\ UNCHANGED <<now, stripeVars, wakeVars, healthVars, flushCursor, req, ttl, ghostVars>>
  BY Zenon DEF ExecCommand
<1>2. fl[f] \in FlushProgress /\ fl[f].batch \in Seq(Pending) /\ fl[f].res \in Seq(Nat \cup {-1})
  BY DEF TypeInv, TypeOK, FlushTypes, FlushProgress
<1>3. n \in 1..Len(fl[f].batch)
  BY <1>1, <1>2
<1>4. p \in Pending
  BY <1>2, <1>3
<1> HIDE DEF p
<1>5. /\ fl'[f].pc = fl[f].pc /\ fl'[f].batch = fl[f].batch
      /\ fl'[f].res = Append(fl[f].res, Reply(p))
      /\ fl'[f].creators = fl[f].creators /\ fl'[f].tickErr = fl[f].tickErr
      /\ fl'[f].more = fl[f].more
  <2> DEFINE q == Append(fl[f].res, Reply(p))
  <2>1. fl'[f] = [fl[f] EXCEPT !.res = q]
    BY <1>1 DEF TypeInv, TypeOK, FlushTypes
  <2> HIDE DEF q
  <2>2. /\ fl'[f].pc = fl[f].pc /\ fl'[f].batch = fl[f].batch /\ fl'[f].res = q
        /\ fl'[f].creators = fl[f].creators /\ fl'[f].tickErr = fl[f].tickErr
        /\ fl'[f].more = fl[f].more
    BY <1>2, <2>1 DEF FlushProgress
  <2> QED BY <2>2 DEF q
<1>6. OnlyMoves(f)
  BY <1>1 DEF OnlyMoves
<1> QED BY <1>1, <1>3, <1>4, <1>5, <1>6 DEF p

LEMMA ReturnFlow ==
    ASSUME TypeInv, NEW f \in Flushers, ExecEnd(f)
    PROVE  /\ fl[f].pc = "exec" /\ Len(fl[f].res) = Len(fl[f].batch)
           /\ fl'[f].pc = "apply" /\ fl'[f].batch = fl[f].batch
           /\ fl'[f].creators = fl[f].creators /\ fl'[f].tickErr = fl[f].tickErr
           /\ fl'[f].more = fl[f].more
           /\ \E m \in 0..Len(fl[f].res) :
                 fl'[f].res = Replied(fl[f].res, m) /\ hist' = hist \cup LostReplies(f, m)
           /\ OnlyMoves(f)
           /\ UNCHANGED <<now, stripeVars, wakeVars, healthVars, flushCursor, req, redisVars, admitted, others>>
<1>1. PICK m \in 0..Len(fl[f].res) :
        /\ fl' = [fl EXCEPT ![f] = [fl[f] EXCEPT !.pc = "apply", !.res = Replied(fl[f].res, m)]]
        /\ hist' = hist \cup LostReplies(f, m)
  BY Zenon DEF ExecEnd
<1>2. /\ fl[f].pc = "exec" /\ Len(fl[f].res) = Len(fl[f].batch)
      /\ UNCHANGED <<now, stripeVars, wakeVars, healthVars, flushCursor, req, redisVars, admitted, others>>
  BY Zenon DEF ExecEnd
<1>3. /\ fl'[f].pc = "apply" /\ fl'[f].batch = fl[f].batch /\ fl'[f].res = Replied(fl[f].res, m)
      /\ fl'[f].creators = fl[f].creators /\ fl'[f].tickErr = fl[f].tickErr
      /\ fl'[f].more = fl[f].more /\ OnlyMoves(f)
  <2>1. fl[f] \in FlushProgress
    BY DEF TypeInv, TypeOK, FlushTypes
  <2> DEFINE q == Replied(fl[f].res, m)
  <2>2. fl'[f] = [fl[f] EXCEPT !.pc = "apply", !.res = q] /\ OnlyMoves(f)
    BY <1>1 DEF TypeInv, TypeOK, FlushTypes, OnlyMoves
  <2> HIDE DEF q
  <2>3. /\ fl'[f].pc = "apply" /\ fl'[f].batch = fl[f].batch /\ fl'[f].res = q
        /\ fl'[f].creators = fl[f].creators /\ fl'[f].tickErr = fl[f].tickErr
        /\ fl'[f].more = fl[f].more
    BY <2>1, <2>2 DEF FlushProgress
  <2> QED BY <2>2, <2>3 DEF q
<1> QED BY <1>1, <1>2, <1>3

\* What applying one result leaves of the batch.
LEMMA ErrorFlow ==
    ASSUME TypeInv, BatchShape, NEW f \in Flushers, ApplyError(f)
    PROVE  LET p == Head(fl[f].batch)
               s == StripeOf[p.key]
               full == EvictedFull(s)
           IN  /\ fl[f].pc = "apply" /\ Head(fl[f].res) = -1
               /\ fl'[f].pc = IF Len(fl[f].batch) = 1 THEN AfterApply(f) ELSE "apply"
               /\ fl'[f].batch = Tail(fl[f].batch) /\ fl'[f].res = Tail(fl[f].res)
               /\ fl'[f].creators = fl[f].creators /\ fl'[f].more = TRUE
               /\ OnlyMoves(f)
               /\ evictedPending' = [evictedPending EXCEPT ![s] =
                       IF p.evicted /\ ~full THEN Append(evictedPending[s], p) ELSE evictedPending[s]]
               /\ dirty' = dirty \cup Retried(p)
               /\ hist' = IF p.evicted /\ full THEN hist \cup {<<p.key, p.ws, "dropped">>} ELSE hist
               /\ UNCHANGED <<now, states, wakeVars, healthVars, flushCursor, req, redisVars, admitted, others>>
<1> DEFINE p == Head(fl[f].batch)
           s == StripeOf[p.key]
           full == EvictedFull(s)
           c == IF Len(fl[f].batch) = 1 THEN AfterApply(f) ELSE "apply"
           b == Tail(fl[f].batch)
           q == Tail(fl[f].res)
<1>1. /\ fl[f].pc = "apply" /\ Head(fl[f].res) = -1
      /\ fl' = [fl EXCEPT ![f] = [fl[f] EXCEPT !.pc = c, !.batch = b, !.res = q, !.more = TRUE, !.tickErr = TRUE]]
      /\ evictedPending' = [evictedPending EXCEPT ![s] =
              IF p.evicted /\ ~full THEN Append(evictedPending[s], p) ELSE evictedPending[s]]
      /\ dirty' = dirty \cup Retried(p)
      /\ hist' = IF p.evicted /\ full THEN hist \cup {<<p.key, p.ws, "dropped">>} ELSE hist
      /\ UNCHANGED <<now, states, wakeVars, healthVars, flushCursor, req, redisVars, admitted, others>>
  BY Zenon DEF ApplyError
<1> HIDE DEF c, b, q, p, s, full
<1>2. fl[f] \in FlushProgress
  BY DEF TypeInv, TypeOK, FlushTypes
<1>3. /\ fl'[f] = [fl[f] EXCEPT !.pc = c, !.batch = b, !.res = q, !.more = TRUE, !.tickErr = TRUE]
      /\ OnlyMoves(f)
  BY <1>1 DEF TypeInv, TypeOK, FlushTypes, OnlyMoves
<1>4. /\ fl'[f].pc = c /\ fl'[f].batch = b /\ fl'[f].res = q /\ fl'[f].more = TRUE
      /\ fl'[f].creators = fl[f].creators
  BY <1>2, <1>3 DEF FlushProgress
<1> QED BY <1>1, <1>3, <1>4, Zenon DEF c, b, q, p, s, full

LEMMA OkFlow ==
    ASSUME TypeInv, BatchShape, NEW f \in Flushers, ApplyOk(f)
    PROVE  LET p == Head(fl[f].batch)
               g == Head(fl[f].res)
               st == states[p.key]
               same == st.windowStart = p.ws
               residue == same /\ Reconciled(st, p, g).localDelta # 0
           IN  /\ fl[f].pc = "apply" /\ g # -1
               /\ fl'[f].pc = IF Len(fl[f].batch) = 1 THEN AfterApply(f) ELSE "apply"
               /\ fl'[f].batch = Tail(fl[f].batch) /\ fl'[f].res = Tail(fl[f].res)
               /\ fl'[f].tickErr = fl[f].tickErr
               /\ fl[f].more => fl'[f].more
               /\ fl'[f].creators = fl[f].creators \cup (IF Creates(p, g) THEN {<<p.key, p.ws>>} ELSE {})
               /\ OnlyMoves(f)
               /\ states' = IF same THEN [states EXCEPT ![p.key] = Reconciled(st, p, g)] ELSE states
               /\ dirty' = IF residue THEN dirty \cup {p.key} ELSE dirty
               /\ UNCHANGED <<now, evictedPending, wakeVars, healthVars, flushCursor, req, redisVars, ghostVars>>
<1> DEFINE p == Head(fl[f].batch)
           g == Head(fl[f].res)
           st == states[p.key]
           same == st.windowStart = p.ws
           residue == same /\ Reconciled(st, p, g).localDelta # 0
           c == IF Len(fl[f].batch) = 1 THEN AfterApply(f) ELSE "apply"
           b == Tail(fl[f].batch)
           q == Tail(fl[f].res)
           m == IF residue THEN TRUE ELSE fl[f].more
           h == fl[f].creators \cup (IF Creates(p, g) THEN {<<p.key, p.ws>>} ELSE {})
<1>1. /\ fl[f].pc = "apply" /\ g # -1
      /\ fl' = [fl EXCEPT ![f] = [fl[f] EXCEPT !.pc = c, !.batch = b, !.res = q, !.more = m, !.creators = h]]
      /\ states' = IF same THEN [states EXCEPT ![p.key] = Reconciled(st, p, g)] ELSE states
      /\ dirty' = IF residue THEN dirty \cup {p.key} ELSE dirty
      /\ UNCHANGED <<now, evictedPending, wakeVars, healthVars, flushCursor, req, redisVars, ghostVars>>
  BY Zenon DEF ApplyOk
<1>2. fl[f].more => m
  OBVIOUS
<1> HIDE DEF c, b, q, m, h, p, g, st, same, residue
<1>3. fl[f] \in FlushProgress
  BY DEF TypeInv, TypeOK, FlushTypes
<1>4. /\ fl'[f] = [fl[f] EXCEPT !.pc = c, !.batch = b, !.res = q, !.more = m, !.creators = h]
      /\ OnlyMoves(f)
  BY <1>1 DEF TypeInv, TypeOK, FlushTypes, OnlyMoves
<1>5. /\ fl'[f].pc = c /\ fl'[f].batch = b /\ fl'[f].res = q /\ fl'[f].more = m
      /\ fl'[f].creators = h /\ fl'[f].tickErr = fl[f].tickErr
  BY <1>3, <1>4 DEF FlushProgress
<1> QED BY <1>1, <1>2, <1>4, <1>5, Zenon DEF c, b, q, m, h, p, g, st, same, residue

LEMMA NoteFlow ==
    ASSUME TypeInv, NEW f \in Flushers, NoteOutcome(f)
    PROVE  /\ fl[f].pc = "note" /\ Noted(fl[f].tickErr)
           /\ fl'[f].pc = IF f = Worker THEN "expire" ELSE "release"
           /\ fl'[f].creators = fl[f].creators /\ fl'[f].more = fl[f].more
           /\ fl'[f].tickErr = fl[f].tickErr
           /\ OnlyMoves(f)
           /\ UNCHANGED <<now, stripeVars, wakeVars, flushCursor, req, redisVars, ghostVars>>
<1> DEFINE c == IF f = Worker THEN "expire" ELSE "release"
<1>1. /\ fl[f].pc = "note" /\ Noted(fl[f].tickErr)
      /\ fl' = [fl EXCEPT ![f].pc = c]
      /\ UNCHANGED <<now, stripeVars, wakeVars, flushCursor, req, redisVars, ghostVars>>
  BY Zenon DEF NoteOutcome
<1> HIDE DEF c
<1>2. /\ fl'[f].pc = c /\ fl'[f].creators = fl[f].creators /\ fl'[f].more = fl[f].more
      /\ fl'[f].tickErr = fl[f].tickErr /\ OnlyMoves(f)
  BY <1>1 DEF TypeInv, TypeOK, FlushTypes, FlushProgress, OnlyMoves
<1> QED BY <1>1, <1>2 DEF c

LEMMA ExpireFlow ==
    ASSUME TypeInv, NEW f \in Flushers, ExecExpire(f)
    PROVE  /\ fl[f].pc = "expire"
           /\ fl'[f].pc = IF f = Worker THEN "release" ELSE "note"
           /\ fl'[f].creators = {} /\ fl'[f].more = fl[f].more /\ fl'[f].tickErr = fl[f].tickErr
           /\ OnlyMoves(f)
           /\ \E X \in SUBSET fl[f].creators :
                 /\ ttl' = ttl \cup X
                 /\ hist' = hist \cup {<<kw[1], kw[2], "noTTL">> : kw \in fl[f].creators \ X}
           /\ UNCHANGED <<now, stripeVars, wakeVars, healthVars, flushCursor, req, redis, admitted, others>>
<1> DEFINE c == IF f = Worker THEN "release" ELSE "note"
<1>1. /\ fl[f].pc = "expire"
      /\ fl' = [fl EXCEPT ![f] = [fl[f] EXCEPT !.creators = {}, !.pc = c]]
      /\ UNCHANGED <<now, stripeVars, wakeVars, healthVars, flushCursor, req, redis, admitted, others>>
  BY Zenon DEF ExecExpire
<1> HIDE DEF c
<1>2. /\ fl'[f].pc = c /\ fl'[f].creators = {} /\ fl'[f].more = fl[f].more
      /\ fl'[f].tickErr = fl[f].tickErr /\ OnlyMoves(f)
  BY <1>1 DEF TypeInv, TypeOK, FlushTypes, FlushProgress, OnlyMoves
<1>3. \E X \in SUBSET fl[f].creators :
         /\ ttl' = ttl \cup X
         /\ hist' = hist \cup {<<kw[1], kw[2], "noTTL">> : kw \in fl[f].creators \ X}
  BY DEF ExecExpire
<1> QED BY <1>1, <1>2, <1>3 DEF c

LEMMA ProbeFlow ==
    ASSUME TypeInv, NEW f \in Flushers, Probe(f)
    PROVE  /\ fl[f].pc = "probe" /\ fl'[f].pc = "release"
           /\ fl'[f].creators = fl[f].creators /\ fl'[f].tickErr = fl[f].tickErr
           /\ fl[f].more \/ ProbeStillDown(f) => fl'[f].more
           /\ OnlyMoves(f)
           /\ IF ~FailOpen /\ redisDown THEN Noted(~redisUp) ELSE UNCHANGED healthVars
           /\ UNCHANGED <<now, stripeVars, wakeVars, flushCursor, req, redisVars, ghostVars>>
<1> DEFINE m == IF ProbeStillDown(f) THEN TRUE ELSE fl[f].more
<1>1. /\ fl[f].pc = "probe"
      /\ fl' = [fl EXCEPT ![f] = [fl[f] EXCEPT !.pc = "release", !.more = m]]
      /\ IF ~FailOpen /\ redisDown THEN Noted(~redisUp) ELSE UNCHANGED healthVars
      /\ UNCHANGED <<now, stripeVars, wakeVars, flushCursor, req, redisVars, ghostVars>>
  BY Zenon DEF Probe
<1>2. fl[f].more \/ ProbeStillDown(f) => m
  BY Zenon
<1> HIDE DEF m
<1>3. /\ fl'[f].pc = "release" /\ fl'[f].creators = fl[f].creators /\ fl'[f].more = m
      /\ fl'[f].tickErr = fl[f].tickErr /\ OnlyMoves(f)
  BY <1>1 DEF TypeInv, TypeOK, FlushTypes, FlushProgress, OnlyMoves
<1> QED BY <1>1, <1>2, <1>3, Zenon

LEMMA ReleaseFlow ==
    ASSUME TypeInv, NEW f \in Flushers, Release(f)
    PROVE  /\ fl[f].pc = "release" /\ fl'[f].pc \in {"recas", "idle", "lock", "closed"}
           /\ f = Worker /\ fl[f].more => fl'[f].pc = "recas"
           /\ f = Closer => fl'[f].pc # "idle"
           /\ fl'[f].creators = {} /\ fl'[f].tickErr = FALSE
           /\ OnlyMoves(f)
           /\ UNCHANGED <<now, stripeVars, wakeVars, healthVars, flushCursor, req, redisVars, ghostVars>>
<1> DEFINE c == IF f = Worker THEN WorkerAfter(fl[f].more) ELSE CloserAfter(fl[f].more)
           m == IF f = Closer THEN fl[f].more ELSE FALSE
<1>1. /\ fl[f].pc = "release"
      /\ fl' = [fl EXCEPT ![f] = [IdleFlush EXCEPT !.pc = c, !.more = m]]
      /\ UNCHANGED <<now, stripeVars, wakeVars, healthVars, flushCursor, req, redisVars, ghostVars>>
  BY Zenon DEF Release
<1>2. c \in {"recas", "idle", "lock", "closed"} /\ (f = Closer => c # "idle")
  BY DEF WorkerAfter, CloserAfter, Worker, Closer
<1> HIDE DEF c, m
<1>3. fl'[f].pc = c /\ fl'[f].creators = {} /\ fl'[f].tickErr = FALSE /\ OnlyMoves(f)
  BY <1>1 DEF IdleFlush, OnlyMoves, TypeInv, TypeOK, FlushTypes
<1> QED BY <1>1, <1>2, <1>3, ReleaseMoves

\* The worker's and Close's own steps move one flusher and nothing it carries.
LEMMA ShardFlow ==
    ASSUME TypeInv, ShardStep
    PROVE  /\ \E f \in Flushers, c \in FlusherPc \ Holding :
                  /\ fl[f].pc \notin Holding /\ fl'[f].pc = c /\ OnlyMoves(f)
                  /\ fl'[f].creators = fl[f].creators /\ fl'[f].tickErr = fl[f].tickErr
                  /\ fl'[f].more = fl[f].more
           /\ UNCHANGED <<now, stripeVars, healthVars, flushCursor, req, redisVars, ghostVars>>
<1>1. PICK f \in Flushers, c \in FlusherPc \ Holding :
         fl[f].pc \notin Holding /\ fl' = [fl EXCEPT ![f].pc = c]
  BY ShardMoves
<1>2. /\ fl'[f].pc = c /\ OnlyMoves(f)
      /\ fl'[f].creators = fl[f].creators /\ fl'[f].tickErr = fl[f].tickErr
      /\ fl'[f].more = fl[f].more
  BY <1>1 DEF TypeInv, TypeOK, FlushTypes, FlushProgress, OnlyMoves
<1>3. UNCHANGED <<now, stripeVars, healthVars, flushCursor, req, redisVars, ghostVars>>
  BY DEF ShardStep, ShardTick, TickTake, TickClear, ReenqueueCas, ReenqueueMark,
     CloseDeregister, CloseClear
<1> QED BY <1>1, <1>2, <1>3

-----------------------------------------------------------------------------
(* A latched limiter is flushed or probed.                                 *)

\* Only a fail-closed limiter is latched; a flush that met an error asks for another one;
\* and a worker that leaves the limiter latched does so too, Close aside.
LatchKept ==
    /\ redisDown => ~FailOpen
    /\ \A f \in Flushers : fl[f].tickErr => fl[f].more
    /\ fl[Closer].pc = "idle" /\ redisDown /\ fl[Worker].pc \in {"expire", "release"}
          => fl[Worker].more

LatchInv == TypeInv /\ BatchShape /\ EnqueuedBacked /\ LatchKept /\ RedisDownProbed

LEMMA LatchQuiet ==
    ASSUME TypeInv, LatchKept, UNCHANGED <<fl, redisDown>>
    PROVE  LatchKept'
BY DEF LatchKept

\* A flusher that moves within its flush without touching the latch.
LEMMA LatchMove ==
    ASSUME TypeInv, LatchKept, NEW f \in Flushers, OnlyMoves(f), redisDown' = redisDown,
           fl'[f].tickErr => fl[f].tickErr \/ fl'[f].more, fl[f].more => fl'[f].more,
           f = Worker /\ fl'[f].pc \in {"expire", "release"} => fl[f].pc \in {"expire", "release"},
           f = Closer /\ fl'[f].pc = "idle" => fl[f].pc = "idle"
    PROVE  LatchKept'
<1>1. \A g \in Flushers : fl'[g].tickErr => fl'[g].more
  BY DEF LatchKept, OnlyMoves
<1>2. CASE f = Worker
  <2>1. fl'[Closer] = fl[Closer]
    BY <1>2 DEF OnlyMoves, Flushers, Worker, Closer
  <2> QED BY <1>1, <1>2, <2>1 DEF LatchKept
<1>3. CASE f = Closer
  <2>1. fl'[Worker] = fl[Worker]
    BY <1>3 DEF OnlyMoves, Flushers, Worker, Closer
  <2> QED BY <1>1, <1>3, <2>1 DEF LatchKept
<1> QED BY <1>2, <1>3 DEF Flushers

LEMMA LatchStep ==
    ASSUME LatchInv, [Next]_vars
    PROVE  LatchKept'
<1> USE DEF LatchInv
<1>0. Worker \in Flushers /\ Closer \in Flushers /\ Worker # Closer
  BY DEF Flushers, Worker, Closer
<1>1. CASE \/ \E t \in Threads, k \in Keys, n \in Costs : AllowNEnter(t, k, n)
           \/ \E t \in Threads : AllowN(t)
           \/ Environment \/ IdleTick \/ UNCHANGED vars
  <2>1. UNCHANGED redisDown
    BY <1>1 DEF AllowNEnter, AllowN, AllowNDecide, AllowNEnqueue, AllowNMarkActive, Environment,
       ClockTick, RedisFails, RedisRecovers, OtherReplica, KeyExpires, IdleTick, vars, healthVars
  <2> QED BY <1>1, <2>1, OtherMoves, LatchQuiet
<1>2. CASE ShardStep
  <2>1. PICK f \in Flushers, c \in FlusherPc \ Holding :
           /\ fl[f].pc \notin Holding /\ fl'[f].pc = c /\ OnlyMoves(f)
           /\ fl'[f].tickErr = fl[f].tickErr /\ fl'[f].more = fl[f].more
    BY <1>2, ShardFlow
  <2>2. redisDown' = redisDown
    BY <1>2, ShardFlow DEF healthVars
  <2>3. f = Worker => fl'[f].pc \notin {"expire", "release"}
    BY <2>1 DEF Holding
  <2>4. fl'[Closer].pc = "idle" => fl[Closer].pc = "idle"
    <3>1. \/ fl'[Closer] = fl[Closer]
          \/ \E d \in {"deregister", "lock"} : fl' = [fl EXCEPT ![Closer].pc = d]
      BY <1>2 DEF ShardStep, ShardTick, TickTake, TickClear, ReenqueueCas, ReenqueueMark,
         CloseDeregister, CloseClear, Worker, Closer, TypeInv, TypeOK, FlushTypes, Flushers
    <3>2. ASSUME NEW d, fl' = [fl EXCEPT ![Closer].pc = d] PROVE fl'[Closer].pc = d
      BY <1>0, <3>2 DEF TypeInv, TypeOK, FlushTypes, FlushProgress
    <3> QED BY <3>1, <3>2
  <2> QED BY <2>1, <2>2, <2>3, <2>4, LatchMove
<1>3. ASSUME NEW f \in Flushers, NEW c \in FlusherPc \ {"expire", "release", "idle"}, OnlyMoves(f),
             redisDown' = redisDown, fl'[f].pc = c,
             fl'[f].tickErr => fl[f].tickErr \/ fl'[f].more, fl[f].more => fl'[f].more
      PROVE  LatchKept'
  BY <1>3, LatchMove
<1>4. ASSUME NEW f \in Flushers, FlushLock(f) PROVE LatchKept'
  <2>1. fl'[f].pc = "snap" /\ ~fl'[f].tickErr /\ OnlyMoves(f) /\ redisDown' = redisDown
    BY <1>4, LockFlow DEF healthVars
  <2>2. \A g \in Flushers : fl'[g].tickErr => fl'[g].more
    BY <2>1 DEF LatchKept, OnlyMoves
  <2> QED BY <1>0, <2>1, <2>2 DEF LatchKept, OnlyMoves
<1>5. ASSUME NEW f \in Flushers, SnapshotStripe(f) PROVE LatchKept'
  <2>1. /\ fl'[f].pc = "snap" /\ fl'[f].tickErr = fl[f].tickErr /\ (fl[f].more => fl'[f].more)
        /\ OnlyMoves(f) /\ redisDown' = redisDown
    BY <1>5, StripeFlow, Zenon DEF healthVars
  <2> QED BY <1>3, <2>1 DEF FlusherPc
<1>6. ASSUME NEW f \in Flushers, SnapshotEnd(f) PROVE LatchKept'
  <2>1. /\ fl'[f].pc \in {"probe", "exec"} /\ fl'[f].tickErr = fl[f].tickErr
        /\ (fl[f].more => fl'[f].more) /\ OnlyMoves(f) /\ redisDown' = redisDown
    BY <1>6, EndFlow DEF healthVars
  <2> QED BY <1>3, <2>1 DEF FlusherPc
<1>7. ASSUME NEW f \in Flushers, Inner(f) PROVE LatchKept'
  <2>1. CASE ExecCommand(f)
    <3>1. /\ fl'[f].pc = "exec" /\ fl'[f].tickErr = fl[f].tickErr /\ fl'[f].more = fl[f].more
          /\ OnlyMoves(f) /\ redisDown' = redisDown
      BY <2>1, CommandFlow, Zenon DEF healthVars
    <3> QED BY <1>3, <3>1 DEF FlusherPc
  <2>2. CASE ExecEnd(f)
    <3>1. /\ fl'[f].pc = "apply" /\ fl'[f].tickErr = fl[f].tickErr /\ fl'[f].more = fl[f].more
          /\ OnlyMoves(f) /\ redisDown' = redisDown
      BY <2>2, ReturnFlow, Zenon DEF healthVars
    <3> QED BY <1>3, <3>1 DEF FlusherPc
  <2>3. CASE ApplyError(f)
    <3>1. /\ fl'[f].pc = IF Len(fl[f].batch) = 1 THEN AfterApply(f) ELSE "apply"
          /\ fl'[f].more = TRUE /\ OnlyMoves(f) /\ redisDown' = redisDown
      BY <2>3, ErrorFlow, Zenon DEF healthVars
    <3>2. fl'[f].pc \in {"apply", "note", "expire"}
      BY <3>1 DEF AfterApply
    <3>3. \A g \in Flushers : fl'[g].tickErr => fl'[g].more
      BY <3>1 DEF LatchKept, OnlyMoves
    <3> QED BY <1>0, <3>1, <3>2, <3>3 DEF LatchKept, OnlyMoves
  <2>4. CASE ApplyOk(f)
    <3>1. /\ fl'[f].pc = IF Len(fl[f].batch) = 1 THEN AfterApply(f) ELSE "apply"
          /\ fl'[f].tickErr = fl[f].tickErr /\ (fl[f].more => fl'[f].more)
          /\ OnlyMoves(f) /\ redisDown' = redisDown
      BY <2>4, OkFlow, Zenon DEF healthVars
    <3>2. /\ fl'[f].pc \in {"apply", "note", "expire"}
          /\ f = Worker => fl'[f].pc # "expire"
      BY <3>1 DEF AfterApply
    <3> QED BY <1>0, <3>1, <3>2, LatchMove
  <2>5. CASE NoteOutcome(f)
    <3>1. /\ fl[f].pc = "note" /\ fl'[f].pc \in {"expire", "release"}
          /\ fl'[f].tickErr = fl[f].tickErr /\ fl'[f].more = fl[f].more /\ OnlyMoves(f)
          /\ redisDown' => fl[f].tickErr /\ ~FailOpen
      BY <2>5, NoteFlow DEF Noted
    <3>2. \A g \in Flushers : fl'[g].tickErr => fl'[g].more
      BY <3>1 DEF LatchKept, OnlyMoves
    <3>3. CASE f = Worker
      BY <3>1, <3>2, <3>3 DEF LatchKept
    <3>4. CASE f = Closer
      BY <3>1, <3>2, <3>4 DEF LatchKept
    <3> QED BY <3>3, <3>4 DEF Flushers
  <2>6. CASE ExecExpire(f)
    <3>1. /\ fl[f].pc = "expire" /\ fl'[f].pc \in {"release", "note"}
          /\ fl'[f].tickErr = fl[f].tickErr /\ fl'[f].more = fl[f].more /\ OnlyMoves(f)
          /\ redisDown' = redisDown
      BY <2>6, ExpireFlow DEF healthVars
    <3> QED BY <3>1, LatchMove
  <2>7. CASE Probe(f)
    <3>1. /\ fl[f].pc = "probe" /\ fl'[f].pc = "release" /\ fl'[f].tickErr = fl[f].tickErr
          /\ (fl[f].more \/ ProbeStillDown(f) => fl'[f].more) /\ OnlyMoves(f)
          /\ IF ~FailOpen /\ redisDown THEN Noted(~redisUp) ELSE UNCHANGED healthVars
      BY <2>7, ProbeFlow
    <3>2. redisDown' => redisDown /\ ~FailOpen
      BY <3>1 DEF LatchKept, Noted, healthVars
    <3>3. \A g \in Flushers : fl'[g].tickErr => fl'[g].more
      BY <3>1 DEF LatchKept, OnlyMoves
    <3>4. CASE f = Worker
      <4>1. redisDown' => fl'[f].more
        BY <3>1, <3>2, <3>4 DEF ProbeStillDown
      <4> QED BY <3>2, <3>3, <3>4, <4>1 DEF LatchKept
    <3>5. CASE f = Closer
      BY <3>1, <3>2, <3>3, <3>5 DEF LatchKept
    <3> QED BY <3>4, <3>5 DEF Flushers
  <2> QED BY <1>7, <2>1, <2>2, <2>3, <2>4, <2>5, <2>6, <2>7 DEF Inner
<1>8. ASSUME NEW f \in Flushers, Release(f) PROVE LatchKept'
  <2>1. /\ fl'[f].pc \in {"recas", "idle", "lock", "closed"} /\ fl'[f].tickErr = FALSE
        /\ OnlyMoves(f) /\ redisDown' = redisDown /\ (f = Closer => fl'[f].pc # "idle")
    BY <1>8, ReleaseFlow DEF healthVars
  <2>2. \A g \in Flushers : fl'[g].tickErr => fl'[g].more
    BY <2>1 DEF LatchKept, OnlyMoves
  <2> QED BY <1>0, <2>1, <2>2 DEF LatchKept, OnlyMoves
<1> QED BY <1>1, <1>2, <1>4, <1>5, <1>6, <1>7, <1>8, StepCases

\* Whoever backs the enqueued flag keeps a latched limiter from being forgotten.
LEMMA ProbedStep ==
    ASSUME LatchInv, [Next]_vars
    PROVE  RedisDownProbed'
<1> USE DEF LatchInv
<1>0. Worker \in Flushers /\ Closer \in Flushers /\ Worker # Closer
  BY DEF Flushers, Worker, Closer
<1>1. ASSUME UNCHANGED <<redisDown, active, fl>>,
             \A t \in Threads : req[t].pc \in {"enqueue", "mark"} => req'[t].pc = req[t].pc
      PROVE  RedisDownProbed'
  BY <1>1 DEF RedisDownProbed
<1>2. CASE \/ \E t \in Threads, k \in Keys, n \in Costs : AllowNEnter(t, k, n)
           \/ Environment \/ IdleTick \/ UNCHANGED vars
  <2>1. UNCHANGED <<redisDown, active, fl>>
    BY <1>2 DEF AllowNEnter, Environment, ClockTick, RedisFails, RedisRecovers, OtherReplica,
       KeyExpires, IdleTick, vars, flushVars, healthVars, wakeVars
  <2>2. CASE \E t \in Threads, k \in Keys, n \in Costs : AllowNEnter(t, k, n)
    BY <1>1, <2>1, <2>2 DEF AllowNEnter, TypeInv, TypeOK, RequestTypes
  <2>3. CASE Environment \/ IdleTick \/ UNCHANGED vars
    <3>1. UNCHANGED req
      BY <2>3 DEF Environment, ClockTick, RedisFails, RedisRecovers, OtherReplica, KeyExpires,
         IdleTick, vars
    <3> QED BY <1>1, <2>1, <3>1
  <2> QED BY <1>2, <2>2, <2>3
<1>3. ASSUME NEW t \in Threads, AllowNDecide(t) PROVE RedisDownProbed'
  BY <1>1, <1>3 DEF AllowNDecide, wakeVars, flushVars, healthVars, TypeInv, TypeOK, RequestTypes
<1>4. ASSUME NEW t \in Threads, AllowNEnqueue(t) PROVE RedisDownProbed'
  <2> DEFINE c == IF enqueued THEN "idle" ELSE "mark"
  <2>1. /\ req[t].pc = "enqueue" /\ req' = [req EXCEPT ![t].pc = c]
        /\ UNCHANGED <<active, flushVars>>
    BY <1>4, Zenon DEF AllowNEnqueue
  <2> HIDE DEF c
  <2>2. req'[t].pc = c /\ \A u \in Threads : u # t => req'[u] = req[u]
    BY <2>1, RequestPcs
  <2>3. UNCHANGED <<active, fl>>
    BY <2>1 DEF flushVars
  <2>4. CASE enqueued
    <3>1. \A u \in Threads : req[u].pc = "mark" => req'[u].pc = "mark"
      BY <2>1, <2>2
    <3> QED BY <2>3, <2>4, <3>1 DEF EnqueuedBacked, RedisDownProbed
  <2>5. CASE ~enqueued
    <3>1. req'[t].pc = "mark"
      BY <2>2, <2>5 DEF c
    <3> QED BY <3>1 DEF RedisDownProbed
  <2> QED BY <2>4, <2>5
<1>5. ASSUME NEW t \in Threads, AllowNMarkActive(t) PROVE RedisDownProbed'
  BY <1>5 DEF AllowNMarkActive, RedisDownProbed
<1>6. CASE ShardStep
  <2>1. ASSUME NEW f \in Flushers, NEW c, fl' = [fl EXCEPT ![f].pc = c]
        PROVE  fl'[f].pc = c /\ OnlyMoves(f)
    BY <2>1 DEF OnlyMoves, TypeInv, TypeOK, FlushTypes, FlushProgress
  <2>2. CASE TickTake \/ TickClear
    <3>1. fl'[Worker].pc \in {"clear", "lock"}
      BY <1>0, <2>1, <2>2 DEF TickTake, TickClear
    <3> QED BY <3>1 DEF RedisDownProbed
  <2>3. CASE ReenqueueMark
    BY <2>3 DEF ReenqueueMark, RedisDownProbed
  <2>4. CASE CloseDeregister \/ CloseClear
    <3>1. fl'[Closer].pc \in {"deregister", "lock"}
      BY <1>0, <2>1, <2>4 DEF CloseDeregister, CloseClear
    <3> QED BY <3>1 DEF RedisDownProbed
  <2>5. CASE ReenqueueCas
    <3> DEFINE c == IF enqueued THEN "idle" ELSE "remark"
    <3>1. /\ fl[Worker].pc = "recas" /\ fl' = [fl EXCEPT ![Worker].pc = c]
          /\ UNCHANGED <<active, req>>
      BY <2>5, Zenon DEF ReenqueueCas
    <3> HIDE DEF c
    <3>2. fl'[Worker].pc = c /\ fl'[Closer] = fl[Closer]
      BY <1>0, <2>1, <3>1 DEF OnlyMoves
    <3>3. CASE enqueued
      BY <3>1, <3>2, <3>3 DEF EnqueuedBacked, RedisDownProbed
    <3>4. CASE ~enqueued
      BY <3>2, <3>4 DEF RedisDownProbed, c
    <3> QED BY <3>3, <3>4
  <2> QED BY <1>6, <2>2, <2>3, <2>4, <2>5, Zenon DEF ShardStep, ShardTick
<1>7. ASSUME NEW f \in Flushers, OnlyMoves(f), fl'[f].pc # "idle" PROVE RedisDownProbed'
  BY <1>0, <1>7 DEF RedisDownProbed, Flushers
<1>8. ASSUME NEW f \in Flushers,
             FlushLock(f) \/ SnapshotStripe(f) \/ SnapshotEnd(f) \/ Inner(f)
      PROVE  RedisDownProbed'
  <2>1. fl'[f].pc # "idle" /\ OnlyMoves(f)
    BY <1>8, LockMoves, StripeMoves, EndMoves, InnerMoves DEF Middle
  <2> QED BY <1>7, <2>1
<1>9. ASSUME NEW f \in Flushers, Release(f) PROVE RedisDownProbed'
  <2>1. /\ fl[f].pc = "release" /\ (f = Worker /\ fl[f].more => fl'[f].pc = "recas")
        /\ (f = Closer => fl'[f].pc # "idle") /\ OnlyMoves(f) /\ redisDown' = redisDown
    BY <1>9, ReleaseFlow DEF healthVars
  <2>2. CASE f = Worker /\ ~fl[f].more
    <3>1. fl'[Closer] = fl[Closer]
      BY <1>0, <2>1, <2>2 DEF OnlyMoves
    <3>2. ~(fl[Closer].pc = "idle" /\ redisDown)
      BY <2>1, <2>2 DEF LatchKept
    <3> QED BY <2>1, <3>1, <3>2 DEF RedisDownProbed
  <2>3. CASE f = Worker /\ fl[f].more
    BY <1>7, <2>1, <2>3
  <2>4. CASE f = Closer
    BY <2>1, <2>4 DEF RedisDownProbed
  <2> QED BY <2>2, <2>3, <2>4 DEF Flushers
<1>10. CASE \E t \in Threads : AllowN(t)
  BY <1>3, <1>4, <1>5, <1>10 DEF AllowN
<1> QED BY <1>2, <1>6, <1>8, <1>9, <1>10, StepCases, Zenon

\* The comment of probeRedisLocked: a fail-closed limiter that is latched down is always
\* enqueued, about to be, or in a flush that probes Redis and keeps it enqueued, also when
\* its only delta was dropped by a window change; it never denies for ever unobserved.
THEOREM LatchIsProbed == Spec => []RedisDownProbed
<1>1. Init => LatchInv
  <2>1. Init => TypeInv
    BY InitType
  <2>2. Init => BatchShape /\ EnqueuedBacked /\ LatchKept /\ RedisDownProbed
    BY DEF Init, BatchShape, EnqueuedBacked, LatchKept, RedisDownProbed, IdleFlush, Flushers,
       Worker, Closer
  <2> QED BY <2>1, <2>2 DEF LatchInv
<1>2. LatchInv /\ [Next]_vars => LatchInv'
  <2> SUFFICES ASSUME LatchInv, [Next]_vars PROVE LatchInv'
    OBVIOUS
  <2>1. TypeInv' /\ BatchShape' /\ EnqueuedBacked'
    BY StepType, StepShape, BackedStep DEF LatchInv
  <2>2. LatchKept' /\ RedisDownProbed'
    BY LatchStep, ProbedStep
  <2> QED BY <2>1, <2>2 DEF LatchInv
<1>3. LatchInv => RedisDownProbed
  BY DEF LatchInv
<1> QED BY <1>1, <1>2, <1>3, PTL DEF Spec

-----------------------------------------------------------------------------
(* Facts about sequences that the batch of a flush keeps needing.          *)

LEMMA TailEntries ==
    ASSUME NEW S, NEW b \in Seq(S), b # <<>>
    PROVE  /\ Len(b) \in Nat \ {0} /\ Tail(b) \in Seq(S) /\ DOMAIN b = 1..Len(b)
           /\ DOMAIN Tail(b) = 1..(Len(b) - 1) /\ Len(Tail(b)) = Len(b) - 1
           /\ Head(b) = b[1] /\ Head(b) \in S
           /\ \A i \in DOMAIN Tail(b) : i + 1 \in DOMAIN b /\ Tail(b)[i] = b[i + 1]
           /\ \A i \in DOMAIN b : i = 1 \/ (i - 1 \in DOMAIN Tail(b) /\ Tail(b)[i - 1] = b[i])
OBVIOUS

LEMMA ConcatEntries ==
    ASSUME NEW S, NEW a \in Seq(S), NEW b \in Seq(S)
    PROVE  /\ a \o b \in Seq(S)
           /\ \A i \in DOMAIN a : i \in DOMAIN (a \o b) /\ (a \o b)[i] = a[i]
           /\ \A i \in DOMAIN b : /\ Len(a) + i \in DOMAIN (a \o b)
                                  /\ (a \o b)[Len(a) + i] = b[i]
           /\ \A i \in DOMAIN (a \o b) :
                  \/ i \in DOMAIN a /\ (a \o b)[i] = a[i]
                  \/ i - Len(a) \in DOMAIN b /\ (a \o b)[i] = b[i - Len(a)]
OBVIOUS

\* The order in which the map iteration met the keys has each of them, once.
LEMMA OrderCovers ==
    ASSUME NEW S, IsFiniteSet(S), NEW order \in SetToSeqs(S)
    PROVE  /\ order \in Seq(S) /\ DOMAIN order = 1..Cardinality(S)
           /\ \A x \in S : \E i \in DOMAIN order : order[i] = x
           /\ \A i, j \in DOMAIN order : order[i] = order[j] => i = j
<1> DEFINE n == Cardinality(S)
<1>1. n \in Nat /\ IsFiniteSet(1..n) /\ Cardinality(1..n) = n
  BY FS_CardinalityType, FS_Interval
<1>2. order \in [1..n -> S] /\ \A i, j \in 1..n : order[i] = order[j] => i = j
  BY DEF SetToSeqs
<1> HIDE DEF n
<1>3. order \in Injection(1..n, S)
  BY <1>2 DEF Injection, IsInjective
<1>4. order \in Surjection(1..n, S)
  BY <1>1, <1>3, FS_Injection DEF n
<1>5. \A x \in S : \E i \in 1..n : order[i] = x
  BY <1>4 DEF Surjection
<1> QED BY <1>1, <1>2, <1>5 DEF n

\* The entries a stripe adds to the batch: evicted deltas, then the keys that owe one, in
\* the order given, after the first base entries.
StripeAdds(f, seen, base, order) ==
    LET s == Wrap(flushCursor + fl[f].visited)
        ev == evictedPending[s]
        old == fl[f].batch
        new == fl'[f].batch
    IN  /\ seen \in SUBSET {k \in dirty : StripeOf[k] = s} /\ base \in Nat /\ order \in Seq(Keys)
        /\ dirty' = (dirty \ seen) \ Expired(states, s, fl[f].at)
        /\ old \in Seq(Pending) /\ new \in Seq(Pending)
        /\ \A i \in DOMAIN order : order[i] \in seen /\ states[order[i]].localDelta > 0
        /\ \A i, j \in DOMAIN order : order[i] = order[j] => i = j
        /\ \A k \in seen : states[k].localDelta > 0 => \E i \in DOMAIN order : order[i] = k
        /\ \A i \in DOMAIN order : base + i \in DOMAIN new /\ new[base + i] = PendingOf(order[i], FALSE)
        /\ \A i \in DOMAIN old : i \in DOMAIN new /\ new[i] = old[i]
        /\ \A i \in DOMAIN new :
              \/ i \in DOMAIN old /\ new[i] = old[i]
              \/ \E j \in DOMAIN ev : new[i] = ev[j]
              \/ i - base \in DOMAIN order /\ new[i] = PendingOf(order[i - base], FALSE)

LEMMA StripeEntries ==
    ASSUME TypeInv, NEW f \in Flushers, SnapshotStripe(f)
    PROVE  \E seen, base, order : StripeAdds(f, seen, base, order)
<1> USE LocalAsyncAssumption
<1> DEFINE s == Wrap(flushCursor + fl[f].visited)
           ev == evictedPending[s]
           take == Taken(f, s)
           gone == Expired(states, s, fl[f].at)
           old == fl[f].batch
           new == fl'[f].batch
           mine == {k \in dirty : StripeOf[k] = s}
<1>1. s \in Stripes /\ ev \in Seq(Pending) /\ take \in 0..Len(ev)
  BY StripeFlow, Zenon
<1>2. PICK seen \in SUBSET mine : \E order \in SetToSeqs({k \in seen : states[k].localDelta > 0}) :
         new = (old \o SubSeq(ev, 1, take)) \o EntriesOf(order) /\ dirty' = (dirty \ seen) \ gone
  BY StripeFlow, Zenon
<1> DEFINE owing == {k \in seen : states[k].localDelta > 0}
<1>3. PICK order \in SetToSeqs(owing) :
         new = (old \o SubSeq(ev, 1, take)) \o EntriesOf(order) /\ dirty' = (dirty \ seen) \ gone
  BY <1>2, Zenon
<1> HIDE DEF s, gone, take
<1>4. owing \in SUBSET Keys /\ IsFiniteSet(owing)
  <2>1. owing \in SUBSET Keys
    BY DEF TypeInv, TypeOK, StripeTypes
  <2> QED BY <2>1, FS_Subset
<1>5. \A k \in owing : k \in seen /\ states[k].localDelta > 0
  OBVIOUS
<1>6. \A k \in seen : states[k].localDelta > 0 => k \in owing
  OBVIOUS
<1> HIDE DEF owing
<1>7. /\ order \in Seq(owing)
      /\ \A x \in owing : \E i \in DOMAIN order : order[i] = x
      /\ \A i, j \in DOMAIN order : order[i] = order[j] => i = j
  BY <1>4, OrderCovers
<1>8. \A i \in DOMAIN order : order[i] \in owing
  BY <1>7
<1>9. order \in Seq(Keys)
  BY <1>4, <1>7
<1> DEFINE part == SubSeq(ev, 1, take)
           es == EntriesOf(order)
           base == Len(old \o part)
<1>10. es \in Seq(Pending)
  BY <1>4, <1>5, EntriesType
<1>11. DOMAIN es = DOMAIN order /\ \A i \in DOMAIN order : es[i] = PendingOf(order[i], FALSE)
  BY DEF EntriesOf
<1>12. old \in Seq(Pending)
  BY DEF TypeInv, TypeOK, FlushTypes, FlushProgress
<1> HIDE DEF ev, old, new, mine, es
<1>13. part \in Seq(Pending) /\ \A i \in DOMAIN part : i \in DOMAIN ev /\ part[i] = ev[i]
  BY <1>1
<1> HIDE DEF part
<1>14. /\ old \o part \in Seq(Pending)
       /\ \A i \in DOMAIN old : i \in DOMAIN (old \o part) /\ (old \o part)[i] = old[i]
       /\ \A i \in DOMAIN (old \o part) :
              \/ i \in DOMAIN old /\ (old \o part)[i] = old[i]
              \/ \E j \in DOMAIN part : (old \o part)[i] = part[j]
  BY <1>12, <1>13, ConcatEntries
<1> DEFINE first == old \o part
<1> HIDE DEF first
<1>15. /\ new \in Seq(Pending)
       /\ \A i \in DOMAIN first : i \in DOMAIN new /\ new[i] = first[i]
       /\ \A i \in DOMAIN es : Len(first) + i \in DOMAIN new /\ new[Len(first) + i] = es[i]
       /\ \A i \in DOMAIN new :
              \/ i \in DOMAIN first /\ new[i] = first[i]
              \/ i - Len(first) \in DOMAIN es /\ new[i] = es[i - Len(first)]
  <2>1. new = first \o es /\ first \in Seq(Pending)
    BY <1>3, <1>14 DEF first, part, es
  <2> QED BY <1>10, <2>1, ConcatEntries
<1>16. base \in Nat /\ base = Len(first)
  BY <1>14 DEF first
<1> HIDE DEF base
<1>17. \A i \in DOMAIN order : base + i \in DOMAIN new /\ new[base + i] = PendingOf(order[i], FALSE)
  BY <1>11, <1>15, <1>16
<1>18. \A i \in DOMAIN old : i \in DOMAIN new /\ new[i] = old[i]
  BY <1>14, <1>15 DEF first
<1>19. ASSUME NEW i \in DOMAIN new
       PROVE  \/ i \in DOMAIN old /\ new[i] = old[i]
              \/ \E j \in DOMAIN ev : new[i] = ev[j]
              \/ i - base \in DOMAIN order /\ new[i] = PendingOf(order[i - base], FALSE)
  <2>1. CASE i \in DOMAIN first /\ new[i] = first[i]
    BY <1>13, <1>14, <2>1 DEF first
  <2>2. CASE i - Len(first) \in DOMAIN es /\ new[i] = es[i - Len(first)]
    BY <1>11, <1>16, <2>2
  <2> QED BY <1>15, <2>1, <2>2
<1>20. \A i \in DOMAIN order : order[i] \in seen /\ states[order[i]].localDelta > 0
  BY <1>5, <1>8
<1>21. \A k \in seen : states[k].localDelta > 0 => \E i \in DOMAIN order : order[i] = k
  BY <1>6, <1>7
<1>22. dirty' = (dirty \ seen) \ gone /\ seen \in SUBSET mine
  BY <1>3
<1>23. \A i, j \in DOMAIN order : order[i] = order[j] => i = j
  BY <1>7
<1>24. StripeAdds(f, seen, base, order)
  BY <1>9, <1>12, <1>15, <1>16, <1>17, <1>18, <1>19, <1>20, <1>21, <1>22, <1>23, Zenon
     DEF StripeAdds, s, ev, old, new, mine, gone
<1> QED BY <1>24

-----------------------------------------------------------------------------
(* No delta is stranded.                                                   *)

StrandInv == TypeInv /\ BatchShape /\ NoStrandedDelta

LEMMA FlightKept ==
    ASSUME NEW f \in Flushers, OnlyMoves(f), NEW k, NEW w,
           \A p \in Unsettled(f) : p.key = k /\ p.ws = w /\ ~p.evicted => p \in Unsettled(f)'
    PROVE  InFlight(k, w) => InFlight(k, w)'
<1> SUFFICES ASSUME InFlight(k, w) PROVE InFlight(k, w)'
  OBVIOUS
<1>0. PICK g \in Flushers : \E p \in Unsettled(g) : p.key = k /\ p.ws = w /\ ~p.evicted
  BY DEF InFlight
<1>1. PICK p \in Unsettled(g) : p.key = k /\ p.ws = w /\ ~p.evicted
  BY <1>0
<1>2. p \in Unsettled(g)'
  <2>1. CASE g = f
    BY <1>1, <2>1
  <2>2. CASE g # f
    BY <1>1, <2>2 DEF OnlyMoves, Unsettled
  <2> QED BY <2>1, <2>2
<1> QED BY <1>1, <1>2 DEF InFlight

\* NoStrandedDelta after a step, with the window of the new state named.
LEMMA StrandGoal ==
    ASSUME \A k \in Keys : \A w :
              states'[k].localDelta > 0 /\ w = states'[k].windowStart => k \in dirty' \/ InFlight(k, w)'
    PROVE  NoStrandedDelta'
BY DEF NoStrandedDelta

\* Steps that leave the stripes alone and settle nothing.
LEMMA StrandKept ==
    ASSUME NoStrandedDelta, UNCHANGED <<states, dirty>>,
           \A k \in Keys : \A w : InFlight(k, w) => InFlight(k, w)'
    PROVE  NoStrandedDelta'
BY StrandGoal DEF NoStrandedDelta

LEMMA SameFlight ==
    ASSUME UNCHANGED fl
    PROVE  \A k \in Keys : \A w : InFlight(k, w) => InFlight(k, w)'
BY DEF InFlight, Unsettled

\* The stripe-lock section of AllowN: the state it works on, and what it makes of it.
LEMMA DecideFlow ==
    ASSUME TypeInv, NEW t \in Threads, AllowNDecide(t)
    PROVE  LET k == req[t].key
               n == req[t].n
               w == WindowStart(req[t].now)
               s == StripeOf[k]
               st == IF states[k].windowStart = w THEN states[k] ELSE Fresh(w)
               verdict == Verdict(st, n)
               new == Counted(st, verdict, n)
           IN  /\ k \in Keys /\ n \in Nat /\ w \in Windows /\ s \in Stripes
               /\ st \in LocalState /\ st.windowStart = w
               /\ states[k].windowStart # w => st.localDelta = 0 /\ st.globalBase = 0
               /\ new \in LocalState /\ new.windowStart = w /\ new.globalBase = st.globalBase
               /\ new.localDelta = IF verdict = "admit" THEN st.localDelta + n ELSE st.localDelta
               /\ \E R \in SUBSET Keys :
                     /\ states[k] # Nil => R = {}
                     /\ states' = [j \in Keys |-> IF j = k THEN new
                                                  ELSE IF j \in R THEN Nil ELSE states[j]]
                     /\ dirty' = (dirty \ R) \cup (IF verdict = "admit" /\ n > 0 THEN {k} ELSE {})
                     /\ evictedPending' = [evictedPending EXCEPT ![s] = Carried(s, R)]
                     /\ hist' = hist \cup RemovalEvents(s, R) \cup CreationEvents(k, w)
               /\ admitted' = [admitted EXCEPT ![<<k, w>>] =
                                  admitted[<<k, w>>] + (IF verdict = "admit" THEN n ELSE 0)]
               /\ UNCHANGED <<now, wakeVars, healthVars, flushVars, redisVars, others>>
<1> USE LocalAsyncAssumption
<1> DEFINE k == req[t].key
           n == req[t].n
           w == WindowStart(req[t].now)
           s == StripeOf[k]
           st == IF states[k].windowStart = w THEN states[k] ELSE Fresh(w)
           verdict == Verdict(st, n)
           new == Counted(st, verdict, n)
<1>1. k \in Keys /\ n \in Nat /\ w \in Windows /\ s \in Stripes
  <2>1. req[t].pc = "lock" /\ req[t] \in Request
    BY DEF AllowNDecide, TypeInv, TypeOK, RequestTypes
  <2>2. k \in Keys
    BY <2>1 DEF TypeInv, Shape
  <2>3. w \in Windows
    BY <2>1, WindowType DEF Request
  <2> QED BY <2>1, <2>2, <2>3 DEF Request, Stripes
<1>2. PICK R \in (IF states[k] = Nil THEN Removals(s, req[t].now) ELSE {{}}) :
        /\ states' = [j \in Keys |-> IF j = k THEN new ELSE IF j \in R THEN Nil ELSE states[j]]
        /\ dirty' = (dirty \ R) \cup (IF verdict = "admit" /\ n > 0 THEN {k} ELSE {})
        /\ evictedPending' = [evictedPending EXCEPT ![s] = Carried(s, R)]
        /\ hist' = hist \cup RemovalEvents(s, R) \cup CreationEvents(k, w)
  BY Zenon DEF AllowNDecide
<1>3. /\ admitted' = [admitted EXCEPT ![<<k, w>>] =
                         admitted[<<k, w>>] + (IF verdict = "admit" THEN n ELSE 0)]
      /\ UNCHANGED <<now, wakeVars, healthVars, flushVars, redisVars, others>>
  BY Zenon DEF AllowNDecide
<1>4. st \in LocalState /\ st.windowStart = w
  BY <1>1 DEF TypeInv, TypeOK, StripeTypes, LocalState, Fresh, Nil
<1>5. states[k].windowStart # w => st.localDelta = 0 /\ st.globalBase = 0
  BY DEF Fresh, Nil
<1>6. R \in SUBSET Keys /\ (states[k] # Nil => R = {})
  BY <1>2, RemovalsType
<1>7. /\ new \in LocalState /\ new.windowStart = w /\ new.globalBase = st.globalBase
      /\ new.localDelta = IF verdict = "admit" THEN st.localDelta + n ELSE st.localDelta
  <2> DEFINE b == IF verdict = "over" THEN TRUE ELSE st.blocked
             d == IF verdict = "admit" THEN st.localDelta + n ELSE st.localDelta
  <2>1. new = [st EXCEPT !.blocked = b, !.localDelta = d]
    BY DEF Counted
  <2>2. st.blocked \in BOOLEAN /\ st.localDelta \in Nat
    BY <1>4 DEF LocalState
  <2> HIDE DEF st, verdict, new, w, k, n
  <2>3. b \in BOOLEAN
    BY <2>2, Zenon
  <2>5. d \in Nat
    BY <1>1, <2>2
  <2> HIDE DEF b, d
  <2>4. new \in LocalState /\ new.windowStart = w /\ new.globalBase = st.globalBase /\ new.localDelta = d
    BY <1>4, <2>1, <2>3, <2>5 DEF LocalState
  <2> QED BY <2>4 DEF d
<1> HIDE DEF k, n, w, s, st, verdict, new
<1>8. \E q \in SUBSET Keys :
        /\ states[k] # Nil => q = {}
        /\ states' = [j \in Keys |-> IF j = k THEN new ELSE IF j \in q THEN Nil ELSE states[j]]
        /\ dirty' = (dirty \ q) \cup (IF verdict = "admit" /\ n > 0 THEN {k} ELSE {})
        /\ evictedPending' = [evictedPending EXCEPT ![s] = Carried(s, q)]
        /\ hist' = hist \cup RemovalEvents(s, q) \cup CreationEvents(k, w)
  BY <1>2, <1>6, Zenon
<1> QED BY <1>1, <1>3, <1>4, <1>5, <1>7, <1>8, Zenon DEF k, n, w, s, st, verdict, new

LEMMA DecideStrands ==
    ASSUME StrandInv, NEW t \in Threads, AllowNDecide(t)
    PROVE  NoStrandedDelta'
<1> USE DEF StrandInv
<1> DEFINE k == req[t].key
           n == req[t].n
           w == WindowStart(req[t].now)
           st == IF states[k].windowStart = w THEN states[k] ELSE Fresh(w)
           verdict == Verdict(st, n)
           new == Counted(st, verdict, n)
<1>1. /\ k \in Keys /\ n \in Nat /\ st \in LocalState /\ st.windowStart = w
      /\ states[k].windowStart # w => st.localDelta = 0
      /\ new.windowStart = w
      /\ new.localDelta = IF verdict = "admit" THEN st.localDelta + n ELSE st.localDelta
  BY DecideFlow, Zenon
<1>2. PICK R : /\ states[k] # Nil => R = {}
               /\ states' = [j \in Keys |-> IF j = k THEN new
                                            ELSE IF j \in R THEN Nil ELSE states[j]]
               /\ dirty' = (dirty \ R) \cup (IF verdict = "admit" /\ n > 0 THEN {k} ELSE {})
  BY DecideFlow, Zenon
<1>3. \A j \in Keys : \A u : InFlight(j, u) => InFlight(j, u)'
  <2>1. UNCHANGED fl
    BY DEF AllowNDecide, flushVars
  <2> QED BY <2>1, SameFlight
<1>4. st.localDelta > 0 => st = states[k] /\ R = {}
  BY <1>1, <1>2 DEF Nil
<1>5. st.localDelta \in Nat
  BY <1>1 DEF LocalState
<1> HIDE DEF k, n, w, st, verdict, new
<1>10. ASSUME NEW j \in Keys, NEW u, states'[j].localDelta > 0, u = states'[j].windowStart
       PROVE  j \in dirty' \/ InFlight(j, u)'
  <2>1. CASE j = k
    <3>1. states'[k] = new
      BY <1>1, <1>2
    <3>2. CASE verdict = "admit" /\ n > 0
      BY <1>2, <2>1, <3>2
    <3>3. CASE ~(verdict = "admit" /\ n > 0)
      <4>1. st.localDelta > 0
        BY <1>1, <1>5, <1>10, <2>1, <3>1, <3>3
      <4>2. st = states[k] /\ R = {}
        BY <1>4, <4>1
      <4>3. k \in dirty \/ InFlight(k, u)
        BY <1>1, <1>10, <2>1, <3>1, <4>1, <4>2 DEF NoStrandedDelta
      <4> QED BY <1>1, <1>2, <1>3, <2>1, <4>2, <4>3
    <3> QED BY <3>2, <3>3
  <2>2. CASE j # k /\ j \in R
    BY <1>2, <1>10, <2>2 DEF Nil
  <2>3. CASE j # k /\ j \notin R
    <3>1. states'[j] = states[j]
      BY <1>2, <2>3
    <3>2. j \in dirty \/ InFlight(j, u)
      BY <1>10, <3>1 DEF NoStrandedDelta
    <3> QED BY <1>2, <1>3, <2>3, <3>2
  <2> QED BY <2>1, <2>2, <2>3
<1> QED BY <1>10, StrandGoal

\* One stripe of the snapshot: a key leaves the dirty set with its delta in the batch.
LEMMA StripeStrands ==
    ASSUME StrandInv, NEW f \in Flushers, SnapshotStripe(f)
    PROVE  NoStrandedDelta'
<1> USE DEF StrandInv
<1> DEFINE s == Wrap(flushCursor + fl[f].visited)
           gone == Expired(states, s, fl[f].at)
           new == fl'[f].batch
<1>0. PICK seen, base, order : StripeAdds(f, seen, base, order)
  BY StripeEntries
<1>1. /\ dirty' = (dirty \ seen) \ gone
      /\ \A i \in DOMAIN fl[f].batch : i \in DOMAIN new /\ new[i] = fl[f].batch[i]
      /\ \A k \in seen : states[k].localDelta > 0 => \E i \in DOMAIN new : new[i] = PendingOf(k, FALSE)
  <2>1. /\ dirty' = (dirty \ seen) \ gone
        /\ \A k \in seen : states[k].localDelta > 0 => \E i \in DOMAIN order : order[i] = k
        /\ \A i \in DOMAIN order : base + i \in DOMAIN new /\ new[base + i] = PendingOf(order[i], FALSE)
        /\ \A i \in DOMAIN fl[f].batch : i \in DOMAIN new /\ new[i] = fl[f].batch[i]
    BY <1>0, Zenon DEF StripeAdds
  <2> HIDE DEF gone, new
  <2> QED BY <2>1, Zenon
<1>2. /\ fl[f].pc = "snap" /\ fl'[f].pc = "snap" /\ OnlyMoves(f)
      /\ states' = [k \in Keys |-> IF k \in gone THEN Nil ELSE states[k]]
  BY StripeFlow, Zenon
<1>3. Unsettled(f)' = {new[i] : i \in DOMAIN new}
  BY <1>2 DEF Unsettled
<1>4. Unsettled(f) = {fl[f].batch[i] : i \in DOMAIN fl[f].batch}
  BY <1>2 DEF Unsettled
<1> HIDE DEF gone, new
<1>5. \A k \in Keys : \A w : InFlight(k, w) => InFlight(k, w)'
  <2>1. Unsettled(f) \subseteq Unsettled(f)'
    BY <1>1, <1>3, <1>4
  <2> QED BY <1>2, <2>1, FlightKept
<1>6. ASSUME NEW k \in Keys, NEW w, states'[k].localDelta > 0, w = states'[k].windowStart
      PROVE  k \in dirty' \/ InFlight(k, w)'
  <2>1. k \notin gone /\ states'[k] = states[k]
    BY <1>2, <1>6 DEF Nil
  <2>2. k \in dirty \/ InFlight(k, w)
    BY <1>6, <2>1 DEF NoStrandedDelta
  <2>3. CASE k \in seen
    <3>1. PendingOf(k, FALSE) \in Unsettled(f)'
      BY <1>1, <1>3, <1>6, <2>1, <2>3
    <3>2. ASSUME NEW p, p = PendingOf(k, FALSE) PROVE p.key = k /\ p.ws = w /\ ~p.evicted
      BY <1>6, <2>1, <3>2 DEF PendingOf
    <3> QED BY <3>1, <3>2 DEF InFlight
  <2>4. CASE k \notin seen
    BY <1>1, <1>5, <2>1, <2>2, <2>4
  <2> QED BY <2>3, <2>4
<1> QED BY <1>6, StrandGoal

\* A result applied: the entry is settled, or its key is dirty again.
LEMMA ApplyStrands ==
    ASSUME StrandInv, NEW f \in Flushers, ApplyError(f) \/ ApplyOk(f)
    PROVE  NoStrandedDelta'
<1> USE DEF StrandInv
<1> DEFINE b == fl[f].batch
           p == Head(b)
           st == states[p.key]
           g == Head(fl[f].res)
           same == st.windowStart = p.ws
           new == Reconciled(st, p, g)
<1>1. /\ fl[f].pc = "apply" /\ OnlyMoves(f) /\ fl'[f].batch = Tail(b)
      /\ fl'[f].pc = IF Len(b) = 1 THEN AfterApply(f) ELSE "apply"
  BY ErrorFlow, OkFlow, Zenon
<1>2. b \in Seq(Pending) /\ b # <<>> /\ p \in Pending /\ g \in Nat \cup {-1}
  BY <1>1, HeadsType DEF BatchShape
<1>3. \A q \in Unsettled(f) : q = p \/ q \in Unsettled(f)'
  <2>1. Unsettled(f) = {b[i] : i \in DOMAIN b}
    BY <1>1 DEF Unsettled
  <2>2. CASE Len(b) = 1
    <3>1. \A i \in DOMAIN b : b[i] = p
      BY <1>2, <2>2
    <3> QED BY <2>1, <3>1
  <2>3. CASE Len(b) # 1
    <3>1. fl'[f].pc = "apply"
      BY <1>1, <2>3
    <3>2. Unsettled(f)' = {Tail(b)[i] : i \in DOMAIN Tail(b)}
      BY <1>1, <3>1 DEF Unsettled
    <3>3. \A i \in DOMAIN b : b[i] = p \/ \E j \in DOMAIN Tail(b) : Tail(b)[j] = b[i]
      <4> HIDE DEF b
      <4>1. /\ p = b[1]
            /\ \A i \in DOMAIN b : i = 1 \/ (i - 1 \in DOMAIN Tail(b) /\ Tail(b)[i - 1] = b[i])
        BY <1>2, TailEntries
      <4> QED BY <4>1
    <3> HIDE DEF b, p
    <3> QED BY <2>1, <3>2, <3>3
  <2> QED BY <2>2, <2>3
<1>4. ASSUME NEW k \in Keys, NEW w, InFlight(k, w), ~InFlight(k, w)'
      PROVE  p.key = k /\ p.ws = w /\ ~p.evicted
  BY <1>1, <1>3, <1>4, FlightKept
<1>5. CASE ApplyError(f)
  <2>1. dirty' = dirty \cup Retried(p) /\ states' = states
    BY <1>5, ErrorFlow, Zenon
  <2>2. ASSUME NEW k \in Keys, NEW w, states'[k].localDelta > 0, w = states'[k].windowStart
        PROVE  k \in dirty' \/ InFlight(k, w)'
    <3>1. k \in dirty \/ InFlight(k, w)
      BY <2>1, <2>2 DEF NoStrandedDelta
    <3>2. CASE InFlight(k, w) /\ ~InFlight(k, w)'
      BY <1>4, <2>1, <2>2, <3>2 DEF Retried
    <3> QED BY <2>1, <3>1, <3>2
  <2> QED BY <2>2, StrandGoal
<1>6. CASE ApplyOk(f)
  <2>1. /\ states' = IF same THEN [states EXCEPT ![p.key] = new] ELSE states
        /\ dirty' = IF same /\ new.localDelta # 0 THEN dirty \cup {p.key} ELSE dirty
    BY <1>6, OkFlow, Zenon
  <2>2. p.key \in Keys
    BY <1>2 DEF Pending
  <2>3. ASSUME NEW k \in Keys, NEW w, states'[k].localDelta > 0, w = states'[k].windowStart
        PROVE  k \in dirty' \/ InFlight(k, w)'
    <3> HIDE DEF new
    <3>1. CASE k = p.key /\ same
      <4>1. states'[k] = new
        BY <2>1, <2>2, <3>1 DEF TypeInv, TypeOK, StripeTypes
      <4> QED BY <2>1, <2>3, <3>1, <4>1
    <3>2. CASE ~(k = p.key /\ same)
      <4>1. states'[k] = states[k]
        BY <2>1, <2>2, <3>2 DEF TypeInv, TypeOK, StripeTypes
      <4>2. k \in dirty \/ InFlight(k, w)
        BY <2>3, <4>1 DEF NoStrandedDelta
      <4>3. CASE InFlight(k, w) /\ ~InFlight(k, w)'
        BY <1>4, <2>3, <3>2, <4>1, <4>3
      <4> QED BY <2>1, <4>2, <4>3
    <3> QED BY <3>1, <3>2
  <2> QED BY <2>3, StrandGoal
<1> QED BY <1>5, <1>6

LEMMA StrandStep ==
    ASSUME StrandInv, [Next]_vars
    PROVE  NoStrandedDelta'
<1> USE DEF StrandInv
<1>1. ASSUME NEW f \in Flushers, OnlyMoves(f), UNCHANGED stripeVars,
             Unsettled(f) \subseteq Unsettled(f)'
      PROVE  NoStrandedDelta'
  <2>1. \A k \in Keys : \A w : InFlight(k, w) => InFlight(k, w)'
    BY <1>1, FlightKept
  <2> QED BY <1>1, <2>1, StrandKept DEF stripeVars
<1>2. CASE \/ \E t \in Threads, k \in Keys, n \in Costs : AllowNEnter(t, k, n)
           \/ \E t \in Threads : AllowNEnqueue(t) \/ AllowNMarkActive(t)
           \/ Environment \/ IdleTick \/ UNCHANGED vars
  <2>1. UNCHANGED <<stripeVars, fl>>
    BY <1>2 DEF AllowNEnter, AllowNEnqueue, AllowNMarkActive, Environment, ClockTick, RedisFails,
       RedisRecovers, OtherReplica, KeyExpires, IdleTick, vars, flushVars
  <2> QED BY <2>1, SameFlight, StrandKept DEF stripeVars
<1>3. CASE ShardStep
  <2>1. PICK f \in Flushers : fl[f].pc \notin Holding /\ OnlyMoves(f)
    BY <1>3, ShardFlow
  <2>2. Unsettled(f) = {} /\ UNCHANGED stripeVars
    BY <1>3, <2>1, ShardFlow DEF Unsettled, Holding
  <2> QED BY <1>1, <2>1, <2>2
<1>4. ASSUME NEW f \in Flushers, FlushLock(f) PROVE NoStrandedDelta'
  <2>1. fl[f].pc = "lock" /\ OnlyMoves(f) /\ UNCHANGED stripeVars
    BY <1>4, LockFlow
  <2>2. Unsettled(f) = {}
    BY <2>1 DEF Unsettled
  <2> QED BY <1>1, <2>1, <2>2
<1>5. ASSUME NEW f \in Flushers, SnapshotEnd(f) PROVE NoStrandedDelta'
  <2>1. /\ fl[f].pc = "snap" /\ fl'[f].pc = (IF fl[f].batch = <<>> THEN "probe" ELSE "exec")
        /\ fl'[f].batch = fl[f].batch /\ OnlyMoves(f) /\ UNCHANGED stripeVars
    BY <1>5, EndFlow
  <2>2. CASE fl[f].batch = <<>>
    BY <1>1, <2>1, <2>2 DEF Unsettled
  <2>3. CASE fl[f].batch # <<>>
    BY <1>1, <2>1, <2>3 DEF Unsettled
  <2> QED BY <2>2, <2>3
<1>6. ASSUME NEW f \in Flushers, ExecCommand(f) \/ ExecEnd(f) PROVE NoStrandedDelta'
  <2>1. /\ fl[f].pc = "exec" /\ fl'[f].pc \in {"exec", "apply"}
        /\ fl'[f].batch = fl[f].batch /\ OnlyMoves(f) /\ UNCHANGED stripeVars
    BY <1>6, CommandFlow, ReturnFlow, Zenon
  <2> QED BY <1>1, <2>1 DEF Unsettled
<1>7. ASSUME NEW f \in Flushers, NoteOutcome(f) \/ ExecExpire(f) \/ Probe(f) \/ Release(f)
      PROVE  NoStrandedDelta'
  <2>1. fl[f].pc \in {"note", "expire", "probe", "release"} /\ OnlyMoves(f) /\ UNCHANGED stripeVars
    BY <1>7, NoteFlow, ExpireFlow, ProbeFlow, ReleaseFlow
  <2> QED BY <1>1, <2>1 DEF Unsettled
<1>8. CASE \E t \in Threads : AllowN(t)
  BY <1>2, <1>8, DecideStrands DEF AllowN
<1>9. ASSUME NEW f \in Flushers, Inner(f) PROVE NoStrandedDelta'
  BY <1>6, <1>7, <1>9, ApplyStrands, Zenon DEF Inner
<1> QED BY <1>2, <1>3, <1>4, <1>5, <1>7, <1>8, <1>9, StripeStrands, StepCases, Zenon

\* A delta counted by AllowN stays dirty or is in the batch of the flush that settles it,
\* across snapshots, errors, window changes and what is admitted during the flush.
THEOREM NoDeltaStranded == Spec => []NoStrandedDelta
<1>1. Init => StrandInv
  <2>1. Init => TypeInv
    BY InitType
  <2>2. Init => BatchShape /\ NoStrandedDelta
    BY DEF Init, BatchShape, NoStrandedDelta, IdleFlush, Nil
  <2> QED BY <2>1, <2>2 DEF StrandInv
<1>2. StrandInv /\ [Next]_vars => StrandInv'
  BY StepType, StepShape, StrandStep DEF StrandInv
<1>3. StrandInv => NoStrandedDelta
  BY DEF StrandInv
<1> QED BY <1>1, <1>2, <1>3, PTL DEF Spec

-----------------------------------------------------------------------------
(* A created key gets its TTL.                                             *)

\* Entry i of f's batch is for window w of key k, and Redis has answered it.
Answered(f, i, k, w) ==
    /\ fl[f].pc \in {"exec", "apply"}
    /\ i \in DOMAIN fl[f].res /\ i \in DOMAIN fl[f].batch
    /\ fl[f].batch[i].key = k /\ fl[f].batch[i].ws = w /\ fl[f].res[i] # -1

\* Flusher f knows, or is about to find out, that it created the key.
Creating(f, k, w) ==
    \/ <<k, w>> \in fl[f].creators
    \/ \E i \in DOMAIN fl[f].res : Answered(f, i, k, w) /\ fl[f].res[i] = fl[f].batch[i].flushN

Promised(k, w) ==
    \/ redis[<<k, w>>] = 0
    \/ <<k, w>> \in ttl
    \/ Marked(k, w, {"lostReply", "noTTL"})
    \/ \E f \in Flushers : Creating(f, k, w)

\* The created keys are collected between the first applied result and the EXPIRE pipeline.
CreatorsHeld ==
    \A f \in Flushers : fl[f].creators # {} =>
        fl[f].pc \in {"apply", "expire"} \/ (f = Worker /\ fl[f].pc = "note")

TtlPromised == \A k \in Keys, w \in Windows : Promised(k, w)

TtlInv == TypeInv /\ BatchShape /\ CreatorsHeld /\ TtlPromised

\* One flusher moves: what it was creating it still is, or the key has its TTL or its mark.
LEMMA PromiseKept ==
    ASSUME NEW k, NEW w, Promised(k, w), hist \subseteq hist',
           redis'[<<k, w>>] = redis[<<k, w>>], <<k, w>> \in ttl => <<k, w>> \in ttl',
           NEW f \in Flushers, OnlyMoves(f),
           Creating(f, k, w) => \/ Creating(f, k, w)' \/ <<k, w>> \in ttl'
                                \/ Marked(k, w, {"lostReply", "noTTL"})'
    PROVE  Promised(k, w)'
<1>1. Marked(k, w, {"lostReply", "noTTL"}) => Marked(k, w, {"lostReply", "noTTL"})'
  BY DEF Marked
<1>2. ASSUME NEW g \in Flushers, g # f, Creating(g, k, w) PROVE Creating(g, k, w)'
  BY <1>2 DEF OnlyMoves, Creating, Answered
<1> QED BY <1>1, <1>2 DEF Promised

\* A flusher outside the pipeline whose created keys stay.
LEMMA CreatingKept ==
    ASSUME NEW k, NEW w, NEW f \in Flushers, fl[f].pc \notin {"exec", "apply"},
           fl[f].creators \subseteq fl'[f].creators
    PROVE  Creating(f, k, w) => Creating(f, k, w)'
BY DEF Creating, Answered

LEMMA CreatorsMove ==
    ASSUME CreatorsHeld, NEW f \in Flushers, OnlyMoves(f),
           fl'[f].creators # {} => fl'[f].pc \in {"apply", "expire"} \/ (f = Worker /\ fl'[f].pc = "note")
    PROVE  CreatorsHeld'
BY DEF CreatorsHeld, OnlyMoves

LEMMA CreatorsStep ==
    ASSUME TtlInv, [Next]_vars
    PROVE  CreatorsHeld'
<1> USE DEF TtlInv
<1>1. CASE \/ \E t \in Threads, k \in Keys, n \in Costs : AllowNEnter(t, k, n)
           \/ \E t \in Threads : AllowN(t)
           \/ Environment \/ IdleTick \/ UNCHANGED vars
  BY <1>1, OtherMoves DEF CreatorsHeld
<1>2. ASSUME NEW f \in Flushers, fl'[f].creators = fl[f].creators, OnlyMoves(f),
             fl[f].pc \notin {"apply", "expire", "note"}
      PROVE  CreatorsHeld'
  BY <1>2, CreatorsMove DEF CreatorsHeld
<1>3. CASE ShardStep
  <2>1. PICK f \in Flushers : fl[f].pc \notin Holding /\ fl'[f].creators = fl[f].creators /\ OnlyMoves(f)
    BY <1>3, ShardFlow
  <2> QED BY <1>2, <2>1 DEF Holding
<1>4. ASSUME NEW f \in Flushers, FlushLock(f) \/ ExecExpire(f) \/ Release(f) PROVE CreatorsHeld'
  <2>1. fl'[f].creators = {} /\ OnlyMoves(f)
    BY <1>4, LockFlow, ExpireFlow, ReleaseFlow
  <2> QED BY <2>1, CreatorsMove
<1>5. ASSUME NEW f \in Flushers, SnapshotStripe(f) \/ SnapshotEnd(f) PROVE CreatorsHeld'
  <2>1. fl[f].pc = "snap" /\ fl'[f].creators = fl[f].creators /\ OnlyMoves(f)
    BY <1>5, StripeFlow, EndFlow, Zenon
  <2> QED BY <1>2, <2>1
<1>6. ASSUME NEW f \in Flushers, ExecCommand(f) \/ ExecEnd(f) \/ Probe(f) PROVE CreatorsHeld'
  <2>1. fl[f].pc \in {"exec", "probe"} /\ fl'[f].creators = fl[f].creators /\ OnlyMoves(f)
    BY <1>6, CommandFlow, ReturnFlow, ProbeFlow, Zenon
  <2> QED BY <1>2, <2>1
<1>7. ASSUME NEW f \in Flushers, ApplyError(f) \/ ApplyOk(f) PROVE CreatorsHeld'
  <2>1. fl'[f].pc = (IF Len(fl[f].batch) = 1 THEN AfterApply(f) ELSE "apply") /\ OnlyMoves(f)
    BY <1>7, ErrorFlow, OkFlow, Zenon
  <2>2. fl'[f].pc \in {"apply", "expire"} \/ (f = Worker /\ fl'[f].pc = "note")
    BY <2>1 DEF AfterApply
  <2> QED BY <2>1, <2>2, CreatorsMove
<1>8. ASSUME NEW f \in Flushers, NoteOutcome(f) PROVE CreatorsHeld'
  <2>1. /\ fl[f].pc = "note" /\ fl'[f].pc = (IF f = Worker THEN "expire" ELSE "release")
        /\ fl'[f].creators = fl[f].creators /\ OnlyMoves(f)
    BY <1>8, NoteFlow
  <2> QED BY <2>1, CreatorsMove DEF CreatorsHeld
<1>9. ASSUME NEW f \in Flushers, Inner(f) PROVE CreatorsHeld'
  BY <1>4, <1>6, <1>7, <1>8, <1>9, Zenon DEF Inner
<1> QED BY <1>1, <1>3, <1>4, <1>5, <1>9, StepCases, Zenon

\* The pipeline: a count equal to its increment is that of the creation, and a reply that
\* is lost is on record.
LEMMA PipelinePromises ==
    ASSUME TtlInv, NEW f \in Flushers, ExecCommand(f) \/ ExecEnd(f)
    PROVE  TtlPromised'
<1> USE DEF TtlInv
<1>0. fl[f].batch \in Seq(Pending) /\ fl[f].res \in Seq(Nat \cup {-1})
  BY DEF TypeInv, TypeOK, FlushTypes, FlushProgress
<1> SUFFICES ASSUME NEW k \in Keys, NEW w \in Windows PROVE Promised(k, w)'
  BY DEF TtlPromised
<1>1. Promised(k, w)
  BY DEF TtlPromised
<1>2. CASE ExecCommand(f)
  <2> DEFINE n == Len(fl[f].res) + 1
             p == fl[f].batch[n]
             q == fl[f].res
  <2>1. /\ fl[f].pc = "exec" /\ n \in 1..Len(fl[f].batch) /\ p \in Pending
        /\ fl'[f].pc = "exec" /\ fl'[f].batch = fl[f].batch
        /\ fl'[f].res = Append(q, Reply(p))
        /\ fl'[f].creators = fl[f].creators /\ OnlyMoves(f)
        /\ redis' = IF redisUp THEN [redis EXCEPT ![<<p.key, p.ws>>] = Reply(p)] ELSE redis
        /\ UNCHANGED <<ttl, ghostVars>>
    BY <1>2, CommandFlow, Zenon
  <2>2. Reply(p) \in Nat \cup {-1} /\ (redisUp => Reply(p) = redis[<<p.key, p.ws>>] + p.flushN)
    BY <2>1, ReplyType DEF Reply
  <2>3. /\ \A i \in DOMAIN q : i \in DOMAIN fl'[f].res /\ fl'[f].res[i] = q[i]
        /\ n \in DOMAIN fl'[f].res /\ fl'[f].res[n] = Reply(p)
    BY <1>0, <2>1, <2>2
  <2>4. UNCHANGED hist
    BY <2>1 DEF ghostVars
  <2>5. Creating(f, k, w) => Creating(f, k, w)'
    BY <2>1, <2>3 DEF Creating, Answered
  <2>6. CASE redisUp /\ p.key = k /\ p.ws = w /\ redis[<<k, w>>] = 0
    <3>1. Reply(p) = p.flushN /\ Reply(p) # -1
      BY <2>1, <2>2, <2>6 DEF Pending
    <3>2. \A i : i = n => Answered(f, i, k, w)' /\ fl'[f].res[i] = fl'[f].batch[i].flushN
      BY <1>0, <2>1, <2>3, <2>6, <3>1 DEF Answered
    <3>3. Creating(f, k, w)'
      BY <2>3, <3>2 DEF Creating
    <3> QED BY <3>3 DEF Promised
  <2>7. CASE ~(redisUp /\ p.key = k /\ p.ws = w)
    <3>1. redis'[<<k, w>>] = redis[<<k, w>>]
      BY <2>1, <2>7 DEF TypeInv, TypeOK, RedisTypes, KeyWindows
    <3> QED BY <1>1, <2>1, <2>4, <2>5, <3>1, PromiseKept
  <2>8. CASE redis[<<k, w>>] # 0
    <3>1. \A g \in Flushers : g # f => (Creating(g, k, w) => Creating(g, k, w)')
      BY <2>1 DEF OnlyMoves, Creating, Answered
    <3>2. UNCHANGED Marked(k, w, {"lostReply", "noTTL"})
      BY <2>4 DEF Marked
    <3> QED BY <1>1, <2>1, <2>5, <2>8, <3>1, <3>2 DEF Promised
  <2> QED BY <2>6, <2>7, <2>8
<1>3. CASE ExecEnd(f)
  <2> DEFINE q == fl[f].res
  <2>1. /\ fl[f].pc = "exec" /\ Len(q) = Len(fl[f].batch) /\ fl'[f].pc = "apply"
        /\ fl'[f].batch = fl[f].batch /\ fl'[f].creators = fl[f].creators /\ OnlyMoves(f)
        /\ UNCHANGED redisVars
    BY <1>3, ReturnFlow, Zenon
  <2>2. PICK m \in 0..Len(q) : fl'[f].res = Replied(q, m) /\ hist' = hist \cup LostReplies(f, m)
    BY <1>3, ReturnFlow, Zenon
  <2>3. /\ DOMAIN q = 1..Len(q) /\ DOMAIN fl'[f].res = 1..Len(q)
        /\ \A i \in 1..Len(q) : i <= m => fl'[f].res[i] = q[i]
    BY <1>0, <2>2 DEF Replied
  <2>4. ASSUME NEW i \in DOMAIN q, Answered(f, i, k, w), fl[f].res[i] = fl[f].batch[i].flushN
        PROVE  Creating(f, k, w)' \/ Marked(k, w, {"lostReply", "noTTL"})'
    <3>1. CASE i <= m
      BY <2>1, <2>3, <2>4, <3>1 DEF Creating, Answered
    <3>2. CASE ~(i <= m)
      <4>1. i \in 1..Len(fl[f].batch) /\ i > m /\ fl[f].res[i] # -1
        BY <1>0, <2>1, <2>2, <2>3, <2>4, <3>2 DEF Answered
      <4>2. <<fl[f].batch[i].key, fl[f].batch[i].ws, "lostReply">> \in LostReplies(f, m)
        BY <4>1 DEF LostReplies
      <4> QED BY <2>2, <2>4, <4>2 DEF Marked, Answered
    <3> QED BY <3>1, <3>2
  <2>5. <<k, w>> \in fl[f].creators => Creating(f, k, w)'
    BY <2>1 DEF Creating
  <2>6. hist \subseteq hist' /\ UNCHANGED <<redis, ttl>>
    BY <2>1, <2>2 DEF redisVars
  <2> QED BY <1>1, <2>1, <2>4, <2>5, <2>6, PromiseKept DEF Creating
<1> QED BY <1>2, <1>3

\* Applying a result: the creation is noticed, or the entry that shows it is still ahead.
LEMMA ApplyPromises ==
    ASSUME TtlInv, NEW f \in Flushers, ApplyError(f) \/ ApplyOk(f)
    PROVE  TtlPromised'
<1> USE DEF TtlInv
<1> SUFFICES ASSUME NEW k \in Keys, NEW w \in Windows PROVE Promised(k, w)'
  BY DEF TtlPromised
<1>1. Promised(k, w)
  BY DEF TtlPromised
<1> DEFINE b == fl[f].batch
           q == fl[f].res
           p == Head(b)
           g == Head(q)
<1>2. /\ fl[f].pc = "apply" /\ OnlyMoves(f) /\ fl'[f].batch = Tail(b) /\ fl'[f].res = Tail(q)
      /\ fl'[f].pc = IF Len(b) = 1 THEN AfterApply(f) ELSE "apply"
      /\ UNCHANGED redisVars
  BY ErrorFlow, OkFlow, Zenon
<1>3. b \in Seq(Pending) /\ b # <<>> /\ q \in Seq(Nat \cup {-1}) /\ Len(q) = Len(b)
  BY <1>2, HeadsType DEF BatchShape
<1>4. q # <<>>
  BY <1>3
<1>5. fl[f].creators \subseteq fl'[f].creators /\ hist \subseteq hist'
  <2>1. CASE ApplyError(f)
    <3>1. /\ fl'[f].creators = fl[f].creators
          /\ hist' = IF p.evicted /\ EvictedFull(StripeOf[p.key]) THEN hist \cup {<<p.key, p.ws, "dropped">>} ELSE hist
      BY <2>1, ErrorFlow, Zenon
    <3> QED BY <3>1
  <2>2. CASE ApplyOk(f)
    <3>1. /\ fl'[f].creators = fl[f].creators \cup (IF Creates(p, g) THEN {<<p.key, p.ws>>} ELSE {})
          /\ UNCHANGED ghostVars
      BY <2>2, OkFlow, Zenon
    <3> QED BY <3>1 DEF ghostVars
  <2> QED BY <2>1, <2>2
<1>6. ASSUME NEW i \in DOMAIN q, Answered(f, i, k, w), q[i] = b[i].flushN
      PROVE  Creating(f, k, w)'
  <2>1. CASE i = 1
    <3>1. p = b[1] /\ g = q[1] /\ g # -1 /\ p.key = k /\ p.ws = w /\ Creates(p, g)
      BY <1>3, <1>6, <2>1 DEF Answered, Creates
    <3>2. ApplyOk(f)
      BY <3>1, ErrorFlow, Zenon
    <3>3. fl'[f].creators = fl[f].creators \cup (IF Creates(p, g) THEN {<<p.key, p.ws>>} ELSE {})
      BY <3>2, OkFlow, Zenon
    <3> QED BY <3>1, <3>3 DEF Creating
  <2>2. CASE i # 1
    <3> HIDE DEF b, q
    <3>1. /\ i - 1 \in DOMAIN Tail(q) /\ Tail(q)[i - 1] = q[i]
          /\ DOMAIN q = 1..Len(q) /\ DOMAIN b = 1..Len(b)
      BY <1>3, <1>4, <1>6, <2>2, TailEntries
    <3>2. i - 1 \in DOMAIN Tail(b) /\ Tail(b)[i - 1] = b[i]
      BY <1>3, <1>6, <2>2, <3>1, TailEntries
    <3>3. Len(b) # 1
      BY <1>3, <1>6, <2>2, <3>1
    <3>4. \A j : j = i - 1 => Answered(f, j, k, w)' /\ fl'[f].res[j] = fl'[f].batch[j].flushN
      BY <1>2, <1>6, <3>1, <3>2, <3>3 DEF Answered, b, q
    <3> QED BY <1>2, <3>1, <3>4 DEF Creating
  <2> QED BY <2>1, <2>2
<1>7. Creating(f, k, w) => Creating(f, k, w)'
  BY <1>5, <1>6 DEF Creating
<1> QED BY <1>1, <1>2, <1>5, <1>7, PromiseKept DEF redisVars

LEMMA TtlStep ==
    ASSUME TtlInv, [Next]_vars
    PROVE  TtlPromised'
<1> USE DEF TtlInv
<1>1. ASSUME UNCHANGED <<fl, redis, ttl>>, hist \subseteq hist' PROVE TtlPromised'
  <2>1. \A k \in Keys, w \in Windows, f \in Flushers : UNCHANGED Creating(f, k, w)
    BY <1>1 DEF Creating, Answered
  <2>2. \A k \in Keys, w \in Windows :
           Marked(k, w, {"lostReply", "noTTL"}) => Marked(k, w, {"lostReply", "noTTL"})'
    BY <1>1 DEF Marked
  <2> QED BY <1>1, <2>1, <2>2 DEF TtlPromised, Promised
<1>2. CASE \/ \E t \in Threads, k \in Keys, n \in Costs : AllowNEnter(t, k, n)
           \/ \E t \in Threads : AllowNEnqueue(t) \/ AllowNMarkActive(t)
           \/ ClockTick \/ RedisFails \/ RedisRecovers \/ IdleTick \/ UNCHANGED vars
  <2>1. UNCHANGED <<fl, redis, ttl, hist>>
    BY <1>2 DEF AllowNEnter, AllowNEnqueue, AllowNMarkActive, ClockTick, RedisFails, RedisRecovers,
       IdleTick, vars, flushVars, redisVars, ghostVars
  <2> QED BY <1>1, <2>1
<1>3. ASSUME NEW t \in Threads, AllowNDecide(t) PROVE TtlPromised'
  <2>1. UNCHANGED <<fl, redis, ttl>> /\ hist \subseteq hist'
    BY <1>3 DEF AllowNDecide, flushVars, redisVars
  <2> QED BY <1>1, <2>1
<1>4. ASSUME NEW u \in Keys, OtherReplica(u) PROVE TtlPromised'
  <2> DEFINE v == WindowStart(now)
  <2>1. /\ redis' = [redis EXCEPT ![<<u, v>>] = redis[<<u, v>>] + 1]
        /\ ttl' = IF redis[<<u, v>>] = 0 THEN ttl \cup {<<u, v>>} ELSE ttl
        /\ UNCHANGED <<fl, hist>>
    BY <1>4 DEF OtherReplica, flushVars
  <2> HIDE DEF v
  <2>2. ASSUME NEW k \in Keys, NEW w \in Windows PROVE Promised(k, w)'
    <3>1. Promised(k, w)
      BY DEF TtlPromised
    <3>2. UNCHANGED Marked(k, w, {"lostReply", "noTTL"}) /\ \A f \in Flushers : UNCHANGED Creating(f, k, w)
      BY <2>1 DEF Marked, Creating, Answered
    <3>3. redis[<<k, w>>] = 0 => redis'[<<k, w>>] = 0 \/ <<k, w>> \in ttl'
      BY <2>1 DEF TypeInv, TypeOK, RedisTypes, KeyWindows
    <3> QED BY <2>1, <3>1, <3>2, <3>3 DEF Promised
  <2> QED BY <2>2 DEF TtlPromised
<1>5. ASSUME NEW u \in Keys, NEW v \in Windows, KeyExpires(u, v) PROVE TtlPromised'
  <2>1. /\ redis' = [redis EXCEPT ![<<u, v>>] = 0] /\ ttl' = ttl \ {<<u, v>>}
        /\ hist \subseteq hist' /\ UNCHANGED fl
    BY <1>5 DEF KeyExpires, flushVars
  <2>2. ASSUME NEW k \in Keys, NEW w \in Windows PROVE Promised(k, w)'
    <3>1. Promised(k, w)
      BY DEF TtlPromised
    <3>2. /\ Marked(k, w, {"lostReply", "noTTL"}) => Marked(k, w, {"lostReply", "noTTL"})'
          /\ \A f \in Flushers : UNCHANGED Creating(f, k, w)
      BY <2>1 DEF Marked, Creating, Answered
    <3>3. redis[<<k, w>>] = 0 \/ <<k, w>> \in ttl => redis'[<<k, w>>] = 0 \/ <<k, w>> \in ttl'
      BY <2>1 DEF TypeInv, TypeOK, RedisTypes, KeyWindows
    <3> QED BY <3>1, <3>2, <3>3 DEF Promised
  <2> QED BY <2>2 DEF TtlPromised
<1>6. ASSUME NEW f \in Flushers, OnlyMoves(f), UNCHANGED <<redis, ttl, hist>>,
             fl[f].pc \notin {"exec", "apply"}, fl[f].creators \subseteq fl'[f].creators
      PROVE  TtlPromised'
  <2> SUFFICES ASSUME NEW k \in Keys, NEW w \in Windows PROVE Promised(k, w)'
    BY DEF TtlPromised
  <2>1. Promised(k, w)
    BY DEF TtlPromised
  <2>2. Creating(f, k, w) => Creating(f, k, w)'
    BY <1>6, CreatingKept
  <2> QED BY <1>6, <2>1, <2>2, PromiseKept
<1>7. CASE ShardStep
  <2>1. PICK f \in Flushers : fl[f].pc \notin Holding /\ fl'[f].creators = fl[f].creators /\ OnlyMoves(f)
    BY <1>7, ShardFlow
  <2>2. UNCHANGED <<redis, ttl, hist>>
    BY <1>7, ShardFlow DEF redisVars, ghostVars
  <2> QED BY <1>6, <2>1, <2>2 DEF Holding
<1>8. ASSUME NEW f \in Flushers, FlushLock(f) \/ Release(f) PROVE TtlPromised'
  <2>1. fl[f].pc \in {"lock", "release"} /\ OnlyMoves(f) /\ UNCHANGED <<redis, ttl, hist>>
    BY <1>8, LockFlow, ReleaseFlow DEF redisVars, ghostVars
  <2>2. fl[f].creators = {}
    BY <2>1 DEF CreatorsHeld
  <2> QED BY <1>6, <2>1, <2>2
<1>9. ASSUME NEW f \in Flushers, SnapshotStripe(f) \/ SnapshotEnd(f) \/ NoteOutcome(f) \/ Probe(f)
      PROVE  TtlPromised'
  <2>1. /\ fl[f].pc \in {"snap", "note", "probe"} /\ OnlyMoves(f) /\ fl'[f].creators = fl[f].creators
        /\ UNCHANGED <<redisVars, ghostVars>>
    BY <1>9, StripeFlow, EndFlow, NoteFlow, ProbeFlow, Zenon
  <2> QED BY <1>6, <2>1 DEF redisVars, ghostVars
<1>10. ASSUME NEW f \in Flushers, ExecExpire(f) PROVE TtlPromised'
  <2>1. fl[f].pc = "expire" /\ OnlyMoves(f) /\ UNCHANGED redis
    BY <1>10, ExpireFlow
  <2>2. PICK X \in SUBSET fl[f].creators :
           /\ ttl' = ttl \cup X
           /\ hist' = hist \cup {<<kw[1], kw[2], "noTTL">> : kw \in fl[f].creators \ X}
    BY <1>10, ExpireFlow
  <2> SUFFICES ASSUME NEW k \in Keys, NEW w \in Windows PROVE Promised(k, w)'
    BY DEF TtlPromised
  <2>3. Promised(k, w)
    BY DEF TtlPromised
  <2>4. Creating(f, k, w) => <<k, w>> \in fl[f].creators
    BY <2>1 DEF Creating, Answered
  <2>5. <<k, w>> \in fl[f].creators => <<k, w>> \in ttl' \/ Marked(k, w, {"lostReply", "noTTL"})'
    BY <2>2 DEF Marked
  <2>6. hist \subseteq hist' /\ ttl \subseteq ttl'
    BY <2>2
  <2> QED BY <2>1, <2>3, <2>4, <2>5, <2>6, PromiseKept
<1>11. CASE \E t \in Threads : AllowN(t)
  BY <1>2, <1>3, <1>11 DEF AllowN
<1>12. CASE Environment
  BY <1>2, <1>4, <1>5, <1>12 DEF Environment
<1>13. ASSUME NEW f \in Flushers, Inner(f) PROVE TtlPromised'
  BY <1>9, <1>10, <1>13, PipelinePromises, ApplyPromises, Zenon DEF Inner
<1> QED BY <1>2, <1>7, <1>8, <1>9, <1>11, <1>12, <1>13, StepCases, Zenon

\* The creator rule of execExpire: whatever other replicas, expiries and failures come in
\* between, a window key of Redis has a TTL, or the flush whose INCRBY created it has still
\* to send it, or a reply was lost, the EXPIRE failed or the window had passed.
THEOREM CreatedKeysGetTTL == Spec => []CreatedKeyHasTTL
<1>1. Init => TtlInv
  <2>1. Init => TypeInv
    BY InitType
  <2>2. Init => BatchShape /\ CreatorsHeld
    BY DEF Init, BatchShape, CreatorsHeld, IdleFlush
  <2>3. Init => TtlPromised
    BY DEF Init, TtlPromised, Promised, KeyWindows
  <2> QED BY <2>1, <2>2, <2>3 DEF TtlInv
<1>2. TtlInv /\ [Next]_vars => TtlInv'
  BY StepType, StepShape, CreatorsStep, TtlStep DEF TtlInv
<1>3. TtlInv => CreatedKeyHasTTL
  <2> SUFFICES ASSUME TtlInv, NEW k \in Keys, NEW w \in Windows
               PROVE  \/ redis[<<k, w>>] = 0
                      \/ <<k, w>> \in ttl
                      \/ Marked(k, w, {"lostReply", "noTTL"})
                      \/ \E f \in Flushers : \/ <<k, w>> \in fl[f].creators
                                             \/ \E p \in Unsettled(f) : p.key = k /\ p.ws = w
    BY DEF CreatedKeyHasTTL
  <2>1. ASSUME NEW f \in Flushers, Creating(f, k, w)
        PROVE  <<k, w>> \in fl[f].creators \/ \E p \in Unsettled(f) : p.key = k /\ p.ws = w
    <3>1. ASSUME NEW i, Answered(f, i, k, w) PROVE \E p \in Unsettled(f) : p.key = k /\ p.ws = w
      <4>1. fl[f].batch[i] \in Unsettled(f)
        BY <3>1 DEF Answered, Unsettled
      <4> QED BY <3>1, <4>1 DEF Answered
    <3> QED BY <2>1, <3>1 DEF Creating
  <2> QED BY <2>1 DEF TtlInv, TtlPromised, Promised
<1> QED BY <1>1, <1>2, <1>3, PTL DEF Spec

-----------------------------------------------------------------------------
(* The count read back from Redis never goes backwards.                    *)

Unexpired(k, w) == ~Marked(k, w, {"expired"})

\* Redis holds at least what a state, and the replies of a pipeline, say it does; the
\* replies are in the order the commands ran, none of them behind the state.
Covered(k, w) ==
    /\ states[k].windowStart = w => states[k].globalBase <= redis[<<k, w>>]
    /\ \A f \in Flushers : \A i \in DOMAIN fl[f].res : Answered(f, i, k, w) =>
          /\ fl[f].res[i] <= redis[<<k, w>>]
          /\ states[k].windowStart = w => states[k].globalBase <= fl[f].res[i]
          /\ \A j \in DOMAIN fl[f].res :
                j > i /\ Answered(f, j, k, w) => fl[f].res[i] <= fl[f].res[j]

RedisCovers == \A k \in Keys, w \in Windows : Unexpired(k, w) => Covered(k, w)

\* A snapshot has no replies yet.
SnapUnanswered == \A f \in Flushers : fl[f].pc = "snap" => fl[f].res = <<>>

\* Only a state of a window has a count.
NilCountsNothing == \A k \in Keys : states[k].windowStart = -1 => states[k].globalBase = 0

CoverInv == /\ TypeInv /\ BatchShape /\ Mutex
            /\ SnapUnanswered /\ NilCountsNothing /\ RedisCovers

LEMMA WindowsNat == Windows \subseteq Nat
<1> SUFFICES ASSUME NEW t \in 0..MaxTime PROVE t - (t % Duration) \in Nat
  BY DEF Windows, WindowStart
<1>1. t \in Nat /\ Duration \in Nat \ {0}
  BY LocalAsyncAssumption
<1>2. t % Duration \in Nat /\ t % Duration < Duration
  BY <1>1
<1>3. CASE t >= Duration
  BY <1>1, <1>2, <1>3
<1>4. CASE t < Duration
  <2>1. t % Duration = t
    BY <1>1, <1>4
  <2> QED BY <1>1, <2>1
<1> QED BY <1>1, <1>3, <1>4

LEMMA CoverTypes ==
    ASSUME TypeInv, NEW k \in Keys, NEW w \in Windows
    PROVE  /\ redis[<<k, w>>] \in Nat /\ states[k].globalBase \in Nat
           /\ \A f \in Flushers : /\ fl[f].res \in Seq(Nat \cup {-1}) /\ fl[f].batch \in Seq(Pending)
                                  /\ \A i \in DOMAIN fl[f].res : fl[f].res[i] \in Nat \cup {-1}
<1>1. redis[<<k, w>>] \in Nat /\ states[k].globalBase \in Nat
  BY DEF TypeInv, TypeOK, RedisTypes, KeyWindows, StripeTypes, LocalState
<1>2. ASSUME NEW f \in Flushers PROVE fl[f].res \in Seq(Nat \cup {-1}) /\ fl[f].batch \in Seq(Pending)
  BY DEF TypeInv, TypeOK, FlushTypes, FlushProgress
<1>3. ASSUME NEW f \in Flushers, NEW i \in DOMAIN fl[f].res PROVE fl[f].res[i] \in Nat \cup {-1}
  <2> DEFINE q == fl[f].res
  <2>1. q \in Seq(Nat \cup {-1}) /\ i \in DOMAIN q
    BY <1>2
  <2> HIDE DEF q
  <2>2. q[i] \in Nat \cup {-1}
    BY <2>1
  <2> QED BY <2>2 DEF q
<1> QED BY <1>1, <1>2, <1>3

\* Redis counts on, the state keeps its count or starts afresh, and no reply is new.
LEMMA CoverKept ==
    ASSUME TypeInv, TypeInv', NEW k \in Keys, NEW w \in Windows, Covered(k, w),
           redis'[<<k, w>>] >= redis[<<k, w>>],
           states'[k].windowStart = w =>
              \/ states'[k].globalBase = 0
              \/ states[k].windowStart = w /\ states'[k].globalBase = states[k].globalBase,
           \A g \in Flushers : \A i \in DOMAIN fl'[g].res : Answered(g, i, k, w)' =>
              i \in DOMAIN fl[g].res /\ Answered(g, i, k, w) /\ fl'[g].res[i] = fl[g].res[i]
    PROVE  Covered(k, w)'
<1> DEFINE r == redis[<<k, w>>]
           r1 == redis'[<<k, w>>]
           c == states[k].globalBase
           c1 == states'[k].globalBase
<1>1. r \in Nat /\ r1 \in Nat /\ c \in Nat /\ c1 \in Nat
  BY CoverTypes DEF TypeInv, TypeOK, RedisTypes, KeyWindows, StripeTypes, LocalState
<1>2. states'[k].windowStart = w => c1 <= r1
  BY <1>1 DEF Covered
<1>3. ASSUME NEW g \in Flushers, NEW i \in DOMAIN fl'[g].res, Answered(g, i, k, w)'
      PROVE  /\ fl'[g].res[i] <= r1
             /\ states'[k].windowStart = w => c1 <= fl'[g].res[i]
             /\ \A j \in DOMAIN fl'[g].res :
                   j > i /\ Answered(g, j, k, w)' => fl'[g].res[i] <= fl'[g].res[j]
  <2>1. /\ i \in DOMAIN fl[g].res /\ Answered(g, i, k, w) /\ fl'[g].res[i] = fl[g].res[i]
    BY <1>3
  <2>2. fl[g].res[i] \in Nat
    BY <2>1, CoverTypes DEF Answered
  <2>3. fl[g].res[i] <= r /\ (states[k].windowStart = w => c <= fl[g].res[i])
    BY <2>1 DEF Covered
  <2>4. fl'[g].res[i] <= r1 /\ (states'[k].windowStart = w => c1 <= fl'[g].res[i])
    BY <1>1, <2>1, <2>2, <2>3
  <2>5. ASSUME NEW j \in DOMAIN fl'[g].res, j > i, Answered(g, j, k, w)'
        PROVE  fl'[g].res[i] <= fl'[g].res[j]
    <3>1. j \in DOMAIN fl[g].res /\ Answered(g, j, k, w) /\ fl'[g].res[j] = fl[g].res[j]
      BY <2>5
    <3> QED BY <2>1, <2>5, <3>1 DEF Covered
  <2> QED BY <2>4, <2>5
<1> QED BY <1>2, <1>3 DEF Covered

\* The INCRBY of an entry answers the count after every reply before it.
LEMMA CommandCovers ==
    ASSUME CoverInv, TypeInv', NEW f \in Flushers, ExecCommand(f), NEW k \in Keys, NEW w \in Windows,
           Unexpired(k, w)
    PROVE  Covered(k, w)'
<1> USE DEF CoverInv
<1> DEFINE q == fl[f].res
           b == fl[f].batch
           n == Len(q) + 1
           p == b[n]
           r == redis[<<k, w>>]
           r1 == redis'[<<k, w>>]
           c == states[k].globalBase
<1>1. /\ fl[f].pc = "exec" /\ n \in 1..Len(b) /\ p \in Pending
      /\ fl'[f].pc = "exec" /\ fl'[f].batch = b
      /\ fl'[f].res = Append(q, Reply(p)) /\ OnlyMoves(f)
      /\ redis' = IF redisUp THEN [redis EXCEPT ![<<p.key, p.ws>>] = Reply(p)] ELSE redis
      /\ UNCHANGED stripeVars
  BY CommandFlow, Zenon
<1>2. Reply(p) = (IF redisUp THEN redis[<<p.key, p.ws>>] + p.flushN ELSE -1) /\ p.flushN \in Nat
  BY <1>1 DEF Reply, Pending
<1>3. q \in Seq(Nat \cup {-1}) /\ r \in Nat /\ c \in Nat /\ r1 \in Nat
  BY CoverTypes DEF TypeInv, TypeOK, RedisTypes, KeyWindows
<1>4. Covered(k, w) /\ states' = states
  BY <1>1 DEF RedisCovers, stripeVars
<1>5. DOMAIN q = 1..Len(q) /\ Len(q) \in Nat
  BY <1>3
<1>6. /\ DOMAIN fl'[f].res = 1..n /\ fl'[f].res[n] = Reply(p)
      /\ \A i \in 1..Len(q) : fl'[f].res[i] = q[i]
  <2>1. Reply(p) \in Nat \cup {-1}
    BY <1>1, ReplyType
  <2> HIDE DEF p
  <2> DEFINE x == Reply(p)
  <2> HIDE DEF q, x
  <2>2. DOMAIN Append(q, x) = 1..(Len(q) + 1) /\ Append(q, x)[Len(q) + 1] = x
        /\ \A i \in 1..Len(q) : Append(q, x)[i] = q[i]
    BY <1>3, <2>1 DEF x
  <2> QED BY <1>1, <2>2 DEF x, q
<1>7. \A g \in Flushers : g # f => fl'[g] = fl[g] /\ \A i : ~Answered(g, i, k, w)'
  <2>1. \A g \in Flushers : g # f => fl[g].pc \notin Holding
    BY <1>1 DEF Mutex, Holding
  <2> QED BY <1>1, <2>1 DEF OnlyMoves, Answered, Holding
<1>8. \A i \in 1..Len(q) : Answered(f, i, k, w)' => Answered(f, i, k, w)
  BY <1>1, <1>5, <1>6 DEF Answered
<1>9. CASE ~(redisUp /\ p.key = k /\ p.ws = w)
  <2>1. redis'[<<k, w>>] = redis[<<k, w>>]
    BY <1>1, <1>9 DEF TypeInv, TypeOK, RedisTypes, KeyWindows
  <2>2. \A i : i = n => ~Answered(f, i, k, w)'
    BY <1>1, <1>2, <1>6, <1>9 DEF Answered
  <2>3. \A g \in Flushers : \A i \in DOMAIN fl'[g].res : Answered(g, i, k, w)' =>
              i \in DOMAIN fl[g].res /\ Answered(g, i, k, w) /\ fl'[g].res[i] = fl[g].res[i]
    <3>1. ASSUME NEW i \in DOMAIN fl'[f].res, Answered(f, i, k, w)'
          PROVE  i \in DOMAIN fl[f].res /\ Answered(f, i, k, w) /\ fl'[f].res[i] = fl[f].res[i]
      <4>1. i \in 1..n /\ i # n
        BY <1>6, <2>2, <3>1
      <4>2. i \in 1..Len(q)
        BY <1>5, <4>1
      <4> QED BY <1>5, <1>6, <1>8, <3>1, <4>2
    <3> QED BY <1>7, <3>1
  <2>4. redis'[<<k, w>>] >= redis[<<k, w>>]
    BY <1>3, <2>1
  <2> QED BY <1>4, <2>3, <2>4, CoverKept
<1>10. CASE redisUp /\ p.key = k /\ p.ws = w
  <2>1. r1 = Reply(p) /\ r1 = r + p.flushN
    BY <1>1, <1>2, <1>10 DEF TypeInv, TypeOK, RedisTypes, KeyWindows
  <2>2. r1 >= r
    <3> DEFINE d == p.flushN
    <3>1. r1 = r + d /\ d \in Nat
      BY <1>2, <2>1
    <3> HIDE DEF r, r1, d
    <3> QED BY <1>3, <3>1
  <2>3. states[k].windowStart = w => c <= r1
    BY <1>3, <1>4, <2>2 DEF Covered
  <2>4. ASSUME NEW i \in 1..n, Answered(f, i, k, w)'
        PROVE  /\ fl'[f].res[i] <= r1
               /\ states[k].windowStart = w => c <= fl'[f].res[i]
               /\ \A j \in 1..n : j > i /\ Answered(f, j, k, w)' => fl'[f].res[i] <= fl'[f].res[j]
    <3>1. CASE i = n
      BY <1>3, <1>5, <1>6, <2>1, <2>3, <3>1
    <3>2. CASE i # n
      <4>1. i \in 1..Len(q)
        BY <1>5, <3>2
      <4>2. Answered(f, i, k, w) /\ fl'[f].res[i] = q[i] /\ i \in DOMAIN fl[f].res
        BY <1>5, <1>6, <1>8, <2>4, <4>1
      <4>3. q[i] \in Nat
        BY <4>2, CoverTypes DEF Answered
      <4>4. q[i] <= r /\ (states[k].windowStart = w => c <= q[i])
        BY <1>4, <4>2 DEF Covered
      <4>5. q[i] <= r1
        BY <1>3, <2>2, <4>3, <4>4
      <4>6. ASSUME NEW j \in 1..n, j > i, Answered(f, j, k, w)' PROVE fl'[f].res[i] <= fl'[f].res[j]
        <5>1. CASE j = n
          BY <1>6, <2>1, <4>2, <4>5, <5>1
        <5>2. CASE j # n
          <6>1. j \in 1..Len(q)
            BY <1>5, <5>2
          <6>2. Answered(f, j, k, w) /\ fl'[f].res[j] = q[j] /\ j \in DOMAIN fl[f].res
            BY <1>5, <1>6, <1>8, <4>6, <6>1
          <6> QED BY <1>4, <4>2, <4>6, <6>2 DEF Covered
        <5> QED BY <5>1, <5>2
      <4> QED BY <4>2, <4>4, <4>5, <4>6
    <3> QED BY <3>1, <3>2
  <2>5. ASSUME NEW g \in Flushers, NEW i \in DOMAIN fl'[g].res, Answered(g, i, k, w)'
        PROVE  /\ fl'[g].res[i] <= redis'[<<k, w>>]
               /\ states'[k].windowStart = w => states'[k].globalBase <= fl'[g].res[i]
               /\ \A j \in DOMAIN fl'[g].res :
                     j > i /\ Answered(g, j, k, w)' => fl'[g].res[i] <= fl'[g].res[j]
    <3>1. g = f /\ i \in 1..n
      BY <1>6, <1>7, <2>5
    <3> QED BY <1>4, <1>6, <2>4, <2>5, <3>1
  <2> QED BY <1>4, <2>3, <2>5 DEF Covered
<1> QED BY <1>9, <1>10

LEMMA ReconciledFields ==
    ASSUME NEW st \in LocalState, NEW p \in Pending, NEW g \in Nat
    PROVE  /\ Reconciled(st, p, g).windowStart = st.windowStart
           /\ Reconciled(st, p, g).globalBase = g
           /\ p.evicted => Reconciled(st, p, g).localDelta = st.localDelta
           /\ ~p.evicted /\ p.flushN <= st.localDelta
                 => Reconciled(st, p, g).localDelta = st.localDelta - p.flushN
<1> DEFINE owed == IF p.evicted THEN st.localDelta ELSE st.localDelta - p.flushN
           d == IF owed < 0 THEN 0 ELSE owed
           c == IF g >= Limit THEN TRUE ELSE st.blocked
<1>1. Reconciled(st, p, g) = [st EXCEPT !.globalBase = g, !.localDelta = d, !.blocked = c]
  BY DEF Reconciled
<1>2. st.localDelta \in Nat /\ p.flushN \in Nat
  BY DEF LocalState, Pending
<1>3. /\ p.evicted => d = st.localDelta
      /\ ~p.evicted /\ p.flushN <= st.localDelta => d = st.localDelta - p.flushN
  BY <1>2
<1> HIDE DEF d, c
<1> DEFINE new == Reconciled(st, p, g)
<1>4. new = [st EXCEPT !.globalBase = g, !.localDelta = d, !.blocked = c]
  BY <1>1
<1> HIDE DEF new
<1>5. new.windowStart = st.windowStart /\ new.globalBase = g /\ new.localDelta = d
  BY <1>4 DEF LocalState
<1> QED BY <1>3, <1>5 DEF new

\* The first reply of a batch that is left to apply is at least the count of its state, and
\* at most every later one for the same key and window.
LEMMA ApplyCovers ==
    ASSUME CoverInv, TypeInv', NEW f \in Flushers, ApplyError(f) \/ ApplyOk(f),
           NEW k \in Keys, NEW w \in Windows, Unexpired(k, w)
    PROVE  /\ Covered(k, w)'
           /\ states[k].windowStart = w /\ states'[k].windowStart = w
                 => states'[k].globalBase >= states[k].globalBase
<1> USE DEF CoverInv
<1> DEFINE b == fl[f].batch
           q == fl[f].res
           p == Head(b)
           g == Head(q)
           r == redis[<<k, w>>]
           c == states[k].globalBase
           c1 == states'[k].globalBase
<1>1. /\ fl[f].pc = "apply" /\ OnlyMoves(f) /\ fl'[f].batch = Tail(b) /\ fl'[f].res = Tail(q)
      /\ UNCHANGED redisVars
  BY ErrorFlow, OkFlow, Zenon
<1>2. b \in Seq(Pending) /\ b # <<>> /\ q \in Seq(Nat \cup {-1}) /\ q # <<>> /\ Len(q) = Len(b)
  BY <1>1, HeadsType DEF BatchShape
<1>3. r \in Nat /\ c \in Nat /\ c1 \in Nat
  BY CoverTypes DEF TypeInv, TypeOK, StripeTypes, LocalState
<1>4. Covered(k, w) /\ redis' = redis
  BY <1>1 DEF RedisCovers, redisVars
<1>5. \A h \in Flushers : h # f => \A i : ~Answered(h, i, k, w)'
  <2>1. \A h \in Flushers : h # f => fl[h].pc \notin Holding
    BY <1>1 DEF Mutex, Holding
  <2> QED BY <1>1, <2>1 DEF OnlyMoves, Answered, Holding
<1>6. /\ 1 \in DOMAIN q /\ 1 \in DOMAIN b /\ p = b[1] /\ g = q[1]
      /\ \A i \in DOMAIN Tail(q) : i \in Nat \ {0} /\ i + 1 \in DOMAIN q /\ Tail(q)[i] = q[i + 1]
      /\ \A i \in DOMAIN Tail(b) : i + 1 \in DOMAIN b /\ Tail(b)[i] = b[i + 1]
  <2> HIDE DEF b, q
  <2>1. /\ 1 \in DOMAIN q /\ g = q[1]
        /\ \A i \in DOMAIN Tail(q) : i \in Nat \ {0} /\ i + 1 \in DOMAIN q /\ Tail(q)[i] = q[i + 1]
    BY <1>2, TailEntries
  <2>2. 1 \in DOMAIN b /\ p = b[1] /\ \A i \in DOMAIN Tail(b) : i + 1 \in DOMAIN b /\ Tail(b)[i] = b[i + 1]
    BY <1>2, TailEntries
  <2> QED BY <2>1, <2>2
<1> HIDE DEF b, q
<1>7. ASSUME NEW i \in DOMAIN fl'[f].res, Answered(f, i, k, w)'
      PROVE  /\ i + 1 \in DOMAIN fl[f].res /\ Answered(f, i + 1, k, w)
             /\ fl'[f].res[i] = q[i + 1] /\ i \in Nat \ {0}
  BY <1>1, <1>6, <1>7 DEF Answered, b, q
\* The state keeps its count, or takes the reply of an answered entry.
<1>8. \/ states'[k] = states[k]
      \/ Answered(f, 1, k, w) /\ states[k].windowStart = w /\ c1 = q[1]
      \/ states'[k].windowStart # w
  <2>1. CASE ApplyError(f)
    BY <2>1, ErrorFlow, Zenon
  <2>2. CASE ApplyOk(f)
    <3> DEFINE st == states[p.key]
    <3>1. /\ g # -1
          /\ states' = IF st.windowStart = p.ws THEN [states EXCEPT ![p.key] = Reconciled(st, p, g)] ELSE states
      BY <2>2, OkFlow, Zenon DEF b, q
    <3>2. p \in Pending /\ g \in Nat \cup {-1}
      BY <1>1, HeadsType DEF b, q
    <3>3. p.key \in Keys /\ st \in LocalState
      BY <3>2 DEF Pending, TypeInv, TypeOK, StripeTypes
    <3>4. g \in Nat
      BY <3>1, <3>2
    <3>5. CASE k = p.key /\ st.windowStart = p.ws
      <4>1. states'[k] = Reconciled(st, p, g)
        BY <3>1, <3>3, <3>5 DEF TypeInv, TypeOK, StripeTypes
      <4>2. states'[k].windowStart = st.windowStart /\ c1 = g
        BY <3>2, <3>3, <3>4, <4>1, ReconciledFields
      <4>3. CASE p.ws = w
        <5>1. Answered(f, 1, k, w)
          BY <1>1, <1>6, <3>1, <3>5, <4>3 DEF Answered, b, q
        <5> QED BY <1>6, <3>5, <4>2, <4>3, <5>1
      <4> QED BY <3>5, <4>2, <4>3
    <3>6. CASE ~(k = p.key /\ st.windowStart = p.ws)
      BY <3>1, <3>3, <3>6 DEF TypeInv, TypeOK, StripeTypes
    <3> QED BY <3>5, <3>6
  <2> QED BY <2>1, <2>2
<1>9. ASSUME Answered(f, 1, k, w)
      PROVE  q[1] \in Nat /\ q[1] <= r /\ (states[k].windowStart = w => c <= q[1])
  <2>1. 1 \in DOMAIN fl[f].res /\ q[1] = fl[f].res[1]
    BY <1>6 DEF q
  <2>2. q[1] \in Nat
    BY <1>9, <2>1, CoverTypes DEF Answered
  <2> QED BY <1>4, <1>9, <2>1, <2>2 DEF Covered
<1>10. states[k].windowStart = w /\ states'[k].windowStart = w => c1 >= c
  BY <1>3, <1>8, <1>9
<1>11. states'[k].windowStart = w => c1 <= r
  BY <1>4, <1>8, <1>9 DEF Covered
<1>12. ASSUME NEW i \in DOMAIN fl'[f].res, Answered(f, i, k, w)'
       PROVE  /\ fl'[f].res[i] <= redis'[<<k, w>>]
              /\ states'[k].windowStart = w => c1 <= fl'[f].res[i]
              /\ \A j \in DOMAIN fl'[f].res :
                    j > i /\ Answered(f, j, k, w)' => fl'[f].res[i] <= fl'[f].res[j]
  <2>1. /\ i + 1 \in DOMAIN fl[f].res /\ Answered(f, i + 1, k, w) /\ fl'[f].res[i] = q[i + 1]
        /\ i \in Nat \ {0} /\ q[i + 1] = fl[f].res[i + 1]
    BY <1>7, <1>12 DEF q
  <2>2. q[i + 1] <= r /\ (states[k].windowStart = w => c <= q[i + 1])
    BY <1>4, <2>1 DEF Covered
  <2>3. Answered(f, 1, k, w) => q[1] <= q[i + 1]
    <3>1. i + 1 > 1 /\ 1 \in DOMAIN fl[f].res /\ q[1] = fl[f].res[1]
      BY <1>6, <2>1 DEF q
    <3> QED BY <1>4, <2>1, <3>1 DEF Covered
  <2>4. states'[k].windowStart = w => c1 <= q[i + 1]
    BY <1>8, <2>2, <2>3
  <2>5. ASSUME NEW j \in DOMAIN fl'[f].res, j > i, Answered(f, j, k, w)'
        PROVE  fl'[f].res[i] <= fl'[f].res[j]
    <3>1. /\ j + 1 \in DOMAIN fl[f].res /\ Answered(f, j + 1, k, w) /\ fl'[f].res[j] = q[j + 1]
          /\ j \in Nat \ {0} /\ q[j + 1] = fl[f].res[j + 1]
      BY <1>7, <2>5 DEF q
    <3>2. j + 1 > i + 1
      BY <2>1, <2>5, <3>1
    <3> QED BY <1>4, <2>1, <3>1, <3>2 DEF Covered
  <2> QED BY <1>4, <2>1, <2>2, <2>4, <2>5
<1>13. Covered(k, w)'
  <2>1. ASSUME NEW h \in Flushers, NEW i \in DOMAIN fl'[h].res, Answered(h, i, k, w)' PROVE h = f
    BY <1>5, <2>1
  <2> QED BY <1>4, <1>11, <1>12, <2>1 DEF Covered
<1> QED BY <1>10, <1>13

LEMMA SnapStep ==
    ASSUME CoverInv, [Next]_vars
    PROVE  SnapUnanswered'
<1> USE DEF CoverInv
<1>1. ASSUME NEW f \in Flushers, OnlyMoves(f), fl'[f].pc = "snap" => fl'[f].res = <<>>
      PROVE  SnapUnanswered'
  BY <1>1 DEF SnapUnanswered, OnlyMoves
<1>2. CASE \/ \E t \in Threads, k \in Keys, n \in Costs : AllowNEnter(t, k, n)
           \/ \E t \in Threads : AllowN(t)
           \/ Environment \/ IdleTick \/ UNCHANGED vars
  BY <1>2, OtherMoves DEF SnapUnanswered
<1>3. CASE ShardStep
  <2>1. PICK f \in Flushers, c \in FlusherPc \ Holding : fl'[f].pc = c /\ OnlyMoves(f)
    BY <1>3, ShardFlow
  <2> QED BY <1>1, <2>1 DEF Holding
<1>4. ASSUME NEW f \in Flushers, FlushLock(f) PROVE SnapUnanswered'
  BY <1>1, <1>4, LockFlow
<1>5. ASSUME NEW f \in Flushers, SnapshotStripe(f) PROVE SnapUnanswered'
  <2>1. fl[f].pc = "snap" /\ fl'[f].res = fl[f].res /\ OnlyMoves(f)
    BY <1>5, StripeFlow, Zenon
  <2> QED BY <1>1, <2>1 DEF SnapUnanswered
<1>6. ASSUME NEW f \in Flushers, SnapshotEnd(f) \/ Inner(f) \/ Release(f) PROVE SnapUnanswered'
  <2>1. fl'[f].pc # "snap" /\ OnlyMoves(f)
    BY <1>6, EndMoves, InnerMoves, ReleaseMoves DEF Middle, Holding
  <2> QED BY <1>1, <2>1
<1> QED BY <1>2, <1>3, <1>4, <1>5, <1>6, StepCases

\* What a step may do to a state: leave it, empty it, count a request, or apply a reply.
LEMMA StateSteps ==
    ASSUME CoverInv, [Next]_vars, NEW k \in Keys
    PROVE  \/ states'[k] = states[k]
           \/ states'[k] = Nil
           \/ /\ states'[k].windowStart \in Windows
              /\ \E t \in Threads : AllowNDecide(t) /\ req[t].key = k
              /\ IF states'[k].windowStart = states[k].windowStart
                 THEN states'[k].globalBase = states[k].globalBase
                 ELSE states'[k].globalBase = 0
           \/ \E f \in Flushers : /\ ApplyOk(f) /\ states[k].windowStart \in Windows
                                  /\ states'[k].windowStart = states[k].windowStart
<1> USE DEF CoverInv
<1>1. CASE \/ \E t \in Threads, j \in Keys, n \in Costs : AllowNEnter(t, j, n)
           \/ \E t \in Threads : AllowNEnqueue(t) \/ AllowNMarkActive(t)
           \/ Environment \/ IdleTick \/ UNCHANGED vars
  <2>1. UNCHANGED states
    BY <1>1 DEF AllowNEnter, AllowNEnqueue, AllowNMarkActive, Environment, ClockTick, RedisFails,
       RedisRecovers, OtherReplica, KeyExpires, IdleTick, vars, stripeVars
  <2> QED BY <2>1
<1>2. ASSUME NEW t \in Threads, AllowNDecide(t)
      PROVE  \/ states'[k] = states[k]
             \/ states'[k] = Nil
             \/ /\ states'[k].windowStart \in Windows /\ req[t].key = k
                /\ IF states'[k].windowStart = states[k].windowStart
                   THEN states'[k].globalBase = states[k].globalBase
                   ELSE states'[k].globalBase = 0
  <2> DEFINE u == req[t].key
             w == WindowStart(req[t].now)
             st == IF states[u].windowStart = w THEN states[u] ELSE Fresh(w)
             new == Counted(st, Verdict(st, req[t].n), req[t].n)
  <2>1. /\ u \in Keys /\ w \in Windows /\ new.windowStart = w /\ new.globalBase = st.globalBase
        /\ states[u].windowStart # w => st.globalBase = 0
    BY <1>2, DecideFlow, Zenon
  <2>2. PICK R : states' = [j \in Keys |-> IF j = u THEN new ELSE IF j \in R THEN Nil ELSE states[j]]
    BY <1>2, DecideFlow, Zenon
  <2>3. states[u].windowStart = w => st = states[u]
    OBVIOUS
  <2> HIDE DEF u, w, st, new
  <2>4. CASE k = u
    BY <2>1, <2>2, <2>3, <2>4 DEF u
  <2>5. CASE k # u
    BY <2>2, <2>5
  <2> QED BY <2>4, <2>5
<1>3. ASSUME NEW f \in Flushers, SnapshotStripe(f) PROVE states'[k] = states[k] \/ states'[k] = Nil
  <2>1. states' = [j \in Keys |-> IF j \in Expired(states, Wrap(flushCursor + fl[f].visited), fl[f].at)
                                  THEN Nil ELSE states[j]]
    BY <1>3, StripeFlow, Zenon
  <2> QED BY <2>1
<1>4. ASSUME NEW f \in Flushers, ApplyOk(f)
      PROVE  \/ states'[k] = states[k]
             \/ states[k].windowStart \in Windows /\ states'[k].windowStart = states[k].windowStart
  <2> DEFINE p == Head(fl[f].batch)
             g == Head(fl[f].res)
             st == states[p.key]
  <2>1. /\ fl[f].pc = "apply" /\ g # -1
        /\ states' = IF st.windowStart = p.ws THEN [states EXCEPT ![p.key] = Reconciled(st, p, g)] ELSE states
    BY <1>4, OkFlow, Zenon
  <2>2. p \in Pending /\ g \in Nat \cup {-1}
    BY <2>1, HeadsType
  <2>3. p.key \in Keys /\ p.ws \in Windows /\ st \in LocalState /\ g \in Nat
    BY <2>1, <2>2 DEF Pending, TypeInv, TypeOK, StripeTypes
  <2>4. Reconciled(st, p, g).windowStart = st.windowStart
    BY <2>2, <2>3, ReconciledFields
  <2>5. CASE k = p.key /\ st.windowStart = p.ws
    BY <2>1, <2>3, <2>4, <2>5 DEF TypeInv, TypeOK, StripeTypes
  <2>6. CASE ~(k = p.key /\ st.windowStart = p.ws)
    BY <2>1, <2>3, <2>6 DEF TypeInv, TypeOK, StripeTypes
  <2> QED BY <2>5, <2>6
<1>5. CASE \E t \in Threads : AllowN(t)
  BY <1>1, <1>2, <1>5 DEF AllowN
<1>6. CASE ShardStep
  BY <1>6, ShardFlow DEF stripeVars
<1>7. ASSUME NEW f \in Flushers, FlushLock(f) \/ SnapshotEnd(f) \/ Release(f) PROVE states'[k] = states[k]
  BY <1>7, LockFlow, EndFlow, ReleaseFlow DEF stripeVars
<1>8. ASSUME NEW f \in Flushers, Inner(f), ~ApplyOk(f) PROVE states'[k] = states[k]
  <2>1. UNCHANGED states
    BY <1>8, Zenon DEF Inner, ExecCommand, ExecEnd, ApplyError, NoteOutcome, ExecExpire, Probe, stripeVars
  <2> QED BY <2>1
<1> QED BY <1>1, <1>3, <1>4, <1>5, <1>6, <1>7, <1>8, StepCases

LEMMA NilStep ==
    ASSUME CoverInv, [Next]_vars
    PROVE  NilCountsNothing'
<1> SUFFICES ASSUME NEW k \in Keys, states'[k].windowStart = -1 PROVE states'[k].globalBase = 0
  BY DEF NilCountsNothing
<1>1. -1 \notin Windows
  BY WindowsNat
<1>2. states'[k] = states[k] \/ states'[k] = Nil
  BY <1>1, StateSteps
<1> QED BY <1>2 DEF CoverInv, NilCountsNothing, Nil

\* The history only grows.
LEMMA HistGrows ==
    ASSUME TypeInv, BatchShape, [Next]_vars
    PROVE  hist \subseteq hist'
<1>1. CASE \/ \E t \in Threads, k \in Keys, n \in Costs : AllowNEnter(t, k, n)
           \/ \E t \in Threads : AllowN(t)
           \/ Environment \/ IdleTick \/ UNCHANGED vars
  BY <1>1 DEF AllowNEnter, AllowN, AllowNDecide, AllowNEnqueue, AllowNMarkActive, Environment,
     ClockTick, RedisFails, RedisRecovers, OtherReplica, KeyExpires, IdleTick, vars, ghostVars
<1>2. CASE ShardStep
  BY <1>2, ShardFlow DEF ghostVars
<1>3. ASSUME NEW f \in Flushers, FlushLock(f) \/ SnapshotStripe(f) \/ SnapshotEnd(f) \/ Release(f)
      PROVE  hist \subseteq hist'
  <2>1. UNCHANGED ghostVars
    BY <1>3, LockFlow, StripeFlow, EndFlow, ReleaseFlow, Zenon
  <2> QED BY <2>1 DEF ghostVars
<1>4. ASSUME NEW f \in Flushers, Inner(f) PROVE hist \subseteq hist'
  <2>1. CASE ExecCommand(f) \/ ApplyOk(f) \/ NoteOutcome(f) \/ Probe(f)
    <3>1. UNCHANGED ghostVars
      BY <2>1, CommandFlow, OkFlow, NoteFlow, ProbeFlow, Zenon
    <3> QED BY <3>1 DEF ghostVars
  <2>2. CASE ExecEnd(f)
    <3>1. \E m : hist' = hist \cup LostReplies(f, m)
      BY <2>2, ReturnFlow, Zenon
    <3> QED BY <3>1
  <2>3. CASE ExecExpire(f)
    <3>1. \E X : hist' = hist \cup X
      BY <2>3, ExpireFlow
    <3> QED BY <3>1
  <2>4. CASE ApplyError(f)
    <3>1. hist' = hist \/ \E X : hist' = hist \cup X
      BY <2>4 DEF ApplyError
    <3> QED BY <3>1
  <2> QED BY <1>4, <2>1, <2>2, <2>3, <2>4, Zenon DEF Inner
<1> QED BY <1>1, <1>2, <1>3, <1>4, StepCases, Zenon

\* Outside the pipeline no reply is new.
LEMMA NoNewReply ==
    ASSUME NEW f \in Flushers, OnlyMoves(f), NEW k, NEW w,
           fl'[f].pc \notin {"exec", "apply"} \/ fl'[f].res = <<>>
    PROVE  \A g \in Flushers : \A i \in DOMAIN fl'[g].res : Answered(g, i, k, w)' =>
              i \in DOMAIN fl[g].res /\ Answered(g, i, k, w) /\ fl'[g].res[i] = fl[g].res[i]
<1>1. \A i \in DOMAIN fl'[f].res : ~Answered(f, i, k, w)'
  <2>1. CASE fl'[f].res = <<>>
    <3>1. DOMAIN fl'[f].res = {}
      BY <2>1
    <3> QED BY <3>1
  <2>2. CASE fl'[f].pc \notin {"exec", "apply"}
    BY <2>2 DEF Answered
  <2> QED BY <2>1, <2>2
<1>2. ASSUME NEW g \in Flushers, g # f, NEW i \in DOMAIN fl'[g].res, Answered(g, i, k, w)'
      PROVE  i \in DOMAIN fl[g].res /\ Answered(g, i, k, w) /\ fl'[g].res[i] = fl[g].res[i]
  BY <1>2 DEF OnlyMoves, Answered
<1> QED BY <1>1, <1>2

LEMMA CoverStep ==
    ASSUME CoverInv, TypeInv', [Next]_vars
    PROVE  RedisCovers'
<1> USE DEF CoverInv
<1> SUFFICES ASSUME NEW k \in Keys, NEW w \in Windows, Unexpired(k, w)' PROVE Covered(k, w)'
  BY DEF RedisCovers
<1>1. Unexpired(k, w)
  BY HistGrows DEF Unexpired, Marked
<1>2. Covered(k, w)
  BY <1>1 DEF RedisCovers
<1>3. redis[<<k, w>>] \in Nat
  BY CoverTypes
<1>4. ASSUME \A f \in Flushers : ~ApplyOk(f), redis'[<<k, w>>] >= redis[<<k, w>>],
             \A g \in Flushers : \A i \in DOMAIN fl'[g].res : Answered(g, i, k, w)' =>
                i \in DOMAIN fl[g].res /\ Answered(g, i, k, w) /\ fl'[g].res[i] = fl[g].res[i]
      PROVE  Covered(k, w)'
  <2>1. states'[k].windowStart = w =>
           \/ states'[k].globalBase = 0
           \/ states[k].windowStart = w /\ states'[k].globalBase = states[k].globalBase
    <3>1. \/ states'[k] = states[k]
          \/ states'[k] = Nil
          \/ IF states'[k].windowStart = states[k].windowStart
             THEN states'[k].globalBase = states[k].globalBase ELSE states'[k].globalBase = 0
      BY <1>4, StateSteps
    <3> QED BY <3>1 DEF Nil
  <2> QED BY <1>2, <1>4, <2>1, CoverKept
<1>5. ASSUME UNCHANGED fl, \A f \in Flushers : ~ApplyOk(f), redis'[<<k, w>>] >= redis[<<k, w>>]
      PROVE  Covered(k, w)'
  <2>1. \A g \in Flushers : \A i : Answered(g, i, k, w)' => Answered(g, i, k, w)
    BY <1>5 DEF Answered
  <2> QED BY <1>4, <1>5, <2>1
<1>6. ASSUME NEW f \in Flushers, OnlyMoves(f), redis' = redis, \A h \in Flushers : ~ApplyOk(h),
             fl'[f].pc \notin {"exec", "apply"} \/ fl'[f].res = <<>>
      PROVE  Covered(k, w)'
  <2>1. redis'[<<k, w>>] >= redis[<<k, w>>]
    BY <1>3, <1>6
  <2> QED BY <1>4, <1>6, <2>1, NoNewReply
<1>7. CASE \E f \in Flushers : ApplyOk(f) \/ ApplyError(f)
  BY <1>1, <1>7, ApplyCovers
<1>8. CASE \A f \in Flushers : ~ApplyOk(f) /\ ~ApplyError(f)
  <2>1. CASE \/ \E t \in Threads, j \in Keys, n \in Costs : AllowNEnter(t, j, n)
             \/ \E t \in Threads : AllowN(t)
             \/ ClockTick \/ RedisFails \/ RedisRecovers \/ IdleTick \/ UNCHANGED vars
    <3>1. UNCHANGED <<fl, redis>>
      BY <2>1 DEF AllowNEnter, AllowN, AllowNDecide, AllowNEnqueue, AllowNMarkActive, ClockTick,
         RedisFails, RedisRecovers, IdleTick, vars, flushVars, redisVars
    <3> QED BY <1>3, <1>5, <1>8, <3>1
  <2>2. ASSUME NEW j \in Keys, OtherReplica(j) PROVE Covered(k, w)'
    <3>1. UNCHANGED fl
      BY <2>2 DEF OtherReplica, flushVars
    <3>2. \E v : redis' = [redis EXCEPT ![<<j, v>>] = redis[<<j, v>>] + 1]
      BY <2>2 DEF OtherReplica
    <3>3. redis'[<<k, w>>] >= redis[<<k, w>>]
      BY <1>3, <3>2 DEF TypeInv, TypeOK, RedisTypes, KeyWindows
    <3> QED BY <1>5, <1>8, <3>1, <3>3
  <2>3. ASSUME NEW j \in Keys, NEW v \in Windows, KeyExpires(j, v) PROVE Covered(k, w)'
    <3>1. /\ redis' = [redis EXCEPT ![<<j, v>>] = 0] /\ hist' = hist \cup {<<j, v, "expired">>}
          /\ UNCHANGED fl
      BY <2>3 DEF KeyExpires, flushVars
    <3>2. <<j, v>> # <<k, w>>
      BY <3>1 DEF Unexpired, Marked
    <3>3. redis'[<<k, w>>] = redis[<<k, w>>]
      BY <3>1, <3>2 DEF TypeInv, TypeOK, RedisTypes, KeyWindows
    <3> QED BY <1>3, <1>5, <1>8, <3>1, <3>3
  <2>4. CASE ShardStep
    <3>1. PICK f \in Flushers, c \in FlusherPc \ Holding : fl'[f].pc = c /\ OnlyMoves(f)
      BY <2>4, ShardFlow
    <3>2. redis' = redis
      BY <2>4, ShardFlow DEF redisVars
    <3> QED BY <1>6, <1>8, <3>1, <3>2 DEF Holding
  <2>5. ASSUME NEW f \in Flushers, FlushLock(f) \/ SnapshotStripe(f) \/ Release(f) PROVE Covered(k, w)'
    <3>1. /\ fl'[f].pc \notin {"exec", "apply"} /\ OnlyMoves(f)
      BY <2>5, LockMoves, StripeMoves, ReleaseMoves DEF Holding
    <3>2. UNCHANGED redisVars
      BY <2>5, LockFlow, StripeFlow, ReleaseFlow, Zenon
    <3> QED BY <1>6, <1>8, <3>1, <3>2 DEF redisVars
  <2>6. ASSUME NEW f \in Flushers, SnapshotEnd(f) PROVE Covered(k, w)'
    <3>1. fl[f].pc = "snap" /\ fl'[f].res = fl[f].res /\ OnlyMoves(f) /\ UNCHANGED redisVars
      BY <2>6, EndFlow, Zenon
    <3>2. fl'[f].res = <<>>
      BY <3>1 DEF SnapUnanswered
    <3> QED BY <1>6, <1>8, <3>1, <3>2 DEF redisVars
  <2>7. ASSUME NEW f \in Flushers, ExecEnd(f) PROVE Covered(k, w)'
    <3> DEFINE q == fl[f].res
    <3>1. /\ fl[f].pc = "exec" /\ fl'[f].batch = fl[f].batch /\ OnlyMoves(f) /\ UNCHANGED redisVars
      BY <2>7, ReturnFlow, Zenon
    <3>2. PICK m \in 0..Len(q) : fl'[f].res = Replied(q, m)
      BY <2>7, ReturnFlow, Zenon
    <3>3. q \in Seq(Nat \cup {-1})
      BY CoverTypes
    <3>4. /\ DOMAIN fl'[f].res = 1..Len(q) /\ DOMAIN q = 1..Len(q)
          /\ \A i \in 1..Len(q) : fl'[f].res[i] = q[i] \/ fl'[f].res[i] = -1
      BY <3>2, <3>3 DEF Replied
    <3>5. \A i \in DOMAIN fl'[f].res : Answered(f, i, k, w)' =>
              i \in DOMAIN fl[f].res /\ Answered(f, i, k, w) /\ fl'[f].res[i] = fl[f].res[i]
      BY <3>1, <3>4 DEF Answered
    <3>6. \A g \in Flushers : \A i \in DOMAIN fl'[g].res : Answered(g, i, k, w)' =>
              i \in DOMAIN fl[g].res /\ Answered(g, i, k, w) /\ fl'[g].res[i] = fl[g].res[i]
      <4>1. ASSUME NEW g \in Flushers, g # f, NEW i \in DOMAIN fl'[g].res, Answered(g, i, k, w)'
            PROVE  i \in DOMAIN fl[g].res /\ Answered(g, i, k, w) /\ fl'[g].res[i] = fl[g].res[i]
        BY <3>1, <4>1 DEF OnlyMoves, Answered
      <4> QED BY <3>5, <4>1
    <3>7. redis'[<<k, w>>] >= redis[<<k, w>>]
      BY <1>3, <3>1 DEF redisVars
    <3> QED BY <1>4, <1>8, <3>6, <3>7
  <2>8. ASSUME NEW f \in Flushers, NoteOutcome(f) \/ ExecExpire(f) \/ Probe(f) PROVE Covered(k, w)'
    <3>1. fl'[f].pc \notin {"exec", "apply"} /\ OnlyMoves(f) /\ redis' = redis
      BY <2>8, NoteFlow, ExpireFlow, ProbeFlow DEF redisVars
    <3> QED BY <1>6, <1>8, <3>1
  <2>9. CASE Environment
    BY <2>1, <2>2, <2>3, <2>9 DEF Environment
  <2>10. ASSUME NEW f \in Flushers, Inner(f) PROVE Covered(k, w)'
    BY <1>1, <1>8, <2>7, <2>8, <2>10, CommandCovers, Zenon DEF Inner
  <2> QED BY <2>1, <2>4, <2>5, <2>6, <2>9, <2>10, StepCases, Zenon
<1> QED BY <1>7, <1>8

LEMMA CoverInvInit == Init => CoverInv
<1>1. Init => TypeInv
  BY InitType
<1>2. Init => BatchShape /\ Mutex /\ SnapUnanswered
  BY DEF Init, BatchShape, Mutex, SnapUnanswered, IdleFlush, Holding, Nobody, Flushers, Worker, Closer
<1>3. Init => NilCountsNothing
  BY DEF Init, NilCountsNothing, Nil
<1>4. Init => RedisCovers
  <2> SUFFICES ASSUME Init, NEW k \in Keys, NEW w \in Windows PROVE Covered(k, w)
    BY DEF RedisCovers
  <2>1. states[k].globalBase = 0 /\ redis[<<k, w>>] = 0
    BY DEF Init, Nil, KeyWindows
  <2>2. \A f \in Flushers : \A i : ~Answered(f, i, k, w)
    BY DEF Init, Answered, IdleFlush
  <2> QED BY <2>1, <2>2 DEF Covered
<1> QED BY <1>1, <1>2, <1>3, <1>4 DEF CoverInv

LEMMA CoverInvStep == CoverInv /\ [Next]_vars => CoverInv'
<1> SUFFICES ASSUME CoverInv, [Next]_vars PROVE CoverInv'
  OBVIOUS
<1>1. TypeInv' /\ BatchShape' /\ Mutex'
  BY StepType, StepShape, MutexStep DEF CoverInv
<1>2. SnapUnanswered' /\ NilCountsNothing' /\ RedisCovers'
  BY <1>1, SnapStep, NilStep, CoverStep
<1> QED BY <1>1, <1>2 DEF CoverInv

\* Concurrency invariant 3, what it is for: while its state stays in place, the count a
\* request decides on never goes back, however the flushes of the worker and of Close, other
\* replicas and lost replies interleave, until Redis drops the key.
THEOREM CountNeverRegresses == Spec => GlobalBaseNeverRegresses
<1> DEFINE A == \A k \in Keys :
                  /\ states[k] # Nil
                  /\ states'[k].windowStart = states[k].windowStart
                  /\ ~Marked(k, states[k].windowStart, {"expired"})
                  => states'[k].globalBase >= states[k].globalBase
<1>1. CoverInv /\ CoverInv' /\ [Next]_vars => A
  <2> SUFFICES ASSUME CoverInv, CoverInv', [Next]_vars, NEW k \in Keys,
                      states'[k].windowStart = states[k].windowStart,
                      ~Marked(k, states[k].windowStart, {"expired"})
               PROVE  states'[k].globalBase >= states[k].globalBase
    OBVIOUS
  <2>1. states[k].globalBase \in Nat
    BY DEF CoverInv, TypeInv, TypeOK, StripeTypes, LocalState
  <2>2. CASE states'[k] = states[k]
    BY <2>1, <2>2
  <2>3. CASE states'[k] = Nil
    <3>1. states[k].windowStart = -1 /\ states'[k].globalBase = 0
      BY <2>3 DEF Nil
    <3> QED BY <2>1, <3>1 DEF CoverInv, NilCountsNothing
  <2>4. CASE states'[k].globalBase = states[k].globalBase
    BY <2>1, <2>4
  <2>5. ASSUME NEW f \in Flushers, ApplyOk(f), states[k].windowStart \in Windows
        PROVE  states'[k].globalBase >= states[k].globalBase
    <3>1. PICK w \in Windows : w = states[k].windowStart
      BY <2>5
    <3>2. Unexpired(k, w)
      BY <3>1 DEF Unexpired
    <3> QED BY <2>5, <3>1, <3>2, ApplyCovers DEF CoverInv
  <2> QED BY <2>2, <2>3, <2>4, <2>5, StateSteps
<1>2. Spec => []CoverInv
  BY CoverInvInit, CoverInvStep, PTL DEF Spec
<1>3. GlobalBaseNeverRegresses <=> [][A]_vars
  BY PTL DEF GlobalBaseNeverRegresses
<1> HIDE DEF A
<1> QED BY <1>1, <1>2, <1>3, PTL DEF Spec

-----------------------------------------------------------------------------
(* One replica keeps its quota.                                            *)

Created(k, w) == <<k, w, "created">> \in hist

\* The control points at which the entries of a batch are not settled.
Open == {"snap", "exec", "apply"}

\* Entry i of f's batch is for window w of key k and not settled.
Carries(f, i, k, w) ==
    /\ fl[f].pc \in Open /\ i \in DOMAIN fl[f].batch
    /\ fl[f].batch[i].key = k /\ fl[f].batch[i].ws = w

\* An evicted delta of window w of key k waits in its stripe.
Waits(k, w) ==
    \E s \in Stripes : \E i \in DOMAIN evictedPending[s] :
        evictedPending[s][i].key = k /\ evictedPending[s][i].ws = w

\* Every trace of a window of a key starts with the creation of its state.
CreatedFirst ==
    \A k \in Keys, w \in Windows :
        \/ Created(k, w)
        \/ /\ states[k].windowStart # w /\ admitted[<<k, w>>] = 0
           /\ ~Waits(k, w)
           /\ \A f \in Flushers : \A i : ~Carries(f, i, k, w)

EvictedMarked ==
    \A s \in Stripes : \A i \in DOMAIN evictedPending[s] : evictedPending[s][i].evicted

Intact(k, w) == ~Marked(k, w, {"recreated", "expired"})

\* The delta of a state that was never lost is not among the evicted ones.
NeverEvicted ==
    \A k \in Keys, w \in Windows : Intact(k, w) /\ states[k].windowStart = w =>
        /\ ~Waits(k, w)
        /\ \A f \in Flushers : \A i : Carries(f, i, k, w) => ~fl[f].batch[i].evicted

\* A snapshot in progress has entries of dirty keys only of the stripes it has visited.
VisitedOnly ==
    \A f \in Flushers : fl[f].pc = "snap" => \A i \in DOMAIN fl[f].batch :
        ~fl[f].batch[i].evicted =>
            \E v \in 0..(NumStripes - 1) :
                v < fl[f].visited /\ StripeOf[fl[f].batch[i].key] = Wrap(flushCursor + v)

\* A batch has at most one entry made from the state of a key.
OncePerBatch ==
    \A f \in Flushers : fl[f].pc \in Open => \A i, j \in DOMAIN fl[f].batch :
        /\ fl[f].batch[i].key = fl[f].batch[j].key
        /\ ~fl[f].batch[i].evicted /\ ~fl[f].batch[j].evicted
        => i = j

\* What was admitted is in the count or in the delta of the state, of which an unsettled
\* entry is a part that its reply accounts for.
Accounted(k, w) ==
    /\ admitted[<<k, w>>] <= states[k].globalBase + states[k].localDelta
    /\ \A f \in Flushers : \A i \in DOMAIN fl[f].batch :
          /\ Carries(f, i, k, w) => fl[f].batch[i].flushN <= states[k].localDelta
          /\ Answered(f, i, k, w) => states[k].globalBase + fl[f].batch[i].flushN <= fl[f].res[i]

QuotaKept ==
    \A k \in Keys, w \in Windows : Intact(k, w) =>
        /\ admitted[<<k, w>>] <= Limit
        /\ states[k].windowStart = w => Accounted(k, w)

QuotaInv == /\ CoverInv /\ CreatedFirst /\ EvictedMarked /\ NeverEvicted
            /\ VisitedOnly /\ OncePerBatch /\ QuotaKept

\* Where the entries of a batch come from, in every step but one of the snapshot.
LEMMA EntrySteps ==
    ASSUME CoverInv, [Next]_vars, NEW f \in Flushers, ~SnapshotStripe(f)
    PROVE  \/ fl'[f].pc \notin Open
           \/ fl'[f].batch = <<>>
           \/ /\ fl[f].pc \in Open /\ fl'[f].batch = fl[f].batch
              /\ fl'[f].pc = "snap" => fl'[f] = fl[f] /\ flushCursor' = flushCursor
           \/ /\ fl[f].pc = "apply" /\ fl'[f].pc = "apply"
              /\ fl'[f].batch = Tail(fl[f].batch) /\ fl'[f].res = Tail(fl[f].res)
              /\ ApplyError(f) \/ ApplyOk(f)
<1> USE DEF CoverInv
<1> DEFINE G == \/ fl'[f].pc \notin Open
                \/ fl'[f].batch = <<>>
                \/ /\ fl[f].pc \in Open /\ fl'[f].batch = fl[f].batch
                   /\ fl'[f].pc = "snap" => fl'[f] = fl[f] /\ flushCursor' = flushCursor
                \/ /\ fl[f].pc = "apply" /\ fl'[f].pc = "apply"
                   /\ fl'[f].batch = Tail(fl[f].batch) /\ fl'[f].res = Tail(fl[f].res)
                   /\ ApplyError(f) \/ ApplyOk(f)
<1>1. ASSUME fl'[f] = fl[f], fl[f].pc = "snap" => flushCursor' = flushCursor PROVE G
  BY <1>1
<1>2. CASE \/ \E t \in Threads, k \in Keys, n \in Costs : AllowNEnter(t, k, n)
           \/ \E t \in Threads : AllowN(t)
           \/ Environment \/ IdleTick \/ UNCHANGED vars
  BY <1>1, <1>2, OtherMoves
<1>3. CASE ShardStep
  <2>1. PICK g \in Flushers, c \in FlusherPc \ Holding : fl'[g].pc = c /\ OnlyMoves(g)
    BY <1>3, ShardFlow
  <2>2. CASE g = f
    BY <2>1, <2>2 DEF Open, Holding
  <2>3. CASE g # f
    BY <1>1, <1>3, <2>1, <2>3, ShardMoves DEF OnlyMoves
  <2> QED BY <2>2, <2>3
<1>4. ASSUME NEW g \in Flushers, g # f,
             FlushLock(g) \/ SnapshotStripe(g) \/ SnapshotEnd(g) \/ Inner(g) \/ Release(g)
      PROVE  G
  <2>1. OnlyMoves(g)
    BY <1>4, LockMoves, StripeMoves, EndMoves, InnerMoves, ReleaseMoves
  <2>2. SnapshotEnd(g) => fl[f].pc # "snap"
    BY <1>4, EndMoves DEF Mutex, Holding
  <2>3. ~SnapshotEnd(g) => flushCursor' = flushCursor
    BY <1>4, LockMoves, StripeMoves, InnerMoves, ReleaseMoves
  <2> QED BY <1>1, <1>4, <2>1, <2>2, <2>3 DEF OnlyMoves
<1>5. CASE FlushLock(f) \/ Release(f)
  BY <1>5, LockFlow, ReleaseFlow DEF Open
<1>6. CASE SnapshotEnd(f)
  BY <1>6, EndFlow DEF Open
<1>7. CASE Inner(f)
  <2>1. CASE ExecCommand(f)
    <3>1. fl[f].pc = "exec" /\ fl'[f].pc = "exec" /\ fl'[f].batch = fl[f].batch
      BY <2>1, CommandFlow, Zenon
    <3> QED BY <3>1 DEF Open
  <2>2. CASE ExecEnd(f)
    BY <2>2, ReturnFlow DEF Open
  <2>3. CASE ApplyError(f) \/ ApplyOk(f)
    <3>1. /\ fl[f].pc = "apply" /\ fl'[f].batch = Tail(fl[f].batch) /\ fl'[f].res = Tail(fl[f].res)
          /\ fl'[f].pc = IF Len(fl[f].batch) = 1 THEN AfterApply(f) ELSE "apply"
      BY <2>3, ErrorFlow, OkFlow, Zenon
    <3>2. fl'[f].pc = "apply" \/ fl'[f].pc \notin Open
      BY <3>1 DEF AfterApply, Open
    <3> QED BY <2>3, <3>1, <3>2
  <2>4. CASE NoteOutcome(f) \/ ExecExpire(f) \/ Probe(f)
    BY <2>4, NoteFlow, ExpireFlow, ProbeFlow DEF Open
  <2> QED BY <1>7, <2>1, <2>2, <2>3, <2>4, Zenon DEF Inner
<1> QED BY <1>2, <1>3, <1>4, <1>5, <1>6, <1>7, StepCases, Zenon

\* The same, entry by entry: the batch stays, or loses its first entry.
LEMMA EntryOrigin ==
    ASSUME CoverInv, [Next]_vars, NEW f \in Flushers, ~SnapshotStripe(f), fl'[f].pc \in Open
    PROVE  \E d \in {0, 1} : \A i \in DOMAIN fl'[f].batch :
              /\ fl[f].pc \in Open /\ i \in Nat /\ i + d \in DOMAIN fl[f].batch
              /\ fl'[f].batch[i] = fl[f].batch[i + d]
<1> USE DEF CoverInv
<1> DEFINE b == fl[f].batch
<1>1. b \in Seq(Pending)
  BY DEF TypeInv, TypeOK, FlushTypes, FlushProgress
<1>2. CASE fl'[f].batch = <<>>
  <2>1. DOMAIN fl'[f].batch = {}
    BY <1>2
  <2> QED BY <2>1
<1>3. CASE fl[f].pc \in Open /\ fl'[f].batch = b
  <2>1. \A i \in DOMAIN b : i \in Nat /\ i + 0 = i
    BY <1>1
  <2>2. \A i \in DOMAIN fl'[f].batch : /\ fl[f].pc \in Open /\ i \in Nat /\ i + 0 \in DOMAIN fl[f].batch
                                      /\ fl'[f].batch[i] = fl[f].batch[i + 0]
    BY <1>3, <2>1
  <2> QED BY <2>2
<1>4. CASE fl[f].pc = "apply" /\ fl'[f].batch = Tail(b)
  <2>1. b # <<>>
    BY <1>4 DEF BatchShape
  <2> HIDE DEF b
  <2>2. \A i \in DOMAIN Tail(b) : i \in Nat /\ i + 1 \in DOMAIN b /\ Tail(b)[i] = b[i + 1]
    BY <1>1, <2>1, TailEntries
  <2>3. \A i \in DOMAIN fl'[f].batch : /\ fl[f].pc \in Open /\ i \in Nat /\ i + 1 \in DOMAIN fl[f].batch
                                      /\ fl'[f].batch[i] = fl[f].batch[i + 1]
    BY <1>4, <2>2 DEF b, Open
  <2> QED BY <2>3
<1> QED BY <1>2, <1>3, <1>4, EntrySteps

\* Where the evicted deltas of a stripe come from: they waited, they failed, or the state
\* was just evicted.
LEMMA EvictedSteps ==
    ASSUME CoverInv, [Next]_vars, NEW s \in Stripes, NEW i \in DOMAIN evictedPending'[s]
    PROVE  \/ \E j \in DOMAIN evictedPending[s] : evictedPending'[s][i] = evictedPending[s][j]
           \/ \E f \in Flushers : \E j \in DOMAIN fl[f].batch :
                 /\ fl[f].pc \in Open /\ fl[f].batch[j].evicted
                 /\ evictedPending'[s][i] = fl[f].batch[j]
           \/ \E v \in Keys : /\ states[v].localDelta > 0 /\ states'[v] = Nil
                              /\ evictedPending'[s][i] = PendingOf(v, TRUE)
<1> USE DEF CoverInv
<1> DEFINE old == evictedPending[s]
           new == evictedPending'[s]
           G == \/ \E j \in DOMAIN old : new[i] = old[j]
                \/ \E f \in Flushers : \E j \in DOMAIN fl[f].batch :
                      fl[f].pc \in Open /\ fl[f].batch[j].evicted /\ new[i] = fl[f].batch[j]
                \/ \E v \in Keys : states[v].localDelta > 0 /\ states'[v] = Nil /\ new[i] = PendingOf(v, TRUE)
<1>1. old \in Seq(Pending) /\ evictedPending \in [Stripes -> Seq(Pending)] /\ i \in DOMAIN new
  BY DEF TypeInv, TypeOK, StripeTypes
<1>2. ASSUME new = old PROVE G
  BY <1>2
<1>3. ASSUME NEW p \in Pending, new = Append(old, p) PROVE new[i] = p \/ \E j \in DOMAIN old : new[i] = old[j]
  <2> HIDE DEF old, new
  <2>1. i \in 1..(Len(old) + 1) /\ new[i] = IF i = Len(old) + 1 THEN p ELSE old[i]
    BY <1>1, <1>3
  <2> QED BY <1>1, <2>1
<1>4. CASE \/ \E t \in Threads, k \in Keys, n \in Costs : AllowNEnter(t, k, n)
           \/ \E t \in Threads : AllowNEnqueue(t) \/ AllowNMarkActive(t)
           \/ Environment \/ IdleTick \/ UNCHANGED vars
  <2>1. UNCHANGED evictedPending
    BY <1>4 DEF AllowNEnter, AllowNEnqueue, AllowNMarkActive, Environment, ClockTick, RedisFails,
       RedisRecovers, OtherReplica, KeyExpires, IdleTick, vars, stripeVars
  <2> QED BY <1>2, <2>1
<1>5. ASSUME NEW t \in Threads, AllowNDecide(t) PROVE G
  <2> DEFINE u == req[t].key
             z == StripeOf[u]
             w == WindowStart(req[t].now)
             st == IF states[u].windowStart = w THEN states[u] ELSE Fresh(w)
             nst == Counted(st, Verdict(st, req[t].n), req[t].n)
  <2>1. u \in Keys /\ z \in Stripes
    BY <1>5, DecideFlow, Zenon
  <2>2. PICK R \in SUBSET Keys :
           /\ states[u] # Nil => R = {}
           /\ states' = [j \in Keys |-> IF j = u THEN nst ELSE IF j \in R THEN Nil ELSE states[j]]
           /\ evictedPending' = [evictedPending EXCEPT ![z] = Carried(z, R)]
    BY <1>5, DecideFlow, Zenon
  <2> HIDE DEF u, z, w, st, nst
  <2>3. CASE z # s
    BY <1>1, <1>2, <2>2, <2>3
  <2>4. CASE z = s
    <3>1. new = Carried(s, R)
      BY <1>1, <2>2, <2>4
    <3> DEFINE owing == {v \in R : states[v].localDelta > 0}
               v == CHOOSE x \in owing : TRUE
    <3>2. CASE owing = {} \/ EvictedFull(s)
      <4>1. new = old
        BY <3>1, <3>2 DEF Carried
      <4> QED BY <1>2, <4>1
    <3>3. CASE ~(owing = {} \/ EvictedFull(s))
      <4>1. v \in owing
        BY <3>3
      <4>2. new = Append(old, PendingOf(v, TRUE))
        BY <3>1, <3>3 DEF Carried
      <4> HIDE DEF v
      <4>3. v \in Keys /\ states[v].localDelta > 0 /\ v \in R /\ R # {}
        BY <4>1
      <4>4. v # u
        BY <2>2, <4>3 DEF Nil
      <4>5. states'[v] = Nil
        BY <2>2, <4>3, <4>4
      <4>6. PendingOf(v, TRUE) \in Pending
        BY <4>3, PendingType
      <4> QED BY <1>3, <4>2, <4>3, <4>5, <4>6
    <3> QED BY <3>2, <3>3
  <2> QED BY <2>3, <2>4
<1>6. ASSUME NEW f \in Flushers, SnapshotStripe(f) PROVE G
  <2> DEFINE z == Wrap(flushCursor + fl[f].visited)
             ev == evictedPending[z]
             take == Taken(f, z)
  <2>1. /\ z \in Stripes /\ ev \in Seq(Pending) /\ take \in 0..Len(ev)
        /\ evictedPending' = [evictedPending EXCEPT ![z] = SubSeq(ev, take + 1, Len(ev))]
    BY <1>6, StripeFlow, Zenon
  <2> HIDE DEF z, take
  <2>2. CASE z # s
    BY <1>1, <1>2, <2>1, <2>2
  <2>3. CASE z = s
    <3>1. new = SubSeq(old, take + 1, Len(old)) /\ take \in 0..Len(old)
      BY <1>1, <2>1, <2>3
    <3> HIDE DEF old, new
    <3>2. i \in 1..(Len(old) - take) /\ new[i] = old[take + i] /\ take + i \in DOMAIN old
      BY <1>1, <3>1
    <3> QED BY <3>2 DEF old, new
  <2> QED BY <2>2, <2>3
<1>7. ASSUME NEW f \in Flushers, ApplyError(f) PROVE G
  <2> DEFINE b == fl[f].batch
             p == Head(b)
             z == StripeOf[p.key]
             full == EvictedFull(z)
  <2>1. /\ fl[f].pc = "apply"
        /\ evictedPending' = [evictedPending EXCEPT ![z] =
                IF p.evicted /\ ~full THEN Append(evictedPending[z], p) ELSE evictedPending[z]]
    BY <1>7, ErrorFlow, Zenon
  <2>2. b \in Seq(Pending) /\ b # <<>> /\ p \in Pending
    BY <2>1, HeadsType DEF BatchShape
  <2>3. 1 \in DOMAIN b /\ p = b[1]
    <3> HIDE DEF b
    <3> QED BY <2>2
  <2> HIDE DEF p, z, full
  <2>4. new = old \/ (p.evicted /\ new = Append(old, p))
    BY <1>1, <2>1
  <2> QED BY <1>2, <1>3, <2>1, <2>2, <2>3, <2>4 DEF Open
<1>8. CASE \E t \in Threads : AllowN(t)
  BY <1>4, <1>5, <1>8 DEF AllowN
<1>9. CASE ShardStep
  BY <1>2, <1>9, ShardFlow DEF stripeVars
<1>10. ASSUME NEW f \in Flushers, FlushLock(f) \/ SnapshotEnd(f) \/ Release(f) PROVE G
  BY <1>2, <1>10, LockFlow, EndFlow, ReleaseFlow DEF stripeVars
<1>11. ASSUME NEW f \in Flushers, Inner(f), ~ApplyError(f) PROVE G
  <2>1. UNCHANGED evictedPending
    BY <1>11, Zenon DEF Inner, ExecCommand, ExecEnd, ApplyOk, NoteOutcome, ExecExpire, Probe, stripeVars
  <2> QED BY <1>2, <2>1
<1>12. G
  BY <1>4, <1>6, <1>7, <1>8, <1>9, <1>10, <1>11, StepCases, Zenon
<1> QED BY <1>12

\* Where the entries of a batch come from: they were in it, they waited evicted, or they
\* are made from a state that owes a delta and stays.
LEMMA BatchSteps ==
    ASSUME CoverInv, [Next]_vars, NEW f \in Flushers, fl'[f].pc \in Open, NEW i \in DOMAIN fl'[f].batch
    PROVE  \/ \E j \in DOMAIN fl[f].batch : fl[f].pc \in Open /\ fl'[f].batch[i] = fl[f].batch[j]
           \/ \E s \in Stripes : \E j \in DOMAIN evictedPending[s] :
                 fl'[f].batch[i] = evictedPending[s][j]
           \/ \E v \in Keys : states'[v] = states[v] /\ fl'[f].batch[i] = PendingOf(v, FALSE)
<1> USE DEF CoverInv
<1>1. CASE ~SnapshotStripe(f)
  BY <1>1, EntryOrigin
<1>2. CASE SnapshotStripe(f)
  <2> DEFINE s == Wrap(flushCursor + fl[f].visited)
             ev == evictedPending[s]
             gone == Expired(states, s, fl[f].at)
             new == fl'[f].batch
  <2>1. PICK seen, base, order : StripeAdds(f, seen, base, order)
    BY <1>2, StripeEntries
  <2>2. /\ seen \in SUBSET {k \in dirty : StripeOf[k] = s}
        /\ \A x \in DOMAIN order : order[x] \in seen /\ states[order[x]].localDelta > 0
        /\ \/ i \in DOMAIN fl[f].batch /\ new[i] = fl[f].batch[i]
           \/ \E j \in DOMAIN ev : new[i] = ev[j]
           \/ i - base \in DOMAIN order /\ new[i] = PendingOf(order[i - base], FALSE)
    BY <2>1, Zenon DEF StripeAdds
  <2>3. /\ s \in Stripes /\ fl[f].pc = "snap"
        /\ states' = [k \in Keys |-> IF k \in gone THEN Nil ELSE states[k]]
    BY <1>2, StripeFlow, Zenon
  <2>4. \A k \in gone : states[k].localDelta = 0
    BY DEF Expired
  <2>5. seen \subseteq Keys
    BY <2>2 DEF TypeInv, TypeOK, StripeTypes
  <2> HIDE DEF s, gone
  <2>6. CASE i - base \in DOMAIN order /\ new[i] = PendingOf(order[i - base], FALSE)
    <3> DEFINE v == order[i - base]
    <3>1. v \in Keys /\ states[v].localDelta > 0
      BY <2>2, <2>5, <2>6
    <3>2. states'[v] = states[v]
      BY <2>3, <2>4, <3>1
    <3> QED BY <2>6, <3>1, <3>2
  <2> QED BY <2>2, <2>3, <2>6 DEF Open
<1> QED BY <1>1, <1>2

\* A request decided for window w of key k.
Decides(t, k, w) == AllowNDecide(t) /\ req[t].key = k /\ WindowStart(req[t].now) = w

\* Such a request leaves a state of its window, and the history tells how it came about.
LEMMA DecideCreates ==
    ASSUME TypeInv, NEW t \in Threads, NEW k \in Keys, NEW w \in Windows, Decides(t, k, w)
    PROVE  /\ states'[k].windowStart = w
           /\ states[k].windowStart # w =>
                 <<k, w, IF Created(k, w) THEN "recreated" ELSE "created">> \in hist'
<1> DEFINE u == req[t].key
           z == WindowStart(req[t].now)
           st == IF states[u].windowStart = z THEN states[u] ELSE Fresh(z)
           nst == Counted(st, Verdict(st, req[t].n), req[t].n)
<1>1. AllowNDecide(t) /\ u = k /\ z = w
  BY DEF Decides
<1>2. nst.windowStart = z
  BY <1>1, DecideFlow, Zenon
<1>3. PICK R \in SUBSET Keys :
         /\ states' = [j \in Keys |-> IF j = u THEN nst ELSE IF j \in R THEN Nil ELSE states[j]]
         /\ hist' = hist \cup RemovalEvents(StripeOf[u], R) \cup CreationEvents(u, z)
  BY <1>1, DecideFlow, Zenon
<1> HIDE DEF u, z, st, nst
<1>4. states'[k].windowStart = w
  BY <1>1, <1>2, <1>3
<1>5. states[k].windowStart # w =>
         <<k, w, IF Created(k, w) THEN "recreated" ELSE "created">> \in CreationEvents(k, w)
  BY DEF CreationEvents, Created
<1> QED BY <1>1, <1>3, <1>4, <1>5

\* Only such a request makes a state of a window, or admits units of it.
LEMMA OnlyDecides ==
    ASSUME CoverInv, [Next]_vars, NEW k \in Keys, NEW w \in Windows, \A t \in Threads : ~Decides(t, k, w)
    PROVE  /\ states'[k].windowStart = w => states[k].windowStart = w
           /\ admitted'[<<k, w>>] = admitted[<<k, w>>]
<1> USE DEF CoverInv
<1>1. ASSUME NEW t \in Threads, AllowNDecide(t)
      PROVE  /\ req[t].key = k => states'[k].windowStart = WindowStart(req[t].now)
             /\ admitted'[<<k, w>>] = admitted[<<k, w>>]
  <2> DEFINE u == req[t].key
             z == WindowStart(req[t].now)
             st == IF states[u].windowStart = z THEN states[u] ELSE Fresh(z)
             verdict == Verdict(st, req[t].n)
  <2>1. /\ u \in Keys /\ z \in Windows
        /\ admitted' = [admitted EXCEPT ![<<u, z>>] =
                           admitted[<<u, z>>] + (IF verdict = "admit" THEN req[t].n ELSE 0)]
    BY <1>1, DecideFlow, Zenon
  <2>2. Decides(t, u, z)
    BY <1>1 DEF Decides
  <2> HIDE DEF u, z, verdict
  <2>3. states'[u].windowStart = z
    BY <2>1, <2>2, DecideCreates
  <2>4. <<u, z>> # <<k, w>>
    BY <2>2
  <2>5. admitted'[<<k, w>>] = admitted[<<k, w>>]
    BY <2>1, <2>4 DEF TypeInv, TypeOK, HistoryTypes, KeyWindows
  <2> QED BY <2>3, <2>5 DEF u, z
<1>2. states'[k].windowStart = w => states[k].windowStart = w
  <2> SUFFICES ASSUME states'[k].windowStart = w PROVE states[k].windowStart = w
    OBVIOUS
  <2>1. states'[k] # Nil
    BY WindowsNat DEF Nil
  <2>2. ASSUME NEW t \in Threads, AllowNDecide(t), req[t].key = k PROVE FALSE
    <3>1. states'[k].windowStart = WindowStart(req[t].now)
      BY <1>1, <2>2
    <3> QED BY <2>2, <3>1 DEF Decides
  <2> QED BY <2>1, <2>2, StateSteps
<1>3. admitted'[<<k, w>>] = admitted[<<k, w>>]
  <2>1. CASE \/ \E t \in Threads, j \in Keys, n \in Costs : AllowNEnter(t, j, n)
             \/ \E t \in Threads : AllowNEnqueue(t) \/ AllowNMarkActive(t)
             \/ Environment \/ IdleTick \/ UNCHANGED vars
    <3>1. UNCHANGED admitted
      BY <2>1 DEF AllowNEnter, AllowNEnqueue, AllowNMarkActive, Environment, ClockTick, RedisFails,
         RedisRecovers, OtherReplica, KeyExpires, IdleTick, vars, ghostVars
    <3> QED BY <3>1
  <2>2. CASE \E t \in Threads : AllowN(t)
    BY <1>1, <2>1, <2>2 DEF AllowN
  <2>3. CASE ShardStep
    BY <2>3, ShardFlow DEF ghostVars
  <2>4. ASSUME NEW f \in Flushers, FlushLock(f) \/ SnapshotStripe(f) \/ SnapshotEnd(f) \/ Release(f)
        PROVE  admitted'[<<k, w>>] = admitted[<<k, w>>]
    <3>1. UNCHANGED ghostVars
      BY <2>4, LockFlow, StripeFlow, EndFlow, ReleaseFlow, Zenon
    <3> QED BY <3>1 DEF ghostVars
  <2>5. ASSUME NEW f \in Flushers, Inner(f) PROVE admitted'[<<k, w>>] = admitted[<<k, w>>]
    <3>1. UNCHANGED admitted
      BY <2>5, Zenon DEF Inner, ExecCommand, ExecEnd, ApplyError, ApplyOk, NoteOutcome, ExecExpire,
         Probe, ghostVars
    <3> QED BY <3>1
  <2> QED BY <2>1, <2>2, <2>3, <2>4, <2>5, StepCases, Zenon
<1> QED BY <1>2, <1>3

\* What makes a trace of window w of key k that was not there: a state of it.
LEMMA TraceSteps ==
    ASSUME CoverInv, [Next]_vars, NEW k \in Keys, NEW w \in Windows,
           ~Waits(k, w), \A f \in Flushers : \A i : Carries(f, i, k, w) => ~fl[f].batch[i].evicted
    PROVE  /\ Waits(k, w)' => states[k].windowStart = w /\ states'[k] = Nil
           /\ \A f \in Flushers : \A i : Carries(f, i, k, w)' =>
                 /\ ~fl'[f].batch[i].evicted
                 /\ \/ \E j : Carries(f, j, k, w) /\ fl'[f].batch[i] = fl[f].batch[j]
                    \/ /\ states[k].windowStart = w /\ states'[k] = states[k]
                       /\ fl'[f].batch[i] = PendingOf(k, FALSE)
<1>1. ASSUME Waits(k, w)' PROVE states[k].windowStart = w /\ states'[k] = Nil
  <2>1. PICK s \in Stripes : \E i \in DOMAIN evictedPending'[s] :
           evictedPending'[s][i].key = k /\ evictedPending'[s][i].ws = w
    BY <1>1 DEF Waits
  <2>2. PICK i \in DOMAIN evictedPending'[s] :
           evictedPending'[s][i].key = k /\ evictedPending'[s][i].ws = w
    BY <2>1
  <2>3. ~\E j \in DOMAIN evictedPending[s] : evictedPending'[s][i] = evictedPending[s][j]
    BY <2>2 DEF Waits
  <2>4. ~\E f \in Flushers : \E j \in DOMAIN fl[f].batch :
            fl[f].pc \in Open /\ fl[f].batch[j].evicted /\ evictedPending'[s][i] = fl[f].batch[j]
    BY <2>2 DEF Carries
  <2>5. PICK v \in Keys : states'[v] = Nil /\ evictedPending'[s][i] = PendingOf(v, TRUE)
    BY <2>3, <2>4, EvictedSteps
  <2>6. v = k /\ states[v].windowStart = w
    BY <2>2, <2>5 DEF PendingOf
  <2> QED BY <2>5, <2>6
<1>2. ASSUME NEW f \in Flushers, NEW i, Carries(f, i, k, w)'
      PROVE  /\ ~fl'[f].batch[i].evicted
             /\ \/ \E j : Carries(f, j, k, w) /\ fl'[f].batch[i] = fl[f].batch[j]
                \/ /\ states[k].windowStart = w /\ states'[k] = states[k]
                   /\ fl'[f].batch[i] = PendingOf(k, FALSE)
  <2>1. /\ fl'[f].pc \in Open /\ i \in DOMAIN fl'[f].batch
        /\ fl'[f].batch[i].key = k /\ fl'[f].batch[i].ws = w
    BY <1>2 DEF Carries
  <2>2. CASE \E j \in DOMAIN fl[f].batch : fl[f].pc \in Open /\ fl'[f].batch[i] = fl[f].batch[j]
    BY <2>1, <2>2 DEF Carries
  <2>3. ~\E s \in Stripes : \E j \in DOMAIN evictedPending[s] : fl'[f].batch[i] = evictedPending[s][j]
    BY <2>1 DEF Waits
  <2>4. CASE \E v \in Keys : states'[v] = states[v] /\ fl'[f].batch[i] = PendingOf(v, FALSE)
    <3>1. PICK v \in Keys : states'[v] = states[v] /\ fl'[f].batch[i] = PendingOf(v, FALSE)
      BY <2>4
    <3>2. v = k /\ states[v].windowStart = w /\ fl'[f].batch[i].evicted = FALSE
      BY <2>1, <3>1 DEF PendingOf
    <3> QED BY <3>1, <3>2
  <2> QED BY <2>1, <2>2, <2>3, <2>4, BatchSteps
<1> QED BY <1>1, <1>2

LEMMA CreatedStep ==
    ASSUME CoverInv, CreatedFirst, [Next]_vars
    PROVE  CreatedFirst'
<1> SUFFICES ASSUME NEW k \in Keys, NEW w \in Windows, ~Created(k, w)'
             PROVE  /\ states'[k].windowStart # w /\ admitted'[<<k, w>>] = 0
                    /\ ~Waits(k, w)'
                    /\ \A f \in Flushers : \A i : ~Carries(f, i, k, w)'
  BY DEF CreatedFirst
<1>1. ~Created(k, w)
  BY HistGrows DEF Created, CoverInv
<1>2. /\ states[k].windowStart # w /\ admitted[<<k, w>>] = 0
      /\ ~Waits(k, w) /\ \A f \in Flushers : \A i : ~Carries(f, i, k, w)
  BY <1>1 DEF CreatedFirst
<1>3. \A t \in Threads : ~Decides(t, k, w)
  BY <1>1, <1>2, DecideCreates DEF Created, CoverInv
<1> QED BY <1>2, <1>3, OnlyDecides, TraceSteps

LEMMA EvictedStep ==
    ASSUME CoverInv, EvictedMarked, [Next]_vars
    PROVE  EvictedMarked'
<1> SUFFICES ASSUME NEW s \in Stripes, NEW i \in DOMAIN evictedPending'[s]
             PROVE  evictedPending'[s][i].evicted
  BY DEF EvictedMarked
<1>1. \A v : PendingOf(v, TRUE).evicted
  BY DEF PendingOf
<1> QED BY <1>1, EvictedSteps, Zenon DEF EvictedMarked

\* A window whose state was never lost has no evicted trace, before or after its creation.
LEMMA IntactUntraced ==
    ASSUME CoverInv, CreatedFirst, NeverEvicted, [Next]_vars, NEW k \in Keys, NEW w \in Windows,
           Intact(k, w)', states'[k].windowStart = w
    PROVE  /\ Intact(k, w) /\ ~Waits(k, w)
           /\ \A f \in Flushers : \A i : Carries(f, i, k, w) => ~fl[f].batch[i].evicted
           /\ states[k].windowStart # w =>
                 admitted[<<k, w>>] = 0 /\ \A f \in Flushers : \A i : ~Carries(f, i, k, w)
<1>1. Intact(k, w)
  BY HistGrows DEF Intact, Marked, CoverInv
<1>2. CASE states[k].windowStart = w
  BY <1>1, <1>2 DEF NeverEvicted
<1>3. CASE states[k].windowStart # w
  <2>1. PICK t \in Threads : Decides(t, k, w)
    BY <1>3, OnlyDecides
  <2>2. ~Created(k, w)
    BY <1>3, <2>1, DecideCreates DEF Intact, Marked, CoverInv
  <2> QED BY <1>1, <2>2 DEF CreatedFirst
<1> QED BY <1>2, <1>3

LEMMA NeverEvictedStep ==
    ASSUME CoverInv, CreatedFirst, NeverEvicted, [Next]_vars
    PROVE  NeverEvicted'
<1> SUFFICES ASSUME NEW k \in Keys, NEW w \in Windows, Intact(k, w)', states'[k].windowStart = w
             PROVE  /\ ~Waits(k, w)'
                    /\ \A f \in Flushers : \A i : Carries(f, i, k, w)' => ~fl'[f].batch[i].evicted
  BY DEF NeverEvicted
<1>1. ~Waits(k, w) /\ \A f \in Flushers : \A i : Carries(f, i, k, w) => ~fl[f].batch[i].evicted
  BY IntactUntraced
<1>2. states'[k] # Nil
  BY WindowsNat DEF Nil
<1> QED BY <1>1, <1>2, TraceSteps

\* The stripes a snapshot visits are different ones.
LEMMA WrapDistinct ==
    ASSUME TypeInv, NEW m \in Nat, NEW v \in Nat, v < m, m < NumStripes
    PROVE  Wrap(flushCursor + v) # Wrap(flushCursor + m)
<1>1. NumStripes \in Nat /\ flushCursor \in Nat /\ flushCursor < NumStripes
  BY LocalAsyncAssumption DEF TypeInv, TypeOK, FlushTypes, Stripes
<1> QED BY <1>1 DEF Wrap

LEMMA VisitedStep ==
    ASSUME CoverInv, EvictedMarked, VisitedOnly, [Next]_vars
    PROVE  VisitedOnly'
<1> USE DEF CoverInv
<1> SUFFICES ASSUME NEW f \in Flushers, fl'[f].pc = "snap", NEW i \in DOMAIN fl'[f].batch,
                    ~fl'[f].batch[i].evicted
             PROVE  \E v \in 0..(NumStripes - 1) :
                       v < fl'[f].visited /\ StripeOf[fl'[f].batch[i].key] = Wrap(flushCursor + v)'
  BY DEF VisitedOnly
<1>1. CASE ~SnapshotStripe(f)
  <2>1. fl'[f].batch # <<>>
    <3>1. fl'[f].batch = <<>> => DOMAIN fl'[f].batch = {}
      OBVIOUS
    <3> QED BY <3>1
  <2>2. fl'[f] = fl[f] /\ flushCursor' = flushCursor
    BY <1>1, <2>1, EntrySteps DEF Open
  <2>3. PICK v \in 0..(NumStripes - 1) :
           v < fl[f].visited /\ StripeOf[fl[f].batch[i].key] = Wrap(flushCursor + v)
    BY <2>2 DEF VisitedOnly
  <2>4. Wrap(flushCursor + v)' = Wrap(flushCursor + v)
    BY <2>2 DEF Wrap
  <2> QED BY <2>2, <2>3, <2>4
<1>2. CASE SnapshotStripe(f)
  <2> DEFINE m == fl[f].visited
             s == Wrap(flushCursor + m)
             new == fl'[f].batch
  <2>1. /\ fl[f].pc = "snap" /\ m \in 0..NumStripes /\ m < NumStripes /\ fl'[f].visited = m + 1
        /\ flushCursor' = flushCursor
    BY <1>2, StripeMoves
  <2>2. s \in Stripes
    BY <1>2, StripeFlow, Zenon
  <2>3. PICK seen, base, order : StripeAdds(f, seen, base, order)
    BY <1>2, StripeEntries
  <2>4. /\ seen \in SUBSET {k \in dirty : StripeOf[k] = s}
        /\ \A x \in DOMAIN order : order[x] \in seen
        /\ \/ i \in DOMAIN fl[f].batch /\ new[i] = fl[f].batch[i]
           \/ \E j \in DOMAIN evictedPending[s] : new[i] = evictedPending[s][j]
           \/ i - base \in DOMAIN order /\ new[i] = PendingOf(order[i - base], FALSE)
    BY <2>3, Zenon DEF StripeAdds
  <2>5. \A v : \A c : c = Wrap(flushCursor + v) => c = Wrap(flushCursor' + v)
    BY <2>1
  <2>6. ~\E j \in DOMAIN evictedPending[s] : new[i] = evictedPending[s][j]
    BY <2>2 DEF EvictedMarked
  <2>7. CASE i \in DOMAIN fl[f].batch /\ new[i] = fl[f].batch[i]
    <3>1. PICK v \in 0..(NumStripes - 1) : v < m /\ StripeOf[fl[f].batch[i].key] = Wrap(flushCursor + v)
      BY <2>1, <2>7 DEF VisitedOnly
    <3>2. v < m + 1
      BY <2>1, <3>1
    <3>3. StripeOf[new[i].key] = Wrap(flushCursor' + v)
      BY <2>5, <2>7, <3>1
    <3> QED BY <2>1, <3>1, <3>2, <3>3 DEF Wrap
  <2>8. CASE i - base \in DOMAIN order /\ new[i] = PendingOf(order[i - base], FALSE)
    <3>1. new[i].key \in seen
      BY <2>4, <2>8 DEF PendingOf
    <3>2. StripeOf[new[i].key] = s
      BY <2>4, <3>1
    <3>3. m \in 0..(NumStripes - 1) /\ m < m + 1
      BY <2>1, LocalAsyncAssumption
    <3>4. StripeOf[new[i].key] = Wrap(flushCursor' + m)
      BY <2>5, <3>2
    <3> QED BY <2>1, <3>3, <3>4 DEF Wrap
  <2> QED BY <2>4, <2>6, <2>7, <2>8
<1> QED BY <1>1, <1>2

LEMMA OnceStep ==
    ASSUME CoverInv, EvictedMarked, VisitedOnly, OncePerBatch, [Next]_vars
    PROVE  OncePerBatch'
<1> USE DEF CoverInv
<1> SUFFICES ASSUME NEW f \in Flushers, fl'[f].pc \in Open,
                    NEW i \in DOMAIN fl'[f].batch, NEW j \in DOMAIN fl'[f].batch,
                    fl'[f].batch[i].key = fl'[f].batch[j].key,
                    ~fl'[f].batch[i].evicted, ~fl'[f].batch[j].evicted
             PROVE  i = j
  BY DEF OncePerBatch
<1>1. CASE ~SnapshotStripe(f)
  <2>1. PICK d \in {0, 1} : \A x \in DOMAIN fl'[f].batch :
              /\ fl[f].pc \in Open /\ x \in Nat /\ x + d \in DOMAIN fl[f].batch
              /\ fl'[f].batch[x] = fl[f].batch[x + d]
    BY <1>1, EntryOrigin
  <2>2. i + d = j + d
    BY <2>1 DEF OncePerBatch
  <2> QED BY <2>1, <2>2
<1>2. CASE SnapshotStripe(f)
  <2> DEFINE m == fl[f].visited
             s == Wrap(flushCursor + m)
             old == fl[f].batch
             new == fl'[f].batch
  <2>1. fl[f].pc = "snap" /\ m \in Nat /\ m < NumStripes /\ s \in Stripes
    BY <1>2, StripeFlow, Zenon
  <2>2. PICK seen, base, order : StripeAdds(f, seen, base, order)
    BY <1>2, StripeEntries
  <2>3. /\ seen \in SUBSET {k \in dirty : StripeOf[k] = s} /\ base \in Nat
        /\ order \in Seq(Keys) /\ new \in Seq(Pending)
        /\ \A x \in DOMAIN order : order[x] \in seen
        /\ \A x, y \in DOMAIN order : order[x] = order[y] => x = y
        /\ \A x \in DOMAIN new :
              \/ x \in DOMAIN old /\ new[x] = old[x]
              \/ \E y \in DOMAIN evictedPending[s] : new[x] = evictedPending[s][y]
              \/ x - base \in DOMAIN order /\ new[x] = PendingOf(order[x - base], FALSE)
    BY <2>2, Zenon DEF StripeAdds
  <2>4. \A x \in DOMAIN old : ~old[x].evicted => StripeOf[old[x].key] # s
    <3> SUFFICES ASSUME NEW x \in DOMAIN old, ~old[x].evicted PROVE StripeOf[old[x].key] # s
      OBVIOUS
    <3>1. PICK v \in 0..(NumStripes - 1) : v < m /\ StripeOf[old[x].key] = Wrap(flushCursor + v)
      BY <2>1 DEF VisitedOnly
    <3>2. v \in Nat
      BY <3>1, LocalAsyncAssumption
    <3> QED BY <2>1, <3>1, <3>2, WrapDistinct
  <2>5. \A x \in DOMAIN new : ~new[x].evicted =>
              \/ /\ x \in DOMAIN old /\ new[x] = old[x] /\ StripeOf[new[x].key] # s
              \/ /\ x - base \in DOMAIN order /\ new[x].key = order[x - base]
                 /\ StripeOf[new[x].key] = s
    <3> SUFFICES ASSUME NEW x \in DOMAIN new, ~new[x].evicted
                 PROVE  \/ /\ x \in DOMAIN old /\ new[x] = old[x] /\ StripeOf[new[x].key] # s
                        \/ /\ x - base \in DOMAIN order /\ new[x].key = order[x - base]
                           /\ StripeOf[new[x].key] = s
      OBVIOUS
    <3>1. ~\E y \in DOMAIN evictedPending[s] : new[x] = evictedPending[s][y]
      BY <2>1 DEF EvictedMarked
    <3>2. CASE x - base \in DOMAIN order /\ new[x] = PendingOf(order[x - base], FALSE)
      <4>1. new[x].key = order[x - base] /\ order[x - base] \in seen
        BY <2>3, <3>2 DEF PendingOf
      <4> QED BY <2>3, <3>2, <4>1
    <3>3. CASE x \in DOMAIN old /\ new[x] = old[x]
      BY <2>4, <3>3
    <3> QED BY <2>3, <3>1, <3>2, <3>3
  <2>6. i \in Nat /\ j \in Nat
    <3>1. i \in DOMAIN new /\ j \in DOMAIN new
      OBVIOUS
    <3> HIDE DEF new
    <3> QED BY <2>3, <3>1
  <2>7. CASE StripeOf[new[i].key] = s
    <3>1. i - base \in DOMAIN order /\ j - base \in DOMAIN order /\ order[i - base] = order[j - base]
      BY <2>5, <2>7
    <3>2. i - base = j - base
      BY <2>3, <3>1
    <3> QED BY <2>3, <2>6, <3>2
  <2>8. CASE StripeOf[new[i].key] # s
    <3>1. i \in DOMAIN old /\ j \in DOMAIN old /\ new[i] = old[i] /\ new[j] = old[j]
      BY <2>5, <2>8
    <3> QED BY <2>1, <3>1 DEF OncePerBatch, Open
  <2> QED BY <2>7, <2>8
<1> QED BY <1>1, <1>2

\* Where the reply of an entry comes from: it was there, or the INCRBY of the entry just ran.
LEMMA ReplySteps ==
    ASSUME CoverInv, [Next]_vars, NEW f \in Flushers, NEW i, NEW k \in Keys, NEW w \in Windows,
           Answered(f, i, k, w)'
    PROVE  \/ \E j : /\ Answered(f, j, k, w)
                     /\ fl'[f].batch[i] = fl[f].batch[j] /\ fl'[f].res[i] = fl[f].res[j]
           \/ fl'[f].res[i] = redis[<<k, w>>] + fl'[f].batch[i].flushN
<1> USE DEF CoverInv
<1> DEFINE b == fl[f].batch
           q == fl[f].res
           b1 == fl'[f].batch
           q1 == fl'[f].res
           G == \/ \E j : Answered(f, j, k, w) /\ b1[i] = b[j] /\ q1[i] = q[j]
                \/ q1[i] = redis[<<k, w>>] + b1[i].flushN
<1>0. /\ fl'[f].pc \in {"exec", "apply"} /\ i \in DOMAIN q1 /\ i \in DOMAIN b1
      /\ b1[i].key = k /\ b1[i].ws = w /\ q1[i] # -1
  BY DEF Answered
<1>1. b \in Seq(Pending) /\ q \in Seq(Nat \cup {-1})
  BY CoverTypes
<1>2. ASSUME fl'[f] = fl[f] PROVE G
  BY <1>0, <1>2 DEF Answered
<1>3. ASSUME NEW g \in Flushers, OnlyMoves(g), g # f PROVE G
  BY <1>2, <1>3 DEF OnlyMoves
<1>4. CASE \/ \E t \in Threads, j \in Keys, n \in Costs : AllowNEnter(t, j, n)
           \/ \E t \in Threads : AllowN(t)
           \/ Environment \/ IdleTick \/ UNCHANGED vars
  BY <1>2, <1>4, OtherMoves
<1>5. CASE ShardStep
  <2>1. PICK g \in Flushers, c \in FlusherPc \ Holding : fl'[g].pc = c /\ OnlyMoves(g)
    BY <1>5, ShardFlow
  <2>2. g # f
    BY <1>0, <2>1 DEF Holding
  <2> QED BY <1>3, <2>1, <2>2
<1>6. ASSUME NEW g \in Flushers, g # f,
             FlushLock(g) \/ SnapshotStripe(g) \/ SnapshotEnd(g) \/ Inner(g) \/ Release(g)
      PROVE  G
  <2>1. OnlyMoves(g)
    BY <1>6, LockMoves, StripeMoves, EndMoves, InnerMoves, ReleaseMoves
  <2> QED BY <1>3, <1>6, <2>1
<1>7. ~(FlushLock(f) \/ SnapshotStripe(f) \/ Release(f))
  BY <1>0, LockMoves, StripeMoves, ReleaseMoves DEF Holding
<1>8. ~SnapshotEnd(f)
  <2> SUFFICES ASSUME SnapshotEnd(f) PROVE FALSE
    OBVIOUS
  <2>1. q1 = <<>>
    BY EndFlow DEF SnapUnanswered
  <2>2. DOMAIN q1 = {}
    BY <2>1
  <2> QED BY <1>0, <2>2
<1>9. ~(NoteOutcome(f) \/ ExecExpire(f) \/ Probe(f))
  BY <1>0, NoteFlow, ExpireFlow, ProbeFlow
<1>10. CASE ExecCommand(f)
  <2> DEFINE n == Len(q) + 1
             p == b[n]
  <2>1. /\ fl[f].pc = "exec" /\ n \in 1..Len(b) /\ p \in Pending /\ b1 = b /\ q1 = Append(q, Reply(p))
    BY <1>10, CommandFlow, Zenon
  <2>2. Reply(p) \in Nat \cup {-1} /\ Reply(p) = IF redisUp THEN redis[<<p.key, p.ws>>] + p.flushN ELSE -1
    BY <2>1, ReplyType DEF Reply
  <2> DEFINE r == Reply(p)
  <2> HIDE DEF r, q, b, q1, b1
  <2>3. i \in 1..n /\ q1[i] = IF i = n THEN r ELSE q[i]
    <3>1. q1 = Append(q, r) /\ r \in Nat \cup {-1}
      BY <2>1, <2>2 DEF r
    <3> QED BY <1>0, <1>1, <3>1
  <2>4. CASE i = n
    <3>1. q1[i] = redis[<<p.key, p.ws>>] + p.flushN /\ b1[i] = p
      BY <1>0, <2>1, <2>2, <2>3, <2>4 DEF r
    <3>2. p.key = k /\ p.ws = w
      BY <1>0, <3>1
    <3> QED BY <3>1, <3>2 DEF b, q, b1, q1
  <2>5. CASE i # n
    <3>1. i \in DOMAIN q /\ q1[i] = q[i]
      BY <1>1, <2>3, <2>5
    <3>2. Answered(f, i, k, w)
      BY <1>0, <2>1, <3>1 DEF Answered, q, b, q1, b1
    <3> QED BY <2>1, <3>1, <3>2 DEF b, q, b1, q1
  <2> QED BY <2>4, <2>5
<1>11. CASE ExecEnd(f)
  <2>1. fl[f].pc = "exec" /\ b1 = b
    BY <1>11, ReturnFlow, Zenon
  <2>2. PICK m \in 0..Len(q) : q1 = Replied(q, m)
    BY <1>11, ReturnFlow, Zenon
  <2>3. /\ DOMAIN q1 = 1..Len(q) /\ DOMAIN q = 1..Len(q)
        /\ \A x \in 1..Len(q) : q1[x] = q[x] \/ q1[x] = -1
    BY <1>1, <2>2 DEF Replied
  <2>4. Answered(f, i, k, w) /\ q1[i] = q[i]
    BY <1>0, <2>1, <2>3 DEF Answered
  <2> QED BY <2>1, <2>4
<1>12. CASE ApplyError(f) \/ ApplyOk(f)
  <2>1. fl[f].pc = "apply" /\ b1 = Tail(b) /\ q1 = Tail(q)
    BY <1>12, ErrorFlow, OkFlow, Zenon
  <2>2. b # <<>> /\ q # <<>>
    <3>1. b # <<>> /\ Len(q) = Len(b)
      BY <2>1 DEF BatchShape
    <3> HIDE DEF b, q
    <3> QED BY <1>1, <3>1
  <2> HIDE DEF b, q, b1, q1
  <2>3. i + 1 \in DOMAIN b /\ b1[i] = b[i + 1]
    BY <1>0, <1>1, <2>1, <2>2, TailEntries
  <2>4. i + 1 \in DOMAIN q /\ q1[i] = q[i + 1]
    BY <1>0, <1>1, <2>1, <2>2, TailEntries
  <2>5. Answered(f, i + 1, k, w)
    BY <1>0, <2>1, <2>3, <2>4 DEF Answered, b, q, b1, q1
  <2> QED BY <2>3, <2>4, <2>5 DEF b, q, b1, q1
<1>13. CASE Inner(f)
  BY <1>9, <1>10, <1>11, <1>12, <1>13, Zenon DEF Inner
<1>14. G
  BY <1>4, <1>5, <1>6, <1>7, <1>8, <1>13, StepCases, Zenon
<1> QED BY <1>14

LEMMA QuotaTypes ==
    ASSUME TypeInv, NEW k \in Keys, NEW w \in Windows
    PROVE  /\ admitted[<<k, w>>] \in Nat /\ states[k].globalBase \in Nat /\ states[k].localDelta \in Nat
           /\ \A f \in Flushers : \A i \in DOMAIN fl[f].batch : fl[f].batch[i].flushN \in Nat
           /\ \A f \in Flushers : \A i : Answered(f, i, k, w) => fl[f].res[i] \in Nat
<1>1. admitted[<<k, w>>] \in Nat /\ states[k].globalBase \in Nat /\ states[k].localDelta \in Nat
  BY DEF TypeInv, TypeOK, HistoryTypes, KeyWindows, StripeTypes, LocalState
<1>2. ASSUME NEW f \in Flushers, NEW i \in DOMAIN fl[f].batch PROVE fl[f].batch[i].flushN \in Nat
  <2> DEFINE b == fl[f].batch
  <2>1. b \in Seq(Pending) /\ i \in DOMAIN b
    BY CoverTypes
  <2> HIDE DEF b
  <2>2. b[i] \in Pending
    BY <2>1
  <2> QED BY <2>2 DEF b, Pending
<1>3. \A f \in Flushers : \A i : Answered(f, i, k, w) => fl[f].res[i] \in Nat
  BY CoverTypes DEF Answered
<1> QED BY <1>1, <1>2, <1>3

\* A request admitted for the window: it fits, and it is in the delta of the state.
LEMMA DecideKeepsQuota ==
    ASSUME QuotaInv, TypeInv', [Next]_vars, NEW t \in Threads, NEW k \in Keys, NEW w \in Windows,
           Decides(t, k, w), Intact(k, w)'
    PROVE  admitted'[<<k, w>>] <= Limit /\ Accounted(k, w)'
<1> USE DEF QuotaInv, CoverInv
<1> DEFINE u == req[t].key
           n == req[t].n
           z == WindowStart(req[t].now)
           st == IF states[u].windowStart = z THEN states[u] ELSE Fresh(z)
           verdict == Verdict(st, n)
           nst == Counted(st, verdict, n)
           a == admitted[<<k, w>>]
<1>1. AllowNDecide(t) /\ u = k /\ z = w
  BY DEF Decides
<1>2. /\ n \in Nat /\ st \in LocalState /\ st.windowStart = z
      /\ states[u].windowStart # z => st.localDelta = 0 /\ st.globalBase = 0
      /\ nst.windowStart = z /\ nst.globalBase = st.globalBase
      /\ nst.localDelta = IF verdict = "admit" THEN st.localDelta + n ELSE st.localDelta
      /\ admitted' = [admitted EXCEPT ![<<u, z>>] =
                         admitted[<<u, z>>] + (IF verdict = "admit" THEN n ELSE 0)]
      /\ UNCHANGED flushVars
  BY <1>1, DecideFlow, Zenon
<1>3. PICK R : states' = [j \in Keys |-> IF j = u THEN nst ELSE IF j \in R THEN Nil ELSE states[j]]
  BY <1>1, DecideFlow, Zenon
<1>4. verdict = "admit" => st.globalBase + st.localDelta + n <= Limit
  <2>1. st.globalBase \in Nat /\ st.localDelta \in Nat /\ Limit \in Nat /\ st.blocked \in BOOLEAN
    BY <1>2, LocalAsyncAssumption DEF LocalState
  <2>2. redisDown \in BOOLEAN /\ FailOpen \in BOOLEAN
    BY LocalAsyncAssumption DEF TypeInv, TypeOK, FlagTypes
  <2>3. ~(st.globalBase + st.localDelta + n > Limit) => st.globalBase + st.localDelta + n <= Limit
    BY <1>2, <2>1
  <2> HIDE DEF st, n
  <2>4. verdict = "admit" => ~(st.globalBase + st.localDelta + n > Limit)
    BY <2>1, <2>2 DEF Verdict
  <2> QED BY <2>3, <2>4
<1>5. states[u].windowStart = z => st = states[u]
  OBVIOUS
<1> HIDE DEF u, z, st, verdict, nst, n
<1>6. states'[k] = nst /\ fl' = fl /\ states'[k].windowStart = w
  BY <1>1, <1>2, <1>3 DEF flushVars
<1>7. admitted'[<<k, w>>] = a + (IF verdict = "admit" THEN n ELSE 0)
  BY <1>1, <1>2 DEF TypeInv, TypeOK, HistoryTypes, KeyWindows
<1>8. /\ Intact(k, w)
      /\ states[k].windowStart # w => a = 0 /\ \A f \in Flushers : \A i : ~Carries(f, i, k, w)
  BY <1>6, IntactUntraced
<1>9. /\ a \in Nat /\ st.globalBase \in Nat /\ st.localDelta \in Nat /\ Limit \in Nat /\ a <= Limit
  BY <1>2, <1>8, QuotaTypes, LocalAsyncAssumption DEF LocalState, QuotaKept
<1>10. a <= st.globalBase + st.localDelta
  <2>1. CASE states[k].windowStart = w
    BY <1>1, <1>5, <1>8, <2>1 DEF QuotaKept, Accounted
  <2>2. CASE states[k].windowStart # w
    BY <1>8, <1>9, <2>2
  <2> QED BY <2>1, <2>2
<1> HIDE DEF a
<1>11. admitted'[<<k, w>>] <= Limit
  BY <1>2, <1>4, <1>7, <1>9, <1>10
<1>12. admitted'[<<k, w>>] <= states'[k].globalBase + states'[k].localDelta
  BY <1>2, <1>6, <1>7, <1>9, <1>10
<1>13. ASSUME NEW f \in Flushers, NEW i \in DOMAIN fl'[f].batch
       PROVE  /\ Carries(f, i, k, w)' => fl'[f].batch[i].flushN <= states'[k].localDelta
              /\ Answered(f, i, k, w)' => states'[k].globalBase + fl'[f].batch[i].flushN <= fl'[f].res[i]
  <2>1. /\ Carries(f, i, k, w)' => Carries(f, i, k, w)
        /\ Answered(f, i, k, w)' => Answered(f, i, k, w)
    BY <1>6 DEF Carries, Answered
  <2>2. Answered(f, i, k, w) => Carries(f, i, k, w)
    BY DEF Carries, Answered, Open
  <2>3. CASE states[k].windowStart # w
    BY <1>8, <2>1, <2>2, <2>3
  <2>4. CASE states[k].windowStart = w
    <3>1. /\ Carries(f, i, k, w) => fl[f].batch[i].flushN <= states[k].localDelta
          /\ Answered(f, i, k, w) => states[k].globalBase + fl[f].batch[i].flushN <= fl[f].res[i]
      BY <1>6, <1>8, <1>13, <2>4 DEF QuotaKept, Accounted
    <3>2. fl[f].batch[i].flushN \in Nat
      BY <1>6, <1>13, QuotaTypes
    <3>3. states[k].localDelta <= states'[k].localDelta /\ states'[k].globalBase = states[k].globalBase
      BY <1>1, <1>2, <1>5, <1>6, <1>9, <2>4
    <3>4. states[k].localDelta \in Nat /\ states'[k].localDelta \in Nat
      BY QuotaTypes DEF TypeInv, TypeOK, StripeTypes, LocalState
    <3> QED BY <1>6, <2>1, <3>1, <3>2, <3>3, <3>4
  <2> QED BY <2>3, <2>4
<1> QED BY <1>11, <1>12, <1>13 DEF Accounted

\* A step that leaves the state of the window alone: new entries are its delta, new replies
\* are ahead of its count.
LEMMA StayKeepsQuota ==
    ASSUME QuotaInv, TypeInv', [Next]_vars, NEW k \in Keys, NEW w \in Windows, Intact(k, w)',
           states[k].windowStart = w, states'[k] = states[k],
           admitted'[<<k, w>>] = admitted[<<k, w>>]
    PROVE  Accounted(k, w)'
<1>0. CoverInv /\ TypeInv /\ CreatedFirst /\ NeverEvicted /\ QuotaKept /\ RedisCovers
  BY DEF QuotaInv, CoverInv
<1>1. /\ Intact(k, w) /\ ~Waits(k, w)
      /\ \A f \in Flushers : \A i : Carries(f, i, k, w) => ~fl[f].batch[i].evicted
  BY <1>0, IntactUntraced
<1>2. Accounted(k, w)
  BY <1>0, <1>1 DEF QuotaKept
<1>3. states[k].globalBase <= redis[<<k, w>>]
  <2>1. Unexpired(k, w)
    BY <1>1 DEF Intact, Unexpired, Marked
  <2> QED BY <1>0, <2>1 DEF RedisCovers, Covered
<1>4. ASSUME NEW f \in Flushers, NEW i \in DOMAIN fl'[f].batch, Carries(f, i, k, w)'
      PROVE  fl'[f].batch[i].flushN <= states'[k].localDelta
  <2>1. CASE \E j : Carries(f, j, k, w) /\ fl'[f].batch[i] = fl[f].batch[j]
    <3>1. PICK j : Carries(f, j, k, w) /\ fl'[f].batch[i] = fl[f].batch[j]
      BY <2>1
    <3>2. j \in DOMAIN fl[f].batch
      BY <3>1 DEF Carries
    <3> QED BY <1>2, <3>1, <3>2 DEF Accounted
  <2>2. CASE fl'[f].batch[i] = PendingOf(k, FALSE)
    <3>1. fl'[f].batch[i].flushN = states[k].localDelta
      BY <2>2 DEF PendingOf
    <3>2. states[k].localDelta \in Nat
      BY <1>0, QuotaTypes
    <3> QED BY <3>1, <3>2
  <2>3. \A g \in Flushers : \A x : Carries(g, x, k, w)' =>
           /\ ~fl'[g].batch[x].evicted
           /\ \/ \E j : Carries(g, j, k, w) /\ fl'[g].batch[x] = fl[g].batch[j]
              \/ /\ states[k].windowStart = w /\ states'[k] = states[k]
                 /\ fl'[g].batch[x] = PendingOf(k, FALSE)
    BY <1>0, <1>1, TraceSteps
  <2>4. \/ \E j : Carries(f, j, k, w) /\ fl'[f].batch[i] = fl[f].batch[j]
        \/ fl'[f].batch[i] = PendingOf(k, FALSE)
    BY <1>4, <2>3
  <2> QED BY <2>1, <2>2, <2>4
<1>5. ASSUME NEW f \in Flushers, NEW i \in DOMAIN fl'[f].batch, Answered(f, i, k, w)'
      PROVE  states'[k].globalBase + fl'[f].batch[i].flushN <= fl'[f].res[i]
  <2>1. CASE \E j : /\ Answered(f, j, k, w)
                    /\ fl'[f].batch[i] = fl[f].batch[j] /\ fl'[f].res[i] = fl[f].res[j]
    <3>1. PICK j : /\ Answered(f, j, k, w)
                   /\ fl'[f].batch[i] = fl[f].batch[j] /\ fl'[f].res[i] = fl[f].res[j]
      BY <2>1
    <3>2. j \in DOMAIN fl[f].batch
      BY <3>1 DEF Answered
    <3> QED BY <1>2, <3>1, <3>2 DEF Accounted
  <2>2. CASE fl'[f].res[i] = redis[<<k, w>>] + fl'[f].batch[i].flushN
    <3>1. states[k].globalBase \in Nat /\ redis[<<k, w>>] \in Nat
      BY <1>0, CoverTypes
    <3>2. fl'[f].batch[i].flushN \in Nat
      <4> DEFINE b == fl'[f].batch
      <4>1. b \in Seq(Pending) /\ i \in DOMAIN b
        BY DEF TypeInv, TypeOK, FlushTypes, FlushProgress
      <4> HIDE DEF b
      <4>2. b[i] \in Pending
        BY <4>1
      <4> QED BY <4>2 DEF b, Pending
    <3> DEFINE r == redis[<<k, w>>]
               n == fl'[f].batch[i].flushN
               c == states[k].globalBase
    <3>3. r \in Nat /\ n \in Nat /\ c \in Nat /\ c <= r /\ fl'[f].res[i] = r + n /\ states'[k].globalBase = c
      BY <1>3, <2>2, <3>1, <3>2
    <3> HIDE DEF r, n, c
    <3>4. c + n <= r + n
      BY <3>3
    <3> QED BY <3>3, <3>4 DEF n
  <2> QED BY <1>0, <1>5, <2>1, <2>2, ReplySteps
<1>6. admitted'[<<k, w>>] <= states'[k].globalBase + states'[k].localDelta
  BY <1>2 DEF Accounted
<1> QED BY <1>4, <1>5, <1>6 DEF Accounted

\* A reply applied to the state of the window: what leaves the delta is in the count, and no
\* other entry of the window is left.
LEMMA ApplyKeepsQuota ==
    ASSUME QuotaInv, TypeInv', [Next]_vars, NEW f \in Flushers, ApplyOk(f),
           NEW k \in Keys, NEW w \in Windows, Intact(k, w)',
           states[k].windowStart = w, states'[k] # states[k],
           admitted'[<<k, w>>] = admitted[<<k, w>>]
    PROVE  Accounted(k, w)'
<1> USE DEF QuotaInv, CoverInv
<1> DEFINE b == fl[f].batch
           q == fl[f].res
           p == Head(b)
           g == Head(q)
           st == states[p.key]
           a == admitted[<<k, w>>]
           c == states[k].globalBase
           d == states[k].localDelta
           n == p.flushN
<1>1. /\ fl[f].pc = "apply" /\ g # -1 /\ OnlyMoves(f) /\ fl'[f].batch = Tail(b)
      /\ states' = IF st.windowStart = p.ws THEN [states EXCEPT ![p.key] = Reconciled(st, p, g)] ELSE states
  BY OkFlow, Zenon
<1>2. /\ b \in Seq(Pending) /\ b # <<>> /\ q \in Seq(Nat \cup {-1}) /\ Len(q) = Len(b)
      /\ p \in Pending /\ g \in Nat /\ p.key \in Keys /\ st \in LocalState /\ n \in Nat
  BY <1>1, HeadsType DEF BatchShape, Pending, TypeInv, TypeOK, StripeTypes
<1>3. p.key = k /\ p.ws = w /\ states'[k] = Reconciled(states[k], p, g)
  <2>1. st.windowStart = p.ws /\ p.key = k
    BY <1>1, <1>2 DEF TypeInv, TypeOK, StripeTypes
  <2> QED BY <1>1, <1>2, <2>1 DEF TypeInv, TypeOK, StripeTypes
<1>4. 1 \in DOMAIN b /\ p = b[1] /\ 1 \in DOMAIN q /\ g = q[1]
  <2> HIDE DEF b, q
  <2> QED BY <1>2
<1>5. Carries(f, 1, k, w) /\ Answered(f, 1, k, w)
  BY <1>1, <1>2, <1>3, <1>4 DEF Carries, Answered, Open
<1>6. /\ Intact(k, w)
      /\ \A i : Carries(f, i, k, w) => ~fl[f].batch[i].evicted
  <2>1. states'[k].windowStart = w
    BY <1>2, <1>3, ReconciledFields
  <2> QED BY <2>1, IntactUntraced
<1>7. Accounted(k, w) /\ ~p.evicted
  BY <1>4, <1>5, <1>6 DEF QuotaKept
<1>8. n <= d /\ c + n <= g /\ a <= c + d
  BY <1>4, <1>5, <1>7 DEF Accounted
<1>9. a \in Nat /\ c \in Nat /\ d \in Nat /\ states[k] \in LocalState
  BY QuotaTypes DEF TypeInv, TypeOK, StripeTypes
<1>10. states'[k].globalBase = g /\ states'[k].localDelta = d - n
  <2> DEFINE new == Reconciled(states[k], p, g)
  <2>1. new.globalBase = g /\ new.localDelta = d - n
    <3>1. n <= states[k].localDelta
      BY <1>8
    <3> HIDE DEF p, g
    <3>2. p \in Pending /\ g \in Nat
      BY <1>2
    <3> QED BY <1>7, <1>9, <3>1, <3>2, ReconciledFields
  <2> HIDE DEF new
  <2>2. states'[k] = new
    BY <1>3 DEF new
  <2> QED BY <2>1, <2>2
<1>11. ASSUME NEW h \in Flushers, NEW i, Carries(h, i, k, w)' PROVE FALSE
  <2>1. CASE h = f
    <3> DEFINE b1 == Tail(b)
    <3>1. i \in DOMAIN b1 /\ b1[i].key = k /\ b1[i].ws = w
      BY <1>1, <1>11, <2>1 DEF Carries
    <3> HIDE DEF b
    <3>2. i \in Nat \ {0} /\ i + 1 \in DOMAIN b /\ b1[i] = b[i + 1]
      BY <1>2, <3>1, TailEntries
    <3> HIDE DEF b1
    <3>3. Carries(f, i + 1, k, w)
      BY <1>1, <3>1, <3>2 DEF Carries, Open, b
    <3>4. ~b[i + 1].evicted /\ b[i + 1].key = b[1].key
      BY <1>3, <1>4, <1>6, <3>1, <3>2, <3>3 DEF b
    <3>5. i + 1 = 1
      BY <1>1, <1>4, <1>7, <3>2, <3>4 DEF OncePerBatch, Open, b
    <3> QED BY <3>2, <3>5
  <2>2. CASE h # f
    <3>1. fl[h].pc \in Open
      BY <1>1, <1>11, <2>2 DEF Carries, OnlyMoves
    <3> QED BY <1>1, <2>2, <3>1 DEF Mutex, Holding, Open
  <2> QED BY <2>1, <2>2
<1>12. ASSUME NEW h \in Flushers, NEW i, Answered(h, i, k, w)' PROVE FALSE
  <2>1. Carries(h, i, k, w)'
    BY <1>12 DEF Answered, Carries, Open
  <2> QED BY <1>11, <2>1
<1> HIDE DEF a, c, d, n, g
<1>13. a <= g + (d - n)
  BY <1>2, <1>8, <1>9
<1>14. admitted'[<<k, w>>] <= states'[k].globalBase + states'[k].localDelta
  BY <1>10, <1>13 DEF a
<1> QED BY <1>11, <1>12, <1>14 DEF Accounted

LEMMA QuotaStep ==
    ASSUME QuotaInv, TypeInv', [Next]_vars
    PROVE  QuotaKept'
<1> USE DEF QuotaInv
<1> SUFFICES ASSUME NEW k \in Keys, NEW w \in Windows, Intact(k, w)'
             PROVE  /\ admitted'[<<k, w>>] <= Limit
                    /\ states'[k].windowStart = w => Accounted(k, w)'
  BY DEF QuotaKept
<1>1. CASE \E t \in Threads : Decides(t, k, w)
  BY <1>1, DecideKeepsQuota
<1>2. CASE \A t \in Threads : ~Decides(t, k, w)
  <2>1. Intact(k, w)
    BY HistGrows DEF Intact, Marked, CoverInv
  <2>2. /\ states'[k].windowStart = w => states[k].windowStart = w
        /\ admitted'[<<k, w>>] = admitted[<<k, w>>]
    BY <1>2, OnlyDecides
  <2>3. admitted'[<<k, w>>] <= Limit
    BY <2>1, <2>2 DEF QuotaKept
  <2>4. ASSUME states'[k].windowStart = w PROVE Accounted(k, w)'
    <3>1. states[k].windowStart = w /\ states'[k] # Nil
      BY <2>2, <2>4, WindowsNat DEF Nil
    <3>2. ~\E t \in Threads : AllowNDecide(t) /\ req[t].key = k
      <4> SUFFICES ASSUME NEW t \in Threads, AllowNDecide(t), req[t].key = k PROVE FALSE
        OBVIOUS
      <4>1. WindowStart(req[t].now) \in Windows
        BY DecideFlow, Zenon DEF CoverInv
      <4>2. PICK z \in Windows : z = WindowStart(req[t].now)
        BY <4>1
      <4>3. Decides(t, k, z)
        BY <4>2 DEF Decides
      <4>4. states'[k].windowStart = z
        BY <4>3, DecideCreates DEF CoverInv
      <4> QED BY <1>2, <2>4, <4>3, <4>4
    <3>3. CASE states'[k] = states[k]
      BY <2>2, <3>1, <3>3, StayKeepsQuota
    <3>4. CASE states'[k] # states[k]
      <4>1. PICK f \in Flushers : ApplyOk(f)
        BY <3>1, <3>2, <3>4, StateSteps
      <4> QED BY <2>2, <3>1, <3>4, <4>1, ApplyKeepsQuota
    <3> QED BY <3>3, <3>4
  <2> QED BY <2>3, <2>4
<1> QED BY <1>1, <1>2

LEMMA QuotaInvInit == Init => QuotaInv
<1> SUFFICES ASSUME Init PROVE QuotaInv
  OBVIOUS
<1>1. CoverInv
  BY CoverInvInit
<1>2. /\ \A k \in Keys, w \in Windows : states[k].windowStart # w
      /\ \A k \in Keys, w \in Windows : admitted[<<k, w>>] = 0
  BY WindowsNat DEF Init, Nil, KeyWindows
<1>3. \A s \in Stripes : DOMAIN evictedPending[s] = {}
  BY DEF Init
<1>4. \A f \in Flushers : fl[f].pc = "idle"
  BY DEF Init, IdleFlush
<1>5. /\ \A f \in Flushers : fl[f].pc \notin Open
      /\ \A k, w : ~Waits(k, w)
      /\ \A f \in Flushers : \A i, k, w : ~Carries(f, i, k, w)
  BY <1>3, <1>4 DEF Open, Waits, Carries
<1>6. CreatedFirst /\ EvictedMarked /\ NeverEvicted
  BY <1>2, <1>3, <1>5 DEF CreatedFirst, EvictedMarked, NeverEvicted
<1>7. VisitedOnly /\ OncePerBatch
  BY <1>4, <1>5 DEF VisitedOnly, OncePerBatch
<1>8. QuotaKept
  BY <1>2, LocalAsyncAssumption DEF QuotaKept
<1> QED BY <1>1, <1>6, <1>7, <1>8 DEF QuotaInv

LEMMA QuotaInvStep == QuotaInv /\ [Next]_vars => QuotaInv'
<1> SUFFICES ASSUME QuotaInv, [Next]_vars PROVE QuotaInv'
  OBVIOUS
<1>1. CoverInv'
  BY CoverInvStep DEF QuotaInv
<1>2. CreatedFirst' /\ EvictedMarked' /\ NeverEvicted'
  BY CreatedStep, EvictedStep, NeverEvictedStep DEF QuotaInv
<1>3. VisitedOnly' /\ OncePerBatch'
  BY VisitedStep, OnceStep DEF QuotaInv
<1>4. QuotaKept'
  BY <1>1, QuotaStep DEF CoverInv
<1> QED BY <1>1, <1>2, <1>3, <1>4 DEF QuotaInv

\* One replica alone keeps its quota: however the requests, the flushes and the other
\* replicas interleave, AllowN admits at most Limit units of a window whose state is not
\* lost, because what it admitted is always in the count read back or in the local delta,
\* and applying a reply never takes off the delta what the count does not have.
THEOREM ReplicaQuotaKept == Spec => []ReplicaQuota
<1>1. QuotaInv => ReplicaQuota
  BY DEF QuotaInv, QuotaKept, Intact, ReplicaQuota
<1> QED BY <1>1, QuotaInvInit, QuotaInvStep, PTL DEF Spec

-----------------------------------------------------------------------------
(* How much the entries of a batch or a buffer carry.                      *)

\* One element for each unit that the entries of b at the places I carry.
Units(b, I) == UNION {{i} \X (1..b[i].flushN) : i \in I}

Total(b, I) == Cardinality(Units(b, I))

Carriers(b, I) == IsFiniteSet(I) /\ \A i \in I : b[i].flushN \in Nat

LEMMA IntervalCount == ASSUME NEW n \in Nat PROVE IsFiniteSet(1..n) /\ Cardinality(1..n) = n
BY FS_Interval

LEMMA UnitsFinite ==
    ASSUME NEW b, NEW I, Carriers(b, I)
    PROVE  IsFiniteSet(Units(b, I)) /\ Total(b, I) \in Nat
<1> DEFINE place == [i \in I |-> {i} \X (1..b[i].flushN)]
           S == {{i} \X (1..b[i].flushN) : i \in I}
<1>1. place \in Surjection(I, S)
  BY DEF Surjection
<1>2. IsFiniteSet(S)
  BY <1>1, FS_Surjection DEF Carriers
<1>3. \A X \in S : IsFiniteSet(X)
  <2> SUFFICES ASSUME NEW i \in I PROVE IsFiniteSet({i} \X (1..b[i].flushN))
    OBVIOUS
  <2>1. IsFiniteSet({i}) /\ IsFiniteSet(1..b[i].flushN)
    BY FS_Singleton, IntervalCount DEF Carriers
  <2> QED BY <2>1, FS_Product
<1> HIDE DEF S, place
<1>4. IsFiniteSet(UNION S)
  BY <1>2, <1>3, FS_UNION
<1> QED BY <1>4, FS_CardinalityType DEF Units, Total, S

LEMMA TotalEmpty == ASSUME NEW b PROVE Total(b, {}) = 0
BY FS_EmptySet DEF Total, Units

LEMMA TotalSplit ==
    ASSUME NEW b, NEW I, NEW J, Carriers(b, I), Carriers(b, J), I \cap J = {}
    PROVE  Carriers(b, I \cup J) /\ Total(b, I \cup J) = Total(b, I) + Total(b, J)
<1>1. Units(b, I \cup J) = Units(b, I) \cup Units(b, J)
  BY DEF Units
<1>2. Units(b, I) \cap Units(b, J) = {}
  BY DEF Units
<1>3. IsFiniteSet(I \cup J)
  BY FS_Union DEF Carriers
<1>4. IsFiniteSet(Units(b, I)) /\ IsFiniteSet(Units(b, J))
  BY UnitsFinite
<1>5. Cardinality(Units(b, I) \cup Units(b, J)) = Cardinality(Units(b, I)) + Cardinality(Units(b, J)) - 0
  BY <1>2, <1>4, FS_Union, FS_EmptySet
<1>6. Total(b, I) \in Nat /\ Total(b, J) \in Nat
  BY UnitsFinite
<1>7. Total(b, I \cup J) = Total(b, I) + Total(b, J) - 0
  BY <1>1, <1>5, Zenon DEF Total
<1>8. Total(b, I \cup J) = Total(b, I) + Total(b, J)
  BY <1>6, <1>7
<1> QED BY <1>3, <1>8 DEF Carriers

LEMMA TotalOne ==
    ASSUME NEW b, NEW i, b[i].flushN \in Nat
    PROVE  Carriers(b, {i}) /\ Total(b, {i}) = b[i].flushN
<1>1. Units(b, {i}) = {i} \X (1..b[i].flushN)
  BY DEF Units
<1>2. IsFiniteSet({i}) /\ Cardinality({i}) = 1
  BY FS_Singleton
<1>3. IsFiniteSet(1..b[i].flushN) /\ Cardinality(1..b[i].flushN) = b[i].flushN
  BY IntervalCount
<1>4. Cardinality({i} \X (1..b[i].flushN)) = 1 * b[i].flushN
  BY <1>2, <1>3, FS_Product
<1>5. 1 * b[i].flushN = b[i].flushN
  OBVIOUS
<1>6. \A j \in {i} : b[j].flushN \in Nat
  OBVIOUS
<1> QED BY <1>1, <1>2, <1>4, <1>5, <1>6 DEF Carriers, Total

LEMMA TotalSame ==
    ASSUME NEW b, NEW c, NEW I, \A i \in I : c[i].flushN = b[i].flushN
    PROVE  Total(c, I) = Total(b, I)
<1>1. Units(c, I) = Units(b, I)
  BY DEF Units
<1> QED BY <1>1 DEF Total

\* The entries of b at I are those of c at J, d places further.
Shifted(b, I, c, J, d) ==
    /\ d \in Int /\ I \in SUBSET Int /\ J = {i + d : i \in I}
    /\ \A i \in I : c[i + d].flushN = b[i].flushN

LEMMA TotalShift ==
    ASSUME NEW b, NEW c, NEW I, NEW J, NEW d, Carriers(b, I), Shifted(b, I, c, J, d)
    PROVE  Carriers(c, J) /\ Total(c, J) = Total(b, I)
<1>11. /\ d \in Int /\ I \in SUBSET Int /\ J = {i + d : i \in I}
       /\ \A i \in I : i + d \in J /\ c[i + d].flushN = b[i].flushN
       /\ \A j \in J : \E i \in I : j = i + d
  BY DEF Shifted
<1> DEFINE S == Units(b, I)
           T == Units(c, J)
           move == [x \in S |-> <<x[1] + d, x[2]>>]
<1>1. \A x : x \in S <=> \E i \in I : \E u \in 1..b[i].flushN : x = <<i, u>>
  BY DEF Units
<1>2. \A x : x \in T <=> \E i \in I : \E u \in 1..b[i].flushN : x = <<i + d, u>>
  BY <1>11 DEF Units
<1> HIDE DEF S, T
<1>3. \A x \in S : x[1] \in Int /\ move[x] = <<x[1] + d, x[2]>> /\ move[x] \in T /\ x = <<x[1], x[2]>>
  BY <1>1, <1>2, <1>11
<1>4. \A x, y \in S : move[x] = move[y] => x = y
  <2> SUFFICES ASSUME NEW x \in S, NEW y \in S, move[x] = move[y] PROVE x = y
    OBVIOUS
  <2>1. x[1] + d = y[1] + d /\ x[2] = y[2]
    BY <1>3
  <2>2. x[1] = y[1]
    BY <1>3, <1>11, <2>1
  <2> QED BY <1>3, <2>1, <2>2
<1>5. \A y \in T : \E x \in S : move[x] = y
  <2> SUFFICES ASSUME NEW y \in T PROVE \E x \in S : move[x] = y
    OBVIOUS
  <2>1. PICK i \in I : \E u \in 1..b[i].flushN : y = <<i + d, u>>
    BY <1>2
  <2>2. PICK u \in 1..b[i].flushN : y = <<i + d, u>>
    BY <2>1
  <2>3. <<i, u>> \in S
    BY <1>1
  <2> QED BY <2>2, <2>3, <1>3
<1>6. move \in Bijection(S, T)
  BY <1>3, <1>4, <1>5 DEF Bijection, Injection, Surjection, IsInjective
<1>7. IsFiniteSet(S)
  BY UnitsFinite DEF S
<1>8. Cardinality(T) = Cardinality(S)
  BY <1>6, <1>7, FS_Bijection DEF ExistsBijection
<1>9. IsFiniteSet(J)
  <2> DEFINE step == [i \in I |-> i + d]
  <2>1. step \in Surjection(I, J)
    BY <1>11 DEF Surjection
  <2> QED BY <2>1, FS_Surjection DEF Carriers
<1>10. \A j \in J : c[j].flushN \in Nat
  BY <1>11 DEF Carriers
<1> QED BY <1>8, <1>9, <1>10 DEF Carriers, Total, S, T

LEMMA TotalWithin ==
    ASSUME NEW b, NEW I, NEW J, Carriers(b, J), I \subseteq J
    PROVE  Carriers(b, I) /\ Total(b, I) <= Total(b, J)
<1>1. Units(b, I) \subseteq Units(b, J)
  BY DEF Units
<1>2. IsFiniteSet(I)
  BY FS_Subset DEF Carriers
<1>3. Total(b, I) <= Total(b, J)
  BY <1>1, UnitsFinite, FS_Subset DEF Total
<1> QED BY <1>2, <1>3 DEF Carriers

LEMMA TotalWithout ==
    ASSUME NEW b, NEW I, NEW i \in I, Carriers(b, I)
    PROVE  Total(b, I) = Total(b, I \ {i}) + b[i].flushN
<1>1. Carriers(b, I \ {i}) /\ Carriers(b, {i}) /\ Total(b, {i}) = b[i].flushN
  BY TotalOne, TotalWithin DEF Carriers
<1>2. (I \ {i}) \cap {i} = {} /\ (I \ {i}) \cup {i} = I
  OBVIOUS
<1>3. Total(b, (I \ {i}) \cup {i}) = Total(b, I \ {i}) + Total(b, {i})
  BY <1>1, <1>2, TotalSplit
<1> QED BY <1>1, <1>2, <1>3

LEMMA PendingCarriers ==
    ASSUME NEW b \in Seq(Pending), NEW I \in SUBSET DOMAIN b
    PROVE  Carriers(b, I) /\ I \in SUBSET Int /\ Total(b, I) \in Nat
<1>1. DOMAIN b = 1..Len(b) /\ Len(b) \in Nat
  OBVIOUS
<1>2. IsFiniteSet(I)
  BY <1>1, IntervalCount, FS_Subset
<1>3. \A i \in I : b[i] \in Pending
  BY <1>1
<1>4. \A i \in I : b[i].flushN \in Nat
  BY <1>3 DEF Pending
<1>5. I \in SUBSET Int
  BY <1>1
<1> QED BY <1>2, <1>4, <1>5, UnitsFinite DEF Carriers

\* What a batch loses with its first entry.
LEMMA TailTotal ==
    ASSUME NEW b \in Seq(Pending), b # <<>>, NEW I \in SUBSET DOMAIN b, NEW J \in SUBSET DOMAIN Tail(b),
           \A i \in DOMAIN Tail(b) : i \in J <=> i + 1 \in I
    PROVE  Total(b, I) = Total(Tail(b), J) + (IF 1 \in I THEN Head(b).flushN ELSE 0)
<1>1. /\ Tail(b) \in Seq(Pending) /\ Head(b) = b[1]
      /\ \A i \in DOMAIN Tail(b) : i \in Nat /\ i + 1 \in DOMAIN b /\ Tail(b)[i] = b[i + 1]
      /\ \A i \in DOMAIN b : i \in Nat /\ (i = 1 \/ i - 1 \in DOMAIN Tail(b))
  <2>1. /\ Tail(b) \in Seq(Pending) /\ Head(b) = b[1]
        /\ Len(b) \in Nat /\ DOMAIN b = 1..Len(b) /\ DOMAIN Tail(b) = 1..(Len(b) - 1)
        /\ \A i \in DOMAIN Tail(b) : i + 1 \in DOMAIN b /\ Tail(b)[i] = b[i + 1]
        /\ \A i \in DOMAIN b : i = 1 \/ i - 1 \in DOMAIN Tail(b)
    BY TailEntries
  <2> QED BY <2>1
<1> DEFINE K == I \ {1}
<1>2. (\A j \in K : \E i \in J : j = i + 1) /\ \A i \in J : i + 1 \in K
  <2>1. ASSUME NEW j \in K PROVE \E i \in J : j = i + 1
    BY <1>1, <2>1
  <2>2. ASSUME NEW i \in J PROVE i + 1 \in K
    BY <1>1, <2>2
  <2> QED BY <2>1, <2>2
<1>3. Carriers(Tail(b), J) /\ J \in SUBSET Int
  BY <1>1, PendingCarriers
<1> DEFINE c == Tail(b)
<1>4. \A i \in J : b[i + 1].flushN = c[i].flushN
  BY <1>1
<1>6. Carriers(b, I) /\ Total(b, K) \in Nat /\ Carriers(c, J) /\ K = I \ {1}
  BY <1>3, PendingCarriers
<1> HIDE DEF c, K
<1>9. 1 \in Int /\ J \in SUBSET Int /\ \A i \in J : i + 1 \in K /\ b[i + 1].flushN = c[i].flushN
  BY <1>2, <1>3, <1>4
<1>11. K = {i + 1 : i \in J}
  BY <1>2
<1>12. Shifted(c, J, b, K, 1)
  BY <1>9, <1>11 DEF Shifted
<1>5. Total(b, K) = Total(c, J)
  <2>1. Carriers(b, K) /\ Total(b, K) = Total(c, J)
    BY <1>6, <1>12, TotalShift
  <2> QED BY <2>1
<1>10. b[1].flushN = Head(b).flushN
  BY <1>1
<1>7. CASE 1 \in I
  <2>1. Total(b, I) = Total(b, I \ {1}) + b[1].flushN
    BY <1>6, <1>7, TotalWithout
  <2> QED BY <1>5, <1>6, <1>7, <1>10, <2>1 DEF c
<1>8. CASE 1 \notin I
  <2>1. K = I
    BY <1>6, <1>8
  <2>2. Total(b, I) = Total(Tail(b), J) /\ Total(b, I) \in Nat
    BY <1>5, <1>6, <2>1 DEF c
  <2> QED BY <1>8, <2>2
<1> QED BY <1>7, <1>8

LEMMA ConcatTotal ==
    ASSUME NEW a \in Seq(Pending), NEW b \in Seq(Pending),
           NEW I \in SUBSET DOMAIN a, NEW J \in SUBSET DOMAIN b, NEW K \in SUBSET DOMAIN (a \o b),
           \A i \in DOMAIN a : i \in K <=> i \in I,
           \A i \in DOMAIN b : Len(a) + i \in K <=> i \in J
    PROVE  Total(a \o b, K) = Total(a, I) + Total(b, J)
<1> DEFINE c == a \o b
           L == {i + Len(a) : i \in J}
<1>1. /\ c \in Seq(Pending) /\ Len(a) \in Nat /\ DOMAIN a = 1..Len(a) /\ DOMAIN b \in SUBSET (Nat \ {0})
      /\ \A i \in DOMAIN a : i \in DOMAIN c /\ c[i] = a[i]
      /\ \A i \in DOMAIN b : Len(a) + i \in DOMAIN c /\ c[Len(a) + i] = b[i]
      /\ \A i \in DOMAIN c : i \in DOMAIN a \/ i - Len(a) \in DOMAIN b
  <2>1. Len(a) \in Nat /\ DOMAIN a = 1..Len(a) /\ DOMAIN b \in SUBSET (Nat \ {0})
    OBVIOUS
  <2> QED BY <2>1, ConcatEntries
<1>2. Carriers(a, I) /\ Carriers(b, J) /\ J \in SUBSET Int
  BY PendingCarriers
<1> DEFINE m == Len(a)
<1>3. \A i \in DOMAIN c : i \in Int
  BY <1>1
<1> HIDE DEF c
<1>4. \A i \in J : c[i + m].flushN = b[i].flushN
  <2> SUFFICES ASSUME NEW i \in J PROVE c[i + m].flushN = b[i].flushN
    OBVIOUS
  <2>1. i + m = Len(a) + i
    BY <1>1
  <2> QED BY <1>1, <2>1
<1>11. /\ \A j \in L : \E i \in J : j = i + m
       /\ \A i \in J : i + m \in L /\ c[i + m].flushN = b[i].flushN
       /\ m \in Int /\ J \in SUBSET Int
  BY <1>1, <1>2, <1>4
<1> HIDE DEF L, m
<1>12. L = {i + m : i \in J}
  BY DEF L, m
<1>13. Shifted(b, J, c, L, m)
  BY <1>11, <1>12 DEF Shifted
<1>5. Carriers(c, L) /\ Total(c, L) = Total(b, J)
  BY <1>2, <1>13, TotalShift
<1> USE DEF L, m
<1>6. Total(c, I) = Total(a, I)
  BY <1>1, TotalSame
<1>7. I \cap L = {}
  BY <1>1
<1>8. I \cup L = K
  <2>1. ASSUME NEW x \in K PROVE x \in I \cup L
    <3>1. x \in DOMAIN c /\ x \in Int
      BY <1>3, <2>1 DEF c
    <3>2. CASE x \in DOMAIN a
      BY <2>1, <3>2
    <3>3. CASE x - m \in DOMAIN b
      <4>1. x = m + (x - m) /\ x = (x - m) + m
        BY <1>1, <3>1
      <4>2. x - m \in J
        BY <2>1, <3>3, <4>1
      <4> QED BY <4>1, <4>2
    <3> QED BY <1>1, <3>1, <3>2, <3>3
  <2>2. ASSUME NEW x \in I PROVE x \in K
    BY <2>2
  <2>3. ASSUME NEW x \in J PROVE x + m \in K
    <3>1. x + m = Len(a) + x
      BY <1>1, <2>3
    <3> QED BY <2>3, <3>1
  <2> QED BY <2>1, <2>2, <2>3
<1>9. Carriers(c, I)
  BY <1>1, <1>2 DEF Carriers
<1>10. Total(c, I \cup L) = Total(c, I) + Total(c, L)
  BY <1>5, <1>7, <1>9, TotalSplit
<1> QED BY <1>5, <1>6, <1>8, <1>10 DEF c

LEMMA AppendTotal ==
    ASSUME NEW b \in Seq(Pending), NEW p \in Pending, NEW I \in SUBSET DOMAIN b, NEW K \in SUBSET DOMAIN Append(b, p),
           \A i \in DOMAIN b : i \in K <=> i \in I
    PROVE  Total(Append(b, p), K) = Total(b, I) + (IF Len(b) + 1 \in K THEN p.flushN ELSE 0)
<1> DEFINE c == Append(b, p)
           n == Len(b) + 1
<1>1. /\ c \in Seq(Pending) /\ n \in DOMAIN c /\ c[n] = p /\ n \notin DOMAIN b
      /\ DOMAIN c = DOMAIN b \cup {n} /\ \A i \in DOMAIN b : c[i] = b[i]
  OBVIOUS
<1> HIDE DEF c, n
<1>2. K \ {n} = I
  BY <1>1 DEF c
<1>3. Total(c, I) = Total(b, I)
  BY <1>1, TotalSame
<1>4. Carriers(c, K) /\ Total(b, I) \in Nat
  BY <1>1, PendingCarriers DEF c
<1>5. CASE n \in K
  <2>1. Total(c, K) = Total(c, K \ {n}) + c[n].flushN
    BY <1>4, <1>5, TotalWithout
  <2> QED BY <1>1, <1>2, <1>3, <1>5, <2>1 DEF c, n
<1>6. CASE n \notin K
  <2>1. K = I
    BY <1>2, <1>6
  <2> QED BY <1>3, <1>4, <1>6, <2>1 DEF c, n
<1> QED BY <1>5, <1>6

-----------------------------------------------------------------------------
(* The entries of one window.                                              *)

PlacesOf(b, P) == {i \in DOMAIN b : b[i] \in P}

SumOf(b, P) == Total(b, PlacesOf(b, P))

LEMMA SumType ==
    ASSUME NEW b \in Seq(Pending), NEW P
    PROVE  /\ SumOf(b, P) \in Nat
           /\ (\A i \in DOMAIN b : b[i] \notin P) => SumOf(b, P) = 0
<1>1. PlacesOf(b, P) \in SUBSET DOMAIN b
  BY DEF PlacesOf
<1>2. SumOf(b, P) \in Nat
  BY <1>1, PendingCarriers DEF SumOf
<1>3. (\A i \in DOMAIN b : b[i] \notin P) => PlacesOf(b, P) = {}
  BY DEF PlacesOf
<1> QED BY <1>2, <1>3, TotalEmpty DEF SumOf

LEMMA SumConcat ==
    ASSUME NEW a \in Seq(Pending), NEW b \in Seq(Pending), NEW P
    PROVE  SumOf(a \o b, P) = SumOf(a, P) + SumOf(b, P)
<1> DEFINE I == PlacesOf(a, P)
           J == PlacesOf(b, P)
           K == PlacesOf(a \o b, P)
<1>1. I \in SUBSET DOMAIN a /\ J \in SUBSET DOMAIN b /\ K \in SUBSET DOMAIN (a \o b)
  BY DEF PlacesOf
<1>2. /\ \A i \in DOMAIN a : i \in DOMAIN (a \o b) /\ (a \o b)[i] = a[i]
      /\ \A i \in DOMAIN b : Len(a) + i \in DOMAIN (a \o b) /\ (a \o b)[Len(a) + i] = b[i]
  BY ConcatEntries
<1>3. \A i \in DOMAIN a : i \in K <=> i \in I
  BY <1>2 DEF PlacesOf
<1>4. \A i \in DOMAIN b : Len(a) + i \in K <=> i \in J
  BY <1>2 DEF PlacesOf
<1> HIDE DEF I, J, K
<1>5. Total(a \o b, K) = Total(a, I) + Total(b, J)
  BY <1>1, <1>3, <1>4, ConcatTotal
<1> QED BY <1>5 DEF SumOf, I, J, K

LEMMA SumAppend ==
    ASSUME NEW b \in Seq(Pending), NEW p \in Pending, NEW P
    PROVE  SumOf(Append(b, p), P) = SumOf(b, P) + (IF p \in P THEN p.flushN ELSE 0)
<1> DEFINE I == PlacesOf(b, P)
           K == PlacesOf(Append(b, p), P)
<1>1. I \in SUBSET DOMAIN b /\ K \in SUBSET DOMAIN Append(b, p)
  BY DEF PlacesOf
<1>2. \A i \in DOMAIN b : i \in DOMAIN Append(b, p) /\ Append(b, p)[i] = b[i]
  OBVIOUS
<1>3. Len(b) + 1 \in DOMAIN Append(b, p) /\ Append(b, p)[Len(b) + 1] = p
  OBVIOUS
<1>4. \A i \in DOMAIN b : i \in K <=> i \in I
  BY <1>2 DEF PlacesOf
<1>5. Len(b) + 1 \in K <=> p \in P
  BY <1>3 DEF PlacesOf
<1> HIDE DEF I, K
<1>6. Total(Append(b, p), K) = Total(b, I) + (IF Len(b) + 1 \in K THEN p.flushN ELSE 0)
  BY <1>1, <1>4, AppendTotal
<1> QED BY <1>5, <1>6 DEF SumOf, I, K

LEMMA SumSingle ==
    ASSUME NEW b \in Seq(Pending), NEW P, NEW n \in DOMAIN b, b[n] \in P,
           \A i \in DOMAIN b : b[i] \in P => i = n
    PROVE  SumOf(b, P) = b[n].flushN
<1>1. PlacesOf(b, P) = {n}
  BY DEF PlacesOf
<1>2. b[n].flushN \in Nat
  <2>1. b[n] \in Pending
    OBVIOUS
  <2> QED BY <2>1 DEF Pending
<1> QED BY <1>1, <1>2, TotalOne DEF SumOf

-----------------------------------------------------------------------------
(* What was admitted and what Redis counts, unit by unit.                  *)

\* The deltas of window w of key k that were taken from an evicted state, and the others.
EvictedOf(k, w) == {p \in Pending : p.key = k /\ p.ws = w /\ p.evicted}
OwnedBy(k, w)   == {p \in Pending : p.key = k /\ p.ws = w /\ ~p.evicted}

\* Redis has answered entry i of the flush in progress r.
Heard(r, i) == r.pc \in {"exec", "apply"} /\ i \in DOMAIN r.res /\ r.res[i] # -1

\* The entries for a window in a flush in progress: evicted deltas that Redis has not
\* answered, deltas of the key's state, and those of them that Redis has answered.
DueOf(r, k, w)  == {i \in PlacesOf(r.batch, EvictedOf(k, w)) : r.pc \in Open /\ ~Heard(r, i)}
OwnOf(r, k, w)  == {i \in PlacesOf(r.batch, OwnedBy(k, w)) : r.pc \in Open}
ToldOf(r, k, w) == {i \in OwnOf(r, k, w) : Heard(r, i)}

Due(r, k, w)  == Total(r.batch, DueOf(r, k, w))
Own(r, k, w)  == Total(r.batch, OwnOf(r, k, w))
Told(r, k, w) == Total(r.batch, ToldOf(r, k, w))

\* The units of a window that the limiter knows of: what its state owes, what waits in the
\* stripe of the key, ...
Local(k, w)   == IF states[k].windowStart = w THEN states[k].localDelta ELSE 0
Waiting(k, w) == SumOf(evictedPending[StripeOf[k]], EvictedOf(k, w))

\* ... what Redis counts or is still to count of evicted states, ...
Carrying(k, w) ==
    redis[<<k, w>>] + Waiting(k, w) + Due(fl[Worker], k, w) + Due(fl[Closer], k, w)

\* ... and of the state's delta, what is in a batch and what Redis has counted of that.
Taking(k, w)   == Own(fl[Worker], k, w) + Own(fl[Closer], k, w)
Counting(k, w) == Told(fl[Worker], k, w) + Told(fl[Closer], k, w)

Asked(k, w) == admitted[<<k, w>>] + others[<<k, w>>]

\* Nothing is counted twice.  What is in a batch is part of the state's delta, or the state
\* it was made from is gone and it is counted on its own.
NotTwice(k, w) ==
    \/ /\ Taking(k, w) <= Local(k, w)
       /\ Carrying(k, w) + Local(k, w) - Counting(k, w) <= Asked(k, w)
    \/ Carrying(k, w) + Local(k, w) + Taking(k, w) - Counting(k, w) <= Asked(k, w)

\* Nothing is missing.
NotMissing(k, w) == Carrying(k, w) + Local(k, w) - Counting(k, w) >= Asked(k, w)

Twice   == {"lostReply", "evictedInFlight"}
Missing == {"dropped", "evictedInFlight", "expired"}

TakenOnce == \A k \in Keys, w \in Windows : Marked(k, w, Twice) \/ NotTwice(k, w)
TakenAll  == \A k \in Keys, w \in Windows : Marked(k, w, Missing) \/ NotMissing(k, w)

\* An evicted delta waits in the stripe of its key.
Housed ==
    \A s \in Stripes : \A i \in DOMAIN evictedPending[s] : StripeOf[evictedPending[s][i].key] = s

LedgerInv == QuotaInv /\ Housed /\ TakenOnce /\ TakenAll

\* A flush in progress carries whole units, and none when it is not in its batch.
LEMMA FlushSums ==
    ASSUME NEW r \in FlushProgress, NEW k, NEW w
    PROVE  /\ Due(r, k, w) \in Nat /\ Own(r, k, w) \in Nat /\ Told(r, k, w) \in Nat
           /\ Told(r, k, w) <= Own(r, k, w)
           /\ r.pc \notin Open \/ r.batch = <<>>
                 => Due(r, k, w) = 0 /\ Own(r, k, w) = 0 /\ Told(r, k, w) = 0
<1>1. r.batch \in Seq(Pending)
  BY DEF FlushProgress
<1>2. /\ DueOf(r, k, w) \in SUBSET DOMAIN r.batch
      /\ OwnOf(r, k, w) \in SUBSET DOMAIN r.batch
      /\ ToldOf(r, k, w) \in SUBSET DOMAIN r.batch /\ ToldOf(r, k, w) \subseteq OwnOf(r, k, w)
  BY DEF DueOf, OwnOf, ToldOf, PlacesOf
<1>3. /\ Due(r, k, w) \in Nat /\ Own(r, k, w) \in Nat /\ Told(r, k, w) \in Nat
      /\ Carriers(r.batch, OwnOf(r, k, w))
  BY <1>1, <1>2, PendingCarriers DEF Due, Own, Told
<1>4. Told(r, k, w) <= Own(r, k, w)
  BY <1>2, <1>3, TotalWithin DEF Own, Told
<1>5. ASSUME r.pc \notin Open \/ r.batch = <<>>
      PROVE  Due(r, k, w) = 0 /\ Own(r, k, w) = 0 /\ Told(r, k, w) = 0
  <2>1. DueOf(r, k, w) = {} /\ OwnOf(r, k, w) = {} /\ ToldOf(r, k, w) = {}
    BY <1>5 DEF DueOf, OwnOf, ToldOf, PlacesOf
  <2> QED BY <2>1, TotalEmpty DEF Due, Own, Told
<1> QED BY <1>3, <1>4, <1>5

LEMMA LedgerTypes ==
    ASSUME TypeInv, NEW k \in Keys, NEW w \in Windows
    PROVE  /\ redis[<<k, w>>] \in Nat /\ Waiting(k, w) \in Nat /\ Local(k, w) \in Nat
           /\ admitted[<<k, w>>] \in Nat /\ others[<<k, w>>] \in Nat
           /\ StripeOf[k] \in Stripes /\ evictedPending[StripeOf[k]] \in Seq(Pending)
           /\ \A f \in Flushers : fl[f] \in FlushProgress
           /\ Carrying(k, w) \in Nat /\ Taking(k, w) \in Nat /\ Counting(k, w) \in Nat
           /\ Counting(k, w) <= Taking(k, w) /\ Asked(k, w) \in Nat
<1>1. /\ redis[<<k, w>>] \in Nat /\ admitted[<<k, w>>] \in Nat /\ others[<<k, w>>] \in Nat
  BY DEF TypeInv, TypeOK, RedisTypes, HistoryTypes, KeyWindows
<1>2. StripeOf[k] \in Stripes /\ evictedPending[StripeOf[k]] \in Seq(Pending)
  BY LocalAsyncAssumption DEF TypeInv, TypeOK, StripeTypes, Stripes
<1>3. Waiting(k, w) \in Nat
  BY <1>2, SumType DEF Waiting
<1>4. Local(k, w) \in Nat
  BY DEF Local, TypeInv, TypeOK, StripeTypes, LocalState
<1>5. \A f \in Flushers : fl[f] \in FlushProgress
  BY DEF TypeInv, TypeOK, FlushTypes
<1>6. \A f \in Flushers : /\ Due(fl[f], k, w) \in Nat /\ Own(fl[f], k, w) \in Nat
                          /\ Told(fl[f], k, w) \in Nat /\ Told(fl[f], k, w) <= Own(fl[f], k, w)
  BY <1>5, FlushSums
<1>7. Worker \in Flushers /\ Closer \in Flushers
  BY DEF Flushers
<1>8. /\ Due(fl[Worker], k, w) \in Nat /\ Due(fl[Closer], k, w) \in Nat
      /\ Own(fl[Worker], k, w) \in Nat /\ Own(fl[Closer], k, w) \in Nat
      /\ Told(fl[Worker], k, w) \in Nat /\ Told(fl[Closer], k, w) \in Nat
      /\ Told(fl[Worker], k, w) <= Own(fl[Worker], k, w)
      /\ Told(fl[Closer], k, w) <= Own(fl[Closer], k, w)
  BY <1>6, <1>7
<1>9. /\ Carrying(k, w) \in Nat /\ Taking(k, w) \in Nat /\ Counting(k, w) \in Nat
      /\ Counting(k, w) <= Taking(k, w) /\ Asked(k, w) \in Nat
  BY <1>1, <1>3, <1>8 DEF Carrying, Taking, Counting, Asked
<1> QED BY <1>1, <1>2, <1>3, <1>4, <1>5, <1>9

-----------------------------------------------------------------------------
(* What each move of a flush does to the units it carries.                 *)

\* The flush goes on with the batch it has, and Redis has answered the same entries.
LEMMA FlushSame ==
    ASSUME NEW r, NEW q, NEW k, NEW w, q.batch = r.batch, r.pc \in Open, q.pc \in Open,
           \A i \in DOMAIN r.batch :
              r.batch[i].key = k /\ r.batch[i].ws = w => (Heard(q, i) <=> Heard(r, i))
    PROVE  Due(q, k, w) = Due(r, k, w) /\ Own(q, k, w) = Own(r, k, w) /\ Told(q, k, w) = Told(r, k, w)
<1>1. DueOf(q, k, w) = DueOf(r, k, w)
  BY DEF DueOf, PlacesOf, EvictedOf
<1>2. OwnOf(q, k, w) = OwnOf(r, k, w)
  BY DEF OwnOf, PlacesOf
<1>3. ToldOf(q, k, w) = ToldOf(r, k, w)
  <2>1. \A i \in OwnOf(r, k, w) : i \in DOMAIN r.batch /\ r.batch[i].key = k /\ r.batch[i].ws = w
    BY DEF OwnOf, PlacesOf, OwnedBy
  <2> QED BY <1>2, <2>1 DEF ToldOf
<1> QED BY <1>1, <1>2, <1>3 DEF Due, Own, Told

\* Redis answers entry n: an evicted delta is no longer due, another one is told.
LEMMA FlushHears ==
    ASSUME NEW r \in FlushProgress, NEW q, NEW k, NEW w, NEW n \in DOMAIN r.batch,
           q.batch = r.batch, r.pc \in Open, q.pc \in Open,
           ~Heard(r, n), Heard(q, n),
           \A i \in DOMAIN r.batch : i # n => (Heard(q, i) <=> Heard(r, i))
    PROVE  LET p == r.batch[n] IN
           /\ Due(r, k, w) = Due(q, k, w) + (IF p \in EvictedOf(k, w) THEN p.flushN ELSE 0)
           /\ Own(q, k, w) = Own(r, k, w)
           /\ Told(q, k, w) = Told(r, k, w) + (IF p \in OwnedBy(k, w) THEN p.flushN ELSE 0)
<1> DEFINE b == r.batch
           p == r.batch[n]
           D == DueOf(r, k, w)
           T == ToldOf(q, k, w)
<1>1. /\ b \in Seq(Pending) /\ D \in SUBSET DOMAIN b /\ T \in SUBSET DOMAIN b
      /\ DueOf(q, k, w) \in SUBSET DOMAIN b /\ ToldOf(r, k, w) \in SUBSET DOMAIN b
  BY DEF FlushProgress, DueOf, ToldOf, OwnOf, PlacesOf
<1>2. OwnOf(q, k, w) = OwnOf(r, k, w)
  BY DEF OwnOf, PlacesOf
<1>3. DueOf(q, k, w) = D \ {n} /\ (n \in D <=> p \in EvictedOf(k, w))
  BY DEF DueOf, PlacesOf
<1>4. ToldOf(r, k, w) = T \ {n} /\ (n \in T <=> p \in OwnedBy(k, w))
  BY DEF ToldOf, OwnOf, PlacesOf
<1> HIDE DEF D, T
<1>5. Carriers(b, D) /\ Total(b, D) \in Nat /\ Carriers(b, T) /\ Total(b, T) \in Nat
  BY <1>1, PendingCarriers
<1>6. Total(b, D) = Total(b, D \ {n}) + (IF p \in EvictedOf(k, w) THEN p.flushN ELSE 0)
  <2>1. CASE n \in D
    BY <1>3, <1>5, <2>1, TotalWithout
  <2>2. CASE n \notin D
    <3>1. D \ {n} = D
      BY <2>2
    <3> QED BY <1>3, <1>5, <2>2, <3>1
  <2> QED BY <2>1, <2>2
<1>7. Total(b, T) = Total(b, T \ {n}) + (IF p \in OwnedBy(k, w) THEN p.flushN ELSE 0)
  <2>1. CASE n \in T
    BY <1>4, <1>5, <2>1, TotalWithout
  <2>2. CASE n \notin T
    <3>1. T \ {n} = T
      BY <2>2
    <3> QED BY <1>4, <1>5, <2>2, <3>1
  <2> QED BY <2>1, <2>2
<1> QED BY <1>2, <1>3, <1>4, <1>6, <1>7 DEF Due, Own, Told, D, T

\* The replies of some entries are lost.
LEMMA FlushLoses ==
    ASSUME NEW r \in FlushProgress, NEW q, NEW k, NEW w, q.batch = r.batch, r.pc \in Open, q.pc \in Open,
           \A i \in DOMAIN r.batch : Heard(q, i) => Heard(r, i)
    PROVE  /\ Due(q, k, w) >= Due(r, k, w) /\ Due(q, k, w) \in Nat
           /\ Own(q, k, w) = Own(r, k, w)
           /\ Told(q, k, w) <= Told(r, k, w) /\ Told(q, k, w) \in Nat
<1> DEFINE b == r.batch
<1>1. /\ b \in Seq(Pending) /\ DueOf(q, k, w) \in SUBSET DOMAIN b /\ ToldOf(r, k, w) \in SUBSET DOMAIN b
      /\ ToldOf(q, k, w) \in SUBSET DOMAIN b
  BY DEF FlushProgress, DueOf, ToldOf, OwnOf, PlacesOf
<1>2. OwnOf(q, k, w) = OwnOf(r, k, w)
  BY DEF OwnOf, PlacesOf
<1>3. DueOf(r, k, w) \subseteq DueOf(q, k, w)
  BY DEF DueOf, PlacesOf
<1>4. ToldOf(q, k, w) \subseteq ToldOf(r, k, w)
  <2>1. OwnOf(r, k, w) \subseteq DOMAIN r.batch
    BY DEF OwnOf, PlacesOf
  <2> QED BY <1>2, <2>1 DEF ToldOf
<1>5. /\ Carriers(b, DueOf(q, k, w)) /\ Total(b, DueOf(q, k, w)) \in Nat
      /\ Carriers(b, ToldOf(r, k, w)) /\ Total(b, ToldOf(q, k, w)) \in Nat
  BY <1>1, PendingCarriers
<1>6. Total(b, DueOf(q, k, w)) >= Total(b, DueOf(r, k, w))
  <2>1. Total(b, DueOf(r, k, w)) <= Total(b, DueOf(q, k, w))
    BY <1>3, <1>5, TotalWithin
  <2>2. Total(b, DueOf(r, k, w)) \in Nat
    <3>1. DueOf(r, k, w) \in SUBSET DOMAIN b
      BY <1>1, <1>3
    <3> QED BY <1>1, <3>1, PendingCarriers
  <2> QED BY <1>5, <2>1, <2>2
<1>7. Total(b, ToldOf(q, k, w)) <= Total(b, ToldOf(r, k, w))
  BY <1>4, <1>5, TotalWithin
<1> QED BY <1>2, <1>5, <1>6, <1>7 DEF Due, Own, Told

\* One result is applied: its entry leaves the batch.
LEMMA FlushTail ==
    ASSUME NEW r \in FlushProgress, NEW q, NEW k, NEW w, r.pc = "apply", r.batch # <<>>,
           Len(r.res) = Len(r.batch), q.batch = Tail(r.batch), q.res = Tail(r.res),
           q.pc = "apply" \/ Len(r.batch) = 1
    PROVE  LET p == Head(r.batch)
               heard == Head(r.res) # -1
           IN  /\ Due(r, k, w) = Due(q, k, w) + (IF p \in EvictedOf(k, w) /\ ~heard THEN p.flushN ELSE 0)
               /\ Own(r, k, w) = Own(q, k, w) + (IF p \in OwnedBy(k, w) THEN p.flushN ELSE 0)
               /\ Told(r, k, w) = Told(q, k, w) + (IF p \in OwnedBy(k, w) /\ heard THEN p.flushN ELSE 0)
<1> DEFINE b == r.batch
           c == Tail(r.batch)
           p == Head(r.batch)
<1>1. /\ b \in Seq(Pending) /\ r.res \in Seq(Nat \cup {-1}) /\ r.res # <<>>
  BY DEF FlushProgress
<1>2. /\ Len(b) \in Nat \ {0} /\ DOMAIN b = 1..Len(b) /\ DOMAIN c = 1..(Len(b) - 1)
      /\ p = b[1] /\ \A i \in DOMAIN c : i + 1 \in DOMAIN b /\ c[i] = b[i + 1]
  BY <1>1, TailEntries
<1>3. /\ DOMAIN r.res = 1..Len(b) /\ DOMAIN q.res = 1..(Len(b) - 1) /\ Head(r.res) = r.res[1]
      /\ \A i \in DOMAIN q.res : i + 1 \in DOMAIN r.res /\ q.res[i] = r.res[i + 1]
  BY <1>1, TailEntries
<1>4. \A i \in DOMAIN c : q.pc = "apply" /\ q.pc \in Open /\ i \in Nat
  BY <1>2 DEF Open
<1>5. r.pc \in Open /\ 1 \in DOMAIN b /\ (Heard(r, 1) <=> Head(r.res) # -1)
  BY <1>2, <1>3 DEF Open, Heard
<1>6. \A i \in DOMAIN c : Heard(q, i) <=> Heard(r, i + 1)
  BY <1>2, <1>3, <1>4 DEF Heard
<1> HIDE DEF b, c, p
<1>7. q.batch = c /\ r.batch = b
  BY DEF b, c
<1>8. /\ \A i \in DOMAIN c : i \in DueOf(q, k, w) <=> i + 1 \in DueOf(r, k, w)
      /\ 1 \in DueOf(r, k, w) <=> p \in EvictedOf(k, w) /\ Head(r.res) = -1
  BY <1>2, <1>4, <1>5, <1>6, <1>7 DEF DueOf, PlacesOf
<1>9. /\ \A i \in DOMAIN c : i \in OwnOf(q, k, w) <=> i + 1 \in OwnOf(r, k, w)
      /\ 1 \in OwnOf(r, k, w) <=> p \in OwnedBy(k, w)
  BY <1>2, <1>4, <1>5, <1>7 DEF OwnOf, PlacesOf
<1>10. /\ \A i \in DOMAIN c : i \in ToldOf(q, k, w) <=> i + 1 \in ToldOf(r, k, w)
       /\ 1 \in ToldOf(r, k, w) <=> p \in OwnedBy(k, w) /\ Head(r.res) # -1
  BY <1>5, <1>6, <1>9 DEF ToldOf
<1>11. /\ DueOf(r, k, w) \in SUBSET DOMAIN b /\ DueOf(q, k, w) \in SUBSET DOMAIN Tail(b)
       /\ OwnOf(r, k, w) \in SUBSET DOMAIN b /\ OwnOf(q, k, w) \in SUBSET DOMAIN Tail(b)
       /\ ToldOf(r, k, w) \in SUBSET DOMAIN b /\ ToldOf(q, k, w) \in SUBSET DOMAIN Tail(b)
       /\ c = Tail(b) /\ p = Head(b) /\ b # <<>>
  BY <1>7 DEF DueOf, OwnOf, ToldOf, PlacesOf, b, c, p
<1>12. Total(b, DueOf(r, k, w)) = Total(c, DueOf(q, k, w)) + (IF 1 \in DueOf(r, k, w) THEN p.flushN ELSE 0)
  BY <1>1, <1>8, <1>11, TailTotal DEF b
<1>13. Total(b, OwnOf(r, k, w)) = Total(c, OwnOf(q, k, w)) + (IF 1 \in OwnOf(r, k, w) THEN p.flushN ELSE 0)
  BY <1>1, <1>9, <1>11, TailTotal DEF b
<1>14. Total(b, ToldOf(r, k, w)) = Total(c, ToldOf(q, k, w)) + (IF 1 \in ToldOf(r, k, w) THEN p.flushN ELSE 0)
  BY <1>1, <1>10, <1>11, TailTotal DEF b
<1>15. Due(r, k, w) = Due(q, k, w) + (IF p \in EvictedOf(k, w) /\ Head(r.res) = -1 THEN p.flushN ELSE 0)
  BY <1>7, <1>8, <1>12 DEF Due
<1>16. Own(r, k, w) = Own(q, k, w) + (IF p \in OwnedBy(k, w) THEN p.flushN ELSE 0)
  BY <1>7, <1>9, <1>13 DEF Own
<1>17. Told(r, k, w) = Told(q, k, w) + (IF p \in OwnedBy(k, w) /\ Head(r.res) # -1 THEN p.flushN ELSE 0)
  BY <1>7, <1>10, <1>14 DEF Told
<1> QED BY <1>15, <1>16, <1>17 DEF p

\* In a snapshot nothing is answered: what the flush carries is what its batch has.
LEMMA SnapSums ==
    ASSUME NEW r \in FlushProgress, NEW k, NEW w, r.pc = "snap"
    PROVE  /\ Due(r, k, w) = SumOf(r.batch, EvictedOf(k, w))
           /\ Own(r, k, w) = SumOf(r.batch, OwnedBy(k, w))
           /\ Told(r, k, w) = 0
<1>1. \A i : ~Heard(r, i)
  BY DEF Heard
<1>2. /\ DueOf(r, k, w) = PlacesOf(r.batch, EvictedOf(k, w))
      /\ OwnOf(r, k, w) = PlacesOf(r.batch, OwnedBy(k, w)) /\ ToldOf(r, k, w) = {}
  BY <1>1 DEF DueOf, OwnOf, ToldOf, Open, PlacesOf
<1> QED BY <1>2, TotalEmpty DEF Due, Own, Told, SumOf

-----------------------------------------------------------------------------
(* The steps of the ledger.                                                *)

\* A step keeps the balance of a window, or leaves a mark.
Balanced(k, w) ==
    /\ Marked(k, w, Twice)' \/ (NotTwice(k, w) => NotTwice(k, w)')
    /\ Marked(k, w, Missing)' \/ (NotMissing(k, w) => NotMissing(k, w)')

LEMMA AllBalanced ==
    ASSUME TypeInv, BatchShape, [Next]_vars, TakenOnce, TakenAll,
           \A k \in Keys, w \in Windows : Balanced(k, w)
    PROVE  TakenOnce' /\ TakenAll'
<1>1. hist \subseteq hist'
  BY HistGrows
<1>2. \A k, w, E : Marked(k, w, E) => Marked(k, w, E)'
  BY <1>1 DEF Marked
<1>3. ASSUME NEW k \in Keys, NEW w \in Windows
      PROVE  /\ Marked(k, w, Twice)' \/ NotTwice(k, w)'
             /\ Marked(k, w, Missing)' \/ NotMissing(k, w)'
  <2>1. Balanced(k, w) /\ (Marked(k, w, Twice) \/ NotTwice(k, w))
        /\ (Marked(k, w, Missing) \/ NotMissing(k, w))
    BY <1>3, Zenon DEF TakenOnce, TakenAll
  <2> QED BY <1>2, <2>1, Zenon DEF Balanced
<1>4. TakenOnce'
  BY <1>3, Zenon DEF TakenOnce
<1>5. TakenAll'
  BY <1>3, Zenon DEF TakenAll
<1> QED BY <1>4, <1>5

\* Nothing of the window moves.
LEMMA BalanceSame ==
    ASSUME NEW k, NEW w, Carrying(k, w)' = Carrying(k, w), Taking(k, w)' = Taking(k, w),
           Counting(k, w)' = Counting(k, w), Local(k, w)' = Local(k, w), Asked(k, w)' = Asked(k, w)
    PROVE  Balanced(k, w)
BY DEF Balanced, NotTwice, NotMissing

\* The same types after a step.
LEMMA NextTypes ==
    ASSUME TypeInv', NEW k \in Keys, NEW w \in Windows
    PROVE  /\ redis'[<<k, w>>] \in Nat /\ Waiting(k, w)' \in Nat /\ Local(k, w)' \in Nat
           /\ admitted'[<<k, w>>] \in Nat /\ others'[<<k, w>>] \in Nat
           /\ evictedPending'[StripeOf[k]] \in Seq(Pending)
           /\ \A f \in Flushers : fl'[f] \in FlushProgress
           /\ Carrying(k, w)' \in Nat /\ Taking(k, w)' \in Nat /\ Counting(k, w)' \in Nat
           /\ Asked(k, w)' \in Nat
<1>1. /\ redis'[<<k, w>>] \in Nat /\ admitted'[<<k, w>>] \in Nat /\ others'[<<k, w>>] \in Nat
      /\ \A g \in Flushers : fl'[g] \in FlushProgress
  BY DEF TypeInv, TypeOK, RedisTypes, HistoryTypes, FlushTypes, KeyWindows
<1>2. StripeOf[k] \in Stripes /\ evictedPending'[StripeOf[k]] \in Seq(Pending)
  BY LocalAsyncAssumption DEF TypeInv, TypeOK, StripeTypes, Stripes
<1>3. Waiting(k, w)' \in Nat
  <2>1. SumOf(evictedPending'[StripeOf[k]], EvictedOf(k, w)) \in Nat
    BY <1>2, SumType
  <2> QED BY <2>1 DEF Waiting, EvictedOf
<1>4. Local(k, w)' \in Nat
  BY DEF Local, TypeInv, TypeOK, StripeTypes, LocalState
<1>5. Worker \in Flushers /\ Closer \in Flushers
  BY DEF Flushers
<1>6. \A f \in Flushers : /\ Due(fl'[f], k, w) \in Nat /\ Own(fl'[f], k, w) \in Nat
                          /\ Told(fl'[f], k, w) \in Nat
  BY <1>1, FlushSums
<1>7. /\ Due(fl'[Worker], k, w) \in Nat /\ Due(fl'[Closer], k, w) \in Nat
      /\ Own(fl'[Worker], k, w) \in Nat /\ Own(fl'[Closer], k, w) \in Nat
      /\ Told(fl'[Worker], k, w) \in Nat /\ Told(fl'[Closer], k, w) \in Nat
  BY <1>5, <1>6
<1>8. /\ Carrying(k, w)' = redis'[<<k, w>>] + Waiting(k, w)' + Due(fl'[Worker], k, w) + Due(fl'[Closer], k, w)
      /\ Taking(k, w)' = Own(fl'[Worker], k, w) + Own(fl'[Closer], k, w)
      /\ Counting(k, w)' = Told(fl'[Worker], k, w) + Told(fl'[Closer], k, w)
      /\ Asked(k, w)' = admitted'[<<k, w>>] + others'[<<k, w>>]
  BY DEF Carrying, Taking, Counting, Asked, Due, DueOf, Own, OwnOf, Told, ToldOf, EvictedOf, OwnedBy, PlacesOf, Heard
<1>9. /\ Carrying(k, w)' \in Nat /\ Taking(k, w)' \in Nat /\ Counting(k, w)' \in Nat
      /\ Asked(k, w)' \in Nat
  BY <1>1, <1>3, <1>7, <1>8
<1> QED BY <1>1, <1>2, <1>3, <1>4, <1>9

\* Only flusher f moves: what the other one carries stays.
LEMMA FlusherBalance ==
    ASSUME TypeInv, TypeInv', NEW f \in Flushers, OnlyMoves(f), NEW k \in Keys, NEW w \in Windows
    PROVE  \E a, b, c \in Nat :
              /\ Carrying(k, w) = redis[<<k, w>>] + Waiting(k, w) + Due(fl[f], k, w) + a
              /\ Carrying(k, w)' = redis'[<<k, w>>] + Waiting(k, w)' + Due(fl'[f], k, w) + a
              /\ Taking(k, w) = Own(fl[f], k, w) + b /\ Taking(k, w)' = Own(fl'[f], k, w) + b
              /\ Counting(k, w) = Told(fl[f], k, w) + c /\ Counting(k, w)' = Told(fl'[f], k, w) + c
<1>1. /\ redis[<<k, w>>] \in Nat /\ Waiting(k, w) \in Nat
      /\ redis'[<<k, w>>] \in Nat /\ Waiting(k, w)' \in Nat
      /\ \A g \in Flushers : fl[g] \in FlushProgress /\ fl'[g] \in FlushProgress
  BY LedgerTypes, NextTypes
<1>2. \A g \in Flushers : /\ Due(fl[g], k, w) \in Nat /\ Due(fl'[g], k, w) \in Nat
                          /\ Own(fl[g], k, w) \in Nat /\ Own(fl'[g], k, w) \in Nat
                          /\ Told(fl[g], k, w) \in Nat /\ Told(fl'[g], k, w) \in Nat
  BY <1>1, FlushSums
<1>3. PICK g \in Flushers : g # f /\ fl'[g] = fl[g] /\ {f, g} = {Worker, Closer}
  <2>1. Worker \in Flushers /\ Closer \in Flushers /\ Worker # Closer /\ (f = Worker \/ f = Closer)
    BY DEF Flushers, Worker, Closer
  <2> QED BY <2>1 DEF OnlyMoves
<1>4. /\ Carrying(k, w)' = redis'[<<k, w>>] + Waiting(k, w)' + Due(fl'[Worker], k, w) + Due(fl'[Closer], k, w)
      /\ Taking(k, w)' = Own(fl'[Worker], k, w) + Own(fl'[Closer], k, w)
      /\ Counting(k, w)' = Told(fl'[Worker], k, w) + Told(fl'[Closer], k, w)
  BY DEF Carrying, Taking, Counting, Due, DueOf, Own, OwnOf, Told, ToldOf, EvictedOf, OwnedBy, PlacesOf, Heard
<1>5. (f = Worker /\ g = Closer) \/ (f = Closer /\ g = Worker)
  BY <1>3
<1>6. /\ Carrying(k, w) = redis[<<k, w>>] + Waiting(k, w) + Due(fl[f], k, w) + Due(fl[g], k, w)
      /\ Carrying(k, w)' = redis'[<<k, w>>] + Waiting(k, w)' + Due(fl'[f], k, w) + Due(fl'[g], k, w)
  BY <1>1, <1>2, <1>3, <1>4, <1>5 DEF Carrying
<1>7. /\ Taking(k, w) = Own(fl[f], k, w) + Own(fl[g], k, w)
      /\ Taking(k, w)' = Own(fl'[f], k, w) + Own(fl'[g], k, w)
  BY <1>2, <1>3, <1>4, <1>5 DEF Taking
<1>8. /\ Counting(k, w) = Told(fl[f], k, w) + Told(fl[g], k, w)
      /\ Counting(k, w)' = Told(fl'[f], k, w) + Told(fl'[g], k, w)
  BY <1>2, <1>3, <1>4, <1>5 DEF Counting
<1>9. Due(fl[g], k, w) \in Nat /\ Own(fl[g], k, w) \in Nat /\ Told(fl[g], k, w) \in Nat
  BY <1>2
<1> QED BY <1>3, <1>6, <1>7, <1>8, <1>9

\* A flusher moves and Redis with it: the units it no longer carries are counted, those of
\* the state's own delta as told, and nothing else changes.
LEMMA BalanceFlow ==
    ASSUME TypeInv, TypeInv', NEW f \in Flushers, OnlyMoves(f), NEW k \in Keys, NEW w \in Windows,
           UNCHANGED <<states, admitted, others>>, Waiting(k, w)' = Waiting(k, w),
           Own(fl'[f], k, w) = Own(fl[f], k, w),
           redis'[<<k, w>>] + Due(fl'[f], k, w) + Told(fl[f], k, w)
              = redis[<<k, w>>] + Due(fl[f], k, w) + Told(fl'[f], k, w)
    PROVE  Balanced(k, w)
<1>1. /\ redis[<<k, w>>] \in Nat /\ Waiting(k, w) \in Nat /\ Local(k, w) \in Nat
      /\ Carrying(k, w) \in Nat /\ Taking(k, w) \in Nat /\ Counting(k, w) \in Nat
      /\ Asked(k, w) \in Nat /\ fl[f] \in FlushProgress
  BY LedgerTypes
<1>2. /\ redis'[<<k, w>>] \in Nat /\ Waiting(k, w)' \in Nat /\ Local(k, w)' \in Nat
      /\ Carrying(k, w)' \in Nat /\ Taking(k, w)' \in Nat /\ Counting(k, w)' \in Nat
      /\ Asked(k, w)' \in Nat /\ fl'[f] \in FlushProgress
  BY NextTypes
<1>3. /\ Due(fl[f], k, w) \in Nat /\ Own(fl[f], k, w) \in Nat /\ Told(fl[f], k, w) \in Nat
      /\ Due(fl'[f], k, w) \in Nat /\ Own(fl'[f], k, w) \in Nat /\ Told(fl'[f], k, w) \in Nat
  BY <1>1, <1>2, FlushSums
<1>4. PICK a, b, c \in Nat :
              /\ Carrying(k, w) = redis[<<k, w>>] + Waiting(k, w) + Due(fl[f], k, w) + a
              /\ Carrying(k, w)' = redis'[<<k, w>>] + Waiting(k, w)' + Due(fl'[f], k, w) + a
              /\ Taking(k, w) = Own(fl[f], k, w) + b /\ Taking(k, w)' = Own(fl'[f], k, w) + b
              /\ Counting(k, w) = Told(fl[f], k, w) + c /\ Counting(k, w)' = Told(fl'[f], k, w) + c
  BY FlusherBalance
<1>5. Local(k, w)' = Local(k, w) /\ Asked(k, w)' = Asked(k, w)
  BY DEF Local, Asked
<1>6. Taking(k, w)' = Taking(k, w)
  BY <1>4
<1>7. Carrying(k, w)' + Counting(k, w) = Carrying(k, w) + Counting(k, w)'
  <2>1. \A R, R1, D, D1, T, T1, W \in Nat : R1 + D1 + T = R + D + T1
           => (R1 + W + D1 + a) + (T + c) = (R + W + D + a) + (T1 + c)
    OBVIOUS
  <2>2. (redis'[<<k, w>>] + Waiting(k, w) + Due(fl'[f], k, w) + a) + (Told(fl[f], k, w) + c)
          = (redis[<<k, w>>] + Waiting(k, w) + Due(fl[f], k, w) + a) + (Told(fl'[f], k, w) + c)
    BY <1>1, <1>2, <1>3, <2>1
  <2> QED BY <1>4, <2>2
<1>8. NotTwice(k, w) => NotTwice(k, w)'
  BY <1>1, <1>2, <1>5, <1>6, <1>7 DEF NotTwice
<1>9. NotMissing(k, w) => NotMissing(k, w)'
  BY <1>1, <1>2, <1>5, <1>7 DEF NotMissing
<1> QED BY <1>8, <1>9 DEF Balanced

\* A flusher moves with what it carries, and nobody else does anything.
LEMMA BalanceCarried ==
    ASSUME TypeInv, TypeInv', NEW f \in Flushers, OnlyMoves(f), NEW k \in Keys, NEW w \in Windows,
           UNCHANGED <<states, evictedPending, redis, admitted, others>>,
           \/ fl[f].pc \notin Open /\ (fl'[f].pc \notin Open \/ fl'[f].batch = <<>>)
           \/ fl[f].batch = <<>> /\ fl'[f].batch = <<>>
           \/ /\ fl[f].pc \in Open /\ fl'[f].pc \in Open /\ fl'[f].batch = fl[f].batch
              /\ \A i \in DOMAIN fl[f].batch :
                    fl[f].batch[i].key = k /\ fl[f].batch[i].ws = w
                    => (Heard(fl'[f], i) <=> Heard(fl[f], i))
    PROVE  Balanced(k, w)
<1>1. fl[f] \in FlushProgress /\ fl'[f] \in FlushProgress /\ redis[<<k, w>>] \in Nat
  BY LedgerTypes, NextTypes
<1>2. /\ Due(fl[f], k, w) \in Nat /\ Told(fl[f], k, w) \in Nat
      /\ Due(fl'[f], k, w) = Due(fl[f], k, w) /\ Own(fl'[f], k, w) = Own(fl[f], k, w)
      /\ Told(fl'[f], k, w) = Told(fl[f], k, w)
  <2>1. CASE /\ fl[f].pc \notin Open \/ fl[f].batch = <<>>
             /\ fl'[f].pc \notin Open \/ fl'[f].batch = <<>>
    <3>1. Due(fl[f], k, w) = 0 /\ Own(fl[f], k, w) = 0 /\ Told(fl[f], k, w) = 0
      BY <1>1, <2>1, FlushSums
    <3>2. Due(fl'[f], k, w) = 0 /\ Own(fl'[f], k, w) = 0 /\ Told(fl'[f], k, w) = 0
      BY <1>1, <2>1, FlushSums
    <3> QED BY <3>1, <3>2
  <2>2. CASE /\ fl[f].pc \in Open /\ fl'[f].pc \in Open /\ fl'[f].batch = fl[f].batch
             /\ \A i \in DOMAIN fl[f].batch :
                   fl[f].batch[i].key = k /\ fl[f].batch[i].ws = w
                   => (Heard(fl'[f], i) <=> Heard(fl[f], i))
    <3>1. Due(fl'[f], k, w) = Due(fl[f], k, w) /\ Own(fl'[f], k, w) = Own(fl[f], k, w)
          /\ Told(fl'[f], k, w) = Told(fl[f], k, w)
      <4> DEFINE r == fl[f]
                 q == fl'[f]
      <4>1. /\ q.batch = r.batch /\ r.pc \in Open /\ q.pc \in Open
            /\ \A i \in DOMAIN r.batch :
                  r.batch[i].key = k /\ r.batch[i].ws = w => (Heard(q, i) <=> Heard(r, i))
        BY <2>2
      <4> HIDE DEF r, q
      <4>2. Due(q, k, w) = Due(r, k, w) /\ Own(q, k, w) = Own(r, k, w) /\ Told(q, k, w) = Told(r, k, w)
        BY <4>1, FlushSame
      <4> QED BY <4>2 DEF r, q
    <3> QED BY <1>1, <3>1, FlushSums
  <2> QED BY <2>1, <2>2
<1>3. Waiting(k, w)' = Waiting(k, w)
  BY DEF Waiting, EvictedOf
<1>4. redis'[<<k, w>>] + Due(fl'[f], k, w) + Told(fl[f], k, w)
         = redis[<<k, w>>] + Due(fl[f], k, w) + Told(fl'[f], k, w)
  BY <1>1, <1>2
<1> QED BY <1>2, <1>3, <1>4, BalanceFlow

\* One INCRBY of the pipeline.
LEMMA CommandBalance ==
    ASSUME QuotaInv, TypeInv', NEW f \in Flushers, ExecCommand(f), NEW k \in Keys, NEW w \in Windows
    PROVE  Balanced(k, w)
<1> USE DEF QuotaInv, CoverInv
<1> DEFINE n == Len(fl[f].res) + 1
           p == fl[f].batch[n]
<1>1. /\ fl[f].pc = "exec" /\ n \in 1..Len(fl[f].batch) /\ p \in Pending
      /\ fl'[f].pc = "exec" /\ fl'[f].batch = fl[f].batch
      /\ fl'[f].res = Append(fl[f].res, Reply(p)) /\ OnlyMoves(f)
      /\ redis' = IF redisUp THEN [redis EXCEPT ![<<p.key, p.ws>>] = Reply(p)] ELSE redis
      /\ UNCHANGED <<stripeVars, ghostVars>>
  BY CommandFlow, Zenon
<1>2. /\ fl[f] \in FlushProgress /\ fl'[f] \in FlushProgress
      /\ redis[<<k, w>>] \in Nat /\ redis[<<p.key, p.ws>>] \in Nat /\ p.flushN \in Nat
  <2>1. p.key \in Keys /\ p.ws \in Windows /\ p.flushN \in Nat
    BY <1>1 DEF Pending
  <2> QED BY <2>1, LedgerTypes, NextTypes
<1>3. n \in DOMAIN fl[f].batch /\ fl[f].res \in Seq(Nat \cup {-1}) /\ fl[f].batch \in Seq(Pending)
  BY <1>1, <1>2 DEF FlushProgress
<1>4. /\ UNCHANGED <<states, evictedPending, admitted, others>> /\ Waiting(k, w)' = Waiting(k, w)
      /\ fl[f].pc \in Open /\ fl'[f].pc \in Open
  BY <1>1 DEF stripeVars, ghostVars, Waiting, EvictedOf, Open
<1>5. /\ \A i \in DOMAIN fl[f].res : i # n /\ i \in DOMAIN fl'[f].res /\ fl'[f].res[i] = fl[f].res[i]
      /\ n \notin DOMAIN fl[f].res
      /\ \A i \in DOMAIN fl'[f].res : i = n \/ i \in DOMAIN fl[f].res
      /\ n \in DOMAIN fl'[f].res /\ fl'[f].res[n] = Reply(p)
  BY <1>1, <1>3
<1> HIDE DEF n
<1>6. \A i : i # n => (Heard(fl'[f], i) <=> Heard(fl[f], i))
  BY <1>1, <1>5 DEF Heard
<1>7. ~Heard(fl[f], n) /\ (Heard(fl'[f], n) <=> Reply(p) # -1)
  BY <1>1, <1>5 DEF Heard
<1>8. CASE ~redisUp
  <2>1. Reply(p) = -1 /\ redis' = redis
    BY <1>1, <1>8 DEF Reply
  <2>2. \A i \in DOMAIN fl[f].batch : Heard(fl'[f], i) <=> Heard(fl[f], i)
    BY <1>6, <1>7, <2>1
  <2> QED BY <1>1, <1>4, <2>1, <2>2, BalanceCarried
<1>9. CASE redisUp
  <2>1. Reply(p) = redis[<<p.key, p.ws>>] + p.flushN /\ Reply(p) # -1
    BY <1>2, <1>9 DEF Reply
  <2>2. Heard(fl'[f], n) /\ ~Heard(fl[f], n)
    BY <1>7, <2>1
  <2>3. /\ Due(fl[f], k, w) = Due(fl'[f], k, w) + (IF p \in EvictedOf(k, w) THEN p.flushN ELSE 0)
        /\ Own(fl'[f], k, w) = Own(fl[f], k, w)
        /\ Told(fl'[f], k, w) = Told(fl[f], k, w) + (IF p \in OwnedBy(k, w) THEN p.flushN ELSE 0)
    <3>1. \A i \in DOMAIN fl[f].batch : i # n => (Heard(fl'[f], i) <=> Heard(fl[f], i))
      BY <1>6
    <3>2. fl'[f].batch = fl[f].batch /\ fl[f].pc \in Open /\ fl'[f].pc \in Open
      BY <1>1, <1>4
    <3>3. fl[f] \in FlushProgress /\ n \in DOMAIN fl[f].batch /\ Heard(fl'[f], n) /\ ~Heard(fl[f], n)
      BY <1>2, <1>3, <2>2
    <3> HIDE DEF p
    <3>4. LET e == fl[f].batch[n] IN
           /\ Due(fl[f], k, w) = Due(fl'[f], k, w) + (IF e \in EvictedOf(k, w) THEN e.flushN ELSE 0)
           /\ Own(fl'[f], k, w) = Own(fl[f], k, w)
           /\ Told(fl'[f], k, w) = Told(fl[f], k, w) + (IF e \in OwnedBy(k, w) THEN e.flushN ELSE 0)
      BY <3>1, <3>2, <3>3, FlushHears
    <3> QED BY <3>4 DEF p
  <2>4. /\ Due(fl[f], k, w) \in Nat /\ Told(fl[f], k, w) \in Nat
        /\ Due(fl'[f], k, w) \in Nat /\ Told(fl'[f], k, w) \in Nat
    BY <1>2, FlushSums
  <2>5. redis'[<<k, w>>] = redis[<<k, w>>] + (IF p.key = k /\ p.ws = w THEN p.flushN ELSE 0)
    <3>1. redis \in [KeyWindows -> Nat] /\ <<k, w>> \in KeyWindows
      BY DEF TypeInv, TypeOK, RedisTypes, KeyWindows
    <3>2. redis' = [redis EXCEPT ![<<p.key, p.ws>>] = redis[<<p.key, p.ws>>] + p.flushN]
      BY <1>1, <1>9, <2>1
    <3>3. CASE p.key = k /\ p.ws = w
      BY <3>1, <3>2, <3>3
    <3>4. CASE ~(p.key = k /\ p.ws = w)
      <4>1. redis'[<<k, w>>] = redis[<<k, w>>]
        BY <3>1, <3>2, <3>4
      <4> QED BY <1>2, <3>4, <4>1
    <3> QED BY <3>3, <3>4
  <2>6. /\ p.key = k /\ p.ws = w => \/ p \in EvictedOf(k, w) /\ p \notin OwnedBy(k, w)
                                    \/ p \notin EvictedOf(k, w) /\ p \in OwnedBy(k, w)
        /\ ~(p.key = k /\ p.ws = w) => p \notin EvictedOf(k, w) /\ p \notin OwnedBy(k, w)
    BY <1>1 DEF EvictedOf, OwnedBy
  <2>7. redis'[<<k, w>>] + Due(fl'[f], k, w) + Told(fl[f], k, w)
           = redis[<<k, w>>] + Due(fl[f], k, w) + Told(fl'[f], k, w)
    BY <1>2, <2>3, <2>4, <2>5, <2>6
  <2> QED BY <1>1, <1>4, <2>3, <2>7, BalanceFlow
<1> QED BY <1>8, <1>9

\* pipe.Exec returns: the replies it loses are on record.
LEMMA ReturnBalance ==
    ASSUME QuotaInv, TypeInv', NEW f \in Flushers, ExecEnd(f), NEW k \in Keys, NEW w \in Windows
    PROVE  Balanced(k, w)
<1> USE DEF QuotaInv, CoverInv
<1>1. /\ fl[f].pc = "exec" /\ Len(fl[f].res) = Len(fl[f].batch)
      /\ fl'[f].pc = "apply" /\ fl'[f].batch = fl[f].batch /\ OnlyMoves(f)
      /\ UNCHANGED <<stripeVars, redisVars, admitted, others>>
  BY ReturnFlow, Zenon
<1>2. PICK m \in 0..Len(fl[f].res) :
         fl'[f].res = Replied(fl[f].res, m) /\ hist' = hist \cup LostReplies(f, m)
  BY ReturnFlow, Zenon
<1>3. /\ fl[f] \in FlushProgress /\ fl'[f] \in FlushProgress
      /\ fl[f].res \in Seq(Nat \cup {-1}) /\ fl[f].batch \in Seq(Pending)
  BY LedgerTypes, NextTypes DEF FlushProgress
<1>4. /\ UNCHANGED <<states, evictedPending, redis, admitted, others>> /\ Waiting(k, w)' = Waiting(k, w)
      /\ fl[f].pc \in Open /\ fl'[f].pc \in Open
  BY <1>1 DEF stripeVars, redisVars, Waiting, EvictedOf, Open
<1>5. /\ DOMAIN fl'[f].res = 1..Len(fl[f].res) /\ DOMAIN fl[f].res = 1..Len(fl[f].res)
      /\ \A i \in 1..Len(fl[f].res) : fl'[f].res[i] = IF i <= m THEN fl[f].res[i] ELSE -1
  BY <1>2, <1>3 DEF Replied
<1>6. \A i : Heard(fl'[f], i) <=> Heard(fl[f], i) /\ i <= m
  BY <1>1, <1>5 DEF Heard
<1>7. CASE \A i \in DOMAIN fl[f].batch :
              fl[f].batch[i].key = k /\ fl[f].batch[i].ws = w => (Heard(fl'[f], i) <=> Heard(fl[f], i))
  BY <1>1, <1>4, <1>7, BalanceCarried
<1>8. ASSUME NEW i \in DOMAIN fl[f].batch, fl[f].batch[i].key = k, fl[f].batch[i].ws = w,
             ~(Heard(fl'[f], i) <=> Heard(fl[f], i))
      PROVE  Balanced(k, w)
  <2>1. Marked(k, w, Twice)'
    <3>1. i \in 1..Len(fl[f].batch) /\ i > m /\ fl[f].res[i] # -1
      BY <1>1, <1>3, <1>5, <1>6, <1>8 DEF Heard
    <3>2. <<k, w, "lostReply">> \in LostReplies(f, m)
      BY <1>8, <3>1 DEF LostReplies
    <3> QED BY <1>2, <3>2 DEF Marked, Twice
  <2>2. /\ Due(fl'[f], k, w) >= Due(fl[f], k, w) /\ Own(fl'[f], k, w) = Own(fl[f], k, w)
        /\ Told(fl'[f], k, w) <= Told(fl[f], k, w)
    BY <1>1, <1>3, <1>4, <1>6, FlushLoses
  <2>3. PICK a, b, c \in Nat :
              /\ Carrying(k, w) = redis[<<k, w>>] + Waiting(k, w) + Due(fl[f], k, w) + a
              /\ Carrying(k, w)' = redis'[<<k, w>>] + Waiting(k, w)' + Due(fl'[f], k, w) + a
              /\ Taking(k, w) = Own(fl[f], k, w) + b /\ Taking(k, w)' = Own(fl'[f], k, w) + b
              /\ Counting(k, w) = Told(fl[f], k, w) + c /\ Counting(k, w)' = Told(fl'[f], k, w) + c
    BY <1>1, FlusherBalance
  <2>4. /\ redis[<<k, w>>] \in Nat /\ Waiting(k, w) \in Nat
        /\ Due(fl[f], k, w) \in Nat /\ Told(fl[f], k, w) \in Nat
        /\ Due(fl'[f], k, w) \in Nat /\ Told(fl'[f], k, w) \in Nat
        /\ Local(k, w) \in Nat /\ Asked(k, w) \in Nat
    BY <1>3, FlushSums, LedgerTypes
  <2>5. Carrying(k, w)' >= Carrying(k, w) /\ Counting(k, w)' <= Counting(k, w)
    <3>1. PICK R, W, D, D1, T, T1 \in Nat :
             /\ R = redis[<<k, w>>] /\ W = Waiting(k, w) /\ D = Due(fl[f], k, w) /\ D1 = Due(fl'[f], k, w)
             /\ T = Told(fl[f], k, w) /\ T1 = Told(fl'[f], k, w)
      BY <2>4
    <3>2. redis'[<<k, w>>] = redis[<<k, w>>] /\ Waiting(k, w)' = Waiting(k, w)
      BY <1>4
    <3>3. /\ Carrying(k, w) = R + W + D + a /\ Carrying(k, w)' = R + W + D1 + a
          /\ Counting(k, w) = T + c /\ Counting(k, w)' = T1 + c
      BY <2>3, <3>1, <3>2
    <3>4. D1 >= D /\ T1 <= T
      BY <2>2, <3>1
    <3>5. R + W + D1 + a >= R + W + D + a /\ T1 + c <= T + c
      BY <3>4
    <3> QED BY <3>3, <3>5
  <2>6. Local(k, w)' = Local(k, w) /\ Asked(k, w)' = Asked(k, w)
    BY <1>4 DEF Local, Asked
  <2>7. /\ Carrying(k, w) \in Nat /\ Counting(k, w) \in Nat
        /\ Carrying(k, w)' \in Nat /\ Counting(k, w)' \in Nat
    BY LedgerTypes, NextTypes
  <2>8. NotMissing(k, w) => NotMissing(k, w)'
    BY <2>4, <2>5, <2>6, <2>7 DEF NotMissing
  <2> QED BY <2>1, <2>8 DEF Balanced
<1> QED BY <1>7, <1>8

\* A result is an error: the entry of a state is given up for its delta, an evicted one
\* waits again unless the buffer of its stripe is full.
LEMMA ErrorBalance ==
    ASSUME QuotaInv, TypeInv', NEW f \in Flushers, ApplyError(f), NEW k \in Keys, NEW w \in Windows
    PROVE  Balanced(k, w)
<1> USE DEF QuotaInv, CoverInv
<1> DEFINE p == Head(fl[f].batch)
           s == StripeOf[p.key]
           full == EvictedFull(s)
           lost == p \in EvictedOf(k, w) /\ full
           n == p.flushN
<1>1. /\ fl[f].pc = "apply" /\ Head(fl[f].res) = -1
      /\ fl'[f].pc = IF Len(fl[f].batch) = 1 THEN AfterApply(f) ELSE "apply"
      /\ fl'[f].batch = Tail(fl[f].batch) /\ fl'[f].res = Tail(fl[f].res) /\ OnlyMoves(f)
      /\ evictedPending' = [evictedPending EXCEPT ![s] =
              IF p.evicted /\ ~full THEN Append(evictedPending[s], p) ELSE evictedPending[s]]
      /\ hist' = IF p.evicted /\ full THEN hist \cup {<<p.key, p.ws, "dropped">>} ELSE hist
      /\ UNCHANGED <<states, redisVars, admitted, others>>
  BY ErrorFlow, Zenon
<1>2. /\ fl[f] \in FlushProgress /\ fl'[f] \in FlushProgress /\ fl[f].batch # <<>>
      /\ Len(fl[f].res) = Len(fl[f].batch) /\ p \in Pending /\ n \in Nat
  <2>1. fl[f].batch # <<>> /\ Len(fl[f].res) = Len(fl[f].batch)
    BY <1>1 DEF BatchShape
  <2>2. p \in Pending
    BY <1>1, HeadsType
  <2> QED BY <2>1, <2>2, LedgerTypes, NextTypes DEF Pending
<1>3. /\ Due(fl[f], k, w) = Due(fl'[f], k, w) + (IF p \in EvictedOf(k, w) THEN n ELSE 0)
      /\ Own(fl[f], k, w) = Own(fl'[f], k, w) + (IF p \in OwnedBy(k, w) THEN n ELSE 0)
      /\ Told(fl[f], k, w) = Told(fl'[f], k, w) + 0
  <2>1. fl'[f].pc = "apply" \/ Len(fl[f].batch) = 1
    BY <1>1
  <2> HIDE DEF p, n
  <2>2. LET e == Head(fl[f].batch)
            heard == Head(fl[f].res) # -1
        IN  /\ Due(fl[f], k, w) = Due(fl'[f], k, w) + (IF e \in EvictedOf(k, w) /\ ~heard THEN e.flushN ELSE 0)
            /\ Own(fl[f], k, w) = Own(fl'[f], k, w) + (IF e \in OwnedBy(k, w) THEN e.flushN ELSE 0)
            /\ Told(fl[f], k, w) = Told(fl'[f], k, w) + (IF e \in OwnedBy(k, w) /\ heard THEN e.flushN ELSE 0)
    BY <1>1, <1>2, <2>1, FlushTail
  <2> QED BY <1>1, <2>2 DEF p, n
<1>4. Waiting(k, w)' = Waiting(k, w) + (IF p \in EvictedOf(k, w) /\ ~full THEN n ELSE 0)
  <2>1. /\ evictedPending \in [Stripes -> Seq(Pending)] /\ StripeOf[k] \in Stripes /\ Waiting(k, w) \in Nat
        /\ evictedPending[StripeOf[k]] \in Seq(Pending)
    BY LedgerTypes DEF TypeInv, TypeOK, StripeTypes
  <2>2. Waiting(k, w)' = SumOf(evictedPending'[StripeOf[k]], EvictedOf(k, w))
    BY DEF Waiting, EvictedOf
  <2>3. p \in EvictedOf(k, w) => p.key = k /\ p.evicted /\ s = StripeOf[k]
    BY DEF EvictedOf
  <2> HIDE DEF p, n, full, s
  <2>4. CASE StripeOf[k] = s /\ p.evicted /\ ~full
    <3>1. evictedPending'[StripeOf[k]] = Append(evictedPending[StripeOf[k]], p)
      BY <1>1, <2>1, <2>4
    <3>2. SumOf(Append(evictedPending[StripeOf[k]], p), EvictedOf(k, w))
            = Waiting(k, w) + (IF p \in EvictedOf(k, w) THEN p.flushN ELSE 0)
      BY <1>2, <2>1, SumAppend DEF Waiting
    <3> QED BY <2>2, <2>4, <3>1, <3>2 DEF n
  <2>5. CASE ~(StripeOf[k] = s /\ p.evicted /\ ~full)
    <3>1. evictedPending'[StripeOf[k]] = evictedPending[StripeOf[k]]
      BY <1>1, <2>1, <2>5
    <3>2. Waiting(k, w)' = Waiting(k, w)
      BY <2>2, <3>1 DEF Waiting
    <3> QED BY <2>1, <2>3, <2>5, <3>2
  <2> QED BY <2>4, <2>5
<1>5. PICK a, b, c \in Nat :
              /\ Carrying(k, w) = redis[<<k, w>>] + Waiting(k, w) + Due(fl[f], k, w) + a
              /\ Carrying(k, w)' = redis'[<<k, w>>] + Waiting(k, w)' + Due(fl'[f], k, w) + a
              /\ Taking(k, w) = Own(fl[f], k, w) + b /\ Taking(k, w)' = Own(fl'[f], k, w) + b
              /\ Counting(k, w) = Told(fl[f], k, w) + c /\ Counting(k, w)' = Told(fl'[f], k, w) + c
  BY <1>1, FlusherBalance
<1>6. /\ redis[<<k, w>>] \in Nat /\ Waiting(k, w) \in Nat
      /\ Due(fl'[f], k, w) \in Nat /\ Own(fl'[f], k, w) \in Nat /\ Told(fl'[f], k, w) \in Nat
      /\ Local(k, w) \in Nat /\ Asked(k, w) \in Nat
  BY <1>2, FlushSums, LedgerTypes
<1>7. redis'[<<k, w>>] = redis[<<k, w>>] /\ Local(k, w)' = Local(k, w) /\ Asked(k, w)' = Asked(k, w)
  BY <1>1 DEF redisVars, Local, Asked
<1>8. lost => Marked(k, w, Missing)'
  BY <1>1 DEF EvictedOf, Marked, Missing
<1> HIDE DEF p, n, full, lost, s
<1>9. /\ Carrying(k, w) = Carrying(k, w)' + (IF lost THEN n ELSE 0)
      /\ Taking(k, w) = Taking(k, w)' + (IF p \in OwnedBy(k, w) THEN n ELSE 0)
      /\ Counting(k, w) = Counting(k, w)'
  <2>1. PICK R, W, D, O, T, e, o \in Nat :
            /\ R = redis[<<k, w>>] /\ W = Waiting(k, w)
            /\ D = Due(fl'[f], k, w) /\ O = Own(fl'[f], k, w) /\ T = Told(fl'[f], k, w)
            /\ e = (IF p \in EvictedOf(k, w) THEN n ELSE 0) /\ o = (IF p \in OwnedBy(k, w) THEN n ELSE 0)
    BY <1>2, <1>6
  <2>2. /\ Taking(k, w) = (O + o) + b /\ Taking(k, w)' = O + b
        /\ Counting(k, w) = (T + 0) + c /\ Counting(k, w)' = T + c
        /\ Carrying(k, w) = R + W + (D + e) + a
    BY <1>3, <1>5, <2>1
  <2>3. Carrying(k, w)' = R + (W + (IF lost THEN 0 ELSE e)) + D + a
    <3>1. (IF p \in EvictedOf(k, w) /\ ~full THEN n ELSE 0) = (IF lost THEN 0 ELSE e)
      BY <2>1 DEF lost
    <3> QED BY <1>4, <1>5, <1>7, <2>1, <3>1
  <2>4. lost => e = n
    BY <2>1 DEF lost
  <2>5. Taking(k, w) = Taking(k, w)' + o /\ Counting(k, w) = Counting(k, w)'
    <3>1. (O + o) + b = (O + b) + o /\ (T + 0) + c = T + c
      OBVIOUS
    <3> QED BY <2>2, <3>1
  <2>6. Carrying(k, w) = Carrying(k, w)' + (IF lost THEN e ELSE 0)
    <3>1. /\ R + W + (D + e) + a = (R + (W + 0) + D + a) + e
          /\ R + W + (D + e) + a = (R + (W + e) + D + a) + 0
      OBVIOUS
    <3>2. CASE lost
      BY <2>2, <2>3, <3>1, <3>2
    <3>3. CASE ~lost
      BY <2>2, <2>3, <3>1, <3>3
    <3> QED BY <3>2, <3>3
  <2>7. (IF lost THEN e ELSE 0) = (IF lost THEN n ELSE 0)
    BY <2>4
  <2> QED BY <2>1, <2>5, <2>6, <2>7
<1>10. /\ Carrying(k, w)' \in Nat /\ Taking(k, w)' \in Nat /\ Counting(k, w)' \in Nat
  BY NextTypes
<1>11. NotTwice(k, w) => NotTwice(k, w)'
  <2>1. \A C, O, T, L, A, d, e \in Nat :
           \/ O + e <= L /\ C + d + L - T <= A
           \/ C + d + L + (O + e) - T <= A
           => \/ O <= L /\ C + L - T <= A
              \/ C + L + O - T <= A
    OBVIOUS
  <2>2. (IF lost THEN n ELSE 0) \in Nat /\ (IF p \in OwnedBy(k, w) THEN n ELSE 0) \in Nat
    BY <1>2
  <2> QED BY <1>6, <1>7, <1>9, <1>10, <2>1, <2>2 DEF NotTwice
<1>12. ~lost => (NotMissing(k, w) => NotMissing(k, w)')
  <2>1. ~lost => Carrying(k, w) = Carrying(k, w)'
    BY <1>9, <1>10
  <2> QED BY <1>7, <1>9, <2>1 DEF NotMissing
<1> QED BY <1>8, <1>11, <1>12 DEF Balanced

LEMMA ReconciledDelta ==
    ASSUME NEW st \in LocalState, NEW p \in Pending, NEW g \in Nat
    PROVE  Reconciled(st, p, g).localDelta =
              IF p.evicted THEN st.localDelta
              ELSE IF st.localDelta >= p.flushN THEN st.localDelta - p.flushN ELSE 0
<1> DEFINE owed == IF p.evicted THEN st.localDelta ELSE st.localDelta - p.flushN
           kept == IF owed < 0 THEN 0 ELSE owed
           b    == IF g >= Limit THEN TRUE ELSE st.blocked
<1>1. st.localDelta \in Nat /\ p.flushN \in Nat
  BY DEF LocalState, Pending
<1>2. Reconciled(st, p, g) = [st EXCEPT !.globalBase = g, !.localDelta = kept, !.blocked = b]
  BY DEF Reconciled
<1>3. kept = IF p.evicted THEN st.localDelta
             ELSE IF st.localDelta >= p.flushN THEN st.localDelta - p.flushN ELSE 0
  BY <1>1
<1> HIDE DEF kept, b
<1>4. Reconciled(st, p, g).localDelta = kept
  BY <1>2 DEF LocalState
<1> QED BY <1>3, <1>4

\* A count is applied: what it accounts for leaves the state and the batch.
LEMMA OkBalance ==
    ASSUME QuotaInv, TypeInv', NEW f \in Flushers, ApplyOk(f), NEW k \in Keys, NEW w \in Windows
    PROVE  Balanced(k, w)
<1> USE DEF QuotaInv, CoverInv
<1> DEFINE p == Head(fl[f].batch)
           g == Head(fl[f].res)
           n == p.flushN
           o == IF p \in OwnedBy(k, w) THEN n ELSE 0
<1>1. /\ fl[f].pc = "apply" /\ g # -1
      /\ fl'[f].pc = IF Len(fl[f].batch) = 1 THEN AfterApply(f) ELSE "apply"
      /\ fl'[f].batch = Tail(fl[f].batch) /\ fl'[f].res = Tail(fl[f].res) /\ OnlyMoves(f)
      /\ states' = IF states[p.key].windowStart = p.ws
                   THEN [states EXCEPT ![p.key] = Reconciled(states[p.key], p, g)] ELSE states
      /\ UNCHANGED <<evictedPending, redisVars, ghostVars>>
  BY OkFlow, Zenon
<1>2. /\ fl[f] \in FlushProgress /\ fl'[f] \in FlushProgress /\ fl[f].batch # <<>>
      /\ Len(fl[f].res) = Len(fl[f].batch) /\ p \in Pending /\ n \in Nat /\ g \in Nat
      /\ p.key \in Keys /\ p.ws \in Windows
  <2>1. fl[f].batch # <<>> /\ Len(fl[f].res) = Len(fl[f].batch)
    BY <1>1 DEF BatchShape
  <2>2. p \in Pending /\ g \in Nat
    BY <1>1, HeadsType
  <2> QED BY <2>1, <2>2, LedgerTypes, NextTypes DEF Pending
<1>3. /\ Due(fl[f], k, w) = Due(fl'[f], k, w) + 0
      /\ Own(fl[f], k, w) = Own(fl'[f], k, w) + o
      /\ Told(fl[f], k, w) = Told(fl'[f], k, w) + o
  <2>1. fl'[f].pc = "apply" \/ Len(fl[f].batch) = 1
    BY <1>1
  <2> HIDE DEF p, n, g
  <2>2. LET e == Head(fl[f].batch)
            heard == Head(fl[f].res) # -1
        IN  /\ Due(fl[f], k, w) = Due(fl'[f], k, w) + (IF e \in EvictedOf(k, w) /\ ~heard THEN e.flushN ELSE 0)
            /\ Own(fl[f], k, w) = Own(fl'[f], k, w) + (IF e \in OwnedBy(k, w) THEN e.flushN ELSE 0)
            /\ Told(fl[f], k, w) = Told(fl'[f], k, w) + (IF e \in OwnedBy(k, w) /\ heard THEN e.flushN ELSE 0)
    BY <1>1, <1>2, <2>1, FlushTail
  <2> QED BY <1>1, <2>2 DEF p, n, g
<1>4. Local(k, w)' = IF Local(k, w) >= o THEN Local(k, w) - o ELSE 0
  <2>1. states[k] \in LocalState /\ states \in [Keys -> LocalState] /\ Local(k, w) \in Nat /\ o \in Nat
    BY <1>2, LedgerTypes DEF TypeInv, TypeOK, StripeTypes
  <2>2. Local(k, w)' = IF states'[k].windowStart = w THEN states'[k].localDelta ELSE 0
    BY DEF Local
  <2>3. CASE p.key = k /\ states[k].windowStart = p.ws
    <3>1. states'[k] = Reconciled(states[k], p, g)
      BY <1>1, <2>1, <2>3
    <3>2. states'[k].windowStart = p.ws
      BY <1>2, <2>1, <2>3, <3>1, ReconciledFields
    <3>3. states'[k].localDelta = IF p.evicted THEN states[k].localDelta
                 ELSE IF states[k].localDelta >= n THEN states[k].localDelta - n ELSE 0
      BY <1>2, <2>1, <3>1, ReconciledDelta
    <3>4. CASE p.ws = w
      <4>1. Local(k, w) = states[k].localDelta /\ Local(k, w)' = states'[k].localDelta
        BY <2>2, <2>3, <3>2, <3>4 DEF Local
      <4>2. p.evicted => o = 0
        BY DEF OwnedBy
      <4>3. ~p.evicted => o = n
        BY <1>2, <2>3, <3>4 DEF OwnedBy
      <4> QED BY <2>1, <3>3, <4>1, <4>2, <4>3
    <3>5. CASE p.ws # w
      <4>1. Local(k, w) = 0 /\ Local(k, w)' = 0 /\ o = 0
        BY <2>2, <2>3, <3>2, <3>5 DEF Local, OwnedBy
      <4> QED BY <4>1
    <3> QED BY <3>4, <3>5
  <2>4. CASE ~(p.key = k /\ states[k].windowStart = p.ws)
    <3>1. states'[k] = states[k]
      BY <1>1, <2>1, <2>4
    <3>2. Local(k, w)' = Local(k, w)
      BY <2>2, <3>1 DEF Local
    <3>3. o = 0 \/ Local(k, w) = 0
      BY <2>4 DEF OwnedBy, Local
    <3> QED BY <2>1, <3>2, <3>3
  <2> QED BY <2>3, <2>4
<1>5. PICK a, b, c \in Nat :
              /\ Carrying(k, w) = redis[<<k, w>>] + Waiting(k, w) + Due(fl[f], k, w) + a
              /\ Carrying(k, w)' = redis'[<<k, w>>] + Waiting(k, w)' + Due(fl'[f], k, w) + a
              /\ Taking(k, w) = Own(fl[f], k, w) + b /\ Taking(k, w)' = Own(fl'[f], k, w) + b
              /\ Counting(k, w) = Told(fl[f], k, w) + c /\ Counting(k, w)' = Told(fl'[f], k, w) + c
  BY <1>1, FlusherBalance
<1>6. /\ Due(fl'[f], k, w) \in Nat /\ Own(fl'[f], k, w) \in Nat /\ Told(fl'[f], k, w) \in Nat
      /\ Carrying(k, w) \in Nat /\ Local(k, w) \in Nat /\ Asked(k, w) \in Nat /\ o \in Nat
  BY <1>2, FlushSums, LedgerTypes
<1>7. Carrying(k, w)' = Carrying(k, w) /\ Asked(k, w)' = Asked(k, w)
  <2>1. redis'[<<k, w>>] = redis[<<k, w>>] /\ Waiting(k, w)' = Waiting(k, w) /\ Asked(k, w)' = Asked(k, w)
    BY <1>1 DEF redisVars, ghostVars, Waiting, EvictedOf, Asked
  <2>2. Due(fl[f], k, w) = Due(fl'[f], k, w)
    BY <1>3, <1>6
  <2> QED BY <1>5, <2>1, <2>2
<1> HIDE DEF o
<1>8. PICK C, O, T, L, A, e \in Nat :
         /\ C = Carrying(k, w) /\ O = Own(fl'[f], k, w) /\ T = Told(fl'[f], k, w)
         /\ L = Local(k, w) /\ A = Asked(k, w) /\ e = o
  BY <1>6
<1>9. /\ Taking(k, w) = (O + e) + b /\ Taking(k, w)' = O + b
      /\ Counting(k, w) = (T + e) + c /\ Counting(k, w)' = T + c
      /\ Carrying(k, w) = C /\ Carrying(k, w)' = C /\ Asked(k, w) = A /\ Asked(k, w)' = A
      /\ Local(k, w) = L /\ Local(k, w)' = IF L >= e THEN L - e ELSE 0
  BY <1>3, <1>4, <1>5, <1>7, <1>8
<1>10. NotTwice(k, w) => NotTwice(k, w)'
  BY <1>9 DEF NotTwice
<1>11. NotMissing(k, w) => NotMissing(k, w)'
  BY <1>9 DEF NotMissing
<1> QED BY <1>10, <1>11 DEF Balanced

\* What the keys of a stripe add to a batch: the whole delta of a state, or nothing.
LEMMA EntriesSums ==
    ASSUME TypeInv, NEW owing \in SUBSET Keys, \A j \in owing : states[j].localDelta > 0,
           NEW order \in SetToSeqs(owing), NEW k \in Keys, NEW w \in Windows
    PROVE  /\ EntriesOf(order) \in Seq(Pending)
           /\ SumOf(EntriesOf(order), EvictedOf(k, w)) = 0
           /\ SumOf(EntriesOf(order), OwnedBy(k, w)) =
                 IF k \in owing /\ states[k].windowStart = w THEN states[k].localDelta ELSE 0
<1> DEFINE b == EntriesOf(order)
<1>1. b \in Seq(Pending)
  BY EntriesType
<1>2. IsFiniteSet(owing)
  BY LocalAsyncAssumption, FS_Subset
<1>3. /\ order \in Seq(owing)
      /\ \A x \in owing : \E i \in DOMAIN order : order[i] = x
      /\ \A i, j \in DOMAIN order : order[i] = order[j] => i = j
  BY <1>2, OrderCovers, Zenon
<1>4. DOMAIN b = DOMAIN order /\ \A i \in DOMAIN order : b[i] = PendingOf(order[i], FALSE)
  BY DEF EntriesOf
<1> HIDE DEF b
<1>5. \A i \in DOMAIN b : /\ b[i] \in Pending /\ ~b[i].evicted /\ b[i].key = order[i]
                          /\ b[i].ws = states[order[i]].windowStart
                          /\ b[i].flushN = states[order[i]].localDelta
  BY <1>1, <1>4 DEF PendingOf
<1>6. SumOf(b, EvictedOf(k, w)) = 0
  <2>1. \A i \in DOMAIN b : b[i] \notin EvictedOf(k, w)
    BY <1>5 DEF EvictedOf
  <2> QED BY <1>1, <2>1, SumType
<1>7. CASE k \in owing /\ states[k].windowStart = w
  <2>1. PICK n \in DOMAIN order : order[n] = k
    BY <1>3, <1>7
  <2>2. n \in DOMAIN b /\ b[n] \in OwnedBy(k, w) /\ b[n].flushN = states[k].localDelta
    BY <1>4, <1>5, <1>7, <2>1 DEF OwnedBy
  <2>3. \A i \in DOMAIN b : b[i] \in OwnedBy(k, w) => i = n
    BY <1>3, <1>4, <1>5, <2>1 DEF OwnedBy
  <2>4. SumOf(b, OwnedBy(k, w)) = b[n].flushN
    BY <1>1, <2>2, <2>3, SumSingle
  <2> QED BY <1>1, <1>6, <1>7, <2>2, <2>4 DEF b
<1>8. CASE ~(k \in owing /\ states[k].windowStart = w)
  <2>1. \A i \in DOMAIN order : order[i] \in owing
    BY <1>3
  <2>2. \A i \in DOMAIN b : b[i] \notin OwnedBy(k, w)
    BY <1>4, <1>5, <1>8, <2>1 DEF OwnedBy
  <2>3. SumOf(b, OwnedBy(k, w)) = 0
    BY <1>1, <2>2, SumType
  <2> QED BY <1>1, <1>6, <1>8, <2>3 DEF b
<1> QED BY <1>7, <1>8

\* While f takes a snapshot the other flusher carries nothing, and f nothing made from a
\* state of the stripe that it is about to visit.
LEMMA SnapshotAlone ==
    ASSUME QuotaInv, NEW f \in Flushers, fl[f].pc = "snap", fl[f].visited \in Nat,
           fl[f].visited < NumStripes, NEW k \in Keys, NEW w \in Windows,
           StripeOf[k] = Wrap(flushCursor + fl[f].visited)
    PROVE  Taking(k, w) = 0 /\ Own(fl[f], k, w) = 0
<1> USE DEF QuotaInv, CoverInv
<1>1. \A g \in Flushers : fl[g] \in FlushProgress
  BY LedgerTypes
<1>2. \A i \in DOMAIN fl[f].batch : ~fl[f].batch[i].evicted => fl[f].batch[i].key # k
  <2> SUFFICES ASSUME NEW i \in DOMAIN fl[f].batch, ~fl[f].batch[i].evicted
               PROVE  fl[f].batch[i].key # k
    OBVIOUS
  <2>1. PICK v \in 0..(NumStripes - 1) :
           v < fl[f].visited /\ StripeOf[fl[f].batch[i].key] = Wrap(flushCursor + v)
    BY DEF VisitedOnly
  <2>2. v \in Nat
    BY <2>1, LocalAsyncAssumption
  <2> QED BY <2>1, <2>2, WrapDistinct
<1>3. Own(fl[f], k, w) = 0
  <2>1. OwnOf(fl[f], k, w) = {}
    BY <1>2 DEF OwnOf, PlacesOf, OwnedBy
  <2> QED BY <2>1, TotalEmpty DEF Own
<1>4. \A g \in Flushers : Own(fl[g], k, w) = 0
  <2> SUFFICES ASSUME NEW g \in Flushers, g # f PROVE Own(fl[g], k, w) = 0
    BY <1>3
  <2>1. flushMu = f
    BY DEF Mutex, Holding
  <2>2. fl[g].pc \notin Open
    BY <2>1 DEF Mutex, Holding, Open
  <2> QED BY <1>1, <2>2, FlushSums
<1>5. Own(fl[Worker], k, w) = 0 /\ Own(fl[Closer], k, w) = 0
  BY <1>4 DEF Flushers
<1> QED BY <1>3, <1>5 DEF Taking

\* A buffer is the entries taken from its front, and the rest.
LEMMA SplitAt ==
    ASSUME NEW S, NEW b \in Seq(S), NEW n \in 0..Len(b)
    PROVE  /\ SubSeq(b, 1, n) \in Seq(S) /\ SubSeq(b, n + 1, Len(b)) \in Seq(S)
           /\ b = SubSeq(b, 1, n) \o SubSeq(b, n + 1, Len(b))
           /\ DOMAIN SubSeq(b, 1, n) = 1..n
           /\ \A i \in 1..n : i \in DOMAIN b /\ SubSeq(b, 1, n)[i] = b[i]
<1>1. Len(b) \in Nat /\ n \in Nat /\ n <= Len(b) /\ DOMAIN b = 1..Len(b) /\ \A i \in 1..Len(b) : b[i] \in S
  OBVIOUS
<1>2. /\ SubSeq(b, 1, n) \in Seq(S) /\ DOMAIN SubSeq(b, 1, n) = 1..n
      /\ \A i \in 1..n : SubSeq(b, 1, n)[i] = b[i]
  BY <1>1
<1>3. SubSeq(b, n + 1, Len(b)) \in Seq(S)
  <2>1. n + 1 \in Int /\ Len(b) \in Int /\ \A i \in (n + 1)..Len(b) : b[i] \in S
    BY <1>1
  <2> QED BY <2>1, SubSeqProperties
<1>4. SubSeq(b, 1, n) \o SubSeq(b, n + 1, Len(b)) = SubSeq(b, 1, Len(b))
  <2>1. 1 \in 1..(Len(b) + 1) /\ n \in (1 - 1)..Len(b) /\ Len(b) \in n..Len(b)
    BY <1>1
  <2> QED BY <2>1, ConcatAdjacentSubSeq
<1>5. SubSeq(b, 1, Len(b)) = b
  BY SubSeqFull
<1>6. \A i \in 1..n : i \in DOMAIN b
  BY <1>1
<1> QED BY <1>2, <1>3, <1>4, <1>5, <1>6

\* One stripe of the snapshot: evicted deltas move to the batch, and the delta of a state
\* is in it once.
LEMMA StripeBalance ==
    ASSUME QuotaInv, Housed, TypeInv', NEW f \in Flushers, SnapshotStripe(f),
           NEW k \in Keys, NEW w \in Windows
    PROVE  Balanced(k, w)
<1> USE DEF QuotaInv, CoverInv
<1> DEFINE s == Wrap(flushCursor + fl[f].visited)
           ev == evictedPending[s]
           take == Taken(f, s)
           gone == Expired(states, s, fl[f].at)
           first == SubSeq(ev, 1, take)
           rest == SubSeq(ev, take + 1, Len(ev))
           E == EvictedOf(k, w)
           S == OwnedBy(k, w)
<1>1. /\ s \in Stripes /\ ev \in Seq(Pending) /\ take \in 0..Len(ev)
      /\ fl[f].visited \in Nat /\ fl[f].visited < NumStripes
      /\ fl[f].pc = "snap" /\ fl'[f].pc = "snap" /\ OnlyMoves(f)
      /\ states' = [j \in Keys |-> IF j \in gone THEN Nil ELSE states[j]]
      /\ evictedPending' = [evictedPending EXCEPT ![s] = rest]
      /\ UNCHANGED <<redisVars, ghostVars>>
  BY StripeFlow, Zenon
<1>2. PICK seen \in SUBSET {j \in dirty : StripeOf[j] = s} :
         \E order \in SetToSeqs({j \in seen : states[j].localDelta > 0}) :
             /\ fl'[f].batch = (fl[f].batch \o first) \o EntriesOf(order)
             /\ dirty' = (dirty \ seen) \ gone
  BY StripeFlow, Zenon
<1> DEFINE owing == {j \in seen : states[j].localDelta > 0}
<1>3. PICK order \in SetToSeqs(owing) : fl'[f].batch = (fl[f].batch \o first) \o EntriesOf(order)
  BY <1>2
<1>4. /\ owing \in SUBSET Keys /\ \A j \in owing : states[j].localDelta > 0 /\ StripeOf[j] = s
  BY <1>2 DEF TypeInv, TypeOK, StripeTypes
<1>5. /\ first \in Seq(Pending) /\ rest \in Seq(Pending) /\ ev = first \o rest
      /\ DOMAIN first = 1..take /\ \A i \in 1..take : i \in DOMAIN ev /\ first[i] = ev[i]
  <2> HIDE DEF ev, take
  <2> QED BY <1>1, SplitAt DEF first, rest
<1>6. /\ fl[f] \in FlushProgress /\ fl'[f] \in FlushProgress /\ fl[f].batch \in Seq(Pending)
      /\ redis[<<k, w>>] \in Nat /\ Waiting(k, w) \in Nat /\ Local(k, w) \in Nat
      /\ Carrying(k, w) \in Nat /\ Asked(k, w) \in Nat /\ Counting(k, w) \in Nat
      /\ Counting(k, w) <= Taking(k, w) /\ StripeOf[k] \in Stripes
  BY LedgerTypes, NextTypes DEF FlushProgress
<1> HIDE DEF first, rest, take, s, ev, gone, owing, E, S
<1>7. /\ EntriesOf(order) \in Seq(Pending) /\ SumOf(EntriesOf(order), E) = 0
      /\ SumOf(EntriesOf(order), S) =
            IF k \in owing /\ states[k].windowStart = w THEN states[k].localDelta ELSE 0
  BY <1>4, EntriesSums DEF E, S
<1>8. SumOf(first, S) = 0 /\ (StripeOf[k] # s => SumOf(first, E) = 0)
  <2>1. \A i \in DOMAIN first : first[i].evicted /\ StripeOf[first[i].key] = s
    BY <1>1, <1>5 DEF EvictedMarked, Housed, ev
  <2>2. \A i \in DOMAIN first : first[i] \notin S /\ (StripeOf[k] # s => first[i] \notin E)
    BY <2>1 DEF E, S, EvictedOf, OwnedBy
  <2> QED BY <1>5, <2>2, SumType
<1>9. \A P : SumOf(fl'[f].batch, P) = (SumOf(fl[f].batch, P) + SumOf(first, P)) + SumOf(EntriesOf(order), P)
  <2> TAKE P
  <2>1. fl[f].batch \o first \in Seq(Pending)
    BY <1>5, <1>6
  <2>2. SumOf(fl[f].batch \o first, P) = SumOf(fl[f].batch, P) + SumOf(first, P)
    BY <1>5, <1>6, SumConcat
  <2>3. SumOf((fl[f].batch \o first) \o EntriesOf(order), P)
           = SumOf(fl[f].batch \o first, P) + SumOf(EntriesOf(order), P)
    BY <1>7, <2>1, SumConcat
  <2> QED BY <1>3, <2>2, <2>3
<1>10. /\ Due(fl[f], k, w) = SumOf(fl[f].batch, E) /\ Own(fl[f], k, w) = SumOf(fl[f].batch, S)
       /\ Told(fl[f], k, w) = 0
       /\ Due(fl'[f], k, w) = SumOf(fl'[f].batch, E) /\ Own(fl'[f], k, w) = SumOf(fl'[f].batch, S)
       /\ Told(fl'[f], k, w) = 0
  BY <1>1, <1>6, SnapSums DEF E, S
<1>11. SumOf(first, E) \in Nat /\ SumOf(rest, E) \in Nat /\ SumOf(fl[f].batch, S) \in Nat /\ SumOf(fl[f].batch, E) \in Nat
  BY <1>5, <1>6, SumType
<1>12. Waiting(k, w) = SumOf(first, E) + Waiting(k, w)'
  <2>1. /\ Waiting(k, w) = SumOf(evictedPending[StripeOf[k]], E)
        /\ Waiting(k, w)' = SumOf(evictedPending'[StripeOf[k]], E)
    BY DEF Waiting, E, EvictedOf
  <2>2. evictedPending \in [Stripes -> Seq(Pending)]
    BY DEF TypeInv, TypeOK, StripeTypes
  <2>3. CASE StripeOf[k] = s
    <3>1. evictedPending[StripeOf[k]] = first \o rest /\ evictedPending'[StripeOf[k]] = rest
      BY <1>1, <1>5, <2>2, <2>3 DEF ev
    <3>2. SumOf(first \o rest, E) = SumOf(first, E) + SumOf(rest, E)
      BY <1>5, SumConcat
    <3> QED BY <2>1, <3>1, <3>2
  <2>4. CASE StripeOf[k] # s
    <3>1. evictedPending'[StripeOf[k]] = evictedPending[StripeOf[k]]
      BY <1>1, <1>6, <2>2, <2>4
    <3>2. Waiting(k, w)' = Waiting(k, w) /\ SumOf(first, E) = 0
      BY <1>8, <2>1, <2>4, <3>1
    <3> QED BY <1>6, <3>2
  <2> QED BY <2>3, <2>4
<1>13. Local(k, w)' = Local(k, w)
  <2>1. k \in gone => states[k].localDelta = 0
    BY DEF gone, Expired
  <2>2. Local(k, w)' = IF states'[k].windowStart = w THEN states'[k].localDelta ELSE 0
    BY DEF Local
  <2>3. w # -1
    BY WindowsNat
  <2>4. states'[k] = IF k \in gone THEN Nil ELSE states[k]
    BY <1>1
  <2> QED BY <2>1, <2>2, <2>3, <2>4 DEF Local, Nil
<1>14. PICK a, b, c \in Nat :
              /\ Carrying(k, w) = redis[<<k, w>>] + Waiting(k, w) + Due(fl[f], k, w) + a
              /\ Carrying(k, w)' = redis'[<<k, w>>] + Waiting(k, w)' + Due(fl'[f], k, w) + a
              /\ Taking(k, w) = Own(fl[f], k, w) + b /\ Taking(k, w)' = Own(fl'[f], k, w) + b
              /\ Counting(k, w) = Told(fl[f], k, w) + c /\ Counting(k, w)' = Told(fl'[f], k, w) + c
  BY <1>1, FlusherBalance
<1>15. redis'[<<k, w>>] = redis[<<k, w>>] /\ Asked(k, w)' = Asked(k, w)
  BY <1>1 DEF redisVars, ghostVars, Asked
<1>16. Carrying(k, w)' = Carrying(k, w) /\ Counting(k, w)' = Counting(k, w)
  <2>1. PICK R, W, F, D \in Nat :
           /\ R = redis[<<k, w>>] /\ W = Waiting(k, w)' /\ F = SumOf(first, E) /\ D = SumOf(fl[f].batch, E)
    <3>1. Waiting(k, w)' \in Nat
      BY NextTypes
    <3> QED BY <1>6, <1>11, <3>1
  <2>2. Due(fl'[f], k, w) = (D + F) + 0
    BY <1>7, <1>9, <1>10, <2>1
  <2>3. /\ Carrying(k, w) = R + (F + W) + D + a
        /\ Carrying(k, w)' = R + W + ((D + F) + 0) + a
    BY <1>10, <1>12, <1>14, <1>15, <2>1, <2>2
  <2>4. R + (F + W) + D + a = R + W + ((D + F) + 0) + a
    OBVIOUS
  <2> QED BY <1>10, <1>14, <2>3, <2>4
<1>17. Taking(k, w)' = Taking(k, w) \/ (Taking(k, w) = 0 /\ Taking(k, w)' = Local(k, w))
  <2>1. Own(fl'[f], k, w) = (Own(fl[f], k, w) + 0) + SumOf(EntriesOf(order), S)
    BY <1>8, <1>9, <1>10
  <2>2. CASE k \in owing /\ states[k].windowStart = w
    <3>1. Taking(k, w) = 0 /\ Own(fl[f], k, w) = 0
      <4>1. StripeOf[k] = Wrap(flushCursor + fl[f].visited)
        BY <1>4, <2>2 DEF s
      <4> QED BY <1>1, <4>1, SnapshotAlone
    <3>2. b = 0
      BY <1>14, <3>1
    <3>3. SumOf(EntriesOf(order), S) = Local(k, w)
      BY <1>7, <2>2 DEF Local
    <3>4. Taking(k, w)' = Local(k, w)
      BY <1>6, <1>14, <2>1, <3>1, <3>2, <3>3
    <3> QED BY <3>1, <3>4
  <2>3. CASE ~(k \in owing /\ states[k].windowStart = w)
    <3>1. Own(fl'[f], k, w) = Own(fl[f], k, w)
      BY <1>7, <1>10, <1>11, <2>1, <2>3
    <3> QED BY <1>14, <3>1
  <2> QED BY <2>2, <2>3
<1>18. PICK C, O, T, L, A \in Nat :
         /\ C = Carrying(k, w) /\ O = Taking(k, w) /\ T = Counting(k, w)
         /\ L = Local(k, w) /\ A = Asked(k, w)
  BY LedgerTypes
<1>19. PICK O1 \in Nat : O1 = Taking(k, w)'
  BY NextTypes
<1>20. O1 = O \/ (O = 0 /\ O1 = L)
  BY <1>17, <1>18, <1>19
<1>21. NotTwice(k, w) => NotTwice(k, w)'
  BY <1>13, <1>15, <1>16, <1>18, <1>19, <1>20 DEF NotTwice
<1>22. NotMissing(k, w) => NotMissing(k, w)'
  BY <1>13, <1>15, <1>16 DEF NotMissing
<1> QED BY <1>21, <1>22 DEF Balanced

\* An insert removes states of its own stripe, and at most one that owes a delta.
LEMMA RemovalsOwe ==
    ASSUME NEW s, NEW t, NEW R \in Removals(s, t)
    PROVE  /\ \A u \in R : u \in Keys /\ StripeOf[u] = s /\ states[u] # Nil
           /\ \A u, v \in R : states[u].localDelta > 0 /\ states[v].localDelta > 0 => u = v
<1> DEFINE gone == Expired(states, s, t)
           rest == Live(states, s) \ gone
<1>1. \A u \in gone \cup rest : u \in Keys /\ StripeOf[u] = s /\ states[u] # Nil
  BY DEF Live, Expired
<1>2. \A u \in gone : states[u].localDelta = 0
  BY DEF Expired
<1>3. R = {} \/ R = gone \/ \E v \in rest : R = gone \cup {v}
  BY DEF Removals, Victims
<1> HIDE DEF gone, rest
<1>4. \A u \in gone : ~(states[u].localDelta > 0)
  BY <1>2
<1> QED BY <1>1, <1>3, <1>4

\* The stripe-lock section of AllowN: the states it evicts, and their deltas.
LEMMA EvictFlow ==
    ASSUME TypeInv, NEW t \in Threads, AllowNDecide(t)
    PROVE  LET k == req[t].key
               w == WindowStart(req[t].now)
               s == StripeOf[k]
               st == IF states[k].windowStart = w THEN states[k] ELSE Fresh(w)
               new == Counted(st, Verdict(st, req[t].n), req[t].n)
           IN  \E R \in SUBSET Keys :
                  /\ k \notin R /\ \A u \in R : StripeOf[u] = s
                  /\ \A u, v \in R : states[u].localDelta > 0 /\ states[v].localDelta > 0 => u = v
                  /\ states' = [j \in Keys |-> IF j = k THEN new
                                               ELSE IF j \in R THEN Nil ELSE states[j]]
                  /\ evictedPending' = [evictedPending EXCEPT ![s] = Carried(s, R)]
                  /\ hist' = hist \cup RemovalEvents(s, R) \cup CreationEvents(k, w)
<1> DEFINE k == req[t].key
           w == WindowStart(req[t].now)
           s == StripeOf[k]
           st == IF states[k].windowStart = w THEN states[k] ELSE Fresh(w)
           new == Counted(st, Verdict(st, req[t].n), req[t].n)
<1>1. PICK R \in (IF states[k] = Nil THEN Removals(s, req[t].now) ELSE {{}}) :
        /\ states' = [j \in Keys |-> IF j = k THEN new ELSE IF j \in R THEN Nil ELSE states[j]]
        /\ evictedPending' = [evictedPending EXCEPT ![s] = Carried(s, R)]
        /\ hist' = hist \cup RemovalEvents(s, R) \cup CreationEvents(k, w)
  BY Zenon DEF AllowNDecide
<1> HIDE DEF k, w, s, st, new
<1>2. /\ R \in SUBSET Keys /\ k \notin R /\ \A u \in R : StripeOf[u] = s
      /\ \A u, v \in R : states[u].localDelta > 0 /\ states[v].localDelta > 0 => u = v
  <2>1. CASE states[k] = Nil
    <3>1. R \in Removals(s, req[t].now)
      BY <1>1, <2>1
    <3>2. /\ \A u \in R : u \in Keys /\ StripeOf[u] = s /\ states[u] # Nil
          /\ \A u, v \in R : states[u].localDelta > 0 /\ states[v].localDelta > 0 => u = v
      BY <3>1, RemovalsOwe
    <3> QED BY <2>1, <3>2
  <2>2. CASE states[k] # Nil
    BY <1>1, <2>2
  <2> QED BY <2>1, <2>2
<1>3. \E q \in SUBSET Keys :
         /\ k \notin q /\ \A u \in q : StripeOf[u] = s
         /\ \A u, v \in q : states[u].localDelta > 0 /\ states[v].localDelta > 0 => u = v
         /\ states' = [j \in Keys |-> IF j = k THEN new ELSE IF j \in q THEN Nil ELSE states[j]]
         /\ evictedPending' = [evictedPending EXCEPT ![s] = Carried(s, q)]
         /\ hist' = hist \cup RemovalEvents(s, q) \cup CreationEvents(k, w)
  BY <1>1, <1>2, Zenon
<1> QED BY <1>3, Zenon DEF k, w, s, st, new

\* What eviction adds to the deltas that wait for window w of key k.
LEMMA CarriedSums ==
    ASSUME TypeInv, NEW s \in Stripes, NEW R \in SUBSET Keys,
           \A u, v \in R : states[u].localDelta > 0 /\ states[v].localDelta > 0 => u = v,
           NEW k \in Keys, NEW w \in Windows
    PROVE  SumOf(Carried(s, R), EvictedOf(k, w)) = SumOf(evictedPending[s], EvictedOf(k, w))
              + (IF k \in R /\ states[k].localDelta > 0 /\ states[k].windowStart = w /\ ~EvictedFull(s)
                 THEN states[k].localDelta ELSE 0)
<1> DEFINE owing == {v \in R : states[v].localDelta > 0}
           E == EvictedOf(k, w)
<1>1. evictedPending[s] \in Seq(Pending) /\ SumOf(evictedPending[s], E) \in Nat
  <2>1. evictedPending[s] \in Seq(Pending)
    BY DEF TypeInv, TypeOK, StripeTypes
  <2> QED BY <2>1, SumType
<1>2. CASE owing = {} \/ EvictedFull(s)
  <2>1. Carried(s, R) = evictedPending[s]
    BY <1>2 DEF Carried
  <2>2. ~(k \in R /\ states[k].localDelta > 0 /\ states[k].windowStart = w /\ ~EvictedFull(s))
    BY <1>2
  <2> QED BY <1>1, <2>1, <2>2
<1>3. CASE ~(owing = {} \/ EvictedFull(s))
  <2> DEFINE v == CHOOSE u \in owing : TRUE
  <2>1. v \in owing /\ Carried(s, R) = Append(evictedPending[s], PendingOf(v, TRUE))
    BY <1>3 DEF Carried
  <2> HIDE DEF v, E
  <2>2. v \in Keys /\ v \in R /\ states[v].localDelta > 0 /\ PendingOf(v, TRUE) \in Pending
    BY <2>1, PendingType
  <2>3. SumOf(Append(evictedPending[s], PendingOf(v, TRUE)), E)
          = SumOf(evictedPending[s], E) + (IF PendingOf(v, TRUE) \in E THEN PendingOf(v, TRUE).flushN ELSE 0)
    <3>1. PICK p \in Pending : p = PendingOf(v, TRUE)
      BY <2>2
    <3>2. SumOf(Append(evictedPending[s], p), E)
            = SumOf(evictedPending[s], E) + (IF p \in E THEN p.flushN ELSE 0)
      BY <1>1, SumAppend
    <3> QED BY <3>1, <3>2
  <2>4. PendingOf(v, TRUE) \in E <=> v = k /\ states[k].windowStart = w
    BY <2>2 DEF E, EvictedOf, PendingOf
  <2>5. v = k <=> k \in R /\ states[k].localDelta > 0
    BY <2>2
  <2>6. PendingOf(v, TRUE).flushN = states[v].localDelta
    BY DEF PendingOf
  <2>7. (IF PendingOf(v, TRUE) \in E THEN PendingOf(v, TRUE).flushN ELSE 0) =
           (IF k \in R /\ states[k].localDelta > 0 /\ states[k].windowStart = w /\ ~EvictedFull(s)
            THEN states[k].localDelta ELSE 0)
    BY <1>3, <2>4, <2>5, <2>6
  <2> QED BY <2>1, <2>3, <2>7 DEF E
<1> QED BY <1>2, <1>3

\* A window of which no delta is in a batch: nothing is taken from it.
LEMMA NotInFlight ==
    ASSUME TypeInv, NEW k \in Keys, NEW w \in Windows, ~InFlight(k, w)
    PROVE  Taking(k, w) = 0 /\ Counting(k, w) = 0
<1>1. ASSUME NEW f \in Flushers PROVE Own(fl[f], k, w) = 0
  <2>1. OwnOf(fl[f], k, w) = {}
    BY DEF OwnOf, PlacesOf, OwnedBy, InFlight, Unsettled, Open
  <2> QED BY <2>1, TotalEmpty DEF Own
<1>2. Own(fl[Worker], k, w) = 0 /\ Own(fl[Closer], k, w) = 0
  BY <1>1 DEF Flushers
<1>3. Taking(k, w) = 0
  BY <1>2 DEF Taking
<1>4. PICK T \in Nat : T = Counting(k, w) /\ T <= Taking(k, w)
  BY LedgerTypes
<1>5. T = 0
  BY <1>3, <1>4
<1> QED BY <1>3, <1>4, <1>5

\* A window whose state a request evicts or replaces: its delta waits, or is on record.
LEMMA LeavingBalance ==
    ASSUME TypeInv, TypeInv', NEW k \in Keys, NEW w \in Windows, UNCHANGED <<fl, redis>>,
           Asked(k, w)' = Asked(k, w), Local(k, w)' = 0,
           \/ Waiting(k, w)' = Waiting(k, w)
              /\ (Local(k, w) = 0 \/ Marked(k, w, Missing)')
           \/ Waiting(k, w)' = Waiting(k, w) + Local(k, w)
              /\ (InFlight(k, w) => Marked(k, w, Twice)' /\ Marked(k, w, Missing)')
    PROVE  Balanced(k, w)
<1>1. PICK R, W, D, D1, O, T, L, A \in Nat :
         /\ R = redis[<<k, w>>] /\ W = Waiting(k, w) /\ D = Due(fl[Worker], k, w)
         /\ D1 = Due(fl[Closer], k, w) /\ O = Taking(k, w) /\ T = Counting(k, w)
         /\ L = Local(k, w) /\ A = Asked(k, w)
  <2>1. fl[Worker] \in FlushProgress /\ fl[Closer] \in FlushProgress
    BY LedgerTypes DEF Flushers
  <2>2. Due(fl[Worker], k, w) \in Nat /\ Due(fl[Closer], k, w) \in Nat
    BY <2>1, FlushSums
  <2> QED BY <2>2, LedgerTypes
<1>2. PICK W1 \in Nat : W1 = Waiting(k, w)'
  BY NextTypes
<1>3. /\ Carrying(k, w) = R + W + D + D1 /\ Carrying(k, w)' = R + W1 + D + D1
      /\ Taking(k, w)' = O /\ Counting(k, w)' = T
  BY <1>1, <1>2 DEF Carrying, Taking, Counting, Due, DueOf, Own, OwnOf, Told, ToldOf,
     EvictedOf, OwnedBy, PlacesOf, Heard
<1>4. ~InFlight(k, w) => O = 0 /\ T = 0
  BY <1>1, NotInFlight
<1>5. CASE Waiting(k, w)' = Waiting(k, w) /\ (Local(k, w) = 0 \/ Marked(k, w, Missing)')
  <2>1. W1 = W
    BY <1>1, <1>2, <1>5
  <2>2. NotTwice(k, w) => NotTwice(k, w)'
    BY <1>1, <1>3, <2>1 DEF NotTwice
  <2>3. Local(k, w) = 0 => (NotMissing(k, w) => NotMissing(k, w)')
    BY <1>1, <1>3, <2>1 DEF NotMissing
  <2> QED BY <1>5, <2>2, <2>3 DEF Balanced
<1>6. CASE /\ Waiting(k, w)' = Waiting(k, w) + Local(k, w)
           /\ InFlight(k, w) => Marked(k, w, Twice)' /\ Marked(k, w, Missing)'
  <2>1. W1 = W + L
    BY <1>1, <1>2, <1>6
  <2>2. CASE InFlight(k, w)
    BY <1>6, <2>2 DEF Balanced
  <2>3. CASE ~InFlight(k, w)
    <3>1. O = 0 /\ T = 0
      BY <1>4, <2>3
    <3>2. NotTwice(k, w) => NotTwice(k, w)'
      BY <1>1, <1>3, <2>1, <3>1 DEF NotTwice
    <3>3. NotMissing(k, w) => NotMissing(k, w)'
      BY <1>1, <1>3, <2>1, <3>1 DEF NotMissing
    <3> QED BY <3>2, <3>3 DEF Balanced
  <2> QED BY <2>2, <2>3
<1> QED BY <1>5, <1>6

\* The stripe-lock section of AllowN: what is admitted is in the delta of the state, and
\* the deltas of evicted states wait in the stripe.
LEMMA DecideBalance ==
    ASSUME QuotaInv, TypeInv', NEW t \in Threads, AllowNDecide(t), NEW k \in Keys, NEW w \in Windows
    PROVE  Balanced(k, w)
<1> USE DEF QuotaInv, CoverInv
<1> DEFINE j == req[t].key
           n == req[t].n
           z == WindowStart(req[t].now)
           s == StripeOf[j]
           st == IF states[j].windowStart = z THEN states[j] ELSE Fresh(z)
           verdict == Verdict(st, n)
           new == Counted(st, verdict, n)
           add == IF verdict = "admit" THEN n ELSE 0
<1>1. /\ j \in Keys /\ n \in Nat /\ z \in Windows /\ s \in Stripes
      /\ st \in LocalState /\ st.windowStart = z
      /\ states[j].windowStart # z => st.localDelta = 0
      /\ new.windowStart = z
      /\ new.localDelta = IF verdict = "admit" THEN st.localDelta + n ELSE st.localDelta
      /\ admitted' = [admitted EXCEPT ![<<j, z>>] = admitted[<<j, z>>] + add]
      /\ UNCHANGED <<flushVars, redisVars, others>>
  BY DecideFlow, Zenon
<1>2. PICK R \in SUBSET Keys :
         /\ j \notin R /\ \A u \in R : StripeOf[u] = s
         /\ \A u, v \in R : states[u].localDelta > 0 /\ states[v].localDelta > 0 => u = v
         /\ states' = [u \in Keys |-> IF u = j THEN new ELSE IF u \in R THEN Nil ELSE states[u]]
         /\ evictedPending' = [evictedPending EXCEPT ![s] = Carried(s, R)]
         /\ hist' = hist \cup RemovalEvents(s, R) \cup CreationEvents(j, z)
  BY EvictFlow, Zenon
<1>3. states[j].windowStart = z => st = states[j]
  OBVIOUS
<1> HIDE DEF j, n, z, s, st, verdict, new, add
<1>4. /\ redis[<<k, w>>] \in Nat /\ Waiting(k, w) \in Nat /\ Local(k, w) \in Nat
      /\ Asked(k, w) \in Nat /\ StripeOf[k] \in Stripes /\ evictedPending \in [Stripes -> Seq(Pending)]
      /\ admitted \in [KeyWindows -> Nat] /\ <<k, w>> \in KeyWindows /\ <<j, z>> \in KeyWindows
      /\ others[<<k, w>>] \in Nat /\ states[k].localDelta \in Nat /\ w # -1
  <2>1. states[k].localDelta \in Nat
    BY DEF TypeInv, TypeOK, StripeTypes, LocalState
  <2>2. w # -1
    BY WindowsNat
  <2> QED BY <1>1, <2>1, <2>2, LedgerTypes DEF TypeInv, TypeOK, StripeTypes, HistoryTypes, KeyWindows
<1>5. UNCHANGED <<fl, redis>>
  BY <1>1 DEF flushVars, redisVars
<1>6. Local(k, w)' = IF states'[k].windowStart = w THEN states'[k].localDelta ELSE 0
  BY DEF Local
<1>7. states'[k] = IF k = j THEN new ELSE IF k \in R THEN Nil ELSE states[k]
  BY <1>2
<1>8. Asked(k, w)' = Asked(k, w) + (IF k = j /\ w = z THEN add ELSE 0)
  <2>1. Asked(k, w)' = admitted'[<<k, w>>] + others[<<k, w>>]
    BY <1>1 DEF Asked
  <2>2. add \in Nat
    BY <1>1 DEF add
  <2>3. CASE k = j /\ w = z
    <3>1. admitted'[<<k, w>>] = admitted[<<k, w>>] + add
      BY <1>1, <1>4, <2>3
    <3>2. admitted[<<k, w>>] \in Nat
      BY <1>4
    <3>3. \A x, y, d \in Nat : (x + d) + y = (x + y) + d
      OBVIOUS
    <3> QED BY <1>4, <2>1, <2>2, <2>3, <3>1, <3>2, <3>3 DEF Asked
  <2>4. CASE ~(k = j /\ w = z)
    <3>1. admitted'[<<k, w>>] = admitted[<<k, w>>]
      BY <1>1, <1>4, <2>4
    <3>2. Asked(k, w)' = Asked(k, w)
      BY <2>1, <3>1 DEF Asked
    <3> QED BY <1>4, <2>4, <3>2
  <2> QED BY <2>3, <2>4
<1>9. Waiting(k, w)' = Waiting(k, w) +
         (IF k \in R /\ states[k].localDelta > 0 /\ states[k].windowStart = w /\ ~EvictedFull(s)
          THEN states[k].localDelta ELSE 0)
  <2>1. /\ Waiting(k, w) = SumOf(evictedPending[StripeOf[k]], EvictedOf(k, w))
        /\ Waiting(k, w)' = SumOf(evictedPending'[StripeOf[k]], EvictedOf(k, w))
    BY DEF Waiting, EvictedOf
  <2>2. CASE StripeOf[k] = s
    <3>1. evictedPending'[StripeOf[k]] = Carried(s, R)
      BY <1>2, <1>4, <2>2
    <3> QED BY <1>1, <1>2, <2>1, <2>2, <3>1, CarriedSums
  <2>3. CASE StripeOf[k] # s
    <3>1. evictedPending'[StripeOf[k]] = evictedPending[StripeOf[k]] /\ k \notin R
      BY <1>2, <1>4, <2>3
    <3> QED BY <1>4, <2>1, <3>1
  <2> QED BY <2>2, <2>3
<1>10. CASE k = j /\ w = z
  <2>1. Waiting(k, w)' = Waiting(k, w)
    BY <1>2, <1>4, <1>9, <1>10
  <2>2. /\ Carrying(k, w)' = Carrying(k, w) /\ Taking(k, w)' = Taking(k, w)
        /\ Counting(k, w)' = Counting(k, w)
    BY <1>5, <2>1 DEF Carrying, Taking, Counting, Due, DueOf, Own, OwnOf, Told, ToldOf,
       EvictedOf, OwnedBy, PlacesOf, Heard
  <2>3. Local(k, w)' = Local(k, w) + add
    <3>1. Local(k, w) = st.localDelta
      BY <1>1, <1>3, <1>10 DEF Local
    <3>2. Local(k, w)' = new.localDelta
      BY <1>1, <1>6, <1>7, <1>10
    <3> QED BY <1>1, <1>4, <3>1, <3>2 DEF add
  <2>4. Asked(k, w)' = Asked(k, w) + add
    BY <1>8, <1>10
  <2>5. PICK C, O, T, L, A, d \in Nat :
           /\ C = Carrying(k, w) /\ O = Taking(k, w) /\ T = Counting(k, w)
           /\ L = Local(k, w) /\ A = Asked(k, w) /\ d = add
    <3>1. add \in Nat
      BY <1>1 DEF add
    <3> QED BY <3>1, LedgerTypes
  <2>6. NotTwice(k, w) => NotTwice(k, w)'
    BY <2>2, <2>3, <2>4, <2>5 DEF NotTwice
  <2>7. NotMissing(k, w) => NotMissing(k, w)'
    BY <2>2, <2>3, <2>4, <2>5 DEF NotMissing
  <2> QED BY <2>6, <2>7 DEF Balanced
<1>11. CASE k = j /\ w # z
  <2>1. Local(k, w)' = 0 /\ Asked(k, w)' = Asked(k, w) /\ Waiting(k, w)' = Waiting(k, w)
    BY <1>1, <1>2, <1>4, <1>6, <1>7, <1>8, <1>9, <1>11
  <2>2. Local(k, w) = 0 \/ Marked(k, w, Missing)'
    <3> SUFFICES ASSUME Local(k, w) # 0 PROVE Marked(k, w, Missing)'
      OBVIOUS
    <3>1. states[k].windowStart = w /\ states[k].localDelta > 0
      BY <1>4 DEF Local
    <3>2. <<k, w, "dropped">> \in CreationEvents(j, z)
      BY <1>11, <3>1 DEF CreationEvents
    <3> QED BY <1>2, <3>2 DEF Marked, Missing
  <2> QED BY <1>5, <2>1, <2>2, LeavingBalance
<1>12. CASE k # j /\ k \in R
  <2>1. Local(k, w)' = 0 /\ Asked(k, w)' = Asked(k, w)
    BY <1>4, <1>6, <1>7, <1>8, <1>12 DEF Nil
  <2>2. CASE Local(k, w) = 0
    <3>1. Waiting(k, w)' = Waiting(k, w)
      BY <1>4, <1>9, <2>2 DEF Local
    <3> QED BY <1>5, <2>1, <2>2, <3>1, LeavingBalance
  <2>3. CASE Local(k, w) # 0
    <3>1. states[k].windowStart = w /\ states[k].localDelta > 0 /\ Local(k, w) = states[k].localDelta
      BY <1>4, <2>3 DEF Local
    <3>2. InFlight(k, w) => Marked(k, w, Twice)' /\ Marked(k, w, Missing)'
      <4>1. InFlight(k, w) => <<k, w, "evictedInFlight">> \in RemovalEvents(s, R)
        BY <1>12, <3>1 DEF RemovalEvents
      <4> QED BY <1>2, <4>1 DEF Marked, Twice, Missing
    <3>3. CASE EvictedFull(s)
      <4>1. <<k, w, "dropped">> \in RemovalEvents(s, R)
        BY <1>12, <3>1, <3>3 DEF RemovalEvents
      <4>2. Marked(k, w, Missing)'
        BY <1>2, <4>1 DEF Marked, Missing
      <4>3. Waiting(k, w)' = Waiting(k, w)
        BY <1>4, <1>9, <3>3
      <4> QED BY <1>5, <2>1, <4>2, <4>3, LeavingBalance
    <3>4. CASE ~EvictedFull(s)
      <4>1. Waiting(k, w)' = Waiting(k, w) + Local(k, w)
        BY <1>9, <1>12, <3>1, <3>4
      <4> QED BY <1>5, <2>1, <3>2, <4>1, LeavingBalance
    <3> QED BY <3>3, <3>4
  <2> QED BY <2>2, <2>3
<1>13. CASE k # j /\ k \notin R
  <2>1. /\ Local(k, w)' = Local(k, w) /\ Asked(k, w)' = Asked(k, w) /\ Waiting(k, w)' = Waiting(k, w)
    BY <1>4, <1>6, <1>7, <1>8, <1>9, <1>13 DEF Local
  <2>2. /\ Carrying(k, w)' = Carrying(k, w) /\ Taking(k, w)' = Taking(k, w)
        /\ Counting(k, w)' = Counting(k, w)
    BY <1>5, <2>1 DEF Carrying, Taking, Counting, Due, DueOf, Own, OwnOf, Told, ToldOf,
       EvictedOf, OwnedBy, PlacesOf, Heard
  <2> QED BY <2>1, <2>2, BalanceSame
<1> QED BY <1>10, <1>11, <1>12, <1>13

-----------------------------------------------------------------------------
(* The rest of a step: the environment, and the control of the flushes.    *)

\* An evicted delta stays in the stripe of its key.
LEMMA HousedStep ==
    ASSUME QuotaInv, Housed, [Next]_vars
    PROVE  Housed'
<1> USE DEF QuotaInv, CoverInv
<1>1. evictedPending \in [Stripes -> Seq(Pending)]
  BY DEF TypeInv, TypeOK, StripeTypes
<1>2. ASSUME UNCHANGED evictedPending PROVE Housed'
  BY <1>2 DEF Housed
<1>3. ASSUME NEW s \in Stripes, NEW b \in Seq(Pending),
             evictedPending' = [evictedPending EXCEPT ![s] = b],
             \A i \in DOMAIN b : StripeOf[b[i].key] = s
      PROVE  Housed'
  BY <1>1, <1>3 DEF Housed
<1>4. ASSUME NEW s \in Stripes, NEW p \in Pending, StripeOf[p.key] = s,
             evictedPending' = [evictedPending EXCEPT ![s] = Append(evictedPending[s], p)]
      PROVE  Housed'
  <2> DEFINE b == Append(evictedPending[s], p)
  <2>1. \A i \in DOMAIN b : StripeOf[b[i].key] = s
    <3>1. evictedPending[s] \in Seq(Pending) /\ \A i \in DOMAIN evictedPending[s] : StripeOf[evictedPending[s][i].key] = s
      BY <1>1 DEF Housed
    <3> QED BY <1>4, <3>1
  <2>2. b \in Seq(Pending)
    BY <1>1
  <2> HIDE DEF b
  <2>3. evictedPending' = [evictedPending EXCEPT ![s] = b]
    BY <1>4 DEF b
  <2> QED BY <1>3, <2>1, <2>2, <2>3
<1>5. ASSUME NEW t \in Threads, AllowNDecide(t) PROVE Housed'
  <2> DEFINE s == StripeOf[req[t].key]
  <2>1. PICK R \in SUBSET Keys :
           /\ \A u \in R : StripeOf[u] = s
           /\ evictedPending' = [evictedPending EXCEPT ![s] = Carried(s, R)]
    BY <1>5, EvictFlow, Zenon
  <2>2. s \in Stripes
    BY <1>5, DecideFlow, Zenon
  <2> HIDE DEF s
  <2> DEFINE owing == {v \in R : states[v].localDelta > 0}
             v == CHOOSE x \in owing : TRUE
  <2>3. CASE owing = {} \/ EvictedFull(s)
    <3>1. Carried(s, R) = evictedPending[s]
      BY <2>3 DEF Carried
    <3>2. UNCHANGED evictedPending
      BY <1>1, <2>1, <2>2, <3>1
    <3> QED BY <1>2, <3>2
  <2>4. CASE ~(owing = {} \/ EvictedFull(s))
    <3>1. v \in owing
      BY <2>4
    <3>2. Carried(s, R) = Append(evictedPending[s], PendingOf(v, TRUE))
      BY <2>4 DEF Carried
    <3> HIDE DEF v
    <3>3. v \in Keys /\ v \in R /\ states[v].localDelta > 0
      BY <3>1
    <3>4. PICK p \in Pending : p = PendingOf(v, TRUE)
      BY <3>3, PendingType
    <3>5. StripeOf[p.key] = s
      BY <2>1, <3>3, <3>4 DEF PendingOf
    <3>6. evictedPending' = [evictedPending EXCEPT ![s] = Append(evictedPending[s], p)]
      BY <2>1, <3>2, <3>4
    <3> QED BY <1>4, <2>2, <3>5, <3>6
  <2> QED BY <2>3, <2>4
<1>6. ASSUME NEW f \in Flushers, SnapshotStripe(f) PROVE Housed'
  <2> DEFINE s == Wrap(flushCursor + fl[f].visited)
             ev == evictedPending[s]
             take == Taken(f, s)
             rest == SubSeq(ev, take + 1, Len(ev))
  <2>1. /\ s \in Stripes /\ ev \in Seq(Pending) /\ take \in 0..Len(ev)
        /\ evictedPending' = [evictedPending EXCEPT ![s] = rest]
    BY <1>6, StripeFlow, Zenon
  <2>2. \A i \in DOMAIN ev : StripeOf[ev[i].key] = s
    BY <2>1 DEF Housed
  <2> HIDE DEF s, ev, take
  <2>3. DOMAIN rest = 1..(Len(ev) - take) /\ \A i \in DOMAIN rest : take + i \in DOMAIN ev /\ rest[i] = ev[take + i]
    BY <2>1
  <2>4. rest \in Seq(Pending)
    BY <2>1, SplitAt
  <2>5. \A i \in DOMAIN rest : StripeOf[rest[i].key] = s
    BY <2>2, <2>3
  <2> HIDE DEF rest
  <2> QED BY <1>3, <2>1, <2>4, <2>5
<1>7. ASSUME NEW f \in Flushers, ApplyError(f) PROVE Housed'
  <2> DEFINE p == Head(fl[f].batch)
             s == StripeOf[p.key]
             full == EvictedFull(s)
  <2>1. /\ fl[f].pc = "apply"
        /\ evictedPending' = [evictedPending EXCEPT ![s] =
                IF p.evicted /\ ~full THEN Append(evictedPending[s], p) ELSE evictedPending[s]]
    BY <1>7, ErrorFlow, Zenon
  <2>2. p \in Pending
    BY <2>1, HeadsType
  <2>3. s \in Stripes
    BY <2>2, LocalAsyncAssumption DEF Pending, Stripes
  <2> HIDE DEF p, full
  <2>4. CASE p.evicted /\ ~full
    <3>1. evictedPending' = [evictedPending EXCEPT ![s] = Append(evictedPending[s], p)]
      BY <2>1, <2>4
    <3> QED BY <1>4, <2>2, <2>3, <3>1
  <2>5. CASE ~(p.evicted /\ ~full)
    <3>1. UNCHANGED evictedPending
      BY <1>1, <2>1, <2>3, <2>5
    <3> QED BY <1>2, <3>1
  <2> QED BY <2>4, <2>5
<1>8. CASE \/ \E t \in Threads, k \in Keys, n \in Costs : AllowNEnter(t, k, n)
           \/ \E t \in Threads : AllowNEnqueue(t) \/ AllowNMarkActive(t)
           \/ Environment \/ IdleTick \/ UNCHANGED vars
  <2>1. UNCHANGED evictedPending
    BY <1>8 DEF AllowNEnter, AllowNEnqueue, AllowNMarkActive, Environment, ClockTick, RedisFails,
       RedisRecovers, OtherReplica, KeyExpires, IdleTick, vars, stripeVars
  <2> QED BY <1>2, <2>1
<1>9. CASE \E t \in Threads : AllowN(t)
  BY <1>5, <1>8, <1>9 DEF AllowN
<1>10. CASE ShardStep
  BY <1>2, <1>10, ShardFlow DEF stripeVars
<1>11. ASSUME NEW f \in Flushers, FlushLock(f) \/ SnapshotEnd(f) \/ Release(f) PROVE Housed'
  BY <1>2, <1>11, LockFlow, EndFlow, ReleaseFlow DEF stripeVars
<1>12. ASSUME NEW f \in Flushers, Inner(f), ~ApplyError(f) PROVE Housed'
  <2>1. UNCHANGED evictedPending
    BY <1>12, Zenon DEF Inner, ExecCommand, ExecEnd, ApplyOk, NoteOutcome, ExecExpire, Probe, stripeVars
  <2> QED BY <1>2, <2>1
<1> QED BY <1>6, <1>7, <1>8, <1>9, <1>10, <1>11, <1>12, StepCases, Zenon

\* The limiter does nothing, and Redis and the other replicas change one counter.
LEMMA OutsideBalance ==
    ASSUME TypeInv, TypeInv', NEW k \in Keys, NEW w \in Windows,
           UNCHANGED <<states, evictedPending, fl, admitted>>,
           \/ redis'[<<k, w>>] = redis[<<k, w>>] /\ others'[<<k, w>>] = others[<<k, w>>]
           \/ redis'[<<k, w>>] = redis[<<k, w>>] + 1 /\ others'[<<k, w>>] = others[<<k, w>>] + 1
           \/ redis'[<<k, w>>] = 0 /\ others'[<<k, w>>] = others[<<k, w>>] /\ Marked(k, w, Missing)'
    PROVE  Balanced(k, w)
<1>1. PICK R, R1, W, D, D1, O, T, L, A, B, B1 \in Nat :
         /\ R = redis[<<k, w>>] /\ R1 = redis'[<<k, w>>] /\ W = Waiting(k, w)
         /\ D = Due(fl[Worker], k, w) /\ D1 = Due(fl[Closer], k, w)
         /\ O = Taking(k, w) /\ T = Counting(k, w) /\ L = Local(k, w)
         /\ A = admitted[<<k, w>>] /\ B = others[<<k, w>>] /\ B1 = others'[<<k, w>>]
  <2>1. fl[Worker] \in FlushProgress /\ fl[Closer] \in FlushProgress
    BY LedgerTypes DEF Flushers
  <2>2. Due(fl[Worker], k, w) \in Nat /\ Due(fl[Closer], k, w) \in Nat
    BY <2>1, FlushSums
  <2>3. redis'[<<k, w>>] \in Nat /\ others'[<<k, w>>] \in Nat
    BY NextTypes
  <2> QED BY <2>2, <2>3, LedgerTypes
<1>2. /\ Carrying(k, w) = R + W + D + D1 /\ Carrying(k, w)' = R1 + W + D + D1
      /\ Taking(k, w)' = O /\ Counting(k, w)' = T /\ Local(k, w)' = L
      /\ Asked(k, w) = A + B /\ Asked(k, w)' = A + B1
  BY <1>1 DEF Carrying, Taking, Counting, Local, Asked, Waiting, Due, DueOf, Own, OwnOf, Told,
     ToldOf, EvictedOf, OwnedBy, PlacesOf, Heard
<1>3. \/ R1 = R /\ B1 = B
      \/ R1 = R + 1 /\ B1 = B + 1
      \/ R1 = 0 /\ B1 = B /\ Marked(k, w, Missing)'
  BY <1>1
<1>4. NotTwice(k, w) => NotTwice(k, w)'
  BY <1>1, <1>2, <1>3 DEF NotTwice
<1>5. Marked(k, w, Missing)' \/ (NotMissing(k, w) => NotMissing(k, w)')
  BY <1>1, <1>2, <1>3 DEF NotMissing
<1> QED BY <1>4, <1>5 DEF Balanced

\* The environment moves: another replica counts its own units, an expired key loses them.
LEMMA EnvironmentBalance ==
    ASSUME TypeInv, TypeInv', Environment, NEW k \in Keys, NEW w \in Windows
    PROVE  Balanced(k, w)
<1>1. /\ <<k, w>> \in KeyWindows /\ redis \in [KeyWindows -> Nat] /\ others \in [KeyWindows -> Nat]
      /\ redis[<<k, w>>] \in Nat
  BY DEF TypeInv, TypeOK, RedisTypes, HistoryTypes, KeyWindows
<1>2. CASE ClockTick \/ RedisFails \/ RedisRecovers
  <2>1. UNCHANGED <<states, evictedPending, fl, admitted, redis, others>>
    BY <1>2 DEF ClockTick, RedisFails, RedisRecovers, stripeVars, flushVars, redisVars, ghostVars
  <2> QED BY <2>1, OutsideBalance
<1>3. ASSUME NEW j \in Keys, OtherReplica(j) PROVE Balanced(k, w)
  <2> DEFINE z == WindowStart(now)
  <2>1. /\ redis' = [redis EXCEPT ![<<j, z>>] = redis[<<j, z>>] + 1]
        /\ others' = [others EXCEPT ![<<j, z>>] = others[<<j, z>>] + 1]
        /\ UNCHANGED <<states, evictedPending, fl, admitted>>
    BY <1>3 DEF OtherReplica, stripeVars, flushVars
  <2> HIDE DEF z
  <2>2. CASE <<k, w>> = <<j, z>>
    <3>1. redis'[<<k, w>>] = redis[<<k, w>>] + 1 /\ others'[<<k, w>>] = others[<<k, w>>] + 1
      BY <1>1, <2>1, <2>2
    <3> QED BY <2>1, <3>1, OutsideBalance
  <2>3. CASE <<k, w>> # <<j, z>>
    <3>1. redis'[<<k, w>>] = redis[<<k, w>>] /\ others'[<<k, w>>] = others[<<k, w>>]
      BY <1>1, <2>1, <2>3
    <3> QED BY <2>1, <3>1, OutsideBalance
  <2> QED BY <2>2, <2>3
<1>4. ASSUME NEW j \in Keys, NEW z \in Windows, KeyExpires(j, z) PROVE Balanced(k, w)
  <2>1. /\ redis' = [redis EXCEPT ![<<j, z>>] = 0] /\ hist' = hist \cup {<<j, z, "expired">>}
        /\ UNCHANGED <<states, evictedPending, fl, admitted, others>>
    BY <1>4 DEF KeyExpires, stripeVars, flushVars
  <2>2. CASE <<k, w>> = <<j, z>>
    <3>1. redis'[<<k, w>>] = 0
      BY <1>1, <2>1, <2>2
    <3>2. Marked(k, w, Missing)'
      BY <2>1, <2>2 DEF Marked, Missing
    <3> QED BY <2>1, <3>1, <3>2, OutsideBalance
  <2>3. CASE <<k, w>> # <<j, z>>
    <3>1. redis'[<<k, w>>] = redis[<<k, w>>]
      BY <1>1, <2>1, <2>3
    <3> QED BY <2>1, <3>1, OutsideBalance
  <2> QED BY <2>2, <2>3
<1> QED BY <1>2, <1>3, <1>4 DEF Environment

\* A flush begins, ends its snapshot, or goes on outside the pipeline.
LEMMA ControlBalance ==
    ASSUME QuotaInv, TypeInv', NEW f \in Flushers, NEW k \in Keys, NEW w \in Windows,
           FlushLock(f) \/ SnapshotEnd(f) \/ NoteOutcome(f) \/ ExecExpire(f) \/ Probe(f) \/ Release(f)
    PROVE  Balanced(k, w)
<1> USE DEF QuotaInv, CoverInv
<1>1. CASE FlushLock(f)
  <2>1. /\ fl[f].pc \notin Open /\ fl'[f].batch = <<>> /\ OnlyMoves(f)
        /\ UNCHANGED <<states, evictedPending, redis, admitted, others>>
    BY <1>1, LockFlow DEF Open, stripeVars, redisVars, ghostVars
  <2> QED BY <2>1, BalanceCarried
<1>2. CASE SnapshotEnd(f)
  <2>1. /\ fl[f].pc = "snap" /\ fl'[f].pc = IF fl[f].batch = <<>> THEN "probe" ELSE "exec"
        /\ fl'[f].batch = fl[f].batch /\ fl'[f].res = fl[f].res /\ OnlyMoves(f)
        /\ UNCHANGED <<states, evictedPending, redis, admitted, others>>
    BY <1>2, EndFlow DEF stripeVars, redisVars, ghostVars
  <2>2. fl'[f].res = <<>>
    BY <2>1 DEF SnapUnanswered
  <2>3. \A i \in DOMAIN fl[f].batch :
           fl[f].batch[i].key = k /\ fl[f].batch[i].ws = w => (Heard(fl'[f], i) <=> Heard(fl[f], i))
    BY <2>1, <2>2 DEF Heard
  <2>4. CASE fl[f].batch = <<>>
    BY <2>1, <2>4, BalanceCarried
  <2>5. CASE fl[f].batch # <<>>
    <3>1. fl[f].pc \in Open /\ fl'[f].pc \in Open
      BY <2>1, <2>5 DEF Open
    <3> QED BY <2>1, <2>3, <3>1, BalanceCarried
  <2> QED BY <2>4, <2>5
<1>3. CASE NoteOutcome(f) \/ ExecExpire(f) \/ Probe(f) \/ Release(f)
  <2>1. /\ fl[f].pc \notin Open /\ fl'[f].pc \notin Open /\ OnlyMoves(f)
        /\ UNCHANGED <<states, evictedPending, redis, admitted, others>>
    <3>1. CASE NoteOutcome(f)
      BY <3>1, NoteFlow DEF Open, stripeVars, redisVars, ghostVars
    <3>2. CASE ExecExpire(f)
      BY <3>2, ExpireFlow DEF Open, stripeVars
    <3>3. CASE Probe(f)
      BY <3>3, ProbeFlow DEF Open, stripeVars, redisVars, ghostVars
    <3>4. CASE Release(f)
      BY <3>4, ReleaseFlow DEF Open, stripeVars, redisVars, ghostVars
    <3> QED BY <1>3, <3>1, <3>2, <3>3, <3>4
  <2> QED BY <2>1, BalanceCarried
<1> QED BY <1>1, <1>2, <1>3

LEMMA LedgerStep ==
    ASSUME LedgerInv, TypeInv', [Next]_vars, NEW k \in Keys, NEW w \in Windows
    PROVE  Balanced(k, w)
<1> USE DEF LedgerInv, QuotaInv, CoverInv
<1>1. CASE \/ \E t \in Threads, j \in Keys, n \in Costs : AllowNEnter(t, j, n)
           \/ \E t \in Threads : AllowNEnqueue(t) \/ AllowNMarkActive(t)
           \/ IdleTick \/ UNCHANGED vars
  <2>1. UNCHANGED <<states, evictedPending, fl, admitted, redis, others>>
    BY <1>1 DEF AllowNEnter, AllowNEnqueue, AllowNMarkActive, IdleTick, vars, stripeVars, flushVars,
       redisVars, ghostVars
  <2> QED BY <2>1, OutsideBalance
<1>2. CASE \E t \in Threads : AllowN(t)
  BY <1>1, <1>2, DecideBalance DEF AllowN
<1>3. CASE Environment
  BY <1>3, EnvironmentBalance
<1>4. CASE ShardStep
  <2>1. PICK f \in Flushers, c \in FlusherPc \ Holding :
           fl[f].pc \notin Holding /\ fl'[f].pc = c /\ OnlyMoves(f)
    BY <1>4, ShardFlow
  <2>2. /\ fl[f].pc \notin Open /\ fl'[f].pc \notin Open
        /\ UNCHANGED <<states, evictedPending, redis, admitted, others>>
    BY <1>4, <2>1, ShardFlow DEF Open, Holding, stripeVars, redisVars, ghostVars
  <2> QED BY <2>1, <2>2, BalanceCarried
<1>5. ASSUME NEW f \in Flushers, SnapshotStripe(f) PROVE Balanced(k, w)
  BY <1>5, StripeBalance
<1>6. ASSUME NEW f \in Flushers, FlushLock(f) \/ SnapshotEnd(f) \/ Release(f) PROVE Balanced(k, w)
  BY <1>6, ControlBalance
<1>7. ASSUME NEW f \in Flushers, Inner(f) PROVE Balanced(k, w)
  BY <1>7, CommandBalance, ReturnBalance, ErrorBalance, OkBalance, ControlBalance DEF Inner
<1> QED BY <1>1, <1>2, <1>3, <1>4, <1>5, <1>6, <1>7, StepCases, Zenon

LEMMA LedgerInvInit == Init => LedgerInv
<1> SUFFICES ASSUME Init PROVE LedgerInv
  OBVIOUS
<1>1. QuotaInv
  BY QuotaInvInit
<1>2. Housed
  BY DEF Init, Housed
<1>3. ASSUME NEW k \in Keys, NEW w \in Windows PROVE NotTwice(k, w) /\ NotMissing(k, w)
  <2>1. StripeOf[k] \in Stripes
    BY LocalAsyncAssumption DEF Stripes
  <2>2. evictedPending[StripeOf[k]] = <<>>
    BY <2>1 DEF Init
  <2>3. PlacesOf(evictedPending[StripeOf[k]], EvictedOf(k, w)) = {}
    BY <2>2 DEF PlacesOf
  <2>4. Waiting(k, w) = 0
    BY <2>3, TotalEmpty DEF Waiting, SumOf
  <2>5. \A f \in Flushers : Due(fl[f], k, w) = 0 /\ Own(fl[f], k, w) = 0 /\ Told(fl[f], k, w) = 0
    <3>1. \A f \in Flushers : fl[f] \in FlushProgress /\ fl[f].batch = <<>>
      BY <1>1 DEF QuotaInv, CoverInv, TypeInv, TypeOK, FlushTypes, Init, IdleFlush
    <3> QED BY <3>1, FlushSums
  <2>6. Worker \in Flushers /\ Closer \in Flushers
    BY DEF Flushers
  <2>7. redis[<<k, w>>] = 0 /\ Asked(k, w) = 0 /\ Local(k, w) = 0
    <3>1. redis[<<k, w>>] = 0 /\ admitted[<<k, w>>] = 0 /\ others[<<k, w>>] = 0
      BY DEF Init, KeyWindows
    <3>2. states[k] = Nil /\ Nil.localDelta = 0
      BY DEF Init, Nil
    <3>3. Asked(k, w) = 0
      BY <3>1 DEF Asked
    <3> QED BY <3>1, <3>2, <3>3 DEF Local
  <2>8. Carrying(k, w) = 0 /\ Taking(k, w) = 0 /\ Counting(k, w) = 0
    BY <2>4, <2>5, <2>6, <2>7 DEF Carrying, Taking, Counting
  <2> QED BY <2>7, <2>8 DEF NotTwice, NotMissing
<1>4. TakenOnce /\ TakenAll
  BY <1>3 DEF TakenOnce, TakenAll
<1> QED BY <1>1, <1>2, <1>4 DEF LedgerInv

LEMMA LedgerInvStep == LedgerInv /\ [Next]_vars => LedgerInv'
<1> SUFFICES ASSUME LedgerInv, [Next]_vars PROVE LedgerInv'
  OBVIOUS
<1>1. QuotaInv'
  BY QuotaInvStep DEF LedgerInv
<1>2. Housed'
  BY HousedStep DEF LedgerInv
<1>3. TypeInv' /\ TypeInv /\ BatchShape
  BY <1>1 DEF LedgerInv, QuotaInv, CoverInv
<1>4. \A k \in Keys, w \in Windows : Balanced(k, w)
  BY <1>3, LedgerStep
<1>5. TakenOnce' /\ TakenAll'
  BY <1>3, <1>4, AllBalanced DEF LedgerInv
<1> QED BY <1>1, <1>2, <1>5 DEF LedgerInv

\* Redis never counts a unit twice: whatever the order of requests, snapshots, pipelines,
\* replies, evictions and retries, every unit of a key's counter was admitted by this replica
\* or counted by another one, unless the reply of a pipeline was lost or a state was evicted
\* with its delta in flight.  What a batch holds of a delta is still part of the state's
\* delta, so a request counts it once, and applying its reply takes it off once.
THEOREM NothingCountedTwice == Spec => []NoOvercount
<1>1. LedgerInv => NoOvercount
  <2> SUFFICES ASSUME LedgerInv, NEW k \in Keys, NEW w \in Windows, ~Marked(k, w, Twice)
               PROVE  redis[<<k, w>>] <= admitted[<<k, w>>] + others[<<k, w>>]
    BY DEF NoOvercount, Twice
  <2>1. TypeInv /\ NotTwice(k, w)
    BY DEF LedgerInv, QuotaInv, CoverInv, TakenOnce
  <2>2. PICK R, W, D, D1, O, T, L, A \in Nat :
           /\ R = redis[<<k, w>>] /\ W = Waiting(k, w) /\ D = Due(fl[Worker], k, w)
           /\ D1 = Due(fl[Closer], k, w) /\ O = Taking(k, w) /\ T = Counting(k, w)
           /\ L = Local(k, w) /\ A = Asked(k, w) /\ T <= O
    <3>1. fl[Worker] \in FlushProgress /\ fl[Closer] \in FlushProgress
      BY <2>1, LedgerTypes DEF Flushers
    <3>2. Due(fl[Worker], k, w) \in Nat /\ Due(fl[Closer], k, w) \in Nat
      BY <3>1, FlushSums
    <3> QED BY <2>1, <3>2, LedgerTypes
  <2>3. Carrying(k, w) = R + W + D + D1
    BY <2>2 DEF Carrying
  <2>4. \/ O <= L /\ R + W + D + D1 + L - T <= A
        \/ R + W + D + D1 + L + O - T <= A
    BY <2>1, <2>2, <2>3 DEF NotTwice
  <2>5. R <= A
    BY <2>2, <2>4
  <2> QED BY <2>2, <2>5 DEF Asked
<1> QED BY <1>1, LedgerInvInit, LedgerInvStep, PTL DEF Spec

\* Nothing admitted goes missing: once no delta of a window is pending in a state, in an
\* eviction buffer or in a flush, Redis counts all that was admitted of it, unless a delta
\* was dropped or the key has expired.  Snapshots, failed pipelines, evictions and requests
\* admitted during a flush only move units between these places.
THEOREM NothingMissing == Spec => []NoUndercount
<1>1. LedgerInv => NoUndercount
  <2> SUFFICES ASSUME LedgerInv, NEW k \in Keys, NEW w \in Windows,
                      ~PendingFor(k, w), ~Marked(k, w, Missing)
               PROVE  redis[<<k, w>>] >= admitted[<<k, w>>] + others[<<k, w>>]
    BY DEF NoUndercount, Missing
  <2>1. TypeInv /\ NotMissing(k, w)
    BY DEF LedgerInv, QuotaInv, CoverInv, TakenAll
  <2>2. Local(k, w) = 0
    <3>1. states[k].localDelta \in Nat
      BY <2>1 DEF TypeInv, TypeOK, StripeTypes, LocalState
    <3> QED BY <3>1 DEF Local, PendingFor
  <2>3. Waiting(k, w) = 0
    <3>1. PlacesOf(evictedPending[StripeOf[k]], EvictedOf(k, w)) = {}
      BY DEF PlacesOf, EvictedOf, PendingFor
    <3> QED BY <3>1, TotalEmpty DEF Waiting, SumOf
  <2>4. ASSUME NEW f \in Flushers PROVE Due(fl[f], k, w) = 0
    <3>1. DueOf(fl[f], k, w) = {}
      BY DEF DueOf, PlacesOf, EvictedOf, PendingFor, Unsettled, Open
    <3> QED BY <3>1, TotalEmpty DEF Due
  <2>5. PICK R, T, A \in Nat : R = redis[<<k, w>>] /\ T = Counting(k, w) /\ A = Asked(k, w)
    BY <2>1, LedgerTypes
  <2>6. Carrying(k, w) = R
    <3>1. Due(fl[Worker], k, w) = 0 /\ Due(fl[Closer], k, w) = 0
      BY <2>4 DEF Flushers
    <3> QED BY <2>3, <2>5, <3>1 DEF Carrying
  <2>7. R >= A
    BY <2>1, <2>2, <2>5, <2>6 DEF NotMissing
  <2> QED BY <2>5, <2>7 DEF Asked
<1> QED BY <1>1, LedgerInvInit, LedgerInvStep, PTL DEF Spec
=============================================================================
