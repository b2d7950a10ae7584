--------------------------- MODULE RateLimitPhases ---------------------------
(***************************************************************************)
(* One advanced-ratelimit policy while requests pass through it: the       *)
(* handlers of ratelimit.go that the gateway kernel calls for a request    *)
(* (OnRequestHeaders, OnRequestBody, OnResponseHeaders and then either     *)
(* OnResponseBody or OnResponseBodyChunk), which decide in which of them   *)
(* each quota is checked and charged.                                      *)
(*                                                                         *)
(* A handler is a loop over the quotas that makes at most one limiter call *)
(* per quota; a limiter call is atomic and the calls of different requests *)
(* interleave, so one iteration is one step.  The limiter is a fixed       *)
(* window on the memory or the Redis backend.  Costs are counted in half   *)
(* units, because a cost is a float64 that int64() truncates.              *)
(***************************************************************************)
EXTENDS Integers, Sequences, FiniteSets

CONSTANTS
    Requests,      \* requests the kernel sends through the policy
    Policies,      \* policies as configured: quotas, backend, failure mode
    Values,        \* what a cost source may yield, in half units
    DefaultCost,   \* the configured default, in half units
    Limit,         \* the limit of every quota
    NumChunks,     \* chunks of a streamed response body
    MaxWork,       \* bound: requests times quotas
    MaxErrors,     \* bound: failing Redis calls
    MaxResets      \* bound: window changes

RequestSources  == {"request_header", "request_metadata", "request_body", "request_cel"}
ResponseSources == {"response_header", "response_metadata", "response_body", "response_cel"}

\* A quota: its cost sources ({} is standard mode), whether its key is a CEL expression,
\* and whether the key extraction yields a non-empty key.
Quota == [sources : SUBSET (RequestSources \cup ResponseSources),
          cel : BOOLEAN, keyed : BOOLEAN]
Policy == [quotas : Seq(Quota), backend : {"memory", "redis"}, failOpen : BOOLEAN]

ASSUME RateLimitPhasesAssumption ==
    /\ Policies \subseteq Policy
    /\ Values \subseteq Int
    /\ DefaultCost \in Nat
    /\ Limit \in Nat \ {0}
    /\ NumChunks \in Nat \ {0}
    /\ MaxWork \in Nat /\ MaxErrors \in Nat /\ MaxResets \in Nat

VARIABLES
    pol,        \* the policy; never changes
    count,      \* the limiters: units counted in the current window, per quota
    pc, i,      \* per request: the handler it is in, and the quota of its loop
    input,      \* per request: the sources that yield a value, and that value
    stream,     \* per request: isStreamingResponse, and whether the kernel streams
    results,    \* per request: quotaResults of the running handler
    stored,     \* metadata ratelimit:result
    keys,       \* metadata ratelimit:keys
    handled,    \* metadata ratelimit:header_handled
    acc, sent,  \* metadata ratelimit:stream_state: chunks gathered per quota; chunks sent
    errors, resets,
    charged,    \* history: units charged by calls that succeeded, per phase
    emitted,    \* history: the quotas in the last rate limit headers set
    erred,      \* history: the phases in which a limiter call failed
    refused,    \* history: a limiter found no room for the request
    spent       \* history: quotas exhausted when the request arrived, in this window

limiterVars  == <<pol, count, errors, resets>>
loopVars     == <<pc, i, results>>
metadataVars == <<stored, keys, handled, acc, sent>>
inputVars    == <<input, stream>>
historyVars  == <<charged, emitted, erred, refused, spent>>
vars == <<limiterVars, loopVars, metadataVars, inputVars, historyVars>>

Quotas     == 1..Len(pol.quotas)
Sources(q) == pol.quotas[q].sources

-----------------------------------------------------------------------------
(* Which handler a quota belongs to (CostExtractor and Mode).              *)

CostEnabled(q) == Sources(q) # {}

HasRequestBodyPhase(q) ==
    Sources(q) \cap {"request_body", "request_cel", "request_metadata"} # {}
HasRequestHeaderOnly(q) ==
    ~HasRequestBodyPhase(q) /\ "request_header" \in Sources(q)
HasRequestPhase(q)  == Sources(q) \cap RequestSources # {}
HasResponsePhase(q) == Sources(q) \cap ResponseSources # {}
RequiresResponseBody(q) == Sources(q) \cap {"response_body", "response_cel"} # {}

HasResponseHeaderOnly(q) == Sources(q) \cap ResponseSources = {"response_header"}

\* requiresRequestBody and requiresAnyResponseBodyMode: the body modes Mode asks for.
RequiresRequestBody ==
    \E q \in Quotas : HasRequestBodyPhase(q) \/ pol.quotas[q].cel
RequiresResponseBodyMode ==
    \E q \in Quotas : ~HasResponseHeaderOnly(q) /\ HasResponsePhase(q)

-----------------------------------------------------------------------------
(* Costs: the sum over the sources that yield a value, the default when    *)
(* none does; never negative.                                              *)

Clamp(x) == IF x < 0 THEN 0 ELSE x

\* Mutant: a negative total is charged as it is.
TotalUnclamped(r, found) ==
    IF found = {} THEN DefaultCost ELSE input[r].val * Cardinality(found)

TotalOf(r, found) ==
    IF found = {} THEN DefaultCost ELSE Clamp(input[r].val * Cardinality(found))

\* Extract...Cost: the cost of quota q from the sources a handler can read.
Extract(r, q, readable) == TotalOf(r, Sources(q) \cap readable \cap input[r].has)

\* The cost a handler charges: int64() of the float.
Int64(halves) == halves \div 2

\* What OnResponseHeaders can read (no body, and not the metadata that policies of the body
\* phase will set), and what is readable at the end of a stream (a body only if gathered).
HeaderReadable == {"response_header"}
StreamReadable(r, q) ==
    ResponseSources \ (IF acc[r][q] = NumChunks THEN {} ELSE {"response_body", "response_cel"})

-----------------------------------------------------------------------------
(* The limiter: MemoryLimiter and RedisLimiter of algorithms/fixedwindow.  *)

CanFail == pol.backend = "redis" /\ errors < MaxErrors

Available(q) == IF count[q] >= Limit THEN 0 ELSE Limit - count[q]

\* A Redis call that fails may have been counted (a lost reply, a failed EXPIRE).
Failures(q, n) ==
    IF CanFail THEN {[count |-> c, ok |-> FALSE, err |-> TRUE] : c \in {count[q], count[q] + n}}
               ELSE {}

\* Mutant: a request is admitted as long as anything is left.
AllowNWhileAny(q, n) ==
    {[count |-> count[q] + n, ok |-> count[q] <= Limit, err |-> FALSE]} \cup Failures(q, n)

\* AllowN: memory counts what fits, Redis counts whatever comes.
AllowN(q, n) ==
    LET fits == count[q] + n <= Limit
    IN  {[count |-> IF fits \/ pol.backend = "redis" THEN count[q] + n ELSE count[q],
          ok |-> fits, err |-> FALSE]} \cup Failures(q, n)

\* ConsumeN counts beyond the limit; every limiter has it.
ConsumeN(q, n) ==
    {[count |-> count[q] + n, ok |-> TRUE, err |-> FALSE]} \cup Failures(q, n)

\* GetAvailable only reads.
GetAvailable(q) ==
    {[count |-> count[q], ok |-> Available(q) > 0, err |-> FALSE]} \cup Failures(q, 0)

-----------------------------------------------------------------------------
(* The kernel hands a request to the policy.                               *)

Empty == [q \in Quotas |-> "absent"]

Arrived == {r \in Requests : pc[r] # "idle"}

Arrive(r) ==
    /\ pc[r] = "idle"
    /\ (Cardinality(Arrived) + 1) * Len(pol.quotas) <= MaxWork
    /\ \E has \in SUBSET UNION {Sources(q) : q \in Quotas}, val \in Values :
           input' = [input EXCEPT ![r] = [has |-> has, val |-> val]]
    /\ pc' = [pc EXCEPT ![r] = "OnRequestHeaders"]
    /\ spent' = [spent EXCEPT ![r] = {q \in Quotas : Available(q) = 0}]
    /\ UNCHANGED <<limiterVars, i, results, metadataVars, stream, charged, emitted, erred,
                   refused>>

\* continue: the quota leaves no result.
Skip(r) ==
    /\ i' = [i EXCEPT ![r] = i[r] + 1]
    /\ UNCHANGED <<pc, results>>

\* The quota leaves result x, and the loop goes on.
Leave(r, x) ==
    /\ i' = [i EXCEPT ![r] = i[r] + 1]
    /\ results' = [results EXCEPT ![r] = [results[r] EXCEPT ![i[r]] = x]]
    /\ UNCHANGED pc

\* buildRateLimitResponse: an immediate response, nothing is stored.
Deny(r) ==
    /\ pc' = [pc EXCEPT ![r] = "denied"]
    /\ UNCHANGED <<i, results>>

\* The loop is over: the next handler starts its own.
EndLoop(r, next) ==
    /\ i[r] = Len(pol.quotas) + 1
    /\ pc' = [pc EXCEPT ![r] = next]
    /\ i' = [i EXCEPT ![r] = 1]
    /\ results' = [results EXCEPT ![r] = Empty]

\* The results of the handler go to the metadata.
StoreResults(r) == stored' = [stored EXCEPT ![r] = results[r]]

Count(q, o) ==
    /\ count' = [count EXCEPT ![q] = o.count]
    /\ errors' = IF o.err THEN errors + 1 ELSE errors
    /\ UNCHANGED <<pol, resets>>

Charge(r, phase, q, n) ==
    charged' = [charged EXCEPT ![r] =
                   [charged[r] EXCEPT ![phase] = [charged[r][phase] EXCEPT ![q] = @ + n]]]

-----------------------------------------------------------------------------
(* The request phase.                                                      *)

\* Mutant: an error admits the request whatever the failure mode.
FailAlwaysOpen(r) == Skip(r)

\* An error of the limiter: failureMode decides (redisBacked is implied by the error).
Fail(r) == (pol.failOpen /\ Skip(r)) \/ (~pol.failOpen /\ Deny(r))

\* One limiter call of the request phase: `calls` are its outcomes, n the units it charges,
\* x the result it leaves; OnRequestHeaders marks what it finished as handled.
Check(r, calls, n, x) ==
    LET q == i[r]
    IN  \E o \in calls :
        /\ Count(q, o)
        /\ erred' = IF o.err THEN [erred EXCEPT ![r] = @ \cup {"request"}] ELSE erred
        /\ \/ o.err /\ Fail(r) /\ UNCHANGED <<handled, charged, refused>>
           \/ /\ ~o.err /\ ~o.ok /\ Deny(r)
              /\ refused' = [refused EXCEPT ![r] = TRUE]
              /\ UNCHANGED <<handled, charged>>
           \/ /\ ~o.err /\ o.ok /\ Leave(r, x) /\ Charge(r, "request", q, n)
              /\ handled' = IF pc[r] = "OnRequestHeaders" /\ x = "set"
                            THEN [handled EXCEPT ![r] = @ \cup {q}] ELSE handled
              /\ UNCHANGED refused

\* GetAvailable used to report only: nothing left does not refuse.
Look(q) == {[o EXCEPT !.ok = ~o.err] : o \in GetAvailable(q)}

\* A cost of zero is only reported, any other is taken if it fits.
Take(r, cost) ==
    IF cost = 0 THEN Check(r, Look(i[r]), 0, "set")
                ELSE Check(r, AllowN(i[r], Int64(cost)), Int64(cost), "set")

\* Pre-check of a quota that is charged later: a placeholder when anything is left.
PreCheck(r) == Check(r, GetAvailable(i[r]), 0, "nil")

\* A quota of OnRequestHeaders: standard mode costs 1; request_header costs are known.
HeaderQuota(r, q) ==
    \/ ~CostEnabled(q) /\ Take(r, 2)
    \/ HasRequestHeaderOnly(q) /\ Take(r, Extract(r, q, {"request_header"}))
    \/ CostEnabled(q) /\ ~HasRequestHeaderOnly(q) /\ PreCheck(r)

\* A quota with a CEL key is left to the body phase.
OnRequestHeaders(r) ==
    /\ pc[r] = "OnRequestHeaders"
    /\ i[r] \in Quotas
    /\ \/ /\ pol.quotas[i[r]].cel
          /\ Skip(r)
          /\ UNCHANGED <<limiterVars, keys, handled, charged, erred, refused>>
       \/ /\ ~pol.quotas[i[r]].cel
          /\ keys' = [keys EXCEPT ![r] = @ \cup {i[r]}]
          /\ HeaderQuota(r, i[r])
    /\ UNCHANGED <<inputVars, stored, acc, sent, emitted, spent>>

OnRequestHeadersEnd(r) ==
    /\ pc[r] = "OnRequestHeaders"
    /\ EndLoop(r, IF RequiresRequestBody THEN "OnRequestBody" ELSE "upstream")
    /\ StoreResults(r)
    /\ UNCHANGED <<limiterVars, keys, handled, acc, sent, inputVars, historyVars>>

\* Mutant: a quota handled in the header phase is charged again.
CarriedNever(r, q) == FALSE

\* The quotas OnRequestBody takes over from OnRequestHeaders.
Carried(r, q) == HasRequestHeaderOnly(q) \/ (~CostEnabled(q) /\ q \in handled[r])

\* A quota of OnRequestBody.
BodyQuota(r, q) ==
    \/ /\ Carried(r, q)
       /\ IF stored[r][q] = "absent" THEN Skip(r) ELSE Leave(r, stored[r][q])
       /\ UNCHANGED <<limiterVars, handled, charged, erred, refused>>
    \/ ~Carried(r, q) /\ ~CostEnabled(q) /\ Take(r, 2)
    \/ ~Carried(r, q) /\ HasRequestPhase(q) /\ Take(r, Extract(r, q, RequestSources))
    \/ ~Carried(r, q) /\ CostEnabled(q) /\ ~HasRequestPhase(q) /\ PreCheck(r)

\* OnRequestBody extracts the key of every quota.
StoreKey(r) == keys' = [keys EXCEPT ![r] = @ \cup {i[r]}]

OnRequestBody(r) ==
    /\ pc[r] = "OnRequestBody"
    /\ i[r] \in Quotas
    /\ StoreKey(r)
    /\ BodyQuota(r, i[r])
    /\ UNCHANGED <<inputVars, stored, acc, sent, emitted, spent>>

OnRequestBodyEnd(r) ==
    /\ pc[r] = "OnRequestBody"
    /\ EndLoop(r, "upstream")
    /\ StoreResults(r)
    /\ UNCHANGED <<limiterVars, keys, handled, acc, sent, inputVars, historyVars>>

-----------------------------------------------------------------------------
(* The response phase.                                                     *)

\* The upstream answers; the kernel streams only what looks like a stream, and only when
\* every policy of the chain can.
Respond(r) ==
    /\ pc[r] = "upstream"
    /\ \E looks, streams \in BOOLEAN :
           /\ streams => looks
           /\ stream' = [stream EXCEPT ![r] = [looks |-> looks, streams |-> streams]]
    /\ pc' = [pc EXCEPT ![r] = "OnResponseHeaders"]
    /\ UNCHANGED <<limiterVars, i, results, metadataVars, input, historyVars>>

\* The upstream does not answer, or one side goes away in the middle of a stream.
Abort(r) ==
    /\ pc[r] \in {"upstream", "OnResponseBodyChunk"}
    /\ pc' = [pc EXCEPT ![r] = "aborted"]
    /\ UNCHANGED <<limiterVars, i, results, metadataVars, inputVars, historyVars>>

\* quotaKeys[quotaName] # "".
HasKey(r, q) == q \in keys[r] /\ pol.quotas[q].keyed

\* One limiter call of the response phase: an error is logged and the quota skipped.
Settle(r, calls, n, x) ==
    LET q == i[r]
    IN  \E o \in calls :
        /\ Count(q, o)
        /\ erred' = IF o.err THEN [erred EXCEPT ![r] = @ \cup {"response"}] ELSE erred
        /\ \/ o.err /\ Skip(r) /\ UNCHANGED charged
           \/ ~o.err /\ Leave(r, x) /\ Charge(r, "response", q, n)

\* The stored result of the request phase, if there is one that is not a placeholder.
Keep(r, q) ==
    /\ IF stored[r][q] = "set" THEN Leave(r, "set") ELSE Skip(r)
    /\ UNCHANGED <<limiterVars, charged, erred>>

\* The response cost of a quota, in OnResponseHeaders and OnResponseBody.
ChargeResponse(r, q, cost) ==
    \/ /\ ~HasKey(r, q)
       /\ Skip(r)
       /\ UNCHANGED <<limiterVars, charged, erred>>
    \/ HasKey(r, q) /\ cost = 0 /\ stored[r][q] = "set" /\ Keep(r, q)
    \/ HasKey(r, q) /\ cost = 0 /\ stored[r][q] # "set" /\ Settle(r, Look(q), 0, "set")
    \/ HasKey(r, q) /\ cost > 0 /\ Settle(r, ConsumeN(q, Int64(cost)), Int64(cost), "set")

\* Without an accurate result, a response that looks streamed gets a snapshot.
Snapshot(r, q) ==
    \/ /\ stored[r][q] = "set" \/ ~stream[r].looks \/ ~HasKey(r, q)
       /\ Keep(r, q)
    \/ /\ stored[r][q] # "set" /\ stream[r].looks /\ HasKey(r, q)
       /\ Settle(r, Look(q), 0, "set")

OnResponseHeaders(r) ==
    /\ pc[r] = "OnResponseHeaders"
    /\ i[r] \in Quotas
    /\ \/ /\ HasResponseHeaderOnly(i[r])
          /\ ChargeResponse(r, i[r], Extract(r, i[r], HeaderReadable))
       \/ ~HasResponseHeaderOnly(i[r]) /\ Snapshot(r, i[r])
    /\ UNCHANGED <<metadataVars, inputVars, emitted, refused, spent>>

\* buildMultiQuotaHeaders: placeholders are left out; no result sets no header.
Emit(r) ==
    LET set == {q \in Quotas : results[r][q] = "set"}
    IN  emitted' = IF set = {} THEN emitted ELSE [emitted EXCEPT ![r] = set]

\* Mutant: the headers of a streamed response are left to the body phase.
DefersHeadersAlways(r) == RequiresResponseBodyMode

\* The headers of a buffered response wait for the body phase.
DefersHeaders(r) == RequiresResponseBodyMode /\ ~stream[r].looks

OnResponseHeadersEnd(r) ==
    /\ pc[r] = "OnResponseHeaders"
    /\ EndLoop(r, IF ~RequiresResponseBodyMode THEN "done"
                  ELSE IF stream[r].streams THEN "OnResponseBodyChunk" ELSE "OnResponseBody")
    /\ StoreResults(r)
    /\ IF DefersHeaders(r) THEN UNCHANGED emitted ELSE Emit(r)
    /\ UNCHANGED <<limiterVars, keys, handled, acc, sent, inputVars, charged, erred, refused,
                   spent>>

\* A buffered body: what OnResponseHeaders consumed is carried over.
OnResponseBody(r) ==
    /\ pc[r] = "OnResponseBody"
    /\ i[r] \in Quotas
    /\ \/ HasResponseHeaderOnly(i[r]) /\ Keep(r, i[r])
       \/ /\ ~HasResponseHeaderOnly(i[r]) /\ HasResponsePhase(i[r])
          /\ ChargeResponse(r, i[r], Extract(r, i[r], ResponseSources))
       \/ ~HasResponsePhase(i[r]) /\ Keep(r, i[r])
    /\ UNCHANGED <<metadataVars, inputVars, emitted, refused, spent>>

OnResponseBodyEnd(r) ==
    /\ pc[r] = "OnResponseBody"
    /\ EndLoop(r, "done")
    /\ Emit(r)
    /\ UNCHANGED <<limiterVars, metadataVars, inputVars, charged, erred, refused, spent>>

\* Mutant: the last chunk is not gathered.
GatherButLast(r, q) ==
    IF RequiresResponseBody(q) /\ sent[r] + 1 < NumChunks THEN acc[r][q] + 1 ELSE acc[r][q]

Gather(r, q) == IF RequiresResponseBody(q) THEN acc[r][q] + 1 ELSE acc[r][q]

\* A chunk of a streamed body; the last one starts finalizeAndConsumeStreamingCosts.
OnResponseBodyChunk(r) ==
    /\ pc[r] = "OnResponseBodyChunk"
    /\ acc' = [acc EXCEPT ![r] = [q \in Quotas |-> Gather(r, q)]]
    /\ sent' = [sent EXCEPT ![r] = @ + 1]
    /\ pc' = IF sent[r] + 1 = NumChunks THEN [pc EXCEPT ![r] = "finalize"] ELSE pc
    /\ UNCHANGED <<limiterVars, i, results, stored, keys, handled, inputVars, historyVars>>

\* hasStreamingResponseSourceForQuota.
StreamSource(q) == HasResponsePhase(q) /\ ~HasResponseHeaderOnly(q)

\* finalizeAndConsumeStreamingCosts, one quota: the key is not looked at.
Finalize(r) ==
    /\ pc[r] = "finalize"
    /\ i[r] \in Quotas
    /\ LET q    == i[r]
           cost == Extract(r, q, StreamReadable(r, q))
       IN  \/ /\ ~StreamSource(q) \/ cost = 0
              /\ Skip(r)
              /\ UNCHANGED <<limiterVars, charged, erred>>
           \/ StreamSource(q) /\ cost > 0 /\ Settle(r, ConsumeN(q, Int64(cost)), Int64(cost), "absent")
    /\ UNCHANGED <<metadataVars, inputVars, emitted, refused, spent>>

FinalizeEnd(r) ==
    /\ pc[r] = "finalize"
    /\ EndLoop(r, "done")
    /\ UNCHANGED <<limiterVars, metadataVars, inputVars, historyVars>>

-----------------------------------------------------------------------------
\* A new window of the limiters.
WindowChange ==
    /\ resets < MaxResets
    /\ count' = [q \in Quotas |-> 0]
    /\ resets' = resets + 1
    /\ spent' = [r \in Requests |-> {}]
    /\ UNCHANGED <<pol, errors, loopVars, metadataVars, inputVars, charged, emitted, erred,
                   refused>>

\* Every request the bound lets in is finished.
Finished ==
    /\ \A r \in Requests :
           \/ pc[r] \in {"done", "denied", "aborted"}
           \/ pc[r] = "idle" /\ (Cardinality(Arrived) + 1) * Len(pol.quotas) > MaxWork
    /\ UNCHANGED vars

Nobody == [has |-> {}, val |-> 0]
NoStream == [looks |-> FALSE, streams |-> FALSE]
Nothing == [q \in Quotas |-> 0]

Init ==
    /\ pol \in Policies
    /\ count = Nothing
    /\ pc = [r \in Requests |-> "idle"]
    /\ i = [r \in Requests |-> 1]
    /\ input = [r \in Requests |-> Nobody]
    /\ stream = [r \in Requests |-> NoStream]
    /\ results = [r \in Requests |-> Empty]
    /\ stored = [r \in Requests |-> Empty]
    /\ keys = [r \in Requests |-> {}]
    /\ handled = [r \in Requests |-> {}]
    /\ acc = [r \in Requests |-> Nothing]
    /\ sent = [r \in Requests |-> 0]
    /\ errors = 0 /\ resets = 0
    /\ charged = [r \in Requests |-> [phase \in {"request", "response"} |-> Nothing]]
    /\ emitted = [r \in Requests |-> {}]
    /\ erred = [r \in Requests |-> {}]
    /\ refused = [r \in Requests |-> FALSE]
    /\ spent = [r \in Requests |-> {}]

RequestStep(r) ==
    \/ Arrive(r)
    \/ OnRequestHeaders(r) \/ OnRequestHeadersEnd(r)
    \/ OnRequestBody(r) \/ OnRequestBodyEnd(r)
ResponseStep(r) ==
    \/ Respond(r) \/ Abort(r)
    \/ OnResponseHeaders(r) \/ OnResponseHeadersEnd(r)
    \/ OnResponseBody(r) \/ OnResponseBodyEnd(r)
    \/ OnResponseBodyChunk(r) \/ Finalize(r) \/ FinalizeEnd(r)

Next == (\E r \in Requests : RequestStep(r) \/ ResponseStep(r)) \/ WindowChange \/ Finished

Spec == Init /\ [][Next]_vars

-----------------------------------------------------------------------------
(* Properties.                                                             *)

Handlers == {"idle", "OnRequestHeaders", "OnRequestBody", "upstream", "OnResponseHeaders",
             "OnResponseBody", "OnResponseBodyChunk", "finalize", "done", "denied", "aborted"}
Outcomes == {"absent", "nil", "set"}

\* The values of the variables: limiters, loops, request contexts and history.
LimiterTypes ==
    /\ pol \in Policies
    /\ count \in [Quotas -> Nat]
    /\ errors \in Nat /\ resets \in Nat
LoopTypes ==
    /\ pc \in [Requests -> Handlers]
    /\ i \in [Requests -> 1..(Len(pol.quotas) + 1)]
    /\ results \in [Requests -> [Quotas -> Outcomes]]
MetadataTypes ==
    /\ stored \in [Requests -> [Quotas -> Outcomes]]
    /\ keys \in [Requests -> SUBSET Quotas]
    /\ handled \in [Requests -> SUBSET Quotas]
    /\ acc \in [Requests -> [Quotas -> Nat]]
    /\ sent \in [Requests -> Nat]
InputTypes ==
    /\ input \in [Requests -> [has : SUBSET (RequestSources \cup ResponseSources), val : Int]]
    /\ stream \in [Requests -> [looks : BOOLEAN, streams : BOOLEAN]]
HistoryTypes ==
    /\ charged \in [Requests -> [{"request", "response"} -> [Quotas -> Nat]]]
    /\ emitted \in [Requests -> SUBSET Quotas]
    /\ erred \in [Requests -> SUBSET {"request", "response"}]
    /\ refused \in [Requests -> BOOLEAN]
    /\ spent \in [Requests -> SUBSET Quotas]

\* Type invariant of the policy's per-request state and of its limiters.
TypeOK == LimiterTypes /\ LoopTypes /\ MetadataTypes /\ InputTypes /\ HistoryTypes

\* What a request owes a quota in each phase: 1 in standard mode, otherwise the cost of all
\* sources of that phase, wherever and whenever they are read.
Due(r, phase, q) ==
    IF phase = "request"
    THEN IF ~CostEnabled(q) THEN 1
         ELSE IF HasRequestPhase(q) THEN Int64(Extract(r, q, RequestSources)) ELSE 0
    ELSE IF HasResponsePhase(q) THEN Int64(Extract(r, q, ResponseSources)) ELSE 0

\* A quota with a CEL key whose request cost comes from headers only: OnRequestHeaders
\* leaves it to OnRequestBody, which takes it for handled.
Unchecked(q) == pol.quotas[q].cel /\ HasRequestHeaderOnly(q)

\* No interleaving of the handlers, in no failure mode and on no response path, charges a
\* quota more than the request owes it in either phase.
NeverOvercharged ==
    \A r \in Requests, phase \in {"request", "response"}, q \in Quotas :
        charged[r][phase][q] <= Due(r, phase, q)

\* A request that ran to its end without a limiter error was charged exactly what it owes,
\* whichever of the handlers did it and whether or not the response was streamed; only a
\* quota with an empty key is exempt, in the response phase, where the handlers other than
\* finalizeAndConsumeStreamingCosts skip it.
ChargedExactly ==
    \A r \in Requests, q \in Quotas :
        pc[r] = "done" /\ erred[r] = {} =>
            /\ Unchecked(q) \/ charged[r]["request"][q] = Due(r, "request", q)
            /\ pol.quotas[q].keyed \/ (stream[r].streams /\ StreamSource(q)) =>
                   charged[r]["response"][q] = Due(r, "response", q)

\* What the comment on OnRequestHeaders promises of quotas with a CEL key: they are
\* deferred to the body phase, and so charged there.
DeferredIsCharged ==
    \A r \in Requests, q \in Quotas :
        pc[r] = "done" /\ erred[r] = {} /\ pol.quotas[q].cel =>
            charged[r]["request"][q] = Due(r, "request", q)

\* A request that ran to its end without a limiter error told the client about every quota
\* that has a key, on the buffered and on the streamed path.
EveryQuotaReported ==
    \A r \in Requests, q \in Quotas :
        pc[r] = "done" /\ erred[r] = {} /\ pol.quotas[q].keyed /\ ~Unchecked(q) =>
            q \in emitted[r]

Admitted(r) == pc[r] \in Handlers \ {"idle", "OnRequestHeaders", "OnRequestBody", "denied"}

\* The check and the charge of a quota are far apart, yet a request that arrives after a
\* quota was used up does not reach the upstream in that window, unless what it takes
\* from that quota in the request phase rounds to nothing.
ExhaustedBlocks ==
    \A r \in Requests : Admitted(r) /\ "request" \notin erred[r] =>
        \A q \in spent[r] :
            Unchecked(q) \/ (HasRequestPhase(q) /\ Due(r, "request", q) = 0)

\* failureMode: an error of the request phase stops the request when closed; when open
\* nothing but a limiter that found no room does.
FailureModeHonoured ==
    \A r \in Requests :
        /\ Admitted(r) /\ "request" \in erred[r] => pol.failOpen
        /\ pc[r] = "denied" /\ pol.failOpen => refused[r]
=============================================================================
