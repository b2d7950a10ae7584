----------------------- MODULE RateLimitPhasesProofs -----------------------
(***************************************************************************)
(* Proofs about RateLimitPhases, for every set of policies: any number of  *)
(* quotas, any mix of cost sources, any number of concurrent requests,     *)
(* limiter errors and window changes.                                      *)
(***************************************************************************)
EXTENDS RateLimitPhases, FiniteSetTheorems, TLAPS

AllSources == RequestSources \cup ResponseSources

\* What the request phase has not charged yet: the rest of the loop, and all that
\* OnRequestBody will not take over.
RequestFresh ==
    \A r \in Requests, q \in Quotas :
        \/ pc[r] = "idle"
        \/ pc[r] = "OnRequestHeaders" /\ (q >= i[r] \/ ~Carried(r, q))
        \/ pc[r] = "OnRequestBody" /\ q >= i[r] /\ ~Carried(r, q)
        => charged[r]["request"][q] = 0

\* What the response phase has not charged yet: OnResponseHeaders charges the quotas that
\* only read headers, and nothing but those.
ResponseFresh ==
    \A r \in Requests, q \in Quotas :
        \/ pc[r] \in {"idle", "OnRequestHeaders", "OnRequestBody", "upstream"}
        \/ pc[r] = "OnResponseHeaders" /\ (q >= i[r] \/ ~HasResponseHeaderOnly(q))
        \/ /\ pc[r] \in {"OnResponseBody", "OnResponseBodyChunk", "finalize"}
           /\ q >= i[r] /\ ~HasResponseHeaderOnly(q)
        => charged[r]["response"][q] = 0

\* Every chunk sent was gathered for the quotas that need the body.
Gathered ==
    \A r \in Requests :
        /\ pc[r] = "finalize" => sent[r] = NumChunks
        /\ \A q \in Quotas : RequiresResponseBody(q) => acc[r][q] = sent[r]

PhaseInv == TypeOK /\ RequestFresh /\ ResponseFresh /\ Gathered /\ NeverOvercharged

-----------------------------------------------------------------------------
(* Costs.                                                                  *)

LEMMA SourcesFinite == IsFiniteSet(AllSources)
<1>1. /\ IsFiniteSet({"request_header"}) /\ IsFiniteSet({"request_metadata"})
      /\ IsFiniteSet({"request_body"}) /\ IsFiniteSet({"request_cel"})
      /\ IsFiniteSet({"response_header"}) /\ IsFiniteSet({"response_metadata"})
      /\ IsFiniteSet({"response_body"}) /\ IsFiniteSet({"response_cel"})
  BY FS_Singleton
<1>2. IsFiniteSet({"request_header"} \cup {"request_metadata"})
  BY <1>1, FS_Union
<1>3. IsFiniteSet({"request_body"} \cup {"request_cel"})
  BY <1>1, FS_Union
<1>4. IsFiniteSet({"response_header"} \cup {"response_metadata"})
  BY <1>1, FS_Union
<1>5. IsFiniteSet({"response_body"} \cup {"response_cel"})
  BY <1>1, FS_Union
<1>6. IsFiniteSet(RequestSources)
  <2>1. RequestSources = ({"request_header"} \cup {"request_metadata"})
                         \cup ({"request_body"} \cup {"request_cel"})
    BY DEF RequestSources
  <2> QED BY <1>2, <1>3, <2>1, FS_Union
<1>7. IsFiniteSet(ResponseSources)
  <2>1. ResponseSources = ({"response_header"} \cup {"response_metadata"})
                          \cup ({"response_body"} \cup {"response_cel"})
    BY DEF ResponseSources
  <2> QED BY <1>4, <1>5, <2>1, FS_Union
<1> QED BY <1>6, <1>7, FS_Union DEF AllSources

\* A sum over sources, clamped, is a natural number of half units.
LEMMA SumType ==
    ASSUME NEW v \in Int, NEW S \in SUBSET AllSources
    PROVE  Clamp(v * Cardinality(S)) \in Nat
<1>1. Cardinality(S) \in Nat
  BY SourcesFinite, FS_Subset, FS_CardinalityType
<1>2. v * Cardinality(S) \in Int
  BY <1>1
<1> QED BY <1>2 DEF Clamp

LEMMA Int64Type ==
    ASSUME NEW h \in Nat
    PROVE  Int64(h) \in Nat
BY DEF Int64

\* Facts about the policy that every proof below needs.
LEMMA PolicyFacts ==
    ASSUME TypeOK
    PROVE  /\ pol.quotas \in Seq(Quota) /\ Len(pol.quotas) \in Nat
           /\ \A q \in Quotas : q \in Nat /\ pol.quotas[q] \in Quota
           /\ \A q \in Quotas : Sources(q) \in SUBSET AllSources
<1>1. pol \in Policy
  BY RateLimitPhasesAssumption DEF TypeOK, LimiterTypes
<1>2. pol.quotas \in Seq(Quota)
  BY <1>1 DEF Policy
<1>3. \A q \in Quotas : q \in Nat /\ pol.quotas[q] \in Quota
  BY <1>2 DEF Quotas
<1>4. \A q \in Quotas : Sources(q) \in SUBSET AllSources
  BY <1>3 DEF Sources, Quota, AllSources
<1> QED BY <1>2, <1>3, <1>4

LEMMA ExtractType ==
    ASSUME TypeOK, NEW r \in Requests, NEW q \in Quotas, NEW readable
    PROVE  Extract(r, q, readable) \in Nat
<1> DEFINE found == Sources(q) \cap readable \cap input[r].has
<1>1. found \in SUBSET AllSources
  BY PolicyFacts
<1>2. input[r].val \in Int
  BY DEF TypeOK, InputTypes
<1>3. Clamp(input[r].val * Cardinality(found)) \in Nat
  BY <1>1, <1>2, SumType
<1> HIDE DEF found
<1>4. TotalOf(r, found) \in Nat
  BY <1>3, RateLimitPhasesAssumption DEF TotalOf
<1> QED BY <1>4 DEF Extract, found

LEMMA DueType ==
    ASSUME TypeOK, NEW r \in Requests, NEW q \in Quotas, NEW phase
    PROVE  Due(r, phase, q) \in Nat
<1>1. Int64(Extract(r, q, RequestSources)) \in Nat
  BY ExtractType, Int64Type
<1>2. Int64(Extract(r, q, ResponseSources)) \in Nat
  BY ExtractType, Int64Type
<1> QED BY <1>1, <1>2 DEF Due

-----------------------------------------------------------------------------
(* The limiter calls.                                                      *)

CallOutcomes == [count : Nat, ok : BOOLEAN, err : BOOLEAN]

LEMMA FailuresType ==
    ASSUME NEW q, count[q] \in Nat, NEW n \in Nat
    PROVE  Failures(q, n) \in SUBSET CallOutcomes
<1> SUFFICES ASSUME NEW o \in Failures(q, n) PROVE o \in CallOutcomes
  OBVIOUS
<1>1. PICK c \in {count[q], count[q] + n} : o = [count |-> c, ok |-> FALSE, err |-> TRUE]
  BY DEF Failures
<1>2. c \in Nat
  OBVIOUS
<1> QED BY <1>1, <1>2 DEF CallOutcomes

LEMMA CallTypes ==
    ASSUME TypeOK, NEW q \in Quotas, NEW n \in Nat
    PROVE  /\ AllowN(q, n) \in SUBSET CallOutcomes
           /\ ConsumeN(q, n) \in SUBSET CallOutcomes
           /\ GetAvailable(q) \in SUBSET CallOutcomes
           /\ Look(q) \in SUBSET CallOutcomes
<1>1. count[q] \in Nat /\ count[q] + n \in Nat /\ count[q] + 0 \in Nat
  BY DEF TypeOK, LimiterTypes
<1>2. Failures(q, n) \in SUBSET CallOutcomes /\ Failures(q, 0) \in SUBSET CallOutcomes
  BY <1>1, FailuresType
<1>3. AllowN(q, n) \in SUBSET CallOutcomes
  <2> DEFINE fits == count[q] + n <= Limit
             c    == IF fits \/ pol.backend = "redis" THEN count[q] + n ELSE count[q]
  <2>1. c \in Nat /\ fits \in BOOLEAN
    BY <1>1
  <2>2. AllowN(q, n) = {[count |-> c, ok |-> fits, err |-> FALSE]} \cup Failures(q, n)
    BY DEF AllowN
  <2> HIDE DEF c, fits
  <2>3. [count |-> c, ok |-> fits, err |-> FALSE] \in CallOutcomes
    BY <2>1 DEF CallOutcomes
  <2> QED BY <1>2, <2>2, <2>3
<1>4. ConsumeN(q, n) \in SUBSET CallOutcomes
  <2>1. [count |-> count[q] + n, ok |-> TRUE, err |-> FALSE] \in CallOutcomes
    BY <1>1 DEF CallOutcomes
  <2> QED BY <1>2, <2>1 DEF ConsumeN
<1>5. GetAvailable(q) \in SUBSET CallOutcomes
  <2> DEFINE left == Available(q) > 0
  <2>1. left \in BOOLEAN
    OBVIOUS
  <2>2. GetAvailable(q) = {[count |-> count[q], ok |-> left, err |-> FALSE]} \cup Failures(q, 0)
    BY DEF GetAvailable
  <2> HIDE DEF left
  <2>3. [count |-> count[q], ok |-> left, err |-> FALSE] \in CallOutcomes
    BY <1>1, <2>1 DEF CallOutcomes
  <2> QED BY <1>2, <2>2, <2>3
<1>6. Look(q) \in SUBSET CallOutcomes
  <2> SUFFICES ASSUME NEW o \in GetAvailable(q)
               PROVE  [o EXCEPT !.ok = ~o.err] \in CallOutcomes
    BY DEF Look
  <2>1. o \in CallOutcomes
    BY <1>5
  <2> DEFINE fine == ~o.err
  <2>2. fine \in BOOLEAN
    OBVIOUS
  <2> HIDE DEF fine
  <2>3. [o EXCEPT !.ok = fine] \in CallOutcomes
    BY <2>1, <2>2 DEF CallOutcomes
  <2> QED BY <2>3 DEF fine
<1> QED BY <1>3, <1>4, <1>5, <1>6

\* Where the loop of a request stands after one quota: at the next one, or denied.
LoopMoves(r) ==
    \/ pc' = pc /\ i' = [i EXCEPT ![r] = i[r] + 1]
    \/ pc' = [pc EXCEPT ![r] = "denied"] /\ i' = i

\* What one quota of a loop may change, and by how much it may charge.
LoopTypesStep(r) ==
    /\ pol' = pol /\ resets' = resets
    /\ count' \in [Quotas -> Nat] /\ errors' \in Nat
    /\ pc' \in [Requests -> Handlers]
    /\ i' \in [Requests -> 1..(Len(pol.quotas) + 1)]
    /\ results' \in [Requests -> [Quotas -> Outcomes]]
    /\ erred' \in [Requests -> SUBSET {"request", "response"}]

LEMMA SkipType ==
    ASSUME TypeOK, NEW r \in Requests, i[r] \in Quotas, Skip(r)
    PROVE  /\ pc' \in [Requests -> Handlers]
           /\ i' \in [Requests -> 1..(Len(pol.quotas) + 1)]
           /\ results' \in [Requests -> [Quotas -> Outcomes]]
           /\ LoopMoves(r)
<1>1. i[r] + 1 \in 1..(Len(pol.quotas) + 1)
  BY PolicyFacts DEF Quotas
<1> QED BY <1>1 DEF Skip, LoopMoves, TypeOK, LoopTypes

LEMMA LeaveType ==
    ASSUME TypeOK, NEW r \in Requests, i[r] \in Quotas, NEW x \in Outcomes, Leave(r, x)
    PROVE  /\ pc' \in [Requests -> Handlers]
           /\ i' \in [Requests -> 1..(Len(pol.quotas) + 1)]
           /\ results' \in [Requests -> [Quotas -> Outcomes]]
           /\ LoopMoves(r)
<1>1. i[r] + 1 \in 1..(Len(pol.quotas) + 1)
  BY PolicyFacts DEF Quotas
<1> QED BY <1>1 DEF Leave, LoopMoves, TypeOK, LoopTypes

LEMMA DenyType ==
    ASSUME TypeOK, NEW r \in Requests, Deny(r)
    PROVE  /\ pc' \in [Requests -> Handlers]
           /\ i' \in [Requests -> 1..(Len(pol.quotas) + 1)]
           /\ results' \in [Requests -> [Quotas -> Outcomes]]
           /\ LoopMoves(r)
BY DEF Deny, LoopMoves, TypeOK, LoopTypes, Handlers

LEMMA CountType ==
    ASSUME TypeOK, NEW q \in Quotas, NEW o \in CallOutcomes, Count(q, o)
    PROVE  pol' = pol /\ resets' = resets /\ count' \in [Quotas -> Nat] /\ errors' \in Nat
BY DEF Count, CallOutcomes, TypeOK, LimiterTypes

LEMMA ChargeType ==
    ASSUME TypeOK, NEW r \in Requests, NEW q \in Quotas, NEW n \in Nat,
           NEW phase \in {"request", "response"}, Charge(r, phase, q, n)
    PROVE  charged' \in [Requests -> [{"request", "response"} -> [Quotas -> Nat]]]
BY DEF Charge, TypeOK, HistoryTypes
LEMMA ChargeFacts ==
    ASSUME TypeOK, NEW r \in Requests, NEW q \in Quotas, NEW n \in Nat,
           NEW phase \in {"request", "response"}, Charge(r, phase, q, n)
    PROVE  /\ charged'[r][phase][q] = charged[r][phase][q] + n
           /\ \A u \in Requests, h \in {"request", "response"}, p \in Quotas :
                u # r \/ h # phase \/ p # q => charged'[u][h][p] = charged[u][h][p]
BY DEF Charge, TypeOK, HistoryTypes

\* One limiter call of the request phase.
LEMMA CheckStep ==
    ASSUME TypeOK, NEW r \in Requests, i[r] \in Quotas, NEW calls \in SUBSET CallOutcomes,
           NEW n \in Nat, NEW x \in Outcomes, Check(r, calls, n, x)
    PROVE  /\ LoopTypesStep(r) /\ LoopMoves(r)
           /\ refused' \in [Requests -> BOOLEAN]
           /\ handled' \in [Requests -> SUBSET Quotas]
           /\ charged' \in [Requests -> [{"request", "response"} -> [Quotas -> Nat]]]
           /\ \/ charged' = charged /\ handled' = handled
              \/ /\ Charge(r, "request", i[r], n)
                 /\ pc' = pc
                 /\ handled' = IF pc[r] = "OnRequestHeaders" /\ x = "set"
                               THEN [handled EXCEPT ![r] = @ \cup {i[r]}] ELSE handled
<1>1. PICK o \in calls :
        /\ Count(i[r], o)
        /\ erred' = IF o.err THEN [erred EXCEPT ![r] = @ \cup {"request"}] ELSE erred
        /\ \/ o.err /\ Fail(r) /\ UNCHANGED <<handled, charged, refused>>
           \/ /\ ~o.err /\ ~o.ok /\ Deny(r)
              /\ refused' = [refused EXCEPT ![r] = TRUE]
              /\ UNCHANGED <<handled, charged>>
           \/ /\ ~o.err /\ o.ok /\ Leave(r, x) /\ Charge(r, "request", i[r], n)
              /\ handled' = IF pc[r] = "OnRequestHeaders" /\ x = "set"
                            THEN [handled EXCEPT ![r] = @ \cup {i[r]}] ELSE handled
              /\ UNCHANGED refused
  BY Zenon DEF Check
<1>2. pol' = pol /\ resets' = resets /\ count' \in [Quotas -> Nat] /\ errors' \in Nat
  BY <1>1, CountType
<1>3. erred' \in [Requests -> SUBSET {"request", "response"}]
  BY <1>1 DEF TypeOK, HistoryTypes
<1>4. CASE o.err /\ Fail(r) /\ UNCHANGED <<handled, charged, refused>>
  <2>1. Skip(r) \/ Deny(r)
    BY <1>4 DEF Fail
  <2>2. refused' \in [Requests -> BOOLEAN] /\ handled' \in [Requests -> SUBSET Quotas]
        /\ charged' \in [Requests -> [{"request", "response"} -> [Quotas -> Nat]]]
    BY <1>4 DEF TypeOK, HistoryTypes, MetadataTypes
  <2> QED BY <1>2, <1>3, <1>4, <2>1, <2>2, SkipType, DenyType DEF LoopTypesStep
<1>5. CASE /\ ~o.err /\ ~o.ok /\ Deny(r)
           /\ refused' = [refused EXCEPT ![r] = TRUE]
           /\ UNCHANGED <<handled, charged>>
  <2>1. refused' \in [Requests -> BOOLEAN] /\ handled' \in [Requests -> SUBSET Quotas]
        /\ charged' \in [Requests -> [{"request", "response"} -> [Quotas -> Nat]]]
    BY <1>5 DEF TypeOK, HistoryTypes, MetadataTypes
  <2> QED BY <1>2, <1>3, <1>5, <2>1, DenyType DEF LoopTypesStep
<1>6. CASE /\ ~o.err /\ o.ok /\ Leave(r, x) /\ Charge(r, "request", i[r], n)
           /\ handled' = IF pc[r] = "OnRequestHeaders" /\ x = "set"
                         THEN [handled EXCEPT ![r] = @ \cup {i[r]}] ELSE handled
           /\ UNCHANGED refused
  <2>1. refused' \in [Requests -> BOOLEAN] /\ handled' \in [Requests -> SUBSET Quotas]
    BY <1>6 DEF TypeOK, HistoryTypes, MetadataTypes
  <2>2. charged' \in [Requests -> [{"request", "response"} -> [Quotas -> Nat]]]
    BY <1>6, ChargeType
  <2>3. pc' = pc
    BY <1>6 DEF Leave
  <2> QED BY <1>2, <1>3, <1>6, <2>1, <2>2, <2>3, LeaveType DEF LoopTypesStep
<1> QED BY <1>1, <1>4, <1>5, <1>6

\* One limiter call of the response phase.
LEMMA SettleStep ==
    ASSUME TypeOK, NEW r \in Requests, i[r] \in Quotas, NEW calls \in SUBSET CallOutcomes,
           NEW n \in Nat, NEW x \in Outcomes, Settle(r, calls, n, x)
    PROVE  /\ LoopTypesStep(r)
           /\ pc' = pc /\ i' = [i EXCEPT ![r] = i[r] + 1]
           /\ charged' \in [Requests -> [{"request", "response"} -> [Quotas -> Nat]]]
           /\ charged' = charged \/ Charge(r, "response", i[r], n)
<1>1. PICK o \in calls :
        /\ Count(i[r], o)
        /\ erred' = IF o.err THEN [erred EXCEPT ![r] = @ \cup {"response"}] ELSE erred
        /\ \/ o.err /\ Skip(r) /\ UNCHANGED charged
           \/ ~o.err /\ Leave(r, x) /\ Charge(r, "response", i[r], n)
  BY Zenon DEF Settle
<1>2. pol' = pol /\ resets' = resets /\ count' \in [Quotas -> Nat] /\ errors' \in Nat
  BY <1>1, CountType
<1>3. erred' \in [Requests -> SUBSET {"request", "response"}]
  BY <1>1 DEF TypeOK, HistoryTypes
<1>4. CASE Skip(r) /\ UNCHANGED charged
  <2>1. charged' \in [Requests -> [{"request", "response"} -> [Quotas -> Nat]]]
    BY <1>4 DEF TypeOK, HistoryTypes
  <2>2. pc' = pc /\ i' = [i EXCEPT ![r] = i[r] + 1]
    BY <1>4 DEF Skip
  <2> QED BY <1>2, <1>3, <1>4, <2>1, <2>2, SkipType DEF LoopTypesStep
<1>5. CASE Leave(r, x) /\ Charge(r, "response", i[r], n)
  <2>1. charged' \in [Requests -> [{"request", "response"} -> [Quotas -> Nat]]]
    BY <1>5, ChargeType
  <2>2. pc' = pc /\ i' = [i EXCEPT ![r] = i[r] + 1]
    BY <1>5 DEF Leave
  <2> QED BY <1>2, <1>3, <1>5, <2>1, <2>2, LeaveType DEF LoopTypesStep
<1> QED BY <1>1, <1>4, <1>5

\* Taking a cost is one call, for that many whole units.
LEMMA TakeStep ==
    ASSUME TypeOK, NEW r \in Requests, i[r] \in Quotas, NEW cost \in Nat, Take(r, cost)
    PROVE  \E calls \in SUBSET CallOutcomes : Check(r, calls, Int64(cost), "set")
<1>1. CASE cost = 0
  <2>1. Int64(0) = 0
    BY DEF Int64
  <2>2. Look(i[r]) \in SUBSET CallOutcomes
    BY CallTypes
  <2>3. Check(r, Look(i[r]), 0, "set")
    BY <1>1 DEF Take
  <2> QED BY <1>1, <2>1, <2>2, <2>3
<1>2. CASE cost # 0
  <2>1. Int64(cost) \in Nat
    BY Int64Type
  <2>2. AllowN(i[r], Int64(cost)) \in SUBSET CallOutcomes
    BY <2>1, CallTypes
  <2>3. Check(r, AllowN(i[r], Int64(cost)), Int64(cost), "set")
    BY <1>2 DEF Take
  <2> QED BY <2>2, <2>3
<1> QED BY <1>1, <1>2

-----------------------------------------------------------------------------
(* The loops.                                                              *)

\* What one quota of the request phase may charge: nothing, or what the request owes, and
\* then the quota was not taken over, and will not be charged again.
RequestCharge(r) ==
    \E n \in Nat :
        /\ Charge(r, "request", i[r], n)
        /\ pc' = pc
        /\ \/ handled' = handled
           \/ handled' = [handled EXCEPT ![r] = @ \cup {i[r]}]
        /\ n # 0 =>
             /\ n = Due(r, "request", i[r])
             /\ pc[r] = "OnRequestBody" => ~Carried(r, i[r])
             /\ pc[r] = "OnRequestHeaders" =>
                  \/ HasRequestHeaderOnly(i[r])
                  \/ ~CostEnabled(i[r]) /\ i[r] \in handled'[r]

RequestLoopFacts(r) ==
    /\ LoopTypesStep(r) /\ LoopMoves(r)
    /\ refused' \in [Requests -> BOOLEAN]
    /\ handled' \in [Requests -> SUBSET Quotas]
    /\ charged' \in [Requests -> [{"request", "response"} -> [Quotas -> Nat]]]
    /\ (charged' = charged /\ handled' = handled) \/ RequestCharge(r)

\* Standard mode: one unit, and in the header phase the quota is then handled.
LEMMA StandardTake ==
    ASSUME TypeOK, NEW r \in Requests, i[r] \in Quotas, ~CostEnabled(i[r]), Take(r, 2),
           pc[r] = "OnRequestBody" => ~Carried(r, i[r])
    PROVE  RequestLoopFacts(r)
<1>1. Int64(2) = 1 /\ Due(r, "request", i[r]) = 1
  BY DEF Int64, Due
<1>2. PICK calls \in SUBSET CallOutcomes : Check(r, calls, 1, "set")
  BY <1>1, TakeStep
<1>3. handled[r] \in SUBSET Quotas /\ handled \in [Requests -> SUBSET Quotas]
  BY DEF TypeOK, MetadataTypes
<1> QED BY <1>1, <1>2, <1>3, CheckStep DEF RequestLoopFacts, RequestCharge, Outcomes

\* A cost from the request: what the request owes.
LEMMA CostTake ==
    ASSUME TypeOK, NEW r \in Requests, i[r] \in Quotas, NEW cost \in Nat, Take(r, cost),
           CostEnabled(i[r]), Int64(cost) = Due(r, "request", i[r]),
           pc[r] = "OnRequestBody" => ~Carried(r, i[r]),
           pc[r] = "OnRequestHeaders" => HasRequestHeaderOnly(i[r])
    PROVE  RequestLoopFacts(r)
<1>1. PICK calls \in SUBSET CallOutcomes : Check(r, calls, Int64(cost), "set")
  BY TakeStep
<1>2. Int64(cost) \in Nat
  BY Int64Type
<1>3. handled[r] \in SUBSET Quotas /\ handled \in [Requests -> SUBSET Quotas]
  BY DEF TypeOK, MetadataTypes
<1> QED BY <1>1, <1>2, <1>3, CheckStep DEF RequestLoopFacts, RequestCharge, Outcomes

LEMMA PreCheckFacts ==
    ASSUME TypeOK, NEW r \in Requests, i[r] \in Quotas, PreCheck(r)
    PROVE  RequestLoopFacts(r)
<1>1. GetAvailable(i[r]) \in SUBSET CallOutcomes
  BY CallTypes
<1>2. Check(r, GetAvailable(i[r]), 0, "nil")
  BY DEF PreCheck
<1> QED BY <1>1, <1>2, CheckStep DEF RequestLoopFacts, RequestCharge, Outcomes

\* A quota that is passed over.
LEMMA PassFacts ==
    ASSUME TypeOK, NEW r \in Requests, i[r] \in Quotas, NEW x \in Outcomes,
           Skip(r) \/ Leave(r, x), UNCHANGED <<limiterVars, charged, erred>>
    PROVE  /\ LoopTypesStep(r) /\ LoopMoves(r)
           /\ pc' = pc /\ i' = [i EXCEPT ![r] = i[r] + 1]
           /\ charged' \in [Requests -> [{"request", "response"} -> [Quotas -> Nat]]]
<1>1. pol' = pol /\ resets' = resets /\ count' \in [Quotas -> Nat] /\ errors' \in Nat
  BY DEF limiterVars, TypeOK, LimiterTypes
<1>2. erred' \in [Requests -> SUBSET {"request", "response"}]
      /\ charged' \in [Requests -> [{"request", "response"} -> [Quotas -> Nat]]]
  BY DEF TypeOK, HistoryTypes
<1>3. pc' = pc /\ i' = [i EXCEPT ![r] = i[r] + 1]
  BY DEF Skip, Leave
<1> QED BY <1>1, <1>2, <1>3, SkipType, LeaveType DEF LoopTypesStep

LEMMA PassedRequest ==
    ASSUME TypeOK, NEW r \in Requests, i[r] \in Quotas, NEW x \in Outcomes,
           Skip(r) \/ Leave(r, x), UNCHANGED <<limiterVars, handled, charged, erred, refused>>
    PROVE  RequestLoopFacts(r)
<1>1. UNCHANGED <<limiterVars, charged, erred>>
  OBVIOUS
<1>2. refused' \in [Requests -> BOOLEAN] /\ handled' \in [Requests -> SUBSET Quotas]
  BY DEF TypeOK, MetadataTypes, HistoryTypes
<1> QED BY <1>1, <1>2, PassFacts DEF RequestLoopFacts

LEMMA HeaderLoop ==
    ASSUME TypeOK, NEW r \in Requests, OnRequestHeaders(r)
    PROVE  RequestLoopFacts(r) /\ keys' \in [Requests -> SUBSET Quotas]
<1>1. i[r] \in Quotas /\ pc[r] = "OnRequestHeaders"
  BY DEF OnRequestHeaders
<1>2. keys' \in [Requests -> SUBSET Quotas]
  BY <1>1 DEF OnRequestHeaders, TypeOK, MetadataTypes
<1>3. CASE HeaderQuota(r, i[r])
  <2>1. CASE ~CostEnabled(i[r]) /\ Take(r, 2)
    BY <1>1, <1>2, <2>1, StandardTake
  <2>2. CASE HasRequestHeaderOnly(i[r]) /\ Take(r, Extract(r, i[r], {"request_header"}))
    <3>1. Sources(i[r]) \cap {"request_header"} = Sources(i[r]) \cap RequestSources
      BY <1>1, <2>2, PolicyFacts DEF HasRequestHeaderOnly, HasRequestBodyPhase, RequestSources
    <3>2. CostEnabled(i[r]) /\ HasRequestPhase(i[r])
      BY <2>2 DEF HasRequestHeaderOnly, CostEnabled, HasRequestPhase, RequestSources
    <3>3. Extract(r, i[r], {"request_header"}) = Extract(r, i[r], RequestSources)
      BY <3>1 DEF Extract
    <3>4. Int64(Extract(r, i[r], {"request_header"})) = Due(r, "request", i[r])
      BY <3>2, <3>3 DEF Due
    <3>5. Extract(r, i[r], {"request_header"}) \in Nat
      BY <1>1, ExtractType
    <3> QED BY <1>1, <1>2, <2>2, <3>2, <3>4, <3>5, CostTake
  <2>3. CASE PreCheck(r)
    BY <1>1, <1>2, <2>3, PreCheckFacts
  <2> QED BY <1>3, <2>1, <2>2, <2>3 DEF HeaderQuota
<1>4. CASE Skip(r) /\ UNCHANGED <<limiterVars, keys, handled, charged, erred, refused>>
  BY <1>1, <1>2, <1>4, PassedRequest DEF Outcomes
<1> QED BY <1>2, <1>3, <1>4 DEF OnRequestHeaders

LEMMA BodyLoop ==
    ASSUME TypeOK, NEW r \in Requests, OnRequestBody(r)
    PROVE  RequestLoopFacts(r) /\ keys' \in [Requests -> SUBSET Quotas]
<1>1. i[r] \in Quotas /\ pc[r] = "OnRequestBody" /\ BodyQuota(r, i[r])
  BY DEF OnRequestBody
<1>2. keys' \in [Requests -> SUBSET Quotas]
  BY <1>1 DEF OnRequestBody, StoreKey, TypeOK, MetadataTypes
<1>3. CASE /\ Carried(r, i[r])
           /\ IF stored[r][i[r]] = "absent" THEN Skip(r) ELSE Leave(r, stored[r][i[r]])
           /\ UNCHANGED <<limiterVars, handled, charged, erred, refused>>
  <2>1. stored[r][i[r]] \in Outcomes
    BY <1>1 DEF TypeOK, MetadataTypes
  <2> QED BY <1>1, <1>2, <1>3, <2>1, PassedRequest
<1>4. CASE ~Carried(r, i[r]) /\ ~CostEnabled(i[r]) /\ Take(r, 2)
  BY <1>1, <1>2, <1>4, StandardTake
<1>5. CASE /\ ~Carried(r, i[r]) /\ HasRequestPhase(i[r])
           /\ Take(r, Extract(r, i[r], RequestSources))
  <2>1. CostEnabled(i[r])
    BY <1>5 DEF CostEnabled, HasRequestPhase
  <2>2. Int64(Extract(r, i[r], RequestSources)) = Due(r, "request", i[r])
    BY <1>5, <2>1 DEF Due
  <2>3. Extract(r, i[r], RequestSources) \in Nat
    BY <1>1, ExtractType
  <2> QED BY <1>1, <1>2, <1>5, <2>1, <2>2, <2>3, CostTake
<1>6. CASE PreCheck(r)
  BY <1>1, <1>2, <1>6, PreCheckFacts
<1> QED BY <1>1, <1>2, <1>3, <1>4, <1>5, <1>6 DEF BodyQuota

\* What one quota of the response phase may charge: nothing, or what the request owes; in
\* OnResponseHeaders only for the quotas that only read headers, later only for the others.
ResponseCharge(r) ==
    \E n \in Nat :
        /\ Charge(r, "response", i[r], n)
        /\ n # 0 =>
             /\ n = Due(r, "response", i[r])
             /\ pc[r] = "OnResponseHeaders" <=> HasResponseHeaderOnly(i[r])

ResponseLoopFacts(r) ==
    /\ LoopTypesStep(r)
    /\ pc' = pc /\ i' = [i EXCEPT ![r] = i[r] + 1]
    /\ charged' \in [Requests -> [{"request", "response"} -> [Quotas -> Nat]]]
    /\ charged' = charged \/ ResponseCharge(r)

LEMMA KeepFacts ==
    ASSUME TypeOK, NEW r \in Requests, i[r] \in Quotas, Keep(r, i[r])
    PROVE  ResponseLoopFacts(r)
<1>1. UNCHANGED <<limiterVars, charged, erred>> /\ (Skip(r) \/ Leave(r, "set"))
  BY DEF Keep
<1> QED BY <1>1, PassFacts DEF ResponseLoopFacts, Outcomes

LEMMA LookFacts ==
    ASSUME TypeOK, NEW r \in Requests, i[r] \in Quotas, Settle(r, Look(i[r]), 0, "set")
    PROVE  ResponseLoopFacts(r)
<1>1. Look(i[r]) \in SUBSET CallOutcomes
  BY CallTypes
<1> QED BY <1>1, SettleStep DEF ResponseLoopFacts, ResponseCharge, Outcomes

LEMMA ConsumeFacts ==
    ASSUME TypeOK, NEW r \in Requests, i[r] \in Quotas, NEW n \in Nat, NEW x \in Outcomes,
           Settle(r, ConsumeN(i[r], n), n, x), n = Due(r, "response", i[r]),
           pc[r] = "OnResponseHeaders" <=> HasResponseHeaderOnly(i[r])
    PROVE  ResponseLoopFacts(r)
<1>1. ConsumeN(i[r], n) \in SUBSET CallOutcomes
  BY CallTypes
<1> QED BY <1>1, SettleStep DEF ResponseLoopFacts, ResponseCharge

LEMMA ChargeResponseFacts ==
    ASSUME TypeOK, NEW r \in Requests, i[r] \in Quotas, NEW cost \in Nat,
           ChargeResponse(r, i[r], cost), Int64(cost) = Due(r, "response", i[r]),
           pc[r] = "OnResponseHeaders" <=> HasResponseHeaderOnly(i[r])
    PROVE  ResponseLoopFacts(r)
<1>1. CASE Skip(r) /\ UNCHANGED <<limiterVars, charged, erred>>
  BY <1>1, PassFacts DEF ResponseLoopFacts, Outcomes
<1>2. CASE Keep(r, i[r])
  BY <1>2, KeepFacts
<1>3. CASE Settle(r, Look(i[r]), 0, "set")
  BY <1>3, LookFacts
<1>4. CASE Settle(r, ConsumeN(i[r], Int64(cost)), Int64(cost), "set")
  <2>1. Int64(cost) \in Nat /\ "set" \in Outcomes
    BY Int64Type DEF Outcomes
  <2> QED BY <1>4, <2>1, ConsumeFacts
<1> QED BY <1>1, <1>2, <1>3, <1>4 DEF ChargeResponse

LEMMA ResponseHeaderLoop ==
    ASSUME TypeOK, NEW r \in Requests, OnResponseHeaders(r)
    PROVE  ResponseLoopFacts(r)
<1>1. i[r] \in Quotas /\ pc[r] = "OnResponseHeaders"
  BY DEF OnResponseHeaders
<1>2. CASE /\ HasResponseHeaderOnly(i[r])
           /\ ChargeResponse(r, i[r], Extract(r, i[r], HeaderReadable))
  <2>1. Sources(i[r]) \cap HeaderReadable = Sources(i[r]) \cap ResponseSources
    BY <1>2 DEF HasResponseHeaderOnly, HeaderReadable
  <2>2. Extract(r, i[r], HeaderReadable) = Extract(r, i[r], ResponseSources)
    BY <2>1 DEF Extract
  <2>3. HasResponsePhase(i[r])
    BY <1>2 DEF HasResponseHeaderOnly, HasResponsePhase
  <2>4. Int64(Extract(r, i[r], HeaderReadable)) = Due(r, "response", i[r])
    BY <2>2, <2>3 DEF Due
  <2>5. Extract(r, i[r], HeaderReadable) \in Nat
    BY <1>1, ExtractType
  <2> QED BY <1>1, <1>2, <2>4, <2>5, ChargeResponseFacts
<1>3. CASE Snapshot(r, i[r])
  BY <1>1, <1>3, KeepFacts, LookFacts DEF Snapshot
<1> QED BY <1>2, <1>3 DEF OnResponseHeaders

LEMMA ResponseBodyLoop ==
    ASSUME TypeOK, NEW r \in Requests, OnResponseBody(r)
    PROVE  ResponseLoopFacts(r)
<1>1. i[r] \in Quotas /\ pc[r] = "OnResponseBody"
  BY DEF OnResponseBody
<1>2. CASE Keep(r, i[r])
  BY <1>1, <1>2, KeepFacts
<1>3. CASE /\ ~HasResponseHeaderOnly(i[r]) /\ HasResponsePhase(i[r])
           /\ ChargeResponse(r, i[r], Extract(r, i[r], ResponseSources))
  <2>1. Int64(Extract(r, i[r], ResponseSources)) = Due(r, "response", i[r])
    BY <1>3 DEF Due
  <2>2. Extract(r, i[r], ResponseSources) \in Nat
    BY <1>1, ExtractType
  <2> QED BY <1>1, <1>3, <2>1, <2>2, ChargeResponseFacts
<1> QED BY <1>2, <1>3 DEF OnResponseBody

\* At the end of a stream the whole body was gathered for the quotas that read it.
LEMMA StreamExtract ==
    ASSUME TypeOK, Gathered, NEW r \in Requests, NEW q \in Quotas, pc[r] = "finalize"
    PROVE  Extract(r, q, StreamReadable(r, q)) = Extract(r, q, ResponseSources)
<1>1. Sources(q) \cap StreamReadable(r, q) = Sources(q) \cap ResponseSources
  <2>1. CASE RequiresResponseBody(q)
    <3>1. acc[r][q] = NumChunks
      BY <2>1 DEF Gathered
    <3> QED BY <3>1 DEF StreamReadable
  <2>2. CASE ~RequiresResponseBody(q)
    BY <2>2 DEF RequiresResponseBody, StreamReadable
  <2> QED BY <2>1, <2>2
<1> QED BY <1>1 DEF Extract

LEMMA FinalizeLoop ==
    ASSUME TypeOK, Gathered, NEW r \in Requests, Finalize(r)
    PROVE  ResponseLoopFacts(r)
<1> DEFINE cost == Extract(r, i[r], StreamReadable(r, i[r]))
<1>1. i[r] \in Quotas /\ pc[r] = "finalize"
  BY DEF Finalize
<1>2. \/ Skip(r) /\ UNCHANGED <<limiterVars, charged, erred>>
      \/ /\ StreamSource(i[r])
         /\ Settle(r, ConsumeN(i[r], Int64(cost)), Int64(cost), "absent")
  BY Zenon DEF Finalize
<1>3. cost = Extract(r, i[r], ResponseSources) /\ cost \in Nat
  BY <1>1, StreamExtract, ExtractType
<1> HIDE DEF cost
<1>4. CASE Skip(r) /\ UNCHANGED <<limiterVars, charged, erred>>
  BY <1>1, <1>4, PassFacts DEF ResponseLoopFacts, Outcomes
<1>5. CASE /\ StreamSource(i[r])
           /\ Settle(r, ConsumeN(i[r], Int64(cost)), Int64(cost), "absent")
  <2>1. HasResponsePhase(i[r]) /\ ~HasResponseHeaderOnly(i[r])
    BY <1>5 DEF StreamSource
  <2>2. Int64(cost) = Due(r, "response", i[r]) /\ Int64(cost) \in Nat
    BY <1>3, <2>1, Int64Type DEF Due
  <2> QED BY <1>1, <1>5, <2>1, <2>2, ConsumeFacts DEF Outcomes
<1> QED BY <1>2, <1>4, <1>5

-----------------------------------------------------------------------------
(* The invariant.                                                          *)

LEMMA PolicyFixed ==
    ASSUME pol' = pol
    PROVE  /\ Quotas' = Quotas
           /\ \A q : /\ Sources(q)' = Sources(q)
                     /\ CostEnabled(q)' <=> CostEnabled(q)
                     /\ HasRequestHeaderOnly(q)' <=> HasRequestHeaderOnly(q)
                     /\ HasResponseHeaderOnly(q)' <=> HasResponseHeaderOnly(q)
                     /\ RequiresResponseBody(q)' <=> RequiresResponseBody(q)
BY DEF Quotas, Sources, CostEnabled, HasRequestHeaderOnly, HasRequestBodyPhase,
       HasResponseHeaderOnly, RequiresResponseBody

LEMMA DueFixed ==
    ASSUME pol' = pol, input' = input, NEW r, NEW phase, NEW q
    PROVE  Due(r, phase, q)' = Due(r, phase, q)
BY DEF Due, CostEnabled, HasRequestPhase, HasResponsePhase, Extract, TotalOf, Sources

LEMMA LoopState ==
    ASSUME TypeOK
    PROVE  /\ pc \in [Requests -> Handlers] /\ i \in [Requests -> 1..(Len(pol.quotas) + 1)]
           /\ Len(pol.quotas) \in Nat
           /\ \A u \in Requests, h \in {"request", "response"}, q \in Quotas :
                charged[u][h][q] \in Nat
           /\ \A q \in Quotas : q \in Nat
<1>1. pc \in [Requests -> Handlers] /\ i \in [Requests -> 1..(Len(pol.quotas) + 1)]
  BY DEF TypeOK, LoopTypes
<1>2. Len(pol.quotas) \in Nat /\ \A q \in Quotas : q \in Nat
  BY PolicyFacts
<1>3. \A u \in Requests, h \in {"request", "response"}, q \in Quotas : charged[u][h][q] \in Nat
  BY DEF TypeOK, HistoryTypes
<1> QED BY <1>1, <1>2, <1>3

LEMMA LoopTypeOK ==
    ASSUME TypeOK, NEW r \in Requests, LoopTypesStep(r),
           refused' \in [Requests -> BOOLEAN],
           handled' \in [Requests -> SUBSET Quotas],
           keys' \in [Requests -> SUBSET Quotas],
           charged' \in [Requests -> [{"request", "response"} -> [Quotas -> Nat]]],
           UNCHANGED <<inputVars, stored, acc, sent, emitted, spent>>
    PROVE  TypeOK'
<1>1. Quotas' = Quotas /\ pol' = pol
  BY PolicyFixed DEF LoopTypesStep
<1>2. LimiterTypes' /\ LoopTypes'
  BY <1>1 DEF LoopTypesStep, TypeOK, LimiterTypes, LoopTypes
<1>3. MetadataTypes' /\ InputTypes'
  BY <1>1 DEF TypeOK, MetadataTypes, InputTypes, inputVars
<1>4. HistoryTypes'
  BY <1>1 DEF LoopTypesStep, TypeOK, HistoryTypes
<1> QED BY <1>2, <1>3, <1>4 DEF TypeOK

LEMMA RequestLoopInv ==
    ASSUME PhaseInv, TypeOK', NEW r \in Requests, RequestLoopFacts(r), i[r] \in Quotas,
           pc[r] \in {"OnRequestHeaders", "OnRequestBody"},
           UNCHANGED <<input, acc, sent>>
    PROVE  PhaseInv'
<1>1. TypeOK /\ pol' = pol
  BY DEF PhaseInv, RequestLoopFacts, LoopTypesStep
<1>2. Quotas' = Quotas
  BY <1>1, PolicyFixed
<1>3. /\ pc \in [Requests -> Handlers] /\ i \in [Requests -> 1..(Len(pol.quotas) + 1)]
      /\ Len(pol.quotas) \in Nat
      /\ \A u \in Requests, h \in {"request", "response"}, q \in Quotas : charged[u][h][q] \in Nat
      /\ \A q \in Quotas : q \in Nat
  BY <1>1, LoopState
<1>h. handled \in [Requests -> SUBSET Quotas]
  BY <1>1 DEF TypeOK, MetadataTypes
<1>m. /\ \A u \in Requests : u # r => pc'[u] = pc[u] /\ i'[u] = i[u]
      /\ \/ pc'[r] = pc[r] /\ i'[r] = i[r] + 1
         \/ pc'[r] = "denied"
  BY <1>3 DEF RequestLoopFacts, LoopMoves
<1>4. Gathered'
  <2> SUFFICES ASSUME NEW u \in Requests
               PROVE  /\ pc'[u] = "finalize" => sent[u] = NumChunks
                      /\ \A q \in Quotas : RequiresResponseBody(q) => acc[u][q] = sent[u]
    BY <1>1, <1>2, PolicyFixed DEF Gathered
  <2>1. pc'[u] = "finalize" => pc[u] = "finalize"
    BY <1>m
  <2> QED BY <2>1 DEF PhaseInv, Gathered
<1>5. CASE charged' = charged /\ handled' = handled
  <2>0. \A u \in Requests, q \in Quotas : Carried(u, q)' <=> Carried(u, q)
    BY <1>1, <1>5, PolicyFixed DEF Carried
  <2>1. RequestFresh'
    <3> SUFFICES ASSUME NEW u \in Requests, NEW q \in Quotas,
                        \/ pc'[u] = "idle"
                        \/ pc'[u] = "OnRequestHeaders" /\ (q >= i'[u] \/ ~Carried(u, q)')
                        \/ pc'[u] = "OnRequestBody" /\ q >= i'[u] /\ ~Carried(u, q)'
                 PROVE  charged[u]["request"][q] = 0
      BY <1>2, <1>5 DEF RequestFresh
    <3> QED BY <1>3, <1>m, <2>0 DEF PhaseInv, RequestFresh
  <2>2. ResponseFresh'
    <3> SUFFICES ASSUME NEW u \in Requests, NEW q \in Quotas,
                        \/ pc'[u] \in {"idle", "OnRequestHeaders", "OnRequestBody", "upstream"}
                        \/ /\ pc'[u] = "OnResponseHeaders"
                           /\ q >= i'[u] \/ ~HasResponseHeaderOnly(q)
                        \/ /\ pc'[u] \in {"OnResponseBody", "OnResponseBodyChunk", "finalize"}
                           /\ q >= i'[u] /\ ~HasResponseHeaderOnly(q)
                 PROVE  charged[u]["response"][q] = 0
      BY <1>1, <1>2, <1>5, PolicyFixed DEF ResponseFresh
    <3> QED BY <1>3, <1>m DEF PhaseInv, ResponseFresh
  <2>3. NeverOvercharged'
    BY <1>1, <1>2, <1>5, DueFixed DEF PhaseInv, NeverOvercharged
  <2> QED BY <1>4, <2>1, <2>2, <2>3 DEF PhaseInv
<1>6. CASE RequestCharge(r)
  <2>1. PICK n \in Nat :
          /\ Charge(r, "request", i[r], n)
          /\ pc' = pc
          /\ \/ handled' = handled
             \/ handled' = [handled EXCEPT ![r] = @ \cup {i[r]}]
          /\ n # 0 =>
               /\ n = Due(r, "request", i[r])
               /\ pc[r] = "OnRequestBody" => ~Carried(r, i[r])
               /\ pc[r] = "OnRequestHeaders" =>
                    \/ HasRequestHeaderOnly(i[r])
                    \/ ~CostEnabled(i[r]) /\ i[r] \in handled'[r]
    BY <1>6 DEF RequestCharge
  <2>2. i'[r] = i[r] + 1 /\ \A u \in Requests : u # r => i'[u] = i[u]
    BY <1>m, <2>1
  <2>3. /\ charged'[r]["request"][i[r]] = charged[r]["request"][i[r]] + n
        /\ \A u \in Requests, h \in {"request", "response"}, q \in Quotas :
             u # r \/ h # "request" \/ q # i[r] => charged'[u][h][q] = charged[u][h][q]
    BY <1>1, <2>1, ChargeFacts
  <2>4. n # 0 => charged[r]["request"][i[r]] = 0
    BY <1>3, <2>1 DEF PhaseInv, RequestFresh
  <2>5. \A u \in Requests, q \in Quotas : Carried(u, q) => Carried(u, q)'
    BY <1>1, <1>h, <2>1, PolicyFixed DEF Carried
  <2>6. \A q \in Quotas : q = i[r] /\ n # 0 /\ pc[r] = "OnRequestHeaders" => Carried(r, q)'
    BY <1>1, <2>1, PolicyFixed DEF Carried
  <2>7. RequestFresh'
    <3> SUFFICES ASSUME NEW u \in Requests, NEW q \in Quotas,
                        \/ pc'[u] = "idle"
                        \/ pc'[u] = "OnRequestHeaders" /\ (q >= i'[u] \/ ~Carried(u, q)')
                        \/ pc'[u] = "OnRequestBody" /\ q >= i'[u] /\ ~Carried(u, q)'
                 PROVE  charged'[u]["request"][q] = 0
      BY <1>2 DEF RequestFresh
    <3>0. /\ \A v \in Requests, p \in Quotas :
               \/ pc[v] = "idle"
               \/ pc[v] = "OnRequestHeaders" /\ (p >= i[v] \/ ~Carried(v, p))
               \/ pc[v] = "OnRequestBody" /\ p >= i[v] /\ ~Carried(v, p)
               => charged[v]["request"][p] = 0
          /\ pc'[u] = pc[u] /\ (~Carried(u, q)' => ~Carried(u, q))
      BY <2>1, <2>5 DEF PhaseInv, RequestFresh
    <3>1. CASE u # r
      <4>1. charged'[u]["request"][q] = charged[u]["request"][q] /\ i'[u] = i[u]
        BY <2>2, <2>3, <3>1
      <4> QED BY <3>0, <4>1
    <3>2. CASE u = r /\ q # i[r]
      <4>1. charged'[u]["request"][q] = charged[u]["request"][q]
        BY <2>3, <3>2
      <4>2. q >= i'[u] => q >= i[u]
        BY <1>3, <2>2, <3>2
      <4> QED BY <3>0, <4>1, <4>2
    <3>3. CASE u = r /\ q = i[r]
      <4>1. n = 0
        BY <1>3, <2>1, <2>2, <2>6, <3>3
      <4>2. charged[r]["request"][i[r]] = 0
        BY <1>3, <2>1, <2>2, <2>5, <3>3 DEF PhaseInv, RequestFresh
      <4> QED BY <2>3, <3>3, <4>1, <4>2
    <3> QED BY <3>1, <3>2, <3>3
  <2>8. ResponseFresh'
    <3> SUFFICES ASSUME NEW u \in Requests, NEW q \in Quotas,
                        \/ pc[u] \in {"idle", "OnRequestHeaders", "OnRequestBody", "upstream"}
                        \/ /\ pc[u] = "OnResponseHeaders"
                           /\ q >= i'[u] \/ ~HasResponseHeaderOnly(q)
                        \/ /\ pc[u] \in {"OnResponseBody", "OnResponseBodyChunk", "finalize"}
                           /\ q >= i'[u] /\ ~HasResponseHeaderOnly(q)
                 PROVE  charged'[u]["response"][q] = 0
      BY <1>1, <1>2, <2>1, PolicyFixed DEF ResponseFresh
    <3>1. charged'[u]["response"][q] = charged[u]["response"][q]
      BY <2>3
    <3> QED BY <1>3, <2>2, <3>1 DEF PhaseInv, ResponseFresh
  <2>9. NeverOvercharged'
    <3> SUFFICES ASSUME NEW u \in Requests, NEW h \in {"request", "response"},
                        NEW q \in Quotas
                 PROVE  charged'[u][h][q] <= Due(u, h, q)'
      BY <1>2 DEF NeverOvercharged
    <3>1. Due(u, h, q)' = Due(u, h, q) /\ Due(u, h, q) \in Nat
      BY <1>1, DueFixed, DueType
    <3>2. charged[u][h][q] <= Due(u, h, q)
      BY DEF PhaseInv, NeverOvercharged
    <3>3. CASE u = r /\ h = "request" /\ q = i[r] /\ n # 0
      <4>1. charged'[u][h][q] = n /\ n = Due(u, h, q)
        BY <2>1, <2>3, <2>4, <3>3
      <4> QED BY <3>1, <4>1
    <3>4. CASE ~(u = r /\ h = "request" /\ q = i[r] /\ n # 0)
      <4>1. charged'[u][h][q] = charged[u][h][q]
        BY <1>3, <2>3, <3>4
      <4> QED BY <3>1, <3>2, <4>1
    <3> QED BY <3>3, <3>4
  <2> QED BY <1>4, <2>7, <2>8, <2>9 DEF PhaseInv
<1> QED BY <1>5, <1>6 DEF RequestLoopFacts

LEMMA ResponseLoopInv ==
    ASSUME PhaseInv, TypeOK', NEW r \in Requests, ResponseLoopFacts(r), i[r] \in Quotas,
           pc[r] \in {"OnResponseHeaders", "OnResponseBody", "finalize"},
           UNCHANGED <<input, acc, sent, handled>>
    PROVE  PhaseInv'
<1>1. TypeOK /\ pol' = pol /\ pc' = pc /\ i' = [i EXCEPT ![r] = i[r] + 1]
  BY DEF PhaseInv, ResponseLoopFacts, LoopTypesStep
<1>2. Quotas' = Quotas
  BY <1>1, PolicyFixed
<1>3. /\ pc \in [Requests -> Handlers] /\ i \in [Requests -> 1..(Len(pol.quotas) + 1)]
      /\ Len(pol.quotas) \in Nat
      /\ \A u \in Requests, h \in {"request", "response"}, q \in Quotas : charged[u][h][q] \in Nat
      /\ \A q \in Quotas : q \in Nat
  BY <1>1, LoopState
<1>4. Gathered'
  BY <1>1, <1>2, PolicyFixed DEF PhaseInv, Gathered
<1>r. ASSUME \A u \in Requests, q \in Quotas :
               charged'[u]["request"][q] = charged[u]["request"][q]
      PROVE  RequestFresh'
  <2>1. \A u \in Requests, q \in Quotas : Carried(u, q)' <=> Carried(u, q)
    BY <1>1, PolicyFixed DEF Carried
  <2> SUFFICES ASSUME NEW u \in Requests, NEW q \in Quotas,
                      \/ pc[u] = "idle"
                      \/ pc[u] = "OnRequestHeaders" /\ (q >= i'[u] \/ ~Carried(u, q))
                      \/ pc[u] = "OnRequestBody" /\ q >= i'[u] /\ ~Carried(u, q)
               PROVE  charged[u]["request"][q] = 0
    BY <1>1, <1>2, <1>r, <2>1 DEF RequestFresh
  <2>2. CASE u = r
    BY <2>2
  <2>3. CASE u # r
    <3>1. i'[u] = i[u]
      BY <1>1, <1>3, <2>3
    <3> QED BY <3>1 DEF PhaseInv, RequestFresh
  <2> QED BY <2>2, <2>3
<1>5. CASE charged' = charged
  <2>1. RequestFresh'
    BY <1>5, <1>r
  <2>2. ResponseFresh'
    <3> SUFFICES ASSUME NEW u \in Requests, NEW q \in Quotas,
                        \/ pc[u] \in {"idle", "OnRequestHeaders", "OnRequestBody", "upstream"}
                        \/ /\ pc[u] = "OnResponseHeaders"
                           /\ q >= i'[u] \/ ~HasResponseHeaderOnly(q)
                        \/ /\ pc[u] \in {"OnResponseBody", "OnResponseBodyChunk", "finalize"}
                           /\ q >= i'[u] /\ ~HasResponseHeaderOnly(q)
                 PROVE  charged[u]["response"][q] = 0
      BY <1>1, <1>2, <1>5, PolicyFixed DEF ResponseFresh
    <3>1. q >= i'[u] => q >= i[u]
      BY <1>1, <1>3
    <3> QED BY <3>1 DEF PhaseInv, ResponseFresh
  <2>3. NeverOvercharged'
    BY <1>1, <1>2, <1>5, DueFixed DEF PhaseInv, NeverOvercharged
  <2> QED BY <1>4, <2>1, <2>2, <2>3 DEF PhaseInv
<1>6. CASE ResponseCharge(r)
  <2>1. PICK n \in Nat :
          /\ Charge(r, "response", i[r], n)
          /\ n # 0 =>
               /\ n = Due(r, "response", i[r])
               /\ pc[r] = "OnResponseHeaders" <=> HasResponseHeaderOnly(i[r])
    BY <1>6 DEF ResponseCharge
  <2>2. /\ charged'[r]["response"][i[r]] = charged[r]["response"][i[r]] + n
        /\ \A u \in Requests, h \in {"request", "response"}, q \in Quotas :
             u # r \/ h # "response" \/ q # i[r] => charged'[u][h][q] = charged[u][h][q]
    BY <1>1, <2>1, ChargeFacts
  <2>3. n # 0 => charged[r]["response"][i[r]] = 0
    BY <1>3, <2>1 DEF PhaseInv, ResponseFresh
  <2>4. RequestFresh'
    BY <1>r, <2>2
  <2>5. ResponseFresh'
    <3> SUFFICES ASSUME NEW u \in Requests, NEW q \in Quotas,
                        \/ pc[u] \in {"idle", "OnRequestHeaders", "OnRequestBody", "upstream"}
                        \/ /\ pc[u] = "OnResponseHeaders"
                           /\ q >= i'[u] \/ ~HasResponseHeaderOnly(q)
                        \/ /\ pc[u] \in {"OnResponseBody", "OnResponseBodyChunk", "finalize"}
                           /\ q >= i'[u] /\ ~HasResponseHeaderOnly(q)
                 PROVE  charged'[u]["response"][q] = 0
      BY <1>1, <1>2, PolicyFixed DEF ResponseFresh
    <3>1. CASE u # r \/ q # i[r]
      BY <1>1, <1>3, <2>2, <3>1 DEF PhaseInv, ResponseFresh
    <3>2. CASE u = r /\ q = i[r]
      <4>1. pc[r] = "OnResponseHeaders" /\ ~HasResponseHeaderOnly(i[r])
        BY <1>1, <1>3, <3>2
      <4>2. n = 0
        BY <2>1, <4>1
      <4>3. charged[r]["response"][i[r]] = 0
        BY <4>1 DEF PhaseInv, ResponseFresh
      <4> QED BY <2>2, <3>2, <4>2, <4>3
    <3> QED BY <3>1, <3>2
  <2>6. NeverOvercharged'
    <3> SUFFICES ASSUME NEW u \in Requests, NEW h \in {"request", "response"},
                        NEW q \in Quotas
                 PROVE  charged'[u][h][q] <= Due(u, h, q)'
      BY <1>2 DEF NeverOvercharged
    <3>1. Due(u, h, q)' = Due(u, h, q) /\ Due(u, h, q) \in Nat
      BY <1>1, DueFixed, DueType
    <3>2. charged[u][h][q] <= Due(u, h, q)
      BY DEF PhaseInv, NeverOvercharged
    <3>3. CASE u = r /\ h = "response" /\ q = i[r] /\ n # 0
      <4>1. charged'[u][h][q] = n /\ n = Due(u, h, q)
        BY <2>1, <2>2, <2>3, <3>3
      <4> QED BY <3>1, <4>1
    <3>4. CASE ~(u = r /\ h = "response" /\ q = i[r] /\ n # 0)
      <4>1. charged'[u][h][q] = charged[u][h][q]
        BY <1>3, <2>2, <3>4
      <4> QED BY <3>1, <3>2, <4>1
    <3> QED BY <3>3, <3>4
  <2> QED BY <1>4, <2>4, <2>5, <2>6 DEF PhaseInv
<1> QED BY <1>5, <1>6 DEF ResponseLoopFacts

-----------------------------------------------------------------------------
(* From one handler to the next.                                           *)

\* The ways of a request through the handlers.
NextHandler(here, next) ==
    \/ next \in {"done", "aborted"}
    \/ next = "upstream" /\ here \in {"OnRequestHeaders", "OnRequestBody"}
    \/ next = "OnRequestBody" /\ here = "OnRequestHeaders"
    \/ next = "OnResponseHeaders" /\ here = "upstream"
    \/ next \in {"OnResponseBody", "OnResponseBodyChunk"} /\ here = "OnResponseHeaders"

\* Changing the handler opens no quota to a second charge: OnRequestBody takes over what
\* OnRequestHeaders charged, the response body handlers what OnResponseHeaders did.
LEMMA MoveInv ==
    ASSUME PhaseInv, TypeOK', NEW r \in Requests, NEW next \in Handlers,
           NextHandler(pc[r], next), pc' = [pc EXCEPT ![r] = next],
           \A u \in Requests : u # r => i'[u] = i[u],
           UNCHANGED <<pol, input, acc, sent, handled, charged>>
    PROVE  PhaseInv'
<1>1. TypeOK /\ pol' = pol
  BY DEF PhaseInv
<1>2. Quotas' = Quotas
  BY <1>1, PolicyFixed
<1>3. /\ pc \in [Requests -> Handlers] /\ \A q \in Quotas : q \in Nat
      /\ \A u \in Requests : u # r => pc'[u] = pc[u]
      /\ pc'[r] = next
  BY <1>1, LoopState
<1>4. Gathered'
  <2> SUFFICES ASSUME NEW u \in Requests
               PROVE  /\ pc'[u] = "finalize" => sent[u] = NumChunks
                      /\ \A q \in Quotas : RequiresResponseBody(q) => acc[u][q] = sent[u]
    BY <1>1, <1>2, PolicyFixed DEF Gathered
  <2>1. pc'[u] = "finalize" => pc[u] = "finalize"
    BY <1>3 DEF NextHandler
  <2> QED BY <2>1 DEF PhaseInv, Gathered
<1>5. RequestFresh'
  <2>1. \A u \in Requests, q \in Quotas : Carried(u, q)' <=> Carried(u, q)
    BY <1>1, PolicyFixed DEF Carried
  <2> SUFFICES ASSUME NEW u \in Requests, NEW q \in Quotas,
                      \/ pc'[u] = "idle"
                      \/ pc'[u] = "OnRequestHeaders" /\ (q >= i'[u] \/ ~Carried(u, q)')
                      \/ pc'[u] = "OnRequestBody" /\ q >= i'[u] /\ ~Carried(u, q)'
               PROVE  charged[u]["request"][q] = 0
    BY <1>2 DEF RequestFresh
  <2>2. CASE u # r
    BY <1>3, <2>1, <2>2 DEF PhaseInv, RequestFresh
  <2>3. CASE u = r
    BY <1>3, <2>1, <2>3 DEF PhaseInv, RequestFresh, NextHandler
  <2> QED BY <2>2, <2>3
<1>6. ResponseFresh'
  <2> SUFFICES ASSUME NEW u \in Requests, NEW q \in Quotas,
                      \/ pc'[u] \in {"idle", "OnRequestHeaders", "OnRequestBody", "upstream"}
                      \/ /\ pc'[u] = "OnResponseHeaders"
                         /\ q >= i'[u] \/ ~HasResponseHeaderOnly(q)
                      \/ /\ pc'[u] \in {"OnResponseBody", "OnResponseBodyChunk", "finalize"}
                         /\ q >= i'[u] /\ ~HasResponseHeaderOnly(q)
               PROVE  charged[u]["response"][q] = 0
    BY <1>1, <1>2, PolicyFixed DEF ResponseFresh
  <2>2. CASE u # r
    BY <1>3, <2>2 DEF PhaseInv, ResponseFresh
  <2>3. CASE u = r
    BY <1>3, <2>3 DEF PhaseInv, ResponseFresh, NextHandler
  <2> QED BY <2>2, <2>3
<1>7. NeverOvercharged'
  BY <1>1, <1>2, DueFixed DEF PhaseInv, NeverOvercharged
<1> QED BY <1>4, <1>5, <1>6, <1>7 DEF PhaseInv

LEMMA EndLoopInv ==
    ASSUME PhaseInv, NEW r \in Requests, NEW next \in Handlers, EndLoop(r, next),
           NextHandler(pc[r], next), emitted' \in [Requests -> SUBSET Quotas],
           StoreResults(r) \/ UNCHANGED stored,
           UNCHANGED <<limiterVars, keys, handled, acc, sent, inputVars, charged, erred,
                       refused, spent>>
    PROVE  PhaseInv'
<1>1. TypeOK /\ pol' = pol /\ Quotas' = Quotas /\ Len(pol.quotas) \in Nat
  BY PolicyFixed, PolicyFacts DEF PhaseInv, limiterVars
<1>2. Empty \in [Quotas -> Outcomes]
  BY DEF Empty, Outcomes
<1>3. /\ pc' = [pc EXCEPT ![r] = next] /\ i' = [i EXCEPT ![r] = 1]
      /\ results' = [results EXCEPT ![r] = Empty]
  BY DEF EndLoop
<1>4. TypeOK'
  <2>1. LimiterTypes'
    BY <1>1 DEF TypeOK, LimiterTypes, limiterVars
  <2>2. LoopTypes'
    BY <1>1, <1>2, <1>3 DEF TypeOK, LoopTypes
  <2>3. MetadataTypes'
    BY <1>1 DEF TypeOK, MetadataTypes, LoopTypes, StoreResults
  <2>4. InputTypes'
    BY <1>1 DEF TypeOK, InputTypes, inputVars
  <2>5. HistoryTypes'
    BY <1>1 DEF TypeOK, HistoryTypes
  <2> QED BY <2>1, <2>2, <2>3, <2>4, <2>5 DEF TypeOK
<1>5. \A u \in Requests : u # r => i'[u] = i[u]
  BY <1>1, <1>3 DEF TypeOK, LoopTypes
<1>6. UNCHANGED <<pol, input, acc, sent, handled, charged>>
  BY DEF limiterVars, inputVars
<1> QED BY <1>3, <1>4, <1>5, <1>6, MoveInv

-----------------------------------------------------------------------------
(* The actions.                                                            *)

LEMMA RequestLoops ==
    ASSUME PhaseInv, NEW r \in Requests, OnRequestHeaders(r) \/ OnRequestBody(r)
    PROVE  PhaseInv'
<1>1. TypeOK
  BY DEF PhaseInv
<1>2. /\ pc[r] \in {"OnRequestHeaders", "OnRequestBody"} /\ i[r] \in Quotas
      /\ UNCHANGED <<inputVars, stored, acc, sent, emitted, spent>>
  BY DEF OnRequestHeaders, OnRequestBody
<1>3. RequestLoopFacts(r) /\ keys' \in [Requests -> SUBSET Quotas]
  BY <1>1, HeaderLoop, BodyLoop
<1>4. TypeOK'
  BY <1>1, <1>2, <1>3, LoopTypeOK DEF RequestLoopFacts
<1> QED BY <1>2, <1>3, <1>4, RequestLoopInv DEF inputVars

LEMMA ResponseLoops ==
    ASSUME PhaseInv, NEW r \in Requests,
           OnResponseHeaders(r) \/ OnResponseBody(r) \/ Finalize(r)
    PROVE  PhaseInv'
<1>1. TypeOK /\ Gathered
  BY DEF PhaseInv
<1>2. /\ pc[r] \in {"OnResponseHeaders", "OnResponseBody", "finalize"} /\ i[r] \in Quotas
      /\ UNCHANGED <<metadataVars, inputVars, emitted, refused, spent>>
  BY Zenon DEF OnResponseHeaders, OnResponseBody, Finalize
<1>3. ResponseLoopFacts(r)
  BY <1>1, ResponseHeaderLoop, ResponseBodyLoop, FinalizeLoop
<1>4. UNCHANGED <<inputVars, stored, keys, handled, acc, sent, emitted, refused, spent>>
  BY <1>2 DEF metadataVars
<1>5. /\ refused' \in [Requests -> BOOLEAN] /\ handled' \in [Requests -> SUBSET Quotas]
      /\ keys' \in [Requests -> SUBSET Quotas]
  BY <1>1, <1>4 DEF TypeOK, MetadataTypes, HistoryTypes
<1>6. TypeOK'
  BY <1>1, <1>3, <1>4, <1>5, LoopTypeOK DEF ResponseLoopFacts
<1> QED BY <1>2, <1>3, <1>4, <1>6, ResponseLoopInv DEF inputVars

LEMMA LoopEnds ==
    ASSUME PhaseInv, NEW r \in Requests,
           \/ OnRequestHeadersEnd(r) \/ OnRequestBodyEnd(r)
           \/ OnResponseHeadersEnd(r) \/ OnResponseBodyEnd(r) \/ FinalizeEnd(r)
    PROVE  PhaseInv'
<1>1. emitted \in [Requests -> SUBSET Quotas]
  BY DEF PhaseInv, TypeOK, HistoryTypes
<1>2. Emit(r) => emitted' \in [Requests -> SUBSET Quotas]
  BY <1>1 DEF Emit
<1>3. CASE OnRequestHeadersEnd(r)
  <2> DEFINE next == IF RequiresRequestBody THEN "OnRequestBody" ELSE "upstream"
  <2>1. EndLoop(r, next) /\ next \in Handlers /\ NextHandler(pc[r], next)
    BY <1>3 DEF OnRequestHeadersEnd, Handlers, NextHandler
  <2>2. StoreResults(r) /\ UNCHANGED <<limiterVars, keys, handled, acc, sent, inputVars, historyVars>>
    BY <1>3 DEF OnRequestHeadersEnd
  <2> HIDE DEF next
  <2> QED BY <1>1, <2>1, <2>2, EndLoopInv DEF historyVars
<1>4. CASE OnRequestBodyEnd(r)
  <2>1. EndLoop(r, "upstream") /\ "upstream" \in Handlers /\ NextHandler(pc[r], "upstream")
    BY <1>4 DEF OnRequestBodyEnd, Handlers, NextHandler
  <2>2. StoreResults(r) /\ UNCHANGED <<limiterVars, keys, handled, acc, sent, inputVars, historyVars>>
    BY <1>4 DEF OnRequestBodyEnd
  <2> QED BY <1>1, <2>1, <2>2, EndLoopInv DEF historyVars
<1>5. CASE OnResponseHeadersEnd(r)
  <2> DEFINE next == IF ~RequiresResponseBodyMode THEN "done"
                     ELSE IF stream[r].streams THEN "OnResponseBodyChunk" ELSE "OnResponseBody"
  <2>1. EndLoop(r, next) /\ next \in Handlers /\ NextHandler(pc[r], next)
    BY <1>5 DEF OnResponseHeadersEnd, Handlers, NextHandler
  <2>2. /\ StoreResults(r)
        /\ UNCHANGED <<limiterVars, keys, handled, acc, sent, inputVars, charged, erred,
                       refused, spent>>
    BY <1>5 DEF OnResponseHeadersEnd
  <2>3. emitted' \in [Requests -> SUBSET Quotas]
    BY <1>1, <1>2, <1>5 DEF OnResponseHeadersEnd
  <2> HIDE DEF next
  <2> QED BY <2>1, <2>2, <2>3, EndLoopInv
<1>6. CASE OnResponseBodyEnd(r)
  <2>1. EndLoop(r, "done") /\ "done" \in Handlers /\ NextHandler(pc[r], "done")
    BY <1>6 DEF OnResponseBodyEnd, Handlers, NextHandler
  <2>2. UNCHANGED <<limiterVars, stored, keys, handled, acc, sent, inputVars, charged, erred,
                    refused, spent>>
    BY <1>6 DEF OnResponseBodyEnd, metadataVars
  <2>3. emitted' \in [Requests -> SUBSET Quotas]
    BY <1>2, <1>6 DEF OnResponseBodyEnd
  <2> QED BY <2>1, <2>2, <2>3, EndLoopInv
<1>7. CASE FinalizeEnd(r)
  <2>1. EndLoop(r, "done") /\ "done" \in Handlers /\ NextHandler(pc[r], "done")
    BY <1>7 DEF FinalizeEnd, Handlers, NextHandler
  <2>2. UNCHANGED <<limiterVars, stored, keys, handled, acc, sent, inputVars, historyVars>>
    BY <1>7 DEF FinalizeEnd, metadataVars
  <2> QED BY <1>1, <2>1, <2>2, EndLoopInv DEF historyVars
<1> QED BY <1>3, <1>4, <1>5, <1>6, <1>7

LEMMA Turns ==
    ASSUME PhaseInv, NEW r \in Requests, Respond(r) \/ Abort(r)
    PROVE  PhaseInv'
<1>1. TypeOK /\ pol' = pol /\ Quotas' = Quotas
  BY PolicyFixed DEF PhaseInv, Respond, Abort, limiterVars
<1>2. PICK next \in Handlers : NextHandler(pc[r], next) /\ pc' = [pc EXCEPT ![r] = next]
  BY DEF Respond, Abort, Handlers, NextHandler
<1>3. UNCHANGED <<limiterVars, i, results, metadataVars, input, historyVars>>
  BY DEF Respond, Abort, inputVars
<1>4. stream' \in [Requests -> [looks : BOOLEAN, streams : BOOLEAN]]
  <2>1. CASE Respond(r)
    <3>1. PICK looks \in BOOLEAN, streams \in BOOLEAN :
            stream' = [stream EXCEPT ![r] = [looks |-> looks, streams |-> streams]]
      BY <2>1, Zenon DEF Respond
    <3>2. [looks |-> looks, streams |-> streams] \in [looks : BOOLEAN, streams : BOOLEAN]
      OBVIOUS
    <3> QED BY <1>1, <3>1, <3>2 DEF TypeOK, InputTypes
  <2>2. CASE Abort(r)
    BY <1>1, <2>2 DEF Abort, inputVars, TypeOK, InputTypes
  <2> QED BY <2>1, <2>2
<1>5. TypeOK'
  <2>1. LimiterTypes'
    BY <1>1, <1>3 DEF TypeOK, LimiterTypes, limiterVars
  <2>2. LoopTypes'
    BY <1>1, <1>2, <1>3 DEF TypeOK, LoopTypes
  <2>3. MetadataTypes'
    BY <1>1, <1>3 DEF TypeOK, MetadataTypes, metadataVars
  <2>4. InputTypes'
    BY <1>1, <1>3, <1>4 DEF TypeOK, InputTypes
  <2>5. HistoryTypes'
    BY <1>1, <1>3 DEF TypeOK, HistoryTypes, historyVars
  <2> QED BY <2>1, <2>2, <2>3, <2>4, <2>5 DEF TypeOK
<1>6. UNCHANGED <<pol, i, input, acc, sent, handled, charged>>
  BY <1>3 DEF limiterVars, metadataVars, historyVars
<1> QED BY <1>2, <1>5, <1>6, MoveInv

\* The input of a request that arrives; what it owes is then a natural number.
LEMMA ArriveDue ==
    ASSUME TypeOK, pol' = pol, NEW r \in Requests, NEW q \in Quotas, NEW phase,
           input'[r].val \in Int
    PROVE  Due(r, phase, q)' \in Nat
<1>1. \A readable : Clamp(input'[r].val * Cardinality(Sources(q) \cap readable \cap input'[r].has))
                       \in Nat
  <2> TAKE readable
  <2>1. Sources(q) \cap readable \cap input'[r].has \in SUBSET AllSources
    BY PolicyFacts
  <2> QED BY <2>1, SumType
<1>2. Sources(q)' = Sources(q)
  BY PolicyFixed
<1>3. Extract(r, q, RequestSources)' \in Nat /\ Extract(r, q, ResponseSources)' \in Nat
  BY <1>1, <1>2, RateLimitPhasesAssumption DEF Extract, TotalOf
<1>4. /\ Int64(Extract(r, q, RequestSources)') \in Nat
      /\ Int64(Extract(r, q, ResponseSources)') \in Nat
  BY <1>3, Int64Type
<1> QED BY <1>4 DEF Due, Int64

LEMMA ArriveInv ==
    ASSUME PhaseInv, NEW r \in Requests, Arrive(r)
    PROVE  PhaseInv'
<1>1. TypeOK /\ pol' = pol /\ Quotas' = Quotas
  BY PolicyFixed DEF PhaseInv, Arrive, limiterVars
<1>2. UNCHANGED <<limiterVars, i, results, metadataVars, stream, charged, emitted, erred,
                  refused>>
  BY DEF Arrive
<1>3. pc[r] = "idle" /\ pc' = [pc EXCEPT ![r] = "OnRequestHeaders"]
  BY DEF Arrive
<1>4. PICK has \in SUBSET UNION {Sources(q) : q \in Quotas}, val \in Values :
        input' = [input EXCEPT ![r] = [has |-> has, val |-> val]]
  BY Zenon DEF Arrive
<1>5. val \in Int /\ has \in SUBSET (RequestSources \cup ResponseSources)
  BY <1>1, PolicyFacts, RateLimitPhasesAssumption DEF AllSources
<1>6. /\ input \in [Requests -> [has : SUBSET (RequestSources \cup ResponseSources), val : Int]]
      /\ [has |-> has, val |-> val] \in
             [has : SUBSET (RequestSources \cup ResponseSources), val : Int]
  BY <1>1, <1>5 DEF TypeOK, InputTypes
<1>7. /\ input' \in [Requests -> [has : SUBSET (RequestSources \cup ResponseSources), val : Int]]
      /\ \A u \in Requests : u # r => input'[u] = input[u]
  BY <1>4, <1>6
<1>8. TypeOK'
  <2>1. LimiterTypes'
    BY <1>1, <1>2 DEF TypeOK, LimiterTypes, limiterVars
  <2>2. LoopTypes'
    BY <1>1, <1>2, <1>3 DEF TypeOK, LoopTypes, Handlers
  <2>3. MetadataTypes'
    BY <1>1, <1>2 DEF TypeOK, MetadataTypes, metadataVars
  <2>4. InputTypes'
    BY <1>1, <1>2, <1>7 DEF TypeOK, InputTypes
  <2>5. spent' \in [Requests -> SUBSET Quotas]
    BY <1>1 DEF Arrive, TypeOK, HistoryTypes
  <2>6. HistoryTypes'
    BY <1>1, <1>2, <2>5 DEF TypeOK, HistoryTypes
  <2> QED BY <2>1, <2>2, <2>3, <2>4, <2>6 DEF TypeOK
<1>9. /\ \A u \in Requests : u # r => pc'[u] = pc[u]
      /\ pc'[r] = "OnRequestHeaders"
      /\ \A q \in Quotas : charged[r]["request"][q] = 0 /\ charged[r]["response"][q] = 0
  BY <1>1, <1>3, LoopState DEF PhaseInv, RequestFresh, ResponseFresh
<1>10. UNCHANGED <<pol, i, acc, sent, handled, charged>>
  BY <1>2 DEF limiterVars, metadataVars
<1>11. Gathered'
  BY <1>1, <1>9, <1>10, PolicyFixed DEF PhaseInv, Gathered
<1>12. RequestFresh'
  <2>1. \A u \in Requests, q \in Quotas : Carried(u, q)' <=> Carried(u, q)
    BY <1>1, <1>10, PolicyFixed DEF Carried
  <2> QED BY <1>1, <1>9, <1>10, <2>1 DEF PhaseInv, RequestFresh
<1>13. ResponseFresh'
  BY <1>1, <1>9, <1>10, PolicyFixed DEF PhaseInv, ResponseFresh
<1>14. NeverOvercharged'
  <2> SUFFICES ASSUME NEW u \in Requests, NEW h \in {"request", "response"},
                      NEW q \in Quotas
               PROVE  charged[u][h][q] <= Due(u, h, q)'
    BY <1>1, <1>10 DEF NeverOvercharged
  <2>1. CASE u # r
    <3>1. input'[u] = input[u]
      BY <1>7, <2>1
    <3>2. Due(u, h, q)' = Due(u, h, q)
      BY <1>1, <3>1
         DEF Due, CostEnabled, HasRequestPhase, HasResponsePhase, Extract, TotalOf, Sources
    <3> QED BY <3>2 DEF PhaseInv, NeverOvercharged
  <2>2. CASE u = r
    <3>1. input'[u].val \in Int
      BY <1>7
    <3>2. Due(u, h, q)' \in Nat
      BY <1>1, <3>1, ArriveDue
    <3>3. charged[u][h][q] = 0
      BY <1>9, <2>2
    <3> QED BY <3>2, <3>3
  <2> QED BY <2>1, <2>2
<1> QED BY <1>8, <1>11, <1>12, <1>13, <1>14 DEF PhaseInv

LEMMA ChunkInv ==
    ASSUME PhaseInv, NEW r \in Requests, OnResponseBodyChunk(r)
    PROVE  PhaseInv'
<1>1. TypeOK /\ pol' = pol /\ Quotas' = Quotas
  BY PolicyFixed DEF PhaseInv, OnResponseBodyChunk, limiterVars
<1>2. UNCHANGED <<limiterVars, i, results, stored, keys, handled, inputVars, historyVars>>
  BY DEF OnResponseBodyChunk
<1>3. /\ pc[r] = "OnResponseBodyChunk"
      /\ acc' = [acc EXCEPT ![r] = [q \in Quotas |-> Gather(r, q)]]
      /\ sent' = [sent EXCEPT ![r] = @ + 1]
      /\ pc' = IF sent[r] + 1 = NumChunks THEN [pc EXCEPT ![r] = "finalize"] ELSE pc
  BY DEF OnResponseBodyChunk
<1>4. /\ pc \in [Requests -> Handlers] /\ \A q \in Quotas : q \in Nat
      /\ acc \in [Requests -> [Quotas -> Nat]] /\ sent \in [Requests -> Nat]
  BY <1>1, LoopState DEF TypeOK, MetadataTypes
<1>5. \A q \in Quotas : Gather(r, q) \in Nat
  BY <1>4 DEF Gather
<1>6. TypeOK'
  <2>1. LimiterTypes'
    BY <1>1, <1>2 DEF TypeOK, LimiterTypes, limiterVars
  <2>2. LoopTypes'
    BY <1>1, <1>2, <1>3 DEF TypeOK, LoopTypes, Handlers
  <2>3. acc' \in [Requests -> [Quotas -> Nat]] /\ sent' \in [Requests -> Nat]
    BY <1>3, <1>4, <1>5
  <2>4. MetadataTypes'
    BY <1>1, <1>2, <2>3 DEF TypeOK, MetadataTypes
  <2>5. InputTypes'
    BY <1>1, <1>2 DEF TypeOK, InputTypes, inputVars
  <2>6. HistoryTypes'
    BY <1>1, <1>2 DEF TypeOK, HistoryTypes, historyVars
  <2> QED BY <2>1, <2>2, <2>4, <2>5, <2>6 DEF TypeOK
<1>7. /\ \A u \in Requests : u # r => pc'[u] = pc[u] /\ acc'[u] = acc[u] /\ sent'[u] = sent[u]
      /\ (pc'[r] = "finalize" /\ sent[r] + 1 = NumChunks) \/ pc'[r] = pc[r]
      /\ sent'[r] = sent[r] + 1
      /\ \A q \in Quotas : acc'[r][q] = Gather(r, q)
  BY <1>3, <1>4
<1>8. UNCHANGED <<pol, i, handled, charged, input>>
  BY <1>2 DEF limiterVars, inputVars, historyVars
<1>9. Gathered'
  <2> SUFFICES ASSUME NEW u \in Requests
               PROVE  /\ pc'[u] = "finalize" => sent'[u] = NumChunks
                      /\ \A q \in Quotas : RequiresResponseBody(q) => acc'[u][q] = sent'[u]
    BY <1>1, PolicyFixed DEF Gathered
  <2>1. CASE u # r
    BY <1>7, <2>1 DEF PhaseInv, Gathered
  <2>2. CASE u = r
    BY <1>3, <1>7, <2>2 DEF PhaseInv, Gathered, Gather
  <2> QED BY <2>1, <2>2
<1>10. RequestFresh'
  <2>1. \A u \in Requests, q \in Quotas : Carried(u, q)' <=> Carried(u, q)
    BY <1>1, <1>8, PolicyFixed DEF Carried
  <2> QED BY <1>1, <1>3, <1>7, <1>8, <2>1 DEF PhaseInv, RequestFresh
<1>11. ResponseFresh'
  BY <1>1, <1>3, <1>7, <1>8, PolicyFixed DEF PhaseInv, ResponseFresh
<1>12. NeverOvercharged'
  BY <1>1, <1>8, DueFixed DEF PhaseInv, NeverOvercharged
<1> QED BY <1>6, <1>9, <1>10, <1>11, <1>12 DEF PhaseInv

\* Steps that touch nothing the invariant reads but the limiters and the history of windows.
LEMMA QuietInv ==
    ASSUME PhaseInv, WindowChange \/ UNCHANGED vars
    PROVE  PhaseInv'
<1>1. TypeOK
  BY DEF PhaseInv
<1>2. UNCHANGED <<pol, errors, loopVars, metadataVars, inputVars, charged, emitted, erred,
                  refused>>
  BY DEF WindowChange, vars, limiterVars, historyVars
<1>3. pol' = pol /\ Quotas' = Quotas
  BY <1>2, PolicyFixed
<1>4. /\ count' \in [Quotas -> Nat] /\ resets' \in Nat
      /\ spent' \in [Requests -> SUBSET Quotas]
  <2>1. CASE WindowChange
    BY <1>1, <2>1 DEF WindowChange, TypeOK, LimiterTypes
  <2>2. CASE UNCHANGED vars
    BY <1>1, <2>2 DEF vars, limiterVars, historyVars, TypeOK, LimiterTypes, HistoryTypes
  <2> QED BY <2>1, <2>2
<1>5. TypeOK'
  <2>1. LimiterTypes'
    BY <1>1, <1>2, <1>3, <1>4 DEF TypeOK, LimiterTypes
  <2>2. LoopTypes'
    BY <1>1, <1>2, <1>3 DEF TypeOK, LoopTypes, loopVars
  <2>3. MetadataTypes'
    BY <1>1, <1>2, <1>3 DEF TypeOK, MetadataTypes, metadataVars
  <2>4. InputTypes'
    BY <1>1, <1>2 DEF TypeOK, InputTypes, inputVars
  <2>5. HistoryTypes'
    BY <1>1, <1>2, <1>3, <1>4 DEF TypeOK, HistoryTypes
  <2> QED BY <2>1, <2>2, <2>3, <2>4, <2>5 DEF TypeOK
<1>6. UNCHANGED <<pol, pc, i, input, acc, sent, handled, charged>>
  BY <1>2 DEF loopVars, metadataVars, inputVars
<1>7. RequestFresh'
  <2>1. \A u \in Requests, q \in Quotas : Carried(u, q)' <=> Carried(u, q)
    BY <1>3, <1>6, PolicyFixed DEF Carried
  <2> QED BY <1>3, <1>6, <2>1 DEF PhaseInv, RequestFresh
<1>8. ResponseFresh' /\ Gathered'
  BY <1>3, <1>6, PolicyFixed DEF PhaseInv, ResponseFresh, Gathered
<1>9. NeverOvercharged'
  BY <1>3, <1>6, DueFixed DEF PhaseInv, NeverOvercharged
<1> QED BY <1>5, <1>7, <1>8, <1>9 DEF PhaseInv

LEMMA InitInv ==
    ASSUME Init
    PROVE  PhaseInv
<1>1. pol \in Policies /\ pol \in Policy
  BY RateLimitPhasesAssumption DEF Init
<1>2. pol.quotas \in Seq(Quota)
  BY <1>1 DEF Policy
<1>3. Len(pol.quotas) \in Nat
  BY <1>2
<1>4. Nothing \in [Quotas -> Nat] /\ Empty \in [Quotas -> Outcomes]
  BY DEF Nothing, Empty, Outcomes
<1>5. LimiterTypes
  BY <1>1, <1>4 DEF Init, LimiterTypes
<1>6. LoopTypes
  BY <1>3, <1>4 DEF Init, LoopTypes, Handlers
<1>7. MetadataTypes
  BY <1>4 DEF Init, MetadataTypes
<1>8. InputTypes
  BY DEF Init, InputTypes, Nobody, NoStream
<1>9. HistoryTypes
  BY <1>4 DEF Init, HistoryTypes
<1>10. TypeOK
  BY <1>5, <1>6, <1>7, <1>8, <1>9 DEF TypeOK
<1>11. \A r \in Requests, h \in {"request", "response"}, q \in Quotas : charged[r][h][q] = 0
  BY DEF Init, Nothing
<1>12. RequestFresh /\ ResponseFresh
  BY <1>11 DEF RequestFresh, ResponseFresh
<1>13. Gathered
  BY DEF Init, Gathered, Nothing
<1>14. NeverOvercharged
  <2> SUFFICES ASSUME NEW r \in Requests, NEW h \in {"request", "response"}, NEW q \in Quotas
               PROVE  charged[r][h][q] <= Due(r, h, q)
    BY DEF NeverOvercharged
  <2>1. Due(r, h, q) \in Nat
    BY <1>10, DueType
  <2> QED BY <1>11, <2>1
<1> QED BY <1>10, <1>12, <1>13, <1>14 DEF PhaseInv

LEMMA NextInv ==
    ASSUME PhaseInv, [Next]_vars
    PROVE  PhaseInv'
<1>1. CASE WindowChange \/ Finished \/ UNCHANGED vars
  BY <1>1, QuietInv DEF Finished
<1>2. ASSUME NEW r \in Requests, RequestStep(r)
      PROVE  PhaseInv'
  BY <1>2, ArriveInv, RequestLoops, LoopEnds DEF RequestStep
<1>3. ASSUME NEW r \in Requests, ResponseStep(r)
      PROVE  PhaseInv'
  BY <1>3, Turns, ResponseLoops, LoopEnds, ChunkInv DEF ResponseStep
<1> QED BY <1>1, <1>2, <1>3 DEF Next

-----------------------------------------------------------------------------
(* The theorems.                                                           *)

LEMMA PhaseInvariant == Spec => []PhaseInv
<1>1. Init => PhaseInv
  BY InitInv
<1>2. PhaseInv /\ [Next]_vars => PhaseInv'
  BY NextInv
<1> QED BY <1>1, <1>2, PTL DEF Spec

\* The limiters, the loops of the handlers and the metadata of every request keep their
\* types, for any policies, requests and limiter errors.
THEOREM PhaseTypeCorrect == Spec => []TypeOK
<1>1. PhaseInv => TypeOK
  BY DEF PhaseInv
<1> QED BY <1>1, PhaseInvariant, PTL

\* Whatever quotas a policy has and however the handlers of its requests interleave, no
\* handler charges a quota that an earlier handler of the same request charged in that
\* phase, and none charges more than the request owes: the hand-over from OnRequestHeaders
\* to OnRequestBody and from OnResponseHeaders to the body handlers loses no mark.
THEOREM NeverChargedTwice == Spec => []NeverOvercharged
<1>1. PhaseInv => NeverOvercharged
  BY DEF PhaseInv
<1> QED BY <1>1, PhaseInvariant, PTL

-----------------------------------------------------------------------------
(* What every handler leaves behind, quota by quota: the strengthening that *)
(* the properties of a finished request need.                              *)

AfterRequest == Handlers \ {"idle", "OnRequestHeaders", "OnRequestBody", "denied"}

\* The quotas OnRequestHeaders settles for good.
Immediate(q) == ~pol.quotas[q].cel /\ (~CostEnabled(q) \/ HasRequestHeaderOnly(q))

Paid(r, phase, q) == charged[r][phase][q] = Due(r, phase, q)

\* A quota that was used up when the request arrived stops it, or takes nothing.
Blocks(r, q) ==
    q \in spent[r] => Unchecked(q) \/ (HasRequestPhase(q) /\ Due(r, "request", q) = 0)

\* The request phase: the key is known, the cost is paid, and there is a result for every
\* quota that the response phase will not charge.
RequestSettled(r, q) ==
    /\ pc[r] = "OnRequestHeaders" /\ q < i[r] =>
          /\ ~pol.quotas[q].cel => q \in keys[r] /\ Blocks(r, q)
          /\ Immediate(q) => Paid(r, "request", q) /\ results[r][q] = "set"
    /\ pc[r] = "OnRequestBody" =>
          /\ ~pol.quotas[q].cel => q \in keys[r] /\ Blocks(r, q)
          /\ Immediate(q) => Paid(r, "request", q) /\ stored[r][q] = "set"
    /\ pc[r] = "OnRequestBody" /\ q < i[r] =>
          /\ q \in keys[r] /\ Blocks(r, q)
          /\ \/ Unchecked(q)
             \/ Paid(r, "request", q) /\ (results[r][q] = "set" \/ HasResponsePhase(q))
    /\ pc[r] \in AfterRequest =>
          /\ q \in keys[r] /\ Blocks(r, q)
          /\ Unchecked(q) \/ Paid(r, "request", q)
    /\ pc[r] \in {"upstream", "OnResponseHeaders"} =>
          Unchecked(q) \/ stored[r][q] = "set" \/ HasResponsePhase(q)

Told(q) == pol.quotas[q].keyed /\ ~Unchecked(q)

\* The response phase: the cost is paid, and the result is in the headers or still to come
\* from the body handler that will set them.
ResponseSettled(r, q) ==
    /\ pc[r] = "OnResponseHeaders" /\ q < i[r] =>
          /\ HasResponseHeaderOnly(q) /\ pol.quotas[q].keyed => Paid(r, "response", q)
          /\ Told(q) => results[r][q] = "set" \/ (~stream[r].looks /\ StreamSource(q))
    /\ pc[r] \in {"OnResponseBody", "OnResponseBodyChunk", "finalize"} =>
          (HasResponseHeaderOnly(q) /\ pol.quotas[q].keyed => Paid(r, "response", q))
    /\ pc[r] = "OnResponseBody" => (Told(q) => stored[r][q] = "set" \/ StreamSource(q))
    /\ pc[r] = "OnResponseBody" /\ q < i[r] =>
          /\ pol.quotas[q].keyed => Paid(r, "response", q)
          /\ Told(q) => results[r][q] = "set"
    /\ pc[r] = "finalize" /\ q < i[r] => (StreamSource(q) => Paid(r, "response", q))
    /\ pc[r] \in {"OnResponseBodyChunk", "finalize", "done"} => (Told(q) => q \in emitted[r])
    /\ pc[r] = "done" =>
          (pol.quotas[q].keyed \/ (stream[r].streams /\ StreamSource(q))
             => Paid(r, "response", q))

\* What holds of a request whatever failed.
RequestFacts(r) ==
    /\ pc[r] \in {"idle", "upstream", "OnResponseBodyChunk"} => i[r] = 1
    /\ stream[r].streams => stream[r].looks
    /\ pc[r] = "OnResponseBody" => ~stream[r].streams
    /\ pc[r] # "denied" /\ "request" \in erred[r] => pol.failOpen
    /\ pc[r] = "denied" /\ pol.failOpen => refused[r]
    /\ \A q \in handled[r] : ~pol.quotas[q].cel
    /\ \A q \in spent[r] : count[q] >= Limit

Exchange(r) ==
    /\ RequestFacts(r)
    /\ "request" \notin erred[r] => \A q \in Quotas : RequestSettled(r, q)
    /\ erred[r] = {} => \A q \in Quotas : ResponseSettled(r, q)

ExchangeInv == \A r \in Requests : Exchange(r)

LEMMA ShapeFixed ==
    ASSUME pol' = pol
    PROVE  \A q : /\ Unchecked(q)' <=> Unchecked(q)
                  /\ Immediate(q)' <=> Immediate(q)
                  /\ HasRequestPhase(q)' <=> HasRequestPhase(q)
                  /\ HasResponsePhase(q)' <=> HasResponsePhase(q)
                  /\ StreamSource(q)' <=> StreamSource(q)
                  /\ Told(q)' <=> Told(q)
<1>1. \A q : /\ HasRequestPhase(q)' <=> HasRequestPhase(q)
             /\ HasResponsePhase(q)' <=> HasResponsePhase(q)
  BY PolicyFixed DEF HasRequestPhase, HasResponsePhase
<1>2. \A q : /\ Unchecked(q)' <=> Unchecked(q) 
             /\ Immediate(q)' <=> Immediate(q)
             /\ StreamSource(q)' <=> StreamSource(q)
  BY <1>1, PolicyFixed DEF Unchecked, Immediate, StreamSource
<1> QED BY <1>1, <1>2 DEF Told

LEMMA DueSame ==
    ASSUME pol' = pol, NEW r, input'[r] = input[r], NEW phase, NEW q
    PROVE  Due(r, phase, q)' = Due(r, phase, q)
BY DEF Due, CostEnabled, HasRequestPhase, HasResponsePhase, Extract, TotalOf, Sources

\* A step that does not disturb quota q of request r keeps what the request phase settled.
LEMMA RequestKept ==
    ASSUME pol' = pol, NEW r, NEW q, pc'[r] = pc[r], input'[r] = input[r],
           pc[r] \in {"OnRequestHeaders", "OnRequestBody"} =>
              (q < i'[r] => q < i[r]) /\ results'[r][q] = results[r][q],
           stored'[r][q] = stored[r][q],
           q \in keys[r] => q \in keys'[r],
           q \in spent'[r] => q \in spent[r],
           Paid(r, "request", q) => Paid(r, "request", q)',
           RequestSettled(r, q)
    PROVE  RequestSettled(r, q)'
<1>1. Blocks(r, q) => Blocks(r, q)'
  BY ShapeFixed, DueSame DEF Blocks
<1> QED BY <1>1, ShapeFixed DEF RequestSettled

LEMMA ResponseKept ==
    ASSUME pol' = pol, NEW r, NEW q, pc'[r] = pc[r], stream'[r] = stream[r],
           q < i'[r] => q < i[r],
           pc[r] \in {"OnResponseHeaders", "OnResponseBody"} => results'[r][q] = results[r][q],
           stored'[r][q] = stored[r][q],
           q \in emitted[r] => q \in emitted'[r],
           Paid(r, "response", q) => Paid(r, "response", q)',
           ResponseSettled(r, q)
    PROVE  ResponseSettled(r, q)'
BY ShapeFixed, PolicyFixed DEF ResponseSettled

\* A step of somebody else.
Untouched(u) ==
    /\ pc'[u] = pc[u] /\ i'[u] = i[u] /\ results'[u] = results[u]
    /\ input'[u] = input[u] /\ stream'[u] = stream[u]
    /\ stored'[u] = stored[u] /\ keys'[u] = keys[u] /\ handled'[u] = handled[u]
    /\ charged'[u] = charged[u] /\ emitted'[u] = emitted[u] /\ erred'[u] = erred[u]
    /\ refused'[u] = refused[u] /\ spent'[u] \subseteq spent[u]

LEMMA UntouchedKept ==
    ASSUME pol' = pol, NEW u \in Requests, Untouched(u), Exchange(u),
           \A q \in spent'[u] : count'[q] >= Limit
    PROVE  Exchange(u)'
<1>1. Quotas' = Quotas
  BY PolicyFixed
<1>2. RequestFacts(u)'
  BY DEF RequestFacts, Untouched, Exchange
<1>3. ASSUME NEW q \in Quotas
      PROVE  /\ RequestSettled(u, q) => RequestSettled(u, q)'
             /\ ResponseSettled(u, q) => ResponseSettled(u, q)'
  <2>1. /\ Paid(u, "request", q) => Paid(u, "request", q)'
        /\ Paid(u, "response", q) => Paid(u, "response", q)'
    BY DueSame DEF Paid, Untouched
  <2>2. RequestSettled(u, q) => RequestSettled(u, q)'
    BY <2>1, RequestKept DEF Untouched
  <2>3. ResponseSettled(u, q) => ResponseSettled(u, q)'
    BY <2>1, ResponseKept DEF Untouched
  <2> QED BY <2>2, <2>3
<1>4. erred'[u] = erred[u]
  BY DEF Untouched
<1> QED BY <1>1, <1>2, <1>3, <1>4 DEF Exchange

\* What the step of a request leaves of the others.
LEMMA OthersKept ==
    ASSUME PhaseInv, ExchangeInv, pol' = pol, NEW r \in Requests, Exchange(r)',
           \A u \in Requests : u # r => Untouched(u),
           \A q \in Quotas : count'[q] >= count[q] /\ count'[q] \in Nat
    PROVE  ExchangeInv'
<1> SUFFICES ASSUME NEW u \in Requests PROVE Exchange(u)'
  BY DEF ExchangeInv
<1>1. CASE u = r
  BY <1>1
<1>2. CASE u # r
  <2>1. Untouched(u) /\ Exchange(u)
    BY <1>2 DEF ExchangeInv
  <2>2. spent[u] \in SUBSET Quotas /\ Limit \in Nat /\ \A q \in Quotas : count[q] \in Nat
    BY RateLimitPhasesAssumption DEF PhaseInv, TypeOK, HistoryTypes, LimiterTypes
  <2>3. \A q \in spent'[u] : count'[q] >= Limit
    BY <2>1, <2>2 DEF Untouched, Exchange, RequestFacts
  <2> QED BY <2>1, <2>3, UntouchedKept
<1> QED BY <1>1, <1>2

-----------------------------------------------------------------------------
(* The outcomes of a limiter call, as the properties see them.             *)

\* No call lowers a counter; AllowN and GetAvailable find room only where there is some.
LEMMA CallEffects ==
    ASSUME TypeOK, NEW q \in Quotas, NEW n \in Nat
    PROVE  /\ \A o \in AllowN(q, n) : o.count >= count[q] /\ (o.ok => count[q] + n <= Limit)
           /\ \A o \in ConsumeN(q, n) : o.count >= count[q]
           /\ \A o \in GetAvailable(q) : o.count >= count[q] /\ (o.ok => count[q] < Limit)
           /\ \A o \in Look(q) : o.count >= count[q]
<1>1. count[q] \in Nat /\ Limit \in Nat
  BY RateLimitPhasesAssumption DEF TypeOK, LimiterTypes
<1>2. \A o \in Failures(q, n) : o.count >= count[q] /\ o.ok = FALSE
  BY <1>1 DEF Failures
<1>3. \A o \in Failures(q, 0) : o.count >= count[q] /\ o.ok = FALSE
  BY <1>1 DEF Failures
<1>4. \A o \in AllowN(q, n) : o.count >= count[q] /\ (o.ok => count[q] + n <= Limit)
  <2> SUFFICES ASSUME NEW o \in AllowN(q, n)
               PROVE  o.count >= count[q] /\ (o.ok => count[q] + n <= Limit)
    OBVIOUS
  <2> DEFINE fits == count[q] + n <= Limit
             c    == IF fits \/ pol.backend = "redis" THEN count[q] + n ELSE count[q]
  <2>1. AllowN(q, n) = {[count |-> c, ok |-> fits, err |-> FALSE]} \cup Failures(q, n)
    BY DEF AllowN
  <2>2. c >= count[q] 
    BY <1>1
  <2>3. CASE o \in Failures(q, n)
    BY <1>2, <2>3
  <2>4. CASE o = [count |-> c, ok |-> fits, err |-> FALSE]
    <3> HIDE DEF c, fits
    <3>1. o.count = c /\ (o.ok <=> fits)
      BY <2>4
    <3> QED BY <2>2, <3>1 DEF fits
  <2> QED BY <2>1, <2>3, <2>4
<1>5. \A o \in ConsumeN(q, n) : o.count >= count[q]
  BY <1>1, <1>2 DEF ConsumeN
<1>6. \A o \in GetAvailable(q) : o.count >= count[q] /\ (o.ok => count[q] < Limit)
  <2> SUFFICES ASSUME NEW o \in GetAvailable(q)
               PROVE  o.count >= count[q] /\ (o.ok => count[q] < Limit)
    OBVIOUS
  <2> DEFINE left == Available(q) > 0
  <2>1. GetAvailable(q) = {[count |-> count[q], ok |-> left, err |-> FALSE]} \cup Failures(q, 0)
    BY DEF GetAvailable
  <2>2. left => count[q] < Limit
    BY <1>1 DEF Available
  <2>3. CASE o \in Failures(q, 0)
    BY <1>3, <2>3
  <2>4. CASE o = [count |-> count[q], ok |-> left, err |-> FALSE]
    <3> HIDE DEF left
    <3>1. o.count = count[q] /\ (o.ok <=> left)
      BY <2>4
    <3> QED BY <1>1, <2>2, <3>1
  <2> QED BY <2>1, <2>3, <2>4
<1>7. \A o \in Look(q) : o.count >= count[q]
  <2> SUFFICES ASSUME NEW o \in GetAvailable(q), NEW ok
               PROVE  [o EXCEPT !.ok = ok].count >= count[q]
    BY DEF Look
  <2>1. o \in CallOutcomes
    BY CallTypes
  <2>2. [o EXCEPT !.ok = ok].count = o.count
    BY <2>1 DEF CallOutcomes
  <2> QED BY <1>6, <2>2
<1> QED BY <1>4, <1>5, <1>6, <1>7

CountsGrow == \A q \in Quotas : count'[q] >= count[q] /\ count'[q] \in Nat

LEMMA CountGrows ==
    ASSUME TypeOK, NEW q \in Quotas, NEW o \in CallOutcomes, o.count >= count[q], Count(q, o)
    PROVE  CountsGrow
<1>1. count \in [Quotas -> Nat] /\ o.count \in Nat
  BY DEF TypeOK, LimiterTypes, CallOutcomes
<1>2. count' = [count EXCEPT ![q] = o.count]
  BY DEF Count
<1> QED BY <1>1, <1>2 DEF CountsGrow

\* The part of a request that a loop step of another one could reach.
LoopApart(u) ==
    /\ pc'[u] = pc[u] /\ i'[u] = i[u] /\ results'[u] = results[u]
    /\ charged'[u] = charged[u] /\ erred'[u] = erred[u]

Advances(r, x) ==
    /\ pc'[r] = pc[r] /\ i'[r] = i[r] + 1
    /\ results'[r][i[r]] = x
    /\ \A q \in Quotas : q # i[r] => results'[r][q] = results[r][q]

Passes(r) ==
    /\ pc'[r] = pc[r] /\ i'[r] = i[r] + 1
    /\ \A q \in Quotas : results'[r][q] = results[r][q]

\* The limiter found no room.
Refusal(r) ==
    /\ pc'[r] = "denied" /\ refused'[r]
    /\ erred'[r] = erred[r] /\ handled'[r] = handled[r]

\* The limiter could not be asked.
Failure(r) ==
    /\ "request" \in erred'[r]
    /\ handled'[r] = handled[r]
    /\ (pol.failOpen /\ pc'[r] = pc[r]) \/ (~pol.failOpen /\ pc'[r] = "denied")

Success(r, n, x) ==
    /\ Advances(r, x)
    /\ erred'[r] = erred[r] /\ refused'[r] = refused[r]
    /\ charged'[r]["request"][i[r]] = charged[r]["request"][i[r]] + n
    /\ \/ handled'[r] = handled[r]
       \/ pc[r] = "OnRequestHeaders" /\ handled'[r] = handled[r] \cup {i[r]}

LEMMA LoopOthers ==
    ASSUME TypeOK, NEW r \in Requests, NEW x, NEW u \in Requests, u # r,
           Skip(r) \/ Leave(r, x) \/ Deny(r)
    PROVE  pc'[u] = pc[u] /\ i'[u] = i[u] /\ results'[u] = results[u]
BY DEF Skip, Leave, Deny, TypeOK, LoopTypes

LEMMA LeaveAdvances ==
    ASSUME TypeOK, NEW r \in Requests, i[r] \in Quotas, NEW x, Leave(r, x)
    PROVE  Advances(r, x)
BY DEF Leave, Advances, TypeOK, LoopTypes

LEMMA SkipPasses ==
    ASSUME TypeOK, NEW r \in Requests, i[r] \in Quotas, Skip(r)
    PROVE  Passes(r)
BY DEF Skip, Passes, TypeOK, LoopTypes

LEMMA DenyDenies ==
    ASSUME TypeOK, NEW r \in Requests, Deny(r)
    PROVE  pc'[r] = "denied"
BY DEF Deny, TypeOK, LoopTypes

LEMMA ChargeOthers ==
    ASSUME TypeOK, NEW r \in Requests, NEW u \in Requests, u # r,
           NEW phase, NEW q, NEW n, Charge(r, phase, q, n)
    PROVE  charged'[u] = charged[u]
BY DEF Charge, TypeOK, HistoryTypes

LEMMA CheckOutcome ==
    ASSUME TypeOK, NEW r \in Requests, i[r] \in Quotas, NEW calls \in SUBSET CallOutcomes,
           \A o \in calls : o.count >= count[i[r]],
           NEW n \in Nat, NEW x, Check(r, calls, n, x)
    PROVE  /\ CountsGrow
           /\ \A u \in Requests : u # r =>
                LoopApart(u) /\ handled'[u] = handled[u] /\ refused'[u] = refused[u]
           /\ \/ Refusal(r)
              \/ Failure(r)
              \/ Success(r, n, x) /\ \E o \in calls : o.ok
<1>1. PICK o \in calls :
        /\ Count(i[r], o)
        /\ erred' = IF o.err THEN [erred EXCEPT ![r] = @ \cup {"request"}] ELSE erred
        /\ \/ o.err /\ Fail(r) /\ UNCHANGED <<handled, charged, refused>>
           \/ /\ ~o.err /\ ~o.ok /\ Deny(r)
              /\ refused' = [refused EXCEPT ![r] = TRUE]
              /\ UNCHANGED <<handled, charged>>
           \/ /\ ~o.err /\ o.ok /\ Leave(r, x) /\ Charge(r, "request", i[r], n)
              /\ handled' = IF pc[r] = "OnRequestHeaders" /\ x = "set"
                            THEN [handled EXCEPT ![r] = @ \cup {i[r]}] ELSE handled
              /\ UNCHANGED refused
  BY Zenon DEF Check
<1>2. CountsGrow
  BY <1>1, CountGrows
<1>3. /\ handled \in [Requests -> SUBSET Quotas] /\ refused \in [Requests -> BOOLEAN]
      /\ erred \in [Requests -> SUBSET {"request", "response"}]
  BY DEF TypeOK, MetadataTypes, HistoryTypes
<1>4. \A u \in Requests : u # r => erred'[u] = erred[u]
  BY <1>1, <1>3
<1>5. CASE o.err /\ Fail(r) /\ UNCHANGED <<handled, charged, refused>>
  <2>1. "request" \in erred'[r]
    BY <1>1, <1>3, <1>5
  <2>2. (pol.failOpen /\ Skip(r)) \/ (~pol.failOpen /\ Deny(r))
    BY <1>5 DEF Fail
  <2>3. Failure(r)
    BY <1>5, <2>1, <2>2, SkipPasses, DenyDenies DEF Failure, Passes
  <2>4. \A u \in Requests : u # r => LoopApart(u)
    BY <1>4, <1>5, <2>2, LoopOthers DEF LoopApart
  <2> QED BY <1>2, <1>5, <2>3, <2>4
<1>6. CASE /\ ~o.err /\ ~o.ok /\ Deny(r)
           /\ refused' = [refused EXCEPT ![r] = TRUE]
           /\ UNCHANGED <<handled, charged>>
  <2>1. refused'[r] /\ \A u \in Requests : u # r => refused'[u] = refused[u]
    BY <1>3, <1>6
  <2>2. Refusal(r)
    BY <1>1, <1>6, <2>1, DenyDenies DEF Refusal
  <2>3. \A u \in Requests : u # r => LoopApart(u)
    BY <1>4, <1>6, LoopOthers DEF LoopApart
  <2> QED BY <1>2, <1>6, <2>1, <2>2, <2>3
<1>7. CASE /\ ~o.err /\ o.ok /\ Leave(r, x) /\ Charge(r, "request", i[r], n)
           /\ handled' = IF pc[r] = "OnRequestHeaders" /\ x = "set"
                         THEN [handled EXCEPT ![r] = @ \cup {i[r]}] ELSE handled
           /\ UNCHANGED refused
  <2>1. /\ \A u \in Requests : u # r => handled'[u] = handled[u]
        /\ \/ handled'[r] = handled[r]
           \/ pc[r] = "OnRequestHeaders" /\ handled'[r] = handled[r] \cup {i[r]}
    BY <1>3, <1>7
  <2>2. charged'[r]["request"][i[r]] = charged[r]["request"][i[r]] + n
    BY <1>7, ChargeFacts
  <2>3. Success(r, n, x)
    BY <1>1, <1>7, <2>1, <2>2, LeaveAdvances DEF Success
  <2>4. \A u \in Requests : u # r => LoopApart(u)
    BY <1>4, <1>7, LoopOthers, ChargeOthers DEF LoopApart
  <2> QED BY <1>2, <1>7, <2>1, <2>3, <2>4
<1> QED BY <1>1, <1>5, <1>6, <1>7

-----------------------------------------------------------------------------
(* A quota of the request phase.                                           *)

\* What was paid stays paid: charges only grow, and never beyond what is owed.
LEMMA PaidStays ==
    ASSUME PhaseInv, PhaseInv', UNCHANGED <<pol, input>>, NEW r \in Requests, i[r] \in Quotas,
           RequestLoopFacts(r) \/ ResponseLoopFacts(r)
    PROVE  \A u \in Requests, h \in {"request", "response"}, q \in Quotas :
             Paid(u, h, q) => Paid(u, h, q)'
<1>1. TypeOK /\ TypeOK' /\ Quotas' = Quotas
  BY PolicyFixed DEF PhaseInv
<1>2. \A u \in Requests, h \in {"request", "response"}, q \in Quotas :
        charged[u][h][q] \in Nat /\ charged'[u][h][q] \in Nat
  BY <1>1 DEF TypeOK, HistoryTypes
<1>3. \A u \in Requests, h \in {"request", "response"}, q \in Quotas :
        charged'[u][h][q] >= charged[u][h][q]
  <2>1. CASE charged' = charged
    BY <1>2, <2>1
  <2>2. CASE \E n \in Nat, h \in {"request", "response"} : Charge(r, h, i[r], n)
    <3>1. PICK n \in Nat, h \in {"request", "response"} : Charge(r, h, i[r], n)
      BY <2>2
    <3>2. /\ charged'[r][h][i[r]] = charged[r][h][i[r]] + n
          /\ \A u \in Requests, g \in {"request", "response"}, p \in Quotas :
               u # r \/ g # h \/ p # i[r] => charged'[u][g][p] = charged[u][g][p]
      BY <1>1, <3>1, ChargeFacts
    <3> QED BY <1>2, <3>2
  <2> QED BY <2>1, <2>2
         DEF RequestLoopFacts, ResponseLoopFacts, RequestCharge, ResponseCharge
<1> SUFFICES ASSUME NEW u \in Requests, NEW h \in {"request", "response"}, NEW q \in Quotas,
                    Paid(u, h, q)
             PROVE  Paid(u, h, q)'
  OBVIOUS
<1>4. Due(u, h, q)' = Due(u, h, q) /\ Due(u, h, q) \in Nat
  BY <1>1, DueFixed, DueType
<1>5. charged'[u][h][q] <= Due(u, h, q)'
  BY <1>1 DEF PhaseInv, NeverOvercharged
<1> QED BY <1>2, <1>3, <1>4, <1>5 DEF Paid

\* The loop goes on; only a quota without a CEL key may be marked as handled.
Continues(r) ==
    /\ pc'[r] = pc[r] /\ i'[r] = i[r] + 1
    /\ \A q \in Quotas : q # i[r] => results'[r][q] = results[r][q]
    /\ erred'[r] = erred[r] /\ refused'[r] = refused[r]
    /\ \/ handled'[r] = handled[r]
       \/ ~pol.quotas[i[r]].cel /\ handled'[r] = handled[r] \cup {i[r]}

\* One quota of OnRequestHeaders or OnRequestBody: refused, failed, or settled.
LEMMA RequestQuotaKept ==
    ASSUME PhaseInv, NEW r \in Requests, Exchange(r), pol' = pol,
           pc[r] \in {"OnRequestHeaders", "OnRequestBody"}, i[r] \in Quotas,
           UNCHANGED <<inputVars, stored, emitted, spent>>, keys[r] \subseteq keys'[r],
           CountsGrow,
           \A q \in Quotas : Paid(r, "request", q) => Paid(r, "request", q)',
           \/ Refusal(r)
           \/ Failure(r)
           \/ /\ Continues(r)
              /\ \A q \in Quotas :
                    q = i[r] /\ "request" \notin erred[r] => RequestSettled(r, q)'
    PROVE  Exchange(r)'
<1>1. TypeOK /\ Quotas' = Quotas /\ \A q \in Quotas : q \in Nat
  BY PolicyFixed, PolicyFacts DEF PhaseInv
<1>2. spent[r] \in SUBSET Quotas /\ Limit \in Nat /\ \A q \in Quotas : count[q] \in Nat
  BY <1>1, RateLimitPhasesAssumption DEF TypeOK, HistoryTypes, LimiterTypes
<1>3. \A q \in spent'[r] : count'[q] >= Limit
  BY <1>2 DEF CountsGrow, Exchange, RequestFacts
<1>4. input' = input /\ stream' = stream
  BY DEF inputVars
<1>5. CASE Refusal(r)
  <2>1. RequestFacts(r)'
    BY <1>3, <1>4, <1>5 DEF Refusal, RequestFacts, Exchange
  <2>2. \A q : RequestSettled(r, q)' /\ ResponseSettled(r, q)'
    BY <1>5 DEF Refusal, RequestSettled, ResponseSettled, AfterRequest
  <2> QED BY <2>1, <2>2 DEF Exchange
<1>6. CASE Failure(r)
  <2>1. RequestFacts(r)'
    BY <1>3, <1>4, <1>6 DEF Failure, RequestFacts, Exchange
  <2>2. "request" \in erred'[r]
    BY <1>6 DEF Failure
  <2> QED BY <2>1, <2>2 DEF Exchange
<1>7. CASE /\ Continues(r)
           /\ \A q \in Quotas :
                q = i[r] /\ "request" \notin erred[r] => RequestSettled(r, q)'
  <2>1. RequestFacts(r)'
    BY <1>3, <1>4, <1>7 DEF Continues, RequestFacts, Exchange
  <2>2. ASSUME NEW q \in Quotas, "request" \notin erred'[r]
        PROVE  RequestSettled(r, q)'
    <3>1. "request" \notin erred[r]
      BY <1>7, <2>2 DEF Continues
    <3>2. CASE q = i[r]
      BY <1>7, <3>1, <3>2
    <3>3. CASE q # i[r]
      <4>1. q < i'[r] => q < i[r]
        BY <1>1, <1>7, <3>3 DEF Continues
      <4>2. RequestSettled(r, q)
        BY <3>1 DEF Exchange
      <4>3. pc'[r] = pc[r] /\ results'[r][q] = results[r][q]
        BY <1>7, <3>3 DEF Continues
      <4>4. /\ input'[r] = input[r] /\ stored'[r][q] = stored[r][q]
            /\ q \in keys[r] => q \in keys'[r]
            /\ q \in spent'[r] => q \in spent[r]
            /\ Paid(r, "request", q) => Paid(r, "request", q)'
        BY <1>4
      <4> QED BY <4>1, <4>2, <4>3, <4>4, RequestKept
    <3> QED BY <3>2, <3>3
  <2>3. \A q \in Quotas : ResponseSettled(r, q)'
    BY <1>7 DEF Continues, ResponseSettled
  <2> QED BY <1>1, <2>1, <2>2, <2>3 DEF Exchange
<1> QED BY <1>5, <1>6, <1>7

\* Taking the cost of the quota the loop is at: refused, failed, or paid; and a quota that
\* was used up when the request arrived has no room for anything.
Takes(r) ==
    /\ Success(r, Due(r, "request", i[r]), "set")
    /\ i[r] \in spent[r] => Due(r, "request", i[r]) = 0

LEMMA TakeOutcome ==
    ASSUME TypeOK, NEW r \in Requests, i[r] \in Quotas, Exchange(r), NEW halves \in Nat,
           Take(r, halves), Int64(halves) = Due(r, "request", i[r])
    PROVE  /\ CountsGrow
           /\ \A u \in Requests : u # r =>
                LoopApart(u) /\ handled'[u] = handled[u] /\ refused'[u] = refused[u]
           /\ Refusal(r) \/ Failure(r) \/ Takes(r)
<1>1. Int64(halves) \in Nat
  BY Int64Type
<1>2. CASE halves = 0
  <2>1. Int64(halves) = 0
    BY <1>2 DEF Int64
  <2>2. Check(r, Look(i[r]), 0, "set")
    BY <1>2 DEF Take
  <2>3. Look(i[r]) \in SUBSET CallOutcomes /\ \A o \in Look(i[r]) : o.count >= count[i[r]]
    BY CallTypes, CallEffects
  <2> QED BY <2>1, <2>2, <2>3, CheckOutcome DEF Takes
<1>3. CASE halves # 0
  <2> DEFINE n == Int64(halves)
  <2>1. Check(r, AllowN(i[r], n), n, "set")
    BY <1>3 DEF Take
  <2> HIDE DEF n
  <2>2. n \in Nat /\ n = Due(r, "request", i[r])
    BY <1>1 DEF n
  <2>3. /\ AllowN(i[r], n) \in SUBSET CallOutcomes
        /\ \A o \in AllowN(i[r], n) :
             o.count >= count[i[r]] /\ (o.ok => count[i[r]] + n <= Limit)
    BY <2>2, CallTypes, CallEffects
  <2>4. count[i[r]] \in Nat /\ Limit \in Nat
    BY RateLimitPhasesAssumption DEF TypeOK, LimiterTypes
  <2>5. (\E o \in AllowN(i[r], n) : o.ok) /\ i[r] \in spent[r] => n = 0
    BY <2>2, <2>3, <2>4 DEF Exchange, RequestFacts
  <2> QED BY <2>1, <2>2, <2>3, <2>5, CheckOutcome DEF Takes
<1> QED BY <1>2, <1>3

LEMMA PreCheckOutcome ==
    ASSUME TypeOK, NEW r \in Requests, i[r] \in Quotas, Exchange(r), PreCheck(r)
    PROVE  /\ CountsGrow
           /\ \A u \in Requests : u # r =>
                LoopApart(u) /\ handled'[u] = handled[u] /\ refused'[u] = refused[u]
           /\ Refusal(r) \/ Failure(r) \/ (Success(r, 0, "nil") /\ i[r] \notin spent[r])
<1>1. Check(r, GetAvailable(i[r]), 0, "nil")
  BY DEF PreCheck
<1>2. /\ GetAvailable(i[r]) \in SUBSET CallOutcomes
      /\ \A o \in GetAvailable(i[r]) : o.count >= count[i[r]] /\ (o.ok => count[i[r]] < Limit)
  BY CallTypes, CallEffects
<1>3. count[i[r]] \in Nat /\ Limit \in Nat
  BY RateLimitPhasesAssumption DEF TypeOK, LimiterTypes
<1>4. (\E o \in GetAvailable(i[r]) : o.ok) => i[r] \notin spent[r]
  BY <1>2, <1>3 DEF Exchange, RequestFacts
<1> QED BY <1>1, <1>2, <1>4, CheckOutcome

\* Where a quota that is taken was not charged yet, it is paid, and blocks as it should.
LEMMA TakesPays ==
    ASSUME PhaseInv, NEW r \in Requests, NEW q \in Quotas, q = i[r],
           UNCHANGED <<pol, input, spent>>, Takes(r),
           ~CostEnabled(q) \/ HasRequestPhase(q),
           pc[r] = "OnRequestHeaders" \/ (pc[r] = "OnRequestBody" /\ ~Carried(r, q))
    PROVE  Paid(r, "request", q)' /\ Blocks(r, q)' /\ results'[r][q] = "set"
<1>1. TypeOK /\ q \in Nat
  BY LoopState DEF PhaseInv
<1>2. charged[r]["request"][q] = 0
  BY <1>1 DEF PhaseInv, RequestFresh
<1>3. Due(r, "request", q)' = Due(r, "request", q) /\ Due(r, "request", q) \in Nat
  BY <1>1, DueFixed, DueType
<1>4. charged'[r]["request"][q] = charged[r]["request"][q] + Due(r, "request", q)
  BY DEF Takes, Success
<1>5. Paid(r, "request", q)'
  BY <1>2, <1>3, <1>4 DEF Paid
<1>6. q \in spent[r] => HasRequestPhase(q) /\ Due(r, "request", q) = 0
  BY DEF Takes, Due
<1>7. Blocks(r, q)'
  BY <1>3, <1>6, ShapeFixed DEF Blocks
<1>8. results'[r][q] = "set"
  BY DEF Takes, Success, Advances
<1> QED BY <1>5, <1>7, <1>8

\* The other requests during one quota of the request phase.
LEMMA RequestLoopOthers ==
    ASSUME TypeOK, NEW r \in Requests,
           \A u \in Requests : u # r =>
              LoopApart(u) /\ handled'[u] = handled[u] /\ refused'[u] = refused[u],
           \/ keys' = keys
           \/ keys' = [keys EXCEPT ![r] = @ \cup {i[r]}],
           UNCHANGED <<inputVars, stored, emitted, spent>>
    PROVE  /\ \A u \in Requests : u # r => Untouched(u)
           /\ keys[r] \subseteq keys'[r]
<1>1. keys \in [Requests -> SUBSET Quotas]
  BY DEF TypeOK, MetadataTypes
<1>2. keys[r] \subseteq keys'[r] /\ \A u \in Requests : u # r => keys'[u] = keys[u]
  BY <1>1
<1> QED BY <1>2 DEF LoopApart, Untouched, inputVars

LEMMA SuccessContinues ==
    ASSUME NEW r \in Requests, NEW n, NEW x, Success(r, n, x),
           pc[r] = "OnRequestHeaders" => ~pol.quotas[i[r]].cel
    PROVE  Continues(r)
BY DEF Success, Advances, Continues

\* A quota that is passed over by the request phase.
LEMMA PassOutcome ==
    ASSUME TypeOK, NEW r \in Requests, i[r] \in Quotas, NEW x,
           Skip(r) \/ Leave(r, x), UNCHANGED <<limiterVars, handled, charged, erred, refused>>
    PROVE  /\ CountsGrow
           /\ \A u \in Requests : u # r =>
                LoopApart(u) /\ handled'[u] = handled[u] /\ refused'[u] = refused[u]
           /\ Continues(r)
           /\ Leave(r, x) => Advances(r, x)
<1>1. CountsGrow
  BY DEF CountsGrow, limiterVars, TypeOK, LimiterTypes
<1>2. \A u \in Requests : u # r => LoopApart(u)
  BY LoopOthers DEF LoopApart
<1>3. Passes(r) \/ Advances(r, x)
  BY SkipPasses, LeaveAdvances
<1>4. Continues(r)
  BY <1>3 DEF Passes, Advances, Continues
<1> QED BY <1>1, <1>2, <1>4, LeaveAdvances

\* OnRequestHeaders settles what it can and leaves the quotas with a CEL key alone.
LEMMA HeaderExchange ==
    ASSUME PhaseInv, PhaseInv', ExchangeInv, NEW r \in Requests, OnRequestHeaders(r)
    PROVE  ExchangeInv'
<1> DEFINE Outcome ==
        \/ Refusal(r)
        \/ Failure(r)
        \/ /\ Continues(r)
           /\ \A q \in Quotas : q = i[r] /\ "request" \notin erred[r] => RequestSettled(r, q)'
<1>1. /\ TypeOK /\ Exchange(r) /\ i[r] \in Quotas /\ pc[r] = "OnRequestHeaders"
      /\ UNCHANGED <<inputVars, stored, acc, sent, emitted, spent>>
  BY DEF PhaseInv, ExchangeInv, OnRequestHeaders
<1>2. RequestLoopFacts(r) /\ pol' = pol
  BY <1>1, HeaderLoop DEF RequestLoopFacts, LoopTypesStep
<1>3. UNCHANGED <<pol, input, spent>>
  BY <1>1, <1>2 DEF inputVars
<1>4. \A q \in Quotas : Paid(r, "request", q) => Paid(r, "request", q)'
  BY <1>1, <1>2, <1>3, PaidStays
<1>5. keys \in [Requests -> SUBSET Quotas]
  BY <1>1 DEF TypeOK, MetadataTypes
<1>6. /\ CountsGrow
      /\ \A u \in Requests : u # r =>
           LoopApart(u) /\ handled'[u] = handled[u] /\ refused'[u] = refused[u]
      /\ Outcome
      /\ keys' = keys \/ keys' = [keys EXCEPT ![r] = @ \cup {i[r]}]
  <2>1. CASE /\ pol.quotas[i[r]].cel /\ Skip(r)
             /\ UNCHANGED <<limiterVars, keys, handled, charged, erred, refused>>
    <3>1. Continues(r)
      BY <1>1, <2>1, PassOutcome
    <3>2. ASSUME NEW q \in Quotas, q = i[r] PROVE RequestSettled(r, q)'
      <4>1. pc'[r] = "OnRequestHeaders" /\ pol'.quotas[q].cel
        BY <1>1, <1>2, <2>1, <3>1, <3>2 DEF Continues
      <4>2. ~Immediate(q)'
        BY <4>1 DEF Immediate
      <4> QED BY <4>1, <4>2 DEF RequestSettled, AfterRequest
    <3> QED BY <1>1, <2>1, <3>1, <3>2, PassOutcome
  <2>2. CASE /\ ~pol.quotas[i[r]].cel
             /\ keys' = [keys EXCEPT ![r] = @ \cup {i[r]}]
             /\ HeaderQuota(r, i[r])
    <3>1. \A q \in Quotas : q = i[r] => q \in keys'[r]
      BY <1>5, <2>2
    <3>2. ASSUME NEW halves \in Nat, Take(r, halves), Int64(halves) = Due(r, "request", i[r]),
                 ~CostEnabled(i[r]) \/ HasRequestPhase(i[r])
          PROVE  /\ CountsGrow
                 /\ \A u \in Requests : u # r =>
                      LoopApart(u) /\ handled'[u] = handled[u] /\ refused'[u] = refused[u]
                 /\ Outcome
      <4>1. /\ CountsGrow
            /\ \A u \in Requests : u # r =>
                 LoopApart(u) /\ handled'[u] = handled[u] /\ refused'[u] = refused[u]
            /\ Refusal(r) \/ Failure(r) \/ Takes(r)
        BY <1>1, <3>2, TakeOutcome
      <4>2. CASE Takes(r)
        <5>1. Continues(r)
          BY <2>2, <4>2, SuccessContinues DEF Takes
        <5>2. ASSUME NEW q \in Quotas, q = i[r] PROVE RequestSettled(r, q)'
          <6>1. Paid(r, "request", q)' /\ Blocks(r, q)' /\ results'[r][q] = "set"
            BY <1>1, <1>3, <3>2, <4>2, <5>2, TakesPays
          <6>2. pc'[r] = "OnRequestHeaders" /\ q \in keys'[r]
            BY <1>1, <3>1, <5>1, <5>2 DEF Continues
          <6> QED BY <6>1, <6>2 DEF RequestSettled, AfterRequest
        <5> QED BY <4>1, <5>1, <5>2
      <4> QED BY <4>1, <4>2
    <3>3. CASE ~CostEnabled(i[r]) /\ Take(r, 2)
      <4>1. Int64(2) = Due(r, "request", i[r])
        BY <3>3 DEF Int64, Due
      <4> QED BY <2>2, <3>2, <3>3, <4>1
    <3>4. CASE HasRequestHeaderOnly(i[r]) /\ Take(r, Extract(r, i[r], {"request_header"}))
      <4>1. Sources(i[r]) \cap {"request_header"} = Sources(i[r]) \cap RequestSources
        BY <3>4 DEF HasRequestHeaderOnly, HasRequestBodyPhase, RequestSources
      <4>2. CostEnabled(i[r]) /\ HasRequestPhase(i[r])
        BY <3>4 DEF HasRequestHeaderOnly, CostEnabled, HasRequestPhase, RequestSources
      <4>3. Extract(r, i[r], {"request_header"}) = Extract(r, i[r], RequestSources)
        BY <4>1 DEF Extract
      <4>4. Int64(Extract(r, i[r], {"request_header"})) = Due(r, "request", i[r])
        BY <4>2, <4>3 DEF Due
      <4>5. Extract(r, i[r], {"request_header"}) \in Nat
        BY <1>1, ExtractType
      <4> HIDE DEF Outcome
      <4> QED BY <2>2, <3>2, <3>4, <4>2, <4>4, <4>5
    <3>5. CASE CostEnabled(i[r]) /\ ~HasRequestHeaderOnly(i[r]) /\ PreCheck(r)
      <4>1. /\ CountsGrow
            /\ \A u \in Requests : u # r =>
                 LoopApart(u) /\ handled'[u] = handled[u] /\ refused'[u] = refused[u]
            /\ Refusal(r) \/ Failure(r) \/ (Success(r, 0, "nil") /\ i[r] \notin spent[r])
        BY <1>1, <3>5, PreCheckOutcome
      <4>2. CASE Success(r, 0, "nil") /\ i[r] \notin spent[r]
        <5>1. Continues(r)
          BY <2>2, <4>2, SuccessContinues
        <5>2. ASSUME NEW q \in Quotas, q = i[r] PROVE RequestSettled(r, q)'
          <6>1. Blocks(r, q)'
            BY <1>3, <4>2, <5>2 DEF Blocks
          <6>2. ~Immediate(q)'
            BY <1>3, <3>5, <5>2, ShapeFixed DEF Immediate
          <6>3. pc'[r] = "OnRequestHeaders" /\ q \in keys'[r]
            BY <1>1, <3>1, <5>1, <5>2 DEF Continues
          <6> QED BY <6>1, <6>2, <6>3 DEF RequestSettled, AfterRequest
        <5> QED BY <2>2, <4>1, <5>1, <5>2
      <4> QED BY <2>2, <4>1, <4>2
    <3> QED BY <2>2, <3>3, <3>4, <3>5 DEF HeaderQuota
  <2> QED BY <1>1, <2>1, <2>2 DEF OnRequestHeaders
<1>7. (\A u \in Requests : u # r => Untouched(u)) /\ keys[r] \subseteq keys'[r]
  BY <1>1, <1>6, RequestLoopOthers
<1>8. Exchange(r)'
  BY <1>1, <1>2, <1>4, <1>6, <1>7, RequestQuotaKept
<1> QED BY <1>2, <1>6, <1>7, <1>8, OthersKept DEF CountsGrow

\* OnRequestBody takes over what OnRequestHeaders settled and settles the rest.
LEMMA BodyExchange ==
    ASSUME PhaseInv, PhaseInv', ExchangeInv, NEW r \in Requests, OnRequestBody(r)
    PROVE  ExchangeInv'
<1> DEFINE Outcome ==
        \/ Refusal(r)
        \/ Failure(r)
        \/ /\ Continues(r)
           /\ \A q \in Quotas : q = i[r] /\ "request" \notin erred[r] => RequestSettled(r, q)'
<1>1. /\ TypeOK /\ Exchange(r) /\ i[r] \in Quotas /\ pc[r] = "OnRequestBody"
      /\ UNCHANGED <<inputVars, stored, acc, sent, emitted, spent>>
      /\ keys' = [keys EXCEPT ![r] = @ \cup {i[r]}] /\ BodyQuota(r, i[r])
  BY DEF PhaseInv, ExchangeInv, OnRequestBody, StoreKey
<1>2. RequestLoopFacts(r) /\ pol' = pol
  BY <1>1, BodyLoop DEF RequestLoopFacts, LoopTypesStep
<1>3. UNCHANGED <<pol, input, spent>>
  BY <1>1, <1>2 DEF inputVars
<1>4. \A q \in Quotas : Paid(r, "request", q) => Paid(r, "request", q)'
  BY <1>1, <1>2, <1>3, PaidStays
<1>5. \A q \in Quotas : q = i[r] => q \in keys'[r]
  BY <1>1 DEF TypeOK, MetadataTypes
\* What has to be shown of the quota when the loop goes on.
<1>6. ASSUME NEW q \in Quotas, q = i[r], Continues(r), "request" \notin erred[r],
             Blocks(r, q)',
             \/ Unchecked(q)
             \/ Paid(r, "request", q)' /\ (results'[r][q] = "set" \/ HasResponsePhase(q))
      PROVE  RequestSettled(r, q)'
  <2>1. pc'[r] = "OnRequestBody" /\ q \in keys'[r] /\ stored'[r][q] = stored[r][q]
    BY <1>1, <1>5, <1>6 DEF Continues
  <2>2. RequestSettled(r, q)
    BY <1>1, <1>6 DEF Exchange
  <2>3. Immediate(q) => Paid(r, "request", q)' /\ stored'[r][q] = "set"
    BY <1>1, <1>4, <2>1, <2>2 DEF RequestSettled
  <2>4. Immediate(q)' => Paid(r, "request", q)' /\ stored'[r][q] = "set"
    BY <1>2, <2>3, ShapeFixed
  <2>5. \/ Unchecked(q)'
        \/ Paid(r, "request", q)' /\ (results'[r][q] = "set" \/ HasResponsePhase(q)')
    BY <1>2, <1>6, ShapeFixed
  <2> QED BY <1>6, <2>1, <2>4, <2>5 DEF RequestSettled, AfterRequest
<1>7. /\ CountsGrow
      /\ \A u \in Requests : u # r =>
           LoopApart(u) /\ handled'[u] = handled[u] /\ refused'[u] = refused[u]
      /\ Outcome
  <2>1. CASE /\ Carried(r, i[r])
             /\ IF stored[r][i[r]] = "absent" THEN Skip(r) ELSE Leave(r, stored[r][i[r]])
             /\ UNCHANGED <<limiterVars, handled, charged, erred, refused>>
    <3>1. Continues(r) /\ (stored[r][i[r]] = "set" => results'[r][i[r]] = "set")
      BY <1>1, <2>1, PassOutcome DEF Advances
    <3>2. ASSUME NEW q \in Quotas, q = i[r], "request" \notin erred[r]
          PROVE  RequestSettled(r, q)'
      <4>1. RequestSettled(r, q)
        BY <1>1, <3>2 DEF Exchange
      <4>2. CASE pol.quotas[q].cel
        <5>1. Unchecked(q)
          BY <1>1, <2>1, <3>2, <4>2 DEF Carried, Exchange, RequestFacts, Unchecked
        <5>2. Blocks(r, q)'
          BY <1>2, <5>1, ShapeFixed DEF Blocks
        <5> QED BY <1>6, <3>1, <3>2, <5>1, <5>2
      <4>3. CASE ~pol.quotas[q].cel
        <5>1. Immediate(q)
          BY <2>1, <3>2, <4>3 DEF Carried, Immediate
        <5>2. Blocks(r, q) /\ Paid(r, "request", q) /\ stored[r][q] = "set"
          BY <1>1, <4>1, <4>3, <5>1 DEF RequestSettled
        <5>3. Blocks(r, q)'
          BY <1>3, <5>2, ShapeFixed, DueFixed DEF Blocks
        <5> QED BY <1>4, <1>6, <3>1, <3>2, <5>2, <5>3
      <4> QED BY <4>2, <4>3
    <3> QED BY <1>1, <2>1, <3>1, <3>2, PassOutcome
  <2>2. ASSUME NEW halves \in Nat, Take(r, halves), Int64(halves) = Due(r, "request", i[r]),
               ~Carried(r, i[r]), ~CostEnabled(i[r]) \/ HasRequestPhase(i[r])
        PROVE  /\ CountsGrow
               /\ \A u \in Requests : u # r =>
                    LoopApart(u) /\ handled'[u] = handled[u] /\ refused'[u] = refused[u]
               /\ Outcome
    <3>1. /\ CountsGrow
          /\ \A u \in Requests : u # r =>
               LoopApart(u) /\ handled'[u] = handled[u] /\ refused'[u] = refused[u]
          /\ Refusal(r) \/ Failure(r) \/ Takes(r)
      BY <1>1, <2>2, TakeOutcome
    <3>2. CASE Takes(r)
      <4>1. Continues(r)
        BY <1>1, <3>2, SuccessContinues DEF Takes
      <4>2. ASSUME NEW q \in Quotas, q = i[r], "request" \notin erred[r]
            PROVE  RequestSettled(r, q)'
        <5>1. Paid(r, "request", q)' /\ Blocks(r, q)' /\ results'[r][q] = "set"
          BY <1>1, <1>3, <2>2, <3>2, <4>2, TakesPays
        <5> QED BY <1>6, <4>1, <4>2, <5>1
      <4> QED BY <3>1, <4>1, <4>2
    <3> QED BY <3>1, <3>2
  <2>3. CASE ~Carried(r, i[r]) /\ ~CostEnabled(i[r]) /\ Take(r, 2)
    <3>1. Int64(2) = Due(r, "request", i[r])
      BY <2>3 DEF Int64, Due
    <3> QED BY <2>2, <2>3, <3>1
  <2>4. CASE /\ ~Carried(r, i[r]) /\ HasRequestPhase(i[r])
             /\ Take(r, Extract(r, i[r], RequestSources))
    <3>1. CostEnabled(i[r])
      BY <2>4 DEF CostEnabled, HasRequestPhase
    <3>2. Int64(Extract(r, i[r], RequestSources)) = Due(r, "request", i[r])
      BY <2>4, <3>1 DEF Due
    <3>3. Extract(r, i[r], RequestSources) \in Nat
      BY <1>1, ExtractType
    <3> HIDE DEF Outcome
    <3> QED BY <2>2, <2>4, <3>2, <3>3
  <2>5. CASE /\ ~Carried(r, i[r]) /\ CostEnabled(i[r]) /\ ~HasRequestPhase(i[r])
             /\ PreCheck(r)
    <3>1. /\ CountsGrow
          /\ \A u \in Requests : u # r =>
               LoopApart(u) /\ handled'[u] = handled[u] /\ refused'[u] = refused[u]
          /\ Refusal(r) \/ Failure(r) \/ (Success(r, 0, "nil") /\ i[r] \notin spent[r])
      BY <1>1, <2>5, PreCheckOutcome
    <3>2. CASE Success(r, 0, "nil") /\ i[r] \notin spent[r]
      <4>1. Continues(r)
        BY <1>1, <3>2, SuccessContinues
      <4>2. ASSUME NEW q \in Quotas, q = i[r], "request" \notin erred[r]
            PROVE  RequestSettled(r, q)'
        <5>1. Blocks(r, q)'
          BY <1>3, <3>2, <4>2 DEF Blocks
        <5>2. HasResponsePhase(q)
          BY <1>1, <2>5, <4>2, PolicyFacts
             DEF CostEnabled, HasRequestPhase, HasResponsePhase, AllSources
        <5>3. Due(r, "request", q) = 0 /\ Due(r, "request", q)' = Due(r, "request", q)
          BY <1>3, <2>5, <4>2, DueFixed DEF Due
        <5>4. charged[r]["request"][q] = 0 /\ q \in Nat
          BY <1>1, <2>5, <4>2, LoopState DEF PhaseInv, RequestFresh
        <5>5. charged'[r]["request"][q] = charged[r]["request"][q] + 0
          BY <3>2, <4>2 DEF Success
        <5>6. Paid(r, "request", q)'
          BY <5>3, <5>4, <5>5 DEF Paid
        <5> QED BY <1>6, <4>1, <4>2, <5>1, <5>2, <5>6
      <4> QED BY <3>1, <4>1, <4>2
    <3> QED BY <3>1, <3>2
  <2> QED BY <1>1, <2>1, <2>3, <2>4, <2>5 DEF BodyQuota
<1>8. (\A u \in Requests : u # r => Untouched(u)) /\ keys[r] \subseteq keys'[r]
  BY <1>1, <1>7, RequestLoopOthers
<1>9. Exchange(r)'
  BY <1>1, <1>2, <1>4, <1>7, <1>8, RequestQuotaKept
<1> QED BY <1>2, <1>7, <1>8, <1>9, OthersKept DEF CountsGrow

-----------------------------------------------------------------------------
(* From one handler to the next.                                           *)

\* A quota that owes nothing in a phase has paid.
LEMMA NothingDue ==
    ASSUME PhaseInv, NEW r \in Requests, NEW h \in {"request", "response"}, NEW q \in Quotas,
           Due(r, h, q) = 0
    PROVE  Paid(r, h, q)
<1>1. charged[r][h][q] \in Nat
  BY LoopState DEF PhaseInv
<1>2. charged[r][h][q] <= Due(r, h, q)
  BY DEF PhaseInv, NeverOvercharged
<1> QED BY <1>1, <1>2 DEF Paid

\* The step from one handler to the next touches one request and no limiter.
LEMMA EndLoopFrame ==
    ASSUME TypeOK, NEW r \in Requests, NEW next, EndLoop(r, next),
           StoreResults(r) \/ UNCHANGED stored,
           Emit(r) \/ UNCHANGED emitted,
           UNCHANGED <<limiterVars, keys, handled, acc, sent, inputVars, charged, erred,
                       refused, spent>>
    PROVE  /\ \A u \in Requests : u # r => Untouched(u)
           /\ CountsGrow
           /\ pc'[r] = next /\ i'[r] = 1 /\ \A q \in Quotas : q < i[r] /\ ~(q < 1)
           /\ StoreResults(r) => stored'[r] = results[r]
           /\ Emit(r) => \A q \in Quotas : results[r][q] = "set" => q \in emitted'[r]
<1>1. /\ pc \in [Requests -> Handlers] /\ i \in [Requests -> 1..(Len(pol.quotas) + 1)]
      /\ results \in [Requests -> [Quotas -> Outcomes]]
      /\ stored \in [Requests -> [Quotas -> Outcomes]]
      /\ emitted \in [Requests -> SUBSET Quotas]
      /\ count \in [Quotas -> Nat] /\ Len(pol.quotas) \in Nat
  BY PolicyFacts DEF TypeOK, LoopTypes, MetadataTypes, HistoryTypes, LimiterTypes
<1>2. /\ i[r] = Len(pol.quotas) + 1
      /\ pc' = [pc EXCEPT ![r] = next]
      /\ i' = [i EXCEPT ![r] = 1]
      /\ results' = [results EXCEPT ![r] = Empty]
  BY DEF EndLoop
<1>3. \A q \in Quotas : q < i[r] /\ ~(q < 1)
  BY <1>1, <1>2 DEF Quotas
<1>4. CountsGrow
  BY <1>1 DEF CountsGrow, limiterVars
<1>5. /\ \A u \in Requests : u # r => emitted'[u] = emitted[u]
      /\ Emit(r) => \A q \in Quotas : results[r][q] = "set" => q \in emitted'[r]
  BY <1>1 DEF Emit
<1>6. /\ \A u \in Requests : u # r => stored'[u] = stored[u]
      /\ StoreResults(r) => stored'[r] = results[r]
  BY <1>1 DEF StoreResults
<1>7. \A u \in Requests : u # r => pc'[u] = pc[u] /\ i'[u] = i[u] /\ results'[u] = results[u]
  BY <1>1, <1>2
<1>8. \A u \in Requests : u # r => Untouched(u)
  BY <1>5, <1>6, <1>7 DEF Untouched, inputVars
<1> QED BY <1>1, <1>2, <1>3, <1>4, <1>5, <1>6, <1>8

\* Nothing the request settled is lost when it only changes its handler.
LEMMA SameClaims ==
    ASSUME NEW r \in Requests, UNCHANGED <<pol, input, keys, charged, spent>>
    PROVE  \A q \in Quotas :
             /\ Blocks(r, q)' <=> Blocks(r, q)
             /\ Paid(r, "request", q)' <=> Paid(r, "request", q)
             /\ Paid(r, "response", q)' <=> Paid(r, "response", q)
<1> TAKE q \in Quotas
<1>1. /\ Due(r, "request", q)' = Due(r, "request", q)
      /\ Due(r, "response", q)' = Due(r, "response", q)
  BY DueFixed
<1> QED BY <1>1, ShapeFixed DEF Blocks, Paid

\* The end of the request phase: OnRequestBody inherits what OnRequestHeaders settled, and
\* a request that needs no body phase has nothing left to settle.
LEMMA RequestEnds ==
    ASSUME PhaseInv, ExchangeInv, NEW r \in Requests,
           OnRequestHeadersEnd(r) \/ OnRequestBodyEnd(r)
    PROVE  ExchangeInv'
<1>1. TypeOK /\ Exchange(r)
  BY DEF PhaseInv, ExchangeInv
<1>2. /\ pc[r] \in {"OnRequestHeaders", "OnRequestBody"} /\ StoreResults(r)
      /\ UNCHANGED <<limiterVars, keys, handled, acc, sent, inputVars, historyVars>>
  BY DEF OnRequestHeadersEnd, OnRequestBodyEnd
<1>3. PICK here \in {"OnRequestBody", "upstream"} :
        /\ EndLoop(r, here)
        /\ pc[r] = "OnRequestHeaders" /\ here = "upstream" => ~RequiresRequestBody
        /\ pc[r] = "OnRequestBody" => here = "upstream"
  BY DEF OnRequestHeadersEnd, OnRequestBodyEnd
<1>4. UNCHANGED <<pol, count, input, stream, keys, handled, charged, emitted, erred, refused, spent>>
  BY <1>2 DEF limiterVars, inputVars, historyVars
<1>5. /\ \A u \in Requests : u # r => Untouched(u)
      /\ CountsGrow
      /\ pc'[r] = here /\ i'[r] = 1 /\ \A q \in Quotas : q < i[r] /\ ~(q < 1)
      /\ stored'[r] = results[r]
  BY <1>1, <1>2, <1>3, <1>4, EndLoopFrame
<1>6. RequestFacts(r)'
  BY <1>1, <1>2, <1>3, <1>4, <1>5 DEF Exchange, RequestFacts
<1>7. ASSUME NEW q \in Quotas, "request" \notin erred[r]
      PROVE  RequestSettled(r, q)'
  <2>1. RequestSettled(r, q)
    BY <1>1, <1>7 DEF Exchange
  <2>2. /\ Blocks(r, q)' <=> Blocks(r, q)
        /\ Paid(r, "request", q)' <=> Paid(r, "request", q)
    BY <1>4, SameClaims
  <2>3. CASE here = "OnRequestBody"
    <3>1. pc[r] = "OnRequestHeaders" /\ q < i[r] /\ ~(q < i'[r]) /\ stored'[r][q] = results[r][q]
      BY <1>2, <1>3, <1>5, <2>3
    <3>2. ~pol.quotas[q].cel => q \in keys'[r] /\ Blocks(r, q)'
      BY <1>4, <2>1, <2>2, <3>1 DEF RequestSettled
    <3>3. Immediate(q)' => Paid(r, "request", q)' /\ stored'[r][q] = "set"
      BY <1>4, <2>1, <2>2, <3>1, ShapeFixed DEF RequestSettled
    <3> QED BY <1>4, <1>5, <2>3, <3>1, <3>2, <3>3 DEF RequestSettled, AfterRequest
  <2>4. CASE here = "upstream"
    <3>1. /\ q \in keys[r] /\ Blocks(r, q)
          /\ \/ Unchecked(q)
             \/ Paid(r, "request", q) /\ (results[r][q] = "set" \/ HasResponsePhase(q))
      <4>1. CASE pc[r] = "OnRequestBody"
        BY <1>5, <2>1, <4>1 DEF RequestSettled
      <4>2. CASE pc[r] = "OnRequestHeaders"
        <5>1. ~pol.quotas[q].cel /\ ~HasRequestBodyPhase(q)
          BY <1>3, <2>4, <4>2 DEF RequiresRequestBody
        <5>2. q \in keys[r] /\ Blocks(r, q)
          BY <1>5, <2>1, <4>2, <5>1 DEF RequestSettled
        <5>3. CASE Immediate(q)
          BY <1>5, <2>1, <4>2, <5>2, <5>3 DEF RequestSettled
        <5>4. CASE ~Immediate(q)
          <6>1. CostEnabled(q) /\ "request_header" \notin Sources(q)
            BY <5>1, <5>4 DEF Immediate, HasRequestHeaderOnly
          <6>2. ~HasRequestPhase(q)
            BY <5>1, <6>1 DEF HasRequestBodyPhase, HasRequestPhase, RequestSources
          <6>3. HasResponsePhase(q)
            BY <1>1, <6>1, <6>2, PolicyFacts
               DEF CostEnabled, HasRequestPhase, HasResponsePhase, AllSources
          <6>4. Due(r, "request", q) = 0
            BY <6>1, <6>2 DEF Due
          <6> QED BY <5>2, <6>3, <6>4, NothingDue
        <5> QED BY <5>3, <5>4
      <4> QED BY <1>2, <4>1, <4>2
    <3>2. /\ Unchecked(q)' <=> Unchecked(q)
          /\ HasResponsePhase(q)' <=> HasResponsePhase(q)
      BY <1>4, ShapeFixed
    <3>3. stored'[r][q] = results[r][q] /\ keys'[r] = keys[r] /\ pc'[r] = "upstream"
      BY <1>4, <1>5, <2>4
    <3>4. /\ q \in keys'[r] /\ Blocks(r, q)'
          /\ Unchecked(q)' \/ Paid(r, "request", q)'
          /\ Unchecked(q)' \/ stored'[r][q] = "set" \/ HasResponsePhase(q)'
      BY <2>2, <3>1, <3>2, <3>3
    <3> QED BY <3>3, <3>4 DEF RequestSettled
  <2> QED BY <2>3, <2>4
<1>8. \A q \in Quotas : ResponseSettled(r, q)'
  BY <1>3, <1>5 DEF ResponseSettled
<1>9. Exchange(r)'
  BY <1>4, <1>6, <1>7, <1>8, PolicyFixed DEF Exchange
<1> QED BY <1>4, <1>5, <1>9, OthersKept DEF CountsGrow

\* Arriving, waiting for the upstream and going away settle nothing.
LEMMA TurnExchange ==
    ASSUME PhaseInv, ExchangeInv, NEW r \in Requests, Respond(r) \/ Abort(r)
    PROVE  ExchangeInv'
<1>1. TypeOK /\ Exchange(r) /\ pc \in [Requests -> Handlers]
  BY LoopState DEF PhaseInv, ExchangeInv
<1>2. UNCHANGED <<pol, count, i, results, stored, keys, handled, input, charged, emitted,
                  erred, refused, spent>>
  BY DEF Respond, Abort, limiterVars, metadataVars, inputVars, historyVars
<1>3. PICK next : /\ pc' = [pc EXCEPT ![r] = next]
                  /\ \/ next = "aborted" /\ pc[r] \in {"upstream", "OnResponseBodyChunk"}
                     \/ next = "OnResponseHeaders" /\ pc[r] = "upstream"
  BY DEF Respond, Abort
<1>4. /\ pc'[r] = next
      /\ \A u \in Requests : u # r => pc'[u] = pc[u]
  BY <1>1, <1>3
<1>5. /\ stream'[r].streams => stream'[r].looks
      /\ \A u \in Requests : u # r => stream'[u] = stream[u]
  <2>1. stream \in [Requests -> [looks : BOOLEAN, streams : BOOLEAN]]
    BY <1>1 DEF TypeOK, InputTypes
  <2>2. CASE Respond(r)
    <3>1. PICK looks \in BOOLEAN, streams \in BOOLEAN :
            /\ streams => looks
            /\ stream' = [stream EXCEPT ![r] = [looks |-> looks, streams |-> streams]]
      BY <2>2, Zenon DEF Respond
    <3>2. stream'[r] = [looks |-> looks, streams |-> streams]
      BY <2>1, <3>1
    <3>3. \A u \in Requests : u # r => stream'[u] = stream[u]
      BY <2>1, <3>1
    <3>4. stream'[r].looks = looks /\ stream'[r].streams = streams
      BY <3>2
    <3> QED BY <3>1, <3>3, <3>4
  <2>3. CASE Abort(r)
    BY <1>1, <2>3 DEF Abort, inputVars, Exchange, RequestFacts
  <2> QED BY <2>2, <2>3
<1>6. (\A u \in Requests : u # r => Untouched(u)) /\ CountsGrow
  BY <1>1, <1>2, <1>4, <1>5 DEF Untouched, CountsGrow, TypeOK, LimiterTypes
<1>7. RequestFacts(r)'
  BY <1>1, <1>2, <1>3, <1>4, <1>5 DEF Exchange, RequestFacts
<1>8. ASSUME NEW q \in Quotas, "request" \notin erred[r]
      PROVE  RequestSettled(r, q)'
  <2>1. RequestSettled(r, q)
    BY <1>1, <1>8 DEF Exchange
  <2>2. /\ Blocks(r, q)' <=> Blocks(r, q)
        /\ Paid(r, "request", q)' <=> Paid(r, "request", q)
    BY <1>2, SameClaims
  <2>3. /\ Unchecked(q)' <=> Unchecked(q)
        /\ HasResponsePhase(q)' <=> HasResponsePhase(q)
    BY <1>2, ShapeFixed
  <2>4. pc[r] \in AfterRequest
    BY <1>3 DEF AfterRequest, Handlers
  <2>5. q \in keys'[r] /\ Blocks(r, q)' /\ (Unchecked(q)' \/ Paid(r, "request", q)')
    BY <1>2, <2>1, <2>2, <2>3, <2>4 DEF RequestSettled
  <2>6. pc'[r] = "OnResponseHeaders" =>
          Unchecked(q)' \/ stored'[r][q] = "set" \/ HasResponsePhase(q)'
    BY <1>2, <1>3, <1>4, <2>1, <2>3 DEF RequestSettled
  <2> QED BY <1>3, <1>4, <2>5, <2>6 DEF RequestSettled
<1>9. \A q \in Quotas : ResponseSettled(r, q)'
  <2>1. pc'[r] = "OnResponseHeaders" => i'[r] = 1
    BY <1>1, <1>2, <1>3, <1>4 DEF Exchange, RequestFacts
  <2>2. \A q \in Quotas : ~(q < 1)
    BY <1>1, PolicyFacts DEF Quotas
  <2> QED BY <1>3, <1>4, <2>1, <2>2 DEF ResponseSettled
<1>10. Exchange(r)'
  BY <1>2, <1>7, <1>8, <1>9, PolicyFixed DEF Exchange
<1> QED BY <1>2, <1>6, <1>10, OthersKept DEF CountsGrow

LEMMA ArriveExchange ==
    ASSUME PhaseInv, ExchangeInv, NEW r \in Requests, Arrive(r)
    PROVE  ExchangeInv'
<1>1. TypeOK /\ Exchange(r) /\ pc \in [Requests -> Handlers]
  BY LoopState DEF PhaseInv, ExchangeInv
<1>2. UNCHANGED <<pol, count, i, results, stored, keys, handled, stream, charged, emitted,
                  erred, refused>>
  BY DEF Arrive, limiterVars, metadataVars
<1>3. pc[r] = "idle" /\ pc'[r] = "OnRequestHeaders" /\ \A u \in Requests : u # r => pc'[u] = pc[u]
  BY <1>1 DEF Arrive
<1>4. /\ spent'[r] = {q \in Quotas : Available(q) = 0}
      /\ \A u \in Requests : u # r => spent'[u] = spent[u]
  BY <1>1 DEF Arrive, TypeOK, HistoryTypes
<1>5. \A u \in Requests : u # r => input'[u] = input[u]
  <2>1. PICK has \in SUBSET UNION {Sources(q) : q \in Quotas}, val \in Values :
          input' = [input EXCEPT ![r] = [has |-> has, val |-> val]]
    BY Zenon DEF Arrive
  <2> QED BY <1>1, <2>1 DEF TypeOK, InputTypes
<1>6. (\A u \in Requests : u # r => Untouched(u)) /\ CountsGrow
  BY <1>1, <1>2, <1>3, <1>4, <1>5 DEF Untouched, CountsGrow, TypeOK, LimiterTypes
<1>7. \A q \in spent'[r] : count'[q] >= Limit
  <2>1. \A q \in Quotas : count[q] \in Nat
    BY <1>1 DEF TypeOK, LimiterTypes
  <2>2. \A q \in Quotas : Available(q) = 0 => count[q] >= Limit
    BY <2>1, RateLimitPhasesAssumption DEF Available
  <2> QED BY <1>2, <1>4, <2>2
<1>8. RequestFacts(r)'
  BY <1>1, <1>2, <1>3, <1>7 DEF Exchange, RequestFacts
<1>9. \A q \in Quotas : RequestSettled(r, q)' /\ ResponseSettled(r, q)'
  <2>1. i'[r] = 1 /\ \A q \in Quotas : ~(q < 1)
    BY <1>1, <1>2, <1>3, PolicyFacts DEF Quotas, Exchange, RequestFacts
  <2> QED BY <1>3, <2>1 DEF RequestSettled, ResponseSettled, AfterRequest
<1>10. Exchange(r)'
  BY <1>2, <1>8, <1>9, PolicyFixed DEF Exchange
<1> QED BY <1>2, <1>6, <1>10, OthersKept DEF CountsGrow

-----------------------------------------------------------------------------
(* A quota of the response phase.                                          *)

ResponseFailure(r) == erred'[r] = erred[r] \cup {"response"}

LEMMA SettleOutcome ==
    ASSUME TypeOK, NEW r \in Requests, i[r] \in Quotas, NEW calls \in SUBSET CallOutcomes,
           \A o \in calls : o.count >= count[i[r]],
           NEW n \in Nat, NEW x, Settle(r, calls, n, x)
    PROVE  /\ CountsGrow
           /\ \A u \in Requests : u # r => LoopApart(u)
           /\ \/ ResponseFailure(r)
              \/ /\ Advances(r, x) /\ erred'[r] = erred[r]
                 /\ charged'[r]["response"][i[r]] = charged[r]["response"][i[r]] + n
<1>1. PICK o \in calls :
        /\ Count(i[r], o)
        /\ erred' = IF o.err THEN [erred EXCEPT ![r] = @ \cup {"response"}] ELSE erred
        /\ \/ o.err /\ Skip(r) /\ UNCHANGED charged
           \/ ~o.err /\ Leave(r, x) /\ Charge(r, "response", i[r], n)
  BY Zenon DEF Settle
<1>2. CountsGrow
  BY <1>1, CountGrows
<1>3. erred \in [Requests -> SUBSET {"request", "response"}]
  BY DEF TypeOK, HistoryTypes
<1>4. \A u \in Requests : u # r => erred'[u] = erred[u]
  BY <1>1, <1>3
<1>5. CASE o.err /\ Skip(r) /\ UNCHANGED charged
  <2>1. ResponseFailure(r)
    BY <1>1, <1>3, <1>5 DEF ResponseFailure
  <2>2. \A u \in Requests : u # r => LoopApart(u)
    BY <1>4, <1>5, LoopOthers DEF LoopApart
  <2> QED BY <1>2, <2>1, <2>2
<1>6. CASE ~o.err /\ Leave(r, x) /\ Charge(r, "response", i[r], n)
  <2>1. \A u \in Requests : u # r => LoopApart(u)
    BY <1>4, <1>6, LoopOthers, ChargeOthers DEF LoopApart
  <2>2. charged'[r]["response"][i[r]] = charged[r]["response"][i[r]] + n
    BY <1>6, ChargeFacts
  <2> QED BY <1>1, <1>2, <1>6, <2>1, <2>2, LeaveAdvances
<1> QED BY <1>1, <1>5, <1>6

\* How a quota of the response phase ends: the call failed, a result x is there, or none.
Reports(r, x) == Advances(r, x) /\ erred'[r] = erred[r]
Silent(r) == Passes(r) /\ erred'[r] = erred[r]

ResponseFrame(r) ==
    /\ CountsGrow
    /\ \A u \in Requests : u # r => LoopApart(u)

LEMMA ResponsePass ==
    ASSUME TypeOK, NEW r \in Requests, i[r] \in Quotas, NEW x,
           Skip(r) \/ Leave(r, x), UNCHANGED <<limiterVars, charged, erred>>
    PROVE  /\ ResponseFrame(r)
           /\ Leave(r, x) => Reports(r, x)
           /\ Skip(r) => Silent(r)
<1>1. CountsGrow
  BY DEF CountsGrow, limiterVars, TypeOK, LimiterTypes
<1>2. \A u \in Requests : u # r => LoopApart(u)
  BY LoopOthers DEF LoopApart
<1> QED BY <1>1, <1>2, LeaveAdvances, SkipPasses DEF ResponseFrame, Reports, Silent

LEMMA KeepOutcome ==
    ASSUME TypeOK, NEW r \in Requests, i[r] \in Quotas, Keep(r, i[r])
    PROVE  /\ ResponseFrame(r)
           /\ stored[r][i[r]] = "set" => Reports(r, "set")
           /\ stored[r][i[r]] # "set" => Silent(r)
<1>1. UNCHANGED <<limiterVars, charged, erred>> /\ (Skip(r) \/ Leave(r, "set"))
  BY DEF Keep
<1> QED BY <1>1, ResponsePass DEF Keep

LEMMA LookOutcome ==
    ASSUME TypeOK, NEW r \in Requests, i[r] \in Quotas, Settle(r, Look(i[r]), 0, "set")
    PROVE  ResponseFrame(r) /\ (ResponseFailure(r) \/ Reports(r, "set"))
<1>1. Look(i[r]) \in SUBSET CallOutcomes /\ \A o \in Look(i[r]) : o.count >= count[i[r]]
  BY CallTypes, CallEffects
<1> QED BY <1>1, SettleOutcome DEF ResponseFrame, Reports

LEMMA ConsumeOutcome ==
    ASSUME TypeOK, NEW r \in Requests, i[r] \in Quotas, NEW n \in Nat, NEW x,
           Settle(r, ConsumeN(i[r], n), n, x)
    PROVE  /\ ResponseFrame(r)
           /\ \/ ResponseFailure(r)
              \/ /\ Reports(r, x)
                 /\ charged'[r]["response"][i[r]] = charged[r]["response"][i[r]] + n
<1>1. /\ ConsumeN(i[r], n) \in SUBSET CallOutcomes
      /\ \A o \in ConsumeN(i[r], n) : o.count >= count[i[r]]
  BY CallTypes, CallEffects
<1> QED BY <1>1, SettleOutcome DEF ResponseFrame, Reports

\* The response cost of a quota that has a key: paid and reported, unless the call fails.
LEMMA ChargeResponseOutcome ==
    ASSUME PhaseInv, PhaseInv', UNCHANGED <<pol, input>>,
           NEW r \in Requests, NEW q \in Quotas, q = i[r], NEW halves \in Nat,
           ChargeResponse(r, q, halves), Int64(halves) = Due(r, "response", q),
           charged[r]["response"][q] = 0
    PROVE  /\ ResponseFrame(r)
           /\ \/ ResponseFailure(r)
              \/ ~HasKey(r, q) /\ Silent(r)
              \/ Reports(r, "set") /\ Paid(r, "response", q)'
<1>1. TypeOK /\ Quotas' = Quotas
  BY PolicyFixed DEF PhaseInv
<1>2. Due(r, "response", q)' = Due(r, "response", q)
  BY DueFixed
<1>3. halves = 0 => Paid(r, "response", q)'
  <2>1. halves = 0 => Due(r, "response", q)' = 0
    BY <1>2 DEF Int64
  <2>2. Due(r, "response", q)' = 0 => Paid(r, "response", q)'
    <3>1. charged'[r]["response"][q] \in Nat
      BY <1>1 DEF PhaseInv, TypeOK, HistoryTypes
    <3>2. charged'[r]["response"][q] <= Due(r, "response", q)'
      BY <1>1 DEF PhaseInv, NeverOvercharged
    <3> QED BY <3>1, <3>2 DEF Paid
  <2> QED BY <2>1, <2>2
<1>4. CASE ~HasKey(r, q) /\ Skip(r) /\ UNCHANGED <<limiterVars, charged, erred>>
  BY <1>1, <1>4, ResponsePass
<1>5. CASE halves = 0 /\ stored[r][q] = "set" /\ Keep(r, q)
  BY <1>1, <1>3, <1>5, KeepOutcome
<1>6. CASE halves = 0 /\ Settle(r, Look(q), 0, "set")
  BY <1>1, <1>3, <1>6, LookOutcome
<1>7. CASE Settle(r, ConsumeN(q, Int64(halves)), Int64(halves), "set")
  <2>1. Int64(halves) \in Nat
    BY Int64Type
  <2>2. /\ ResponseFrame(r)
        /\ \/ ResponseFailure(r)
           \/ /\ Reports(r, "set")
              /\ charged'[r]["response"][q] = charged[r]["response"][q] + Int64(halves)
    BY <1>1, <1>7, <2>1, ConsumeOutcome
  <2> QED BY <1>2, <2>1, <2>2 DEF Paid
<1> QED BY <1>4, <1>5, <1>6, <1>7 DEF ChargeResponse

LEMMA ResponseQuotaKept ==
    ASSUME PhaseInv, PhaseInv', ExchangeInv, NEW r \in Requests, i[r] \in Quotas,
           ResponseLoopFacts(r), ResponseFrame(r),
           pc[r] \in {"OnResponseHeaders", "OnResponseBody", "finalize"},
           UNCHANGED <<metadataVars, inputVars, emitted, refused, spent>>,
           \/ ResponseFailure(r)
           \/ /\ erred'[r] = erred[r]
              /\ \A q \in Quotas : q # i[r] => results'[r][q] = results[r][q]
              /\ \A q \in Quotas : q = i[r] /\ erred[r] = {} => ResponseSettled(r, q)'
    PROVE  ExchangeInv'
<1>1. /\ TypeOK /\ Exchange(r) /\ pol' = pol /\ Quotas' = Quotas /\ \A q \in Quotas : q \in Nat
      /\ i \in [Requests -> 1..(Len(pol.quotas) + 1)]
  BY PolicyFixed, LoopState DEF PhaseInv, ExchangeInv, ResponseLoopFacts, LoopTypesStep
<1>2. pc' = pc /\ i'[r] = i[r] + 1
  BY <1>1 DEF ResponseLoopFacts
<1>3. UNCHANGED <<stored, keys, handled, input, stream, emitted, refused, spent>>
  BY DEF metadataVars, inputVars
<1>4. \A h \in {"request", "response"}, q \in Quotas : Paid(r, h, q) => Paid(r, h, q)'
  BY <1>1, <1>3, PaidStays
<1>5. \A u \in Requests : u # r => Untouched(u)
  BY <1>3 DEF Untouched, LoopApart, ResponseFrame
<1>6. "request" \in erred'[r] => "request" \in erred[r]
  BY DEF ResponseFailure
<1>7. RequestFacts(r)'
  <2>1. spent[r] \in SUBSET Quotas /\ Limit \in Nat /\ \A q \in Quotas : count[q] \in Nat
    BY <1>1, RateLimitPhasesAssumption DEF TypeOK, HistoryTypes, LimiterTypes
  <2>2. \A q \in spent'[r] : count'[q] >= Limit
    BY <1>1, <1>3, <2>1 DEF CountsGrow, ResponseFrame, Exchange, RequestFacts
  <2> QED BY <1>1, <1>2, <1>3, <1>6, <2>2 DEF Exchange, RequestFacts
<1>8. ASSUME NEW q \in Quotas, "request" \notin erred'[r]
      PROVE  RequestSettled(r, q)'
  <2>1. "request" \notin erred[r]
    BY <1>8 DEF ResponseFailure
  <2>2. RequestSettled(r, q)
    BY <1>1, <2>1 DEF Exchange
  <2>3. /\ pc[r] \notin {"OnRequestHeaders", "OnRequestBody"}
        /\ pc'[r] = pc[r] /\ input'[r] = input[r] /\ stored'[r][q] = stored[r][q]
        /\ keys'[r] = keys[r] /\ spent'[r] = spent[r]
    BY <1>2, <1>3
  <2> QED BY <1>1, <1>4, <2>2, <2>3, RequestKept
<1>9. ASSUME NEW q \in Quotas, erred'[r] = {}
      PROVE  ResponseSettled(r, q)'
  <2>1. /\ erred[r] = {}
        /\ \A p \in Quotas : p # i[r] => results'[r][p] = results[r][p]
        /\ \A p \in Quotas : p = i[r] /\ erred[r] = {} => ResponseSettled(r, p)'
    BY <1>9 DEF ResponseFailure
  <2>2. CASE q = i[r]
    BY <2>1, <2>2
  <2>3. CASE q # i[r]
    <3>1. ResponseSettled(r, q)
      BY <1>1, <2>1 DEF Exchange
    <3>2. /\ pc'[r] = pc[r] /\ stream'[r] = stream[r] /\ stored'[r][q] = stored[r][q]
          /\ emitted'[r] = emitted[r] /\ results'[r][q] = results[r][q]
          /\ q < i'[r] => q < i[r]
      BY <1>1, <1>2, <1>3, <2>1, <2>3
    <3> QED BY <1>1, <1>4, <3>1, <3>2, ResponseKept
  <2> QED BY <2>2, <2>3
<1>10. Exchange(r)'
  BY <1>1, <1>7, <1>8, <1>9 DEF Exchange
<1> QED BY <1>1, <1>5, <1>10, OthersKept DEF CountsGrow, ResponseFrame

\* Facts about the request that the response phase relies on.
LEMMA ResponseEntry ==
    ASSUME TypeOK, NEW r \in Requests, Exchange(r), erred[r] = {}, NEW q \in Quotas,
           pc[r] \in {"OnResponseHeaders", "OnResponseBody", "finalize"}
    PROVE  /\ HasKey(r, q) <=> pol.quotas[q].keyed
           /\ ResponseSettled(r, q)
           /\ pc[r] = "OnResponseHeaders" =>
                Unchecked(q) \/ stored[r][q] = "set" \/ HasResponsePhase(q)
<1>1. RequestSettled(r, q) /\ ResponseSettled(r, q)
  BY DEF Exchange
<1>2. pc[r] \in AfterRequest
  BY DEF AfterRequest, Handlers
<1>3. q \in keys[r]
  BY <1>1, <1>2 DEF RequestSettled
<1> QED BY <1>1, <1>3 DEF RequestSettled, HasKey

\* OnResponseHeaders pays for the quotas that only read headers, and finds a result for
\* all others but those whose result comes with a buffered body.
LEMMA ResponseHeaderExchange ==
    ASSUME PhaseInv, PhaseInv', ExchangeInv, NEW r \in Requests, OnResponseHeaders(r)
    PROVE  ExchangeInv'
<1>1. /\ TypeOK /\ Exchange(r) /\ i[r] \in Quotas /\ pc[r] = "OnResponseHeaders"
      /\ UNCHANGED <<metadataVars, inputVars, emitted, refused, spent>>
  BY DEF PhaseInv, ExchangeInv, OnResponseHeaders
<1>2. ResponseLoopFacts(r)
  BY <1>1, ResponseHeaderLoop
<1>3. UNCHANGED <<pol, input, stream>> /\ pc'[r] = "OnResponseHeaders"
  BY <1>1, <1>2 DEF inputVars, ResponseLoopFacts, LoopTypesStep
\* What has to be shown of the quota when the call did not fail.
<1>4. ASSUME NEW q \in Quotas, q = i[r],
             HasResponseHeaderOnly(q) /\ pol.quotas[q].keyed => Paid(r, "response", q)',
             Told(q) => results'[r][q] = "set" \/ (~stream[r].looks /\ StreamSource(q))
      PROVE  ResponseSettled(r, q)'
  <2>1. HasResponseHeaderOnly(q)' /\ pol'.quotas[q].keyed => Paid(r, "response", q)'
    BY <1>3, <1>4, PolicyFixed
  <2>2. Told(q)' => results'[r][q] = "set" \/ (~stream'[r].looks /\ StreamSource(q)')
    BY <1>3, <1>4, ShapeFixed
  <2> QED BY <1>3, <2>1, <2>2 DEF ResponseSettled
<1>5. /\ ResponseFrame(r)
      /\ \/ ResponseFailure(r)
         \/ /\ erred'[r] = erred[r]
            /\ \A q \in Quotas : q # i[r] => results'[r][q] = results[r][q]
            /\ \A q \in Quotas : q = i[r] /\ erred[r] = {} => ResponseSettled(r, q)'
  <2> SUFFICES ASSUME NEW q \in Quotas, q = i[r]
               PROVE  /\ ResponseFrame(r)
                      /\ \/ ResponseFailure(r)
                         \/ /\ erred'[r] = erred[r]
                            /\ \A p \in Quotas : p # i[r] => results'[r][p] = results[r][p]
                            /\ erred[r] = {} => ResponseSettled(r, q)'
    BY <1>1
  <2>1. CASE /\ HasResponseHeaderOnly(q)
             /\ ChargeResponse(r, q, Extract(r, q, HeaderReadable))
    <3>1. Sources(q) \cap HeaderReadable = Sources(q) \cap ResponseSources
      BY <2>1 DEF HasResponseHeaderOnly, HeaderReadable
    <3>2. Extract(r, q, HeaderReadable) = Extract(r, q, ResponseSources)
      BY <3>1 DEF Extract
    <3>3. HasResponsePhase(q)
      BY <2>1 DEF HasResponseHeaderOnly, HasResponsePhase
    <3>4. Int64(Extract(r, q, HeaderReadable)) = Due(r, "response", q)
      BY <3>2, <3>3 DEF Due
    <3>5. Extract(r, q, HeaderReadable) \in Nat
      BY <1>1, ExtractType
    <3>6. charged[r]["response"][q] = 0
      BY <1>1, LoopState DEF PhaseInv, ResponseFresh
    <3>7. /\ ResponseFrame(r)
          /\ \/ ResponseFailure(r)
             \/ ~HasKey(r, q) /\ Silent(r)
             \/ Reports(r, "set") /\ Paid(r, "response", q)'
      BY <1>3, <2>1, <3>4, <3>5, <3>6, ChargeResponseOutcome
    <3>8. CASE ~HasKey(r, q) /\ Silent(r)
      <4>1. erred[r] = {} => ResponseSettled(r, q)'
        BY <1>1, <1>4, <3>8, ResponseEntry DEF Told
      <4> QED BY <3>7, <3>8, <4>1 DEF Silent, Passes
    <3>9. CASE Reports(r, "set") /\ Paid(r, "response", q)'
      <4>1. ResponseSettled(r, q)'
        BY <1>4, <3>9 DEF Reports, Advances
      <4> QED BY <3>7, <3>9, <4>1 DEF Reports, Advances
    <3> QED BY <3>7, <3>8, <3>9
  <2>2. CASE ~HasResponseHeaderOnly(q) /\ Snapshot(r, q)
    <3>1. CASE (stored[r][q] = "set" \/ ~stream[r].looks \/ ~HasKey(r, q)) /\ Keep(r, q)
      <4>1. /\ ResponseFrame(r)
            /\ stored[r][q] = "set" => Reports(r, "set")
            /\ stored[r][q] # "set" => Silent(r)
        BY <1>1, <3>1, KeepOutcome
      <4>2. erred[r] = {} => ResponseSettled(r, q)'
        <5> SUFFICES ASSUME erred[r] = {}, Told(q)
                     PROVE  results'[r][q] = "set" \/ (~stream[r].looks /\ StreamSource(q))
          BY <1>4, <2>2
        <5>1. /\ HasKey(r, q) <=> pol.quotas[q].keyed
              /\ Unchecked(q) \/ stored[r][q] = "set" \/ HasResponsePhase(q)
          BY <1>1, ResponseEntry
        <5> QED BY <2>2, <3>1, <4>1, <5>1 DEF Told, StreamSource, Reports, Advances
      <4> QED BY <4>1, <4>2 DEF Reports, Advances, Silent, Passes
    <3>2. CASE Settle(r, Look(q), 0, "set")
      <4>1. ResponseFrame(r) /\ (ResponseFailure(r) \/ Reports(r, "set"))
        BY <1>1, <3>2, LookOutcome
      <4>2. Reports(r, "set") => ResponseSettled(r, q)'
        BY <1>4, <2>2 DEF Reports, Advances
      <4> QED BY <4>1, <4>2 DEF Reports, Advances
    <3> QED BY <2>2, <3>1, <3>2 DEF Snapshot
  <2> QED BY <2>1, <2>2 DEF OnResponseHeaders
<1> QED BY <1>1, <1>2, <1>5, ResponseQuotaKept

\* OnResponseBody pays for the rest of a buffered response and has a result for every quota.
LEMMA ResponseBodyExchange ==
    ASSUME PhaseInv, PhaseInv', ExchangeInv, NEW r \in Requests, OnResponseBody(r)
    PROVE  ExchangeInv'
<1>1. /\ TypeOK /\ Exchange(r) /\ i[r] \in Quotas /\ pc[r] = "OnResponseBody"
      /\ UNCHANGED <<metadataVars, inputVars, emitted, refused, spent>>
  BY DEF PhaseInv, ExchangeInv, OnResponseBody
<1>2. ResponseLoopFacts(r)
  BY <1>1, ResponseBodyLoop
<1>3. UNCHANGED <<pol, input, stored>> /\ pc'[r] = "OnResponseBody"
  BY <1>1, <1>2 DEF inputVars, metadataVars, ResponseLoopFacts, LoopTypesStep
<1>4. \A q \in Quotas : Paid(r, "response", q) => Paid(r, "response", q)'
  BY <1>1, <1>2, <1>3, PaidStays
<1>5. ASSUME NEW q \in Quotas, q = i[r], erred[r] = {},
             pol.quotas[q].keyed => Paid(r, "response", q)',
             Told(q) => results'[r][q] = "set"
      PROVE  ResponseSettled(r, q)'
  <2>1. Told(q) => stored[r][q] = "set" \/ StreamSource(q)
    BY <1>1, <1>5, ResponseEntry DEF ResponseSettled
  <2>2. Told(q)' => results'[r][q] = "set" /\ (stored'[r][q] = "set" \/ StreamSource(q)')
    BY <1>3, <1>5, <2>1, ShapeFixed
  <2>3. pol'.quotas[q].keyed => Paid(r, "response", q)'
    BY <1>3, <1>5
  <2> QED BY <1>3, <2>2, <2>3 DEF ResponseSettled
<1>6. /\ ResponseFrame(r)
      /\ \/ ResponseFailure(r)
         \/ /\ erred'[r] = erred[r]
            /\ \A q \in Quotas : q # i[r] => results'[r][q] = results[r][q]
            /\ \A q \in Quotas : q = i[r] /\ erred[r] = {} => ResponseSettled(r, q)'
  <2> SUFFICES ASSUME NEW q \in Quotas, q = i[r]
               PROVE  /\ ResponseFrame(r)
                      /\ \/ ResponseFailure(r)
                         \/ /\ erred'[r] = erred[r]
                            /\ \A p \in Quotas : p # i[r] => results'[r][p] = results[r][p]
                            /\ erred[r] = {} => ResponseSettled(r, q)'
    BY <1>1
  <2>1. CASE ~StreamSource(q) /\ Keep(r, q)
    <3>1. /\ ResponseFrame(r)
          /\ stored[r][q] = "set" => Reports(r, "set")
          /\ stored[r][q] # "set" => Silent(r)
      BY <1>1, <2>1, KeepOutcome
    <3>2. ASSUME erred[r] = {} PROVE ResponseSettled(r, q)'
      <4>1. ResponseSettled(r, q)
        BY <1>1, <3>2, ResponseEntry
      <4>2. Told(q) => results'[r][q] = "set"
        BY <1>1, <2>1, <3>1, <4>1 DEF ResponseSettled, Reports, Advances
      <4>3. pol.quotas[q].keyed => Paid(r, "response", q)
        <5>1. CASE HasResponseHeaderOnly(q)
          BY <1>1, <4>1, <5>1 DEF ResponseSettled
        <5>2. CASE ~HasResponseHeaderOnly(q)
          <6>1. Due(r, "response", q) = 0
            BY <2>1, <5>2 DEF StreamSource, Due
          <6> QED BY <6>1, NothingDue
        <5> QED BY <5>1, <5>2
      <4> QED BY <1>4, <1>5, <3>2, <4>2, <4>3
    <3> QED BY <3>1, <3>2 DEF Reports, Advances, Silent, Passes
  <2>2. CASE StreamSource(q) /\ ChargeResponse(r, q, Extract(r, q, ResponseSources))
    <3>1. Int64(Extract(r, q, ResponseSources)) = Due(r, "response", q)
      BY <2>2 DEF Due, StreamSource
    <3>2. Extract(r, q, ResponseSources) \in Nat
      BY <1>1, ExtractType
    <3>3. charged[r]["response"][q] = 0
      BY <1>1, <2>2, LoopState DEF PhaseInv, ResponseFresh, StreamSource
    <3>4. /\ ResponseFrame(r)
          /\ \/ ResponseFailure(r)
             \/ ~HasKey(r, q) /\ Silent(r)
             \/ Reports(r, "set") /\ Paid(r, "response", q)'
      BY <1>3, <2>2, <3>1, <3>2, <3>3, ChargeResponseOutcome
    <3>5. CASE ~HasKey(r, q) /\ Silent(r)
      <4>1. erred[r] = {} => ResponseSettled(r, q)'
        BY <1>1, <1>5, <3>5, ResponseEntry DEF Told
      <4> QED BY <3>4, <3>5, <4>1 DEF Silent, Passes
    <3>6. CASE Reports(r, "set") /\ Paid(r, "response", q)'
      <4>1. erred[r] = {} => ResponseSettled(r, q)'
        BY <1>5, <3>6 DEF Reports, Advances
      <4> QED BY <3>4, <3>6, <4>1 DEF Reports, Advances
    <3> QED BY <3>4, <3>5, <3>6
  <2>3. (~StreamSource(q) /\ Keep(r, q))
        \/ (StreamSource(q) /\ ChargeResponse(r, q, Extract(r, q, ResponseSources)))
    BY DEF OnResponseBody, StreamSource
  <2> QED BY <2>1, <2>2, <2>3
<1> QED BY <1>1, <1>2, <1>6, ResponseQuotaKept

\* finalizeAndConsumeStreamingCosts pays for what was streamed.
LEMMA FinalizeExchange ==
    ASSUME PhaseInv, PhaseInv', ExchangeInv, NEW r \in Requests, Finalize(r)
    PROVE  ExchangeInv'
<1>1. /\ TypeOK /\ Gathered /\ Exchange(r) /\ i[r] \in Quotas /\ pc[r] = "finalize"
      /\ UNCHANGED <<metadataVars, inputVars, emitted, refused, spent>>
  BY Zenon DEF PhaseInv, ExchangeInv, Finalize
<1>2. ResponseLoopFacts(r)
  BY <1>1, FinalizeLoop
<1>3. UNCHANGED <<pol, input, emitted>> /\ pc'[r] = "finalize"
  BY <1>1, <1>2 DEF inputVars, ResponseLoopFacts, LoopTypesStep
<1>4. \A q \in Quotas : Paid(r, "response", q) => Paid(r, "response", q)'
  BY <1>1, <1>2, <1>3, PaidStays
<1>5. ASSUME NEW q \in Quotas, q = i[r], erred[r] = {},
             StreamSource(q) => Paid(r, "response", q)'
      PROVE  ResponseSettled(r, q)'
  <2>1. /\ HasResponseHeaderOnly(q) /\ pol.quotas[q].keyed => Paid(r, "response", q)
        /\ Told(q) => q \in emitted[r]
    BY <1>1, <1>5, ResponseEntry DEF ResponseSettled
  <2>2. HasResponseHeaderOnly(q)' /\ pol'.quotas[q].keyed => Paid(r, "response", q)'
    BY <1>3, <1>4, <2>1, PolicyFixed
  <2>3. /\ Told(q)' => q \in emitted'[r]
        /\ StreamSource(q)' => Paid(r, "response", q)'
    BY <1>3, <1>5, <2>1, ShapeFixed
  <2> QED BY <1>3, <2>2, <2>3 DEF ResponseSettled
<1>6. /\ ResponseFrame(r)
      /\ \/ ResponseFailure(r)
         \/ /\ erred'[r] = erred[r]
            /\ \A q \in Quotas : q # i[r] => results'[r][q] = results[r][q]
            /\ \A q \in Quotas : q = i[r] /\ erred[r] = {} => ResponseSettled(r, q)'
  <2> SUFFICES ASSUME NEW q \in Quotas, q = i[r]
               PROVE  /\ ResponseFrame(r)
                      /\ \/ ResponseFailure(r)
                         \/ /\ erred'[r] = erred[r]
                            /\ \A p \in Quotas : p # i[r] => results'[r][p] = results[r][p]
                            /\ erred[r] = {} => ResponseSettled(r, q)'
    BY <1>1
  <2> DEFINE halves == Extract(r, q, StreamReadable(r, q))
  <2>1. \/ (~StreamSource(q) \/ halves = 0) /\ Skip(r) /\ UNCHANGED <<limiterVars, charged, erred>>
        \/ StreamSource(q) /\ Settle(r, ConsumeN(q, Int64(halves)), Int64(halves), "absent")
    BY Zenon DEF Finalize
  <2>2. halves \in Nat /\ (StreamSource(q) => Int64(halves) = Due(r, "response", q))
    BY <1>1, StreamExtract, ExtractType DEF Due, StreamSource
  <2> HIDE DEF halves
  <2>3. CASE (~StreamSource(q) \/ halves = 0) /\ Skip(r) /\ UNCHANGED <<limiterVars, charged, erred>>
    <3>1. ResponseFrame(r) /\ Silent(r)
      BY <1>1, <2>3, ResponsePass
    <3>2. StreamSource(q) => Due(r, "response", q) = 0
      BY <2>2, <2>3 DEF Int64
    <3>3. StreamSource(q) => Paid(r, "response", q)'
      BY <1>4, <3>2, NothingDue
    <3> QED BY <1>5, <3>1, <3>3 DEF Silent, Passes
  <2>4. CASE StreamSource(q) /\ Settle(r, ConsumeN(q, Int64(halves)), Int64(halves), "absent")
    <3>1. Int64(halves) \in Nat
      BY <2>2, Int64Type
    <3>2. /\ ResponseFrame(r)
          /\ \/ ResponseFailure(r)
             \/ /\ Reports(r, "absent")
                /\ charged'[r]["response"][q] = charged[r]["response"][q] + Int64(halves)
      BY <1>1, <2>4, <3>1, ConsumeOutcome
    <3>3. charged[r]["response"][q] = 0
      BY <1>1, <2>4, LoopState DEF PhaseInv, ResponseFresh, StreamSource
    <3>4. Due(r, "response", q)' = Due(r, "response", q)
      BY <1>3, DueFixed
    <3>5. Reports(r, "absent") =>
            charged'[r]["response"][q] = Due(r, "response", q) \/ ResponseFailure(r)
      BY <2>2, <2>4, <3>1, <3>2, <3>3
    <3>6. Reports(r, "absent") => Paid(r, "response", q)' \/ ResponseFailure(r)
      BY <3>4, <3>5 DEF Paid
    <3> QED BY <1>5, <3>2, <3>6 DEF Reports, Advances
  <2> QED BY <2>1, <2>3, <2>4
<1> QED BY <1>1, <1>2, <1>6, ResponseQuotaKept

\* A request that changes its handler in the response phase keeps what the request phase
\* settled.
LEMMA RequestStaysSettled ==
    ASSUME NEW r \in Requests, NEW q \in Quotas, RequestSettled(r, q),
           UNCHANGED <<pol, input, keys, charged, spent>>,
           pc[r] \in {"OnResponseHeaders", "OnResponseBody", "OnResponseBodyChunk", "finalize"},
           pc'[r] \in {"OnResponseBody", "OnResponseBodyChunk", "finalize", "done"}
    PROVE  RequestSettled(r, q)'
<1>1. /\ Blocks(r, q)' <=> Blocks(r, q)
      /\ Paid(r, "request", q)' <=> Paid(r, "request", q)
      /\ Unchecked(q)' <=> Unchecked(q)
  BY SameClaims, ShapeFixed
<1>2. pc[r] \in AfterRequest
  BY DEF AfterRequest, Handlers
<1>3. q \in keys'[r] /\ Blocks(r, q)' /\ (Unchecked(q)' \/ Paid(r, "request", q)')
  BY <1>1, <1>2 DEF RequestSettled
<1> QED BY <1>3 DEF RequestSettled

\* The response phase moves on: headers go out when nothing else will report, and a request
\* is done only when everything is paid.
LEMMA ResponseEnds ==
    ASSUME PhaseInv, ExchangeInv, NEW r \in Requests,
           OnResponseHeadersEnd(r) \/ OnResponseBodyEnd(r) \/ FinalizeEnd(r)
    PROVE  ExchangeInv'
<1>1. TypeOK /\ Exchange(r)
  BY DEF PhaseInv, ExchangeInv
<1>2. /\ pc[r] \in {"OnResponseHeaders", "OnResponseBody", "finalize"}
      /\ StoreResults(r) \/ UNCHANGED stored
      /\ Emit(r) \/ UNCHANGED emitted
      /\ UNCHANGED <<limiterVars, keys, handled, acc, sent, inputVars, charged, erred,
                     refused, spent>>
  BY DEF OnResponseHeadersEnd, OnResponseBodyEnd, FinalizeEnd, metadataVars, historyVars
<1>3. PICK next \in {"OnResponseBody", "OnResponseBodyChunk", "done"} :
        /\ EndLoop(r, next)
        /\ pc[r] = "OnResponseHeaders" =>
             /\ StoreResults(r)
             /\ ~DefersHeaders(r) => Emit(r)
             /\ next = "done" => ~RequiresResponseBodyMode
             /\ next = "OnResponseBodyChunk" => stream[r].streams
             /\ next = "OnResponseBody" => ~stream[r].streams
        /\ pc[r] = "OnResponseBody" => next = "done" /\ Emit(r)
        /\ pc[r] = "finalize" => next = "done" /\ UNCHANGED emitted
  BY DEF OnResponseHeadersEnd, OnResponseBodyEnd, FinalizeEnd, historyVars
<1>4. UNCHANGED <<pol, count, input, stream, keys, handled, charged, erred, refused, spent>>
  BY <1>2 DEF limiterVars, inputVars
<1>5. /\ \A u \in Requests : u # r => Untouched(u)
      /\ CountsGrow
      /\ pc'[r] = next /\ i'[r] = 1 /\ \A q \in Quotas : q < i[r] /\ ~(q < 1)
      /\ StoreResults(r) => stored'[r] = results[r]
      /\ Emit(r) => \A q \in Quotas : results[r][q] = "set" => q \in emitted'[r]
  BY <1>1, <1>2, <1>3, EndLoopFrame
<1>6. RequestFacts(r)'
  BY <1>1, <1>2, <1>3, <1>4, <1>5 DEF Exchange, RequestFacts
<1>7. ASSUME NEW q \in Quotas, "request" \notin erred[r]
      PROVE  RequestSettled(r, q)'
  <2>1. RequestSettled(r, q)
    BY <1>1, <1>7 DEF Exchange
  <2> QED BY <1>2, <1>3, <1>4, <1>5, <2>1, RequestStaysSettled
<1>8. ASSUME NEW q \in Quotas, erred[r] = {}
      PROVE  ResponseSettled(r, q)'
  <2>1. ResponseSettled(r, q) /\ q < i[r] /\ ~(q < i'[r])
    BY <1>1, <1>5, <1>8 DEF Exchange
  <2>2. /\ Paid(r, "response", q)' <=> Paid(r, "response", q)
        /\ Told(q)' <=> Told(q)
        /\ StreamSource(q)' <=> StreamSource(q)
        /\ HasResponseHeaderOnly(q)' <=> HasResponseHeaderOnly(q)
        /\ pol' = pol /\ stream' = stream
    BY <1>4, SameClaims, ShapeFixed, PolicyFixed
  <2>3. ~HasResponsePhase(q) => Paid(r, "response", q)
    <3>1. ~HasResponsePhase(q) => Due(r, "response", q) = 0
      BY DEF Due
    <3> QED BY <3>1, NothingDue
  <2>4. CASE pc[r] = "OnResponseHeaders"
    <3>1. /\ HasResponseHeaderOnly(q) /\ pol.quotas[q].keyed => Paid(r, "response", q)
          /\ Told(q) => results[r][q] = "set" \/ (~stream[r].looks /\ StreamSource(q))
      BY <2>1, <2>4 DEF ResponseSettled
    <3>2. CASE next = "OnResponseBody"
      <4>1. stored'[r][q] = results[r][q]
        BY <1>3, <1>5, <2>4
      <4> QED BY <1>5, <2>1, <2>2, <3>1, <3>2, <4>1 DEF ResponseSettled
    <3>3. CASE next = "OnResponseBodyChunk"
      <4>1. stream[r].looks /\ Emit(r)
        BY <1>1, <1>3, <2>4, <3>3 DEF Exchange, RequestFacts, DefersHeaders
      <4>2. Told(q) => q \in emitted'[r]
        BY <1>5, <3>1, <4>1
      <4> QED BY <1>5, <2>2, <3>1, <3>3, <4>2 DEF ResponseSettled
    <3>4. CASE next = "done"
      <4>1. Emit(r) /\ ~StreamSource(q)
        BY <1>3, <2>4, <3>4 DEF DefersHeaders, RequiresResponseBodyMode, StreamSource
      <4>2. Told(q) => q \in emitted'[r]
        BY <1>5, <3>1, <4>1
      <4>3. pol.quotas[q].keyed => Paid(r, "response", q)
        BY <2>3, <3>1, <4>1 DEF StreamSource
      <4> QED BY <1>5, <2>2, <3>4, <4>1, <4>2, <4>3 DEF ResponseSettled
    <3> QED BY <1>3, <3>2, <3>3, <3>4
  <2>5. CASE pc[r] = "OnResponseBody"
    <3>1. /\ pol.quotas[q].keyed => Paid(r, "response", q)
          /\ Told(q) => results[r][q] = "set"
      BY <2>1, <2>5 DEF ResponseSettled
    <3>2. Told(q) => q \in emitted'[r]
      BY <1>3, <1>5, <2>5, <3>1
    <3>3. ~stream[r].streams /\ pc'[r] = "done"
      BY <1>1, <1>3, <1>5, <2>5 DEF Exchange, RequestFacts
    <3> QED BY <2>2, <3>1, <3>2, <3>3 DEF ResponseSettled
  <2>6. CASE pc[r] = "finalize"
    <3>1. /\ HasResponseHeaderOnly(q) /\ pol.quotas[q].keyed => Paid(r, "response", q)
          /\ StreamSource(q) => Paid(r, "response", q)
          /\ Told(q) => q \in emitted[r]
      BY <2>1, <2>6 DEF ResponseSettled
    <3>2. pc'[r] = "done" /\ emitted' = emitted
      BY <1>3, <1>5, <2>6
    <3>3. pol.quotas[q].keyed \/ (stream[r].streams /\ StreamSource(q)) => Paid(r, "response", q)
      BY <2>3, <3>1 DEF StreamSource
    <3> QED BY <2>2, <3>1, <3>2, <3>3 DEF ResponseSettled
  <2> QED BY <1>2, <2>4, <2>5, <2>6
<1>9. Exchange(r)'
  BY <1>4, <1>6, <1>7, <1>8, PolicyFixed DEF Exchange
<1> QED BY <1>4, <1>5, <1>9, OthersKept DEF CountsGrow

LEMMA ChunkExchange ==
    ASSUME PhaseInv, ExchangeInv, NEW r \in Requests, OnResponseBodyChunk(r)
    PROVE  ExchangeInv'
<1>1. TypeOK /\ Exchange(r) /\ pc \in [Requests -> Handlers] /\ pc[r] = "OnResponseBodyChunk"
  BY LoopState DEF PhaseInv, ExchangeInv, OnResponseBodyChunk
<1>2. UNCHANGED <<pol, count, i, results, stored, keys, handled, input, stream, charged,
                  emitted, erred, refused, spent>>
  BY DEF OnResponseBodyChunk, limiterVars, inputVars, historyVars
<1>3. /\ pc'[r] \in {"OnResponseBodyChunk", "finalize"}
      /\ \A u \in Requests : u # r => pc'[u] = pc[u]
  BY <1>1 DEF OnResponseBodyChunk
<1>4. (\A u \in Requests : u # r => Untouched(u)) /\ CountsGrow
  BY <1>1, <1>2, <1>3 DEF Untouched, CountsGrow, TypeOK, LimiterTypes
<1>5. RequestFacts(r)'
  BY <1>1, <1>2, <1>3 DEF Exchange, RequestFacts
<1>6. ASSUME NEW q \in Quotas, "request" \notin erred[r]
      PROVE  RequestSettled(r, q)'
  <2>1. RequestSettled(r, q)
    BY <1>1, <1>6 DEF Exchange
  <2> QED BY <1>1, <1>2, <1>3, <2>1, RequestStaysSettled
<1>7. ASSUME NEW q \in Quotas, erred[r] = {}
      PROVE  ResponseSettled(r, q)'
  <2>1. ResponseSettled(r, q)
    BY <1>1, <1>7 DEF Exchange
  <2>2. /\ Paid(r, "response", q)' <=> Paid(r, "response", q)
        /\ Told(q)' <=> Told(q)
        /\ HasResponseHeaderOnly(q)' <=> HasResponseHeaderOnly(q)
    BY <1>2, SameClaims, ShapeFixed, PolicyFixed
  <2>3. i'[r] = 1 /\ ~(q < 1)
    BY <1>1, <1>2, PolicyFacts DEF Exchange, RequestFacts, Quotas
  <2>4. /\ HasResponseHeaderOnly(q)' /\ pol'.quotas[q].keyed => Paid(r, "response", q)'
        /\ Told(q)' => q \in emitted'[r]
    BY <1>1, <1>2, <2>1, <2>2 DEF ResponseSettled
  <2> QED BY <1>3, <2>3, <2>4 DEF ResponseSettled
<1>8. Exchange(r)'
  BY <1>2, <1>5, <1>6, <1>7, PolicyFixed DEF Exchange
<1> QED BY <1>2, <1>4, <1>8, OthersKept DEF CountsGrow

\* A new window forgets what was used up; nothing else happens to a request.
LEMMA QuietExchange ==
    ASSUME PhaseInv, ExchangeInv, WindowChange \/ UNCHANGED vars
    PROVE  ExchangeInv'
<1>1. TypeOK
  BY DEF PhaseInv
<1>2. UNCHANGED <<pol, pc, i, results, stored, keys, handled, input, stream, charged,
                  emitted, erred, refused>>
  BY DEF WindowChange, vars, limiterVars, loopVars, metadataVars, inputVars, historyVars
<1> SUFFICES ASSUME NEW u \in Requests PROVE Exchange(u)'
  BY DEF ExchangeInv
<1>3. Exchange(u)
  BY DEF ExchangeInv
<1>4. spent'[u] \subseteq spent[u] /\ \A q \in spent'[u] : count'[q] >= Limit
  <2>1. CASE WindowChange
    BY <1>1, <2>1 DEF WindowChange, TypeOK, HistoryTypes
  <2>2. CASE UNCHANGED vars
    BY <1>3, <2>2 DEF vars, limiterVars, historyVars, Exchange, RequestFacts
  <2> QED BY <2>1, <2>2
<1>5. Untouched(u)
  BY <1>2, <1>4 DEF Untouched
<1> QED BY <1>2, <1>3, <1>4, <1>5, UntouchedKept

LEMMA InitExchange ==
    ASSUME Init
    PROVE  ExchangeInv
<1> SUFFICES ASSUME NEW r \in Requests PROVE Exchange(r)
  BY DEF ExchangeInv
<1>1. /\ pc[r] = "idle" /\ i[r] = 1 /\ stream[r] = NoStream /\ erred[r] = {}
      /\ handled[r] = {} /\ spent[r] = {}
  BY DEF Init
<1>2. RequestFacts(r)
  BY <1>1 DEF RequestFacts, NoStream
<1>3. \A q \in Quotas : RequestSettled(r, q) /\ ResponseSettled(r, q)
  BY <1>1 DEF RequestSettled, ResponseSettled, AfterRequest
<1> QED BY <1>2, <1>3 DEF Exchange

LEMMA NextExchange ==
    ASSUME PhaseInv, PhaseInv', ExchangeInv, [Next]_vars
    PROVE  ExchangeInv'
<1>1. CASE WindowChange \/ Finished \/ UNCHANGED vars
  BY <1>1, QuietExchange DEF Finished
<1>2. ASSUME NEW r \in Requests, RequestStep(r)
      PROVE  ExchangeInv'
  BY <1>2, ArriveExchange, HeaderExchange, BodyExchange, RequestEnds DEF RequestStep
<1>3. ASSUME NEW r \in Requests, ResponseStep(r)
      PROVE  ExchangeInv'
  BY <1>3, TurnExchange, ResponseHeaderExchange, ResponseBodyExchange, FinalizeExchange,
     ResponseEnds, ChunkExchange DEF ResponseStep
<1> QED BY <1>1, <1>2, <1>3 DEF Next

LEMMA ExchangeInvariant == Spec => []ExchangeInv
<1>1. Init => ExchangeInv
  BY InitExchange
<1>2. PhaseInv /\ PhaseInv' /\ ExchangeInv /\ [Next]_vars => ExchangeInv'
  BY NextExchange
<1> QED BY <1>1, <1>2, PhaseInvariant, PTL DEF Spec

\* Whatever quotas a policy has, a request that ran to its end without a limiter error was
\* charged what it owes in both phases: between OnRequestHeaders, OnRequestBody,
\* OnResponseHeaders, OnResponseBody and finalizeAndConsumeStreamingCosts no quota is
\* dropped, on the buffered path or on the streamed one.
THEOREM ChargedExactlyHolds == Spec => []ChargedExactly
<1>1. ExchangeInv => ChargedExactly
  <2> SUFFICES ASSUME ExchangeInv, NEW r \in Requests, NEW q \in Quotas,
                      pc[r] = "done", erred[r] = {}
               PROVE  /\ Unchecked(q) \/ charged[r]["request"][q] = Due(r, "request", q)
                      /\ pol.quotas[q].keyed \/ (stream[r].streams /\ StreamSource(q)) =>
                           charged[r]["response"][q] = Due(r, "response", q)
    BY DEF ChargedExactly
  <2>1. RequestSettled(r, q) /\ ResponseSettled(r, q) /\ pc[r] \in AfterRequest
    BY DEF ExchangeInv, Exchange, AfterRequest, Handlers
  <2> QED BY <2>1 DEF RequestSettled, ResponseSettled, Paid
<1> QED BY <1>1, ExchangeInvariant, PTL

\* Whatever quotas a policy has, a request that ran to its end without a limiter error
\* carried a rate limit header for every quota with a key: the placeholder of a pre-check
\* never survives to the headers the client sees, buffered or streamed.
THEOREM EveryQuotaReportedHolds == Spec => []EveryQuotaReported
<1>1. ExchangeInv => EveryQuotaReported
  <2> SUFFICES ASSUME ExchangeInv, NEW r \in Requests, NEW q \in Quotas,
                      pc[r] = "done", erred[r] = {}, pol.quotas[q].keyed, ~Unchecked(q)
               PROVE  q \in emitted[r]
    BY DEF EveryQuotaReported
  <2>1. ResponseSettled(r, q)
    BY DEF ExchangeInv, Exchange
  <2> QED BY <2>1 DEF ResponseSettled, Told
<1> QED BY <1>1, ExchangeInvariant, PTL

\* However many requests race for a quota, one that arrives after it was used up is stopped
\* by a check of the request phase in that window, although another handler may be the one
\* that charges it.
THEOREM ExhaustedBlocksHolds == Spec => []ExhaustedBlocks
<1>1. PhaseInv /\ ExchangeInv => ExhaustedBlocks
  <2> SUFFICES ASSUME PhaseInv, ExchangeInv, NEW r \in Requests, Admitted(r),
                      "request" \notin erred[r], NEW q \in spent[r]
               PROVE  Unchecked(q) \/ (HasRequestPhase(q) /\ Due(r, "request", q) = 0)
    BY DEF ExhaustedBlocks
  <2>1. q \in Quotas
    BY DEF PhaseInv, TypeOK, HistoryTypes
  <2>2. RequestSettled(r, q) /\ pc[r] \in AfterRequest
    BY <2>1 DEF ExchangeInv, Exchange, AfterRequest, Admitted
  <2> QED BY <2>2 DEF RequestSettled, Blocks
<1> QED BY <1>1, PhaseInvariant, ExchangeInvariant, PTL

\* For every policy and every order of errors, failureMode decides: no request passes an
\* error of its request phase unless the policy is open, and an open policy denies only
\* where a limiter found no room.
THEOREM FailureModeHonouredHolds == Spec => []FailureModeHonoured
<1>1. ExchangeInv => FailureModeHonoured
  BY DEF ExchangeInv, Exchange, RequestFacts, FailureModeHonoured, Admitted
<1> QED BY <1>1, ExchangeInvariant, PTL
=============================================================================
