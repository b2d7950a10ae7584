---------------------------- MODULE CostDelegates ----------------------------
(***************************************************************************)
(* llm-cost-based-ratelimit: budgets in dollars, enforced by an            *)
(* advanced-ratelimit instance, the delegate, whose limits and costs are   *)
(* scaled to integers.  The delegate is cached with its key in one entry   *)
(* per provider and pinned to the request, so that the response is charged *)
(* to the delegate that checked the request.  One provider; requests with  *)
(* different parameters interleave.                                        *)
(***************************************************************************)
EXTENDS Integers, Sequences, FiniteSets

CONSTANTS
    CostParams,     \* parameters a request may come with
    CostRequests    \* requests

VARIABLES
    instance,  \* the policy: none, the backend's or the consumer's instance
    entry,     \* delegates[provider]: the cache key and the delegate, stored as one
    cost       \* the requests: phase, parameters, metadata and what was reported

costVars == <<instance, entry, cost>>

NoCostDelegate == [state |-> "none"]
NoCostEntry == [key |-> <<>>, delegate |-> NoCostDelegate]
NewCost == [pc |-> "new", provider |-> FALSE, params |-> [none |-> TRUE], pinned |-> NoCostDelegate,
            scale |-> 0, charged |-> NoCostDelegate, dollars |-> <<>>]

DefaultCostScaleFactor == 1000000000

-----------------------------------------------------------------------------
\* extractIntValue: any number; what is not one counts as 0.
extractIntValue(v) == IF v.type = "number" THEN v.int ELSE 0

\* extractCostScaleFactor: from the system parameters, then from the parameters.
extractCostScaleFactor(p) ==
    IF extractIntValue(p.systemScale) > 0 THEN extractIntValue(p.systemScale)
    ELSE IF extractIntValue(p.rootScale) > 0 THEN extractIntValue(p.rootScale)
    ELSE DefaultCostScaleFactor

\* The budgets whose amount is a number; the others are skipped.
NumericBudgets(p) == SelectSeq(p.budgetLimits, LAMBDA b : b.type = "number")

\* What is read as a number is an integer: the scales, and the amounts of the budgets,
\* which are dollars a scale makes whole.
ASSUME CostAssumption ==
    \A p \in CostParams :
        /\ \A v \in {p.systemScale, p.rootScale} : v.type = "number" => v.int \in Int
        /\ \A i \in DOMAIN NumericBudgets(p) : NumericBudgets(p)[i].int \in Int

\* transformToRatelimitParams: no budget left, no quota.
CostLimits(p) ==
    [i \in DOMAIN NumericBudgets(p) |-> NumericBudgets(p)[i].int * extractCostScaleFactor(p)]
CostTransform(p) ==
    [quotas |-> IF CostLimits(p) = <<>> THEN {}
                ELSE {[limits |-> CostLimits(p), multiplier |-> extractCostScaleFactor(p),
                       key |-> IF instance = "consumer" THEN <<"routename", "application">>
                               ELSE <<"routename">>]},
     storage |-> p.storage]

\* Mutant: the scale is left out of the cache key.
CostCacheKeyUnscaled(p) == <<p.budgetLimits, p.storage>>

\* The cache key: all the delegate is built from, except consumerBased, which the
\* instance never changes.
CostCacheKey(p) == <<p.budgetLimits, extractCostScaleFactor(p), p.storage>>

\* addScaledHeader: the limits the delegate reports, back in dollars.
addScaledHeader(limits, scale) == [i \in DOMAIN limits |-> limits[i] \div scale]

-----------------------------------------------------------------------------
CostGetPolicy ==
    /\ instance = "none"
    /\ instance' \in {"backend", "consumer"}
    /\ UNCHANGED <<entry, cost>>

CostStep(r, pc) == cost[r].pc = pc
CostGoto(r, rec) == cost' = [cost EXCEPT ![r] = rec]

\* The delegate and the scale are pinned in the metadata of the request; the delegate's
\* own check may answer 429.
Pin(c, d, blocked) == [c EXCEPT !.pc = IF blocked THEN "blocked" ELSE "sent", !.pinned = d, !.scale = extractCostScaleFactor(c.params)]

\* OnRequestHeaders up to the load in resolveDelegate: the entry is used if its key fits.
\* Requests are alike: they start in a fixed order.
CostOnRequestHeaders(r) ==
    /\ instance # "none" /\ CostStep(r, "new")
    /\ r = CHOOSE q \in CostRequests : CostStep(q, "new")
    /\ \E p \in CostParams, named, blocked \in BOOLEAN :
          LET c == [cost[r] EXCEPT !.params = p, !.provider = named]
          IN  CostGoto(r, IF ~named THEN [c EXCEPT !.pc = "sent"]
                          ELSE IF entry.key = CostCacheKey(p) THEN Pin(c, entry.delegate, blocked)
                          ELSE [c EXCEPT !.pc = "build"])
    /\ UNCHANGED <<instance, entry>>

\* Build and store.  Without a budget, or when the build fails, the request is not
\* limited and nothing is pinned.
CostResolve(r) ==
    /\ CostStep(r, "build")
    /\ LET d == [state |-> "built", of |-> CostTransform(cost[r].params)]
       IN  \E fails, blocked \in BOOLEAN :
             IF fails \/ d.of.quotas = {}
             THEN CostGoto(r, [cost[r] EXCEPT !.pc = "sent"]) /\ UNCHANGED entry
             ELSE /\ entry' = [key |-> CostCacheKey(cost[r].params), delegate |-> d]
                  /\ CostGoto(r, Pin(cost[r], d, blocked))
    /\ UNCHANGED instance

\* Mutant: the response looks the delegate up by provider.
ResponseDelegateCached(c) == IF c.provider THEN entry.delegate ELSE NoCostDelegate

\* The pinned delegate, or else the one cached for the provider.
ResponseDelegate(c) ==
    IF c.pinned # NoCostDelegate THEN c.pinned
    ELSE IF c.provider THEN entry.delegate ELSE NoCostDelegate

\* The pinned scale, or else that of the parameters.
ResponseScale(c) == IF c.scale > 0 THEN c.scale ELSE extractCostScaleFactor(c.params)

\* OnResponseHeaders: the delegate's headers with their dollar values.
CostOnResponseHeaders(r) ==
    LET d == ResponseDelegate(cost[r])
    IN  /\ CostStep(r, "sent")
        /\ CostGoto(r, [cost[r] EXCEPT !.pc = "headers",
               !.dollars = IF d = NoCostDelegate THEN <<>>
                           ELSE addScaledHeader((CHOOSE q \in d.of.quotas : TRUE).limits, ResponseScale(cost[r]))])
        /\ UNCHANGED <<instance, entry>>

\* OnResponseBodyChunk or OnResponseBody: the cost is charged.
CostOnResponseBody(r) ==
    /\ CostStep(r, "headers")
    /\ CostGoto(r, [cost[r] EXCEPT !.pc = "done", !.charged = ResponseDelegate(cost[r])])
    /\ UNCHANGED <<instance, entry>>

CostInit == instance = "none" /\ entry = NoCostEntry /\ cost = [r \in CostRequests |-> NewCost]

CostNext ==
    \/ CostGetPolicy
    \/ \E r \in CostRequests :
          CostOnRequestHeaders(r) \/ CostResolve(r) \/ CostOnResponseHeaders(r) \/ CostOnResponseBody(r)

-----------------------------------------------------------------------------
Budgets(p) == [i \in DOMAIN NumericBudgets(p) |-> NumericBudgets(p)[i].int]

\* A request that a delegate checked is charged to that delegate, whatever other
\* requests have built since; the delegate enforces the budgets the request came with,
\* and the dollars reported are the budgets configured (the scale that made the limits
\* integers is the one that turns them back).
CostChargedWhereChecked ==
    \A r \in CostRequests :
        LET c == cost[r]
        IN  /\ c.pinned # NoCostDelegate => c.pinned.of = CostTransform(c.params)
            /\ c.pinned # NoCostDelegate /\ c.pc \in {"headers", "done"} => c.dollars = Budgets(c.params)
            /\ c.pinned # NoCostDelegate /\ c.pc = "done" => c.charged = c.pinned
=============================================================================
