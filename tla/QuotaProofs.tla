---------------------------- MODULE QuotaProofs ----------------------------
(***************************************************************************)
(* The three policies that delegate to advanced-ratelimit instances        *)
(* resolve the right delegate, for every set of requests, parameters,      *)
(* templates and rules; and subscription-validation keeps its quotas, for  *)
(* every set of plans and windows.                                         *)
(***************************************************************************)
EXTENDS PolicyHost, FiniteSetTheorems, TLAPS

-----------------------------------------------------------------------------
(***************************************************************************)
(* llm-cost-based-ratelimit                                                *)
(***************************************************************************)

CostBuilt(p) == [state |-> "built", of |-> CostTransform(p)]
CostDelegateSet == {NoCostDelegate} \union {CostBuilt(p) : p \in CostParams}
DollarReports ==
    {<<>>} \union {addScaledHeader(CostLimits(p), s) : p \in CostParams, s \in Int}
CostRecords ==
    [pc : {"new", "build", "sent", "blocked", "headers", "done"}, provider : BOOLEAN,
     params : CostParams \union {[none |-> TRUE]},
     pinned : CostDelegateSet, scale : Int, charged : CostDelegateSet, dollars : DollarReports]

\* The entry is empty or holds a delegate with quotas under the key of its parameters.
CostEntryFits ==
    \/ entry = NoCostEntry
    \/ \E p \in CostParams : /\ entry = [key |-> CostCacheKey(p), delegate |-> CostBuilt(p)]
                             /\ CostTransform(p).quotas # {}

\* What a request holds: a delegate pinned is that of its parameters, with their scale.
CostRequestFits(c) ==
    /\ c.pc # "new" => c.params \in CostParams
    /\ c.pinned # NoCostDelegate =>
          /\ c.pc \notin {"new", "build"}
          /\ c.pinned = CostBuilt(c.params)
          /\ CostTransform(c.params).quotas # {}
          /\ c.scale = extractCostScaleFactor(c.params)
          /\ c.pc \in {"headers", "done"} => c.dollars = Budgets(c.params)
          /\ c.pc = "done" => c.charged = c.pinned

CostInv ==
    /\ instance \in {"none", "backend", "consumer"}
    /\ cost \in [CostRequests -> CostRecords]
    /\ instance = "none" => entry = NoCostEntry /\ cost = [r \in CostRequests |-> NewCost]
    /\ CostEntryFits
    /\ \A r \in CostRequests : CostRequestFits(cost[r])

LEMMA MulDiv == ASSUME NEW b \in Int, NEW s \in Int, s > 0 PROVE (b * s) \div s = b
  BY SMT

LEMMA ChooseOnly == ASSUME NEW x PROVE (CHOOSE q \in {x} : TRUE) = x
  BY Zenon

\* The scale is a positive integer.
LEMMA CostScalePositive ==
  ASSUME NEW p \in CostParams
  PROVE  extractCostScaleFactor(p) \in Int /\ extractCostScaleFactor(p) > 0
  BY CostAssumption DEF extractCostScaleFactor, extractIntValue, DefaultCostScaleFactor

\* The limits divided by the scale are the budgets.
LEMMA DollarsAreBudgets ==
  ASSUME NEW p \in CostParams
  PROVE  addScaledHeader(CostLimits(p), extractCostScaleFactor(p)) = Budgets(p)
<1> DEFINE s == extractCostScaleFactor(p)
           n == NumericBudgets(p)
<1>1. s \in Int /\ s > 0
  BY CostScalePositive
<1>2. \A i \in DOMAIN n : n[i].int \in Int
  BY CostAssumption
<1>3. \A i \in DOMAIN n : (n[i].int * s) \div s = n[i].int
  <2> HIDE DEF s, n
  <2> QED  BY <1>1, <1>2, MulDiv
<1>4. CostLimits(p) = [i \in DOMAIN n |-> n[i].int * s]
  BY DEF CostLimits
<1>5. Budgets(p) = [i \in DOMAIN n |-> n[i].int]
  BY DEF Budgets
<1>6. addScaledHeader(CostLimits(p), s) = Budgets(p)
  <2> HIDE DEF s, n
  <2> QED  BY <1>3, <1>4, <1>5 DEF addScaledHeader
<1> QED  BY <1>6

\* A delegate with quotas has one, with the limits of its parameters.
LEMMA CostQuota ==
  ASSUME NEW p, CostTransform(p).quotas # {}
  PROVE  (CHOOSE q \in CostTransform(p).quotas : TRUE).limits = CostLimits(p)
<1>1. CostTransform(p).quotas =
        {[limits |-> CostLimits(p), multiplier |-> extractCostScaleFactor(p),
          key |-> IF instance = "consumer" THEN <<"routename", "application">> ELSE <<"routename">>]}
  BY DEF CostTransform
<1> DEFINE q0 == [limits |-> CostLimits(p), multiplier |-> extractCostScaleFactor(p),
          key |-> IF instance = "consumer" THEN <<"routename", "application">> ELSE <<"routename">>]
<1>2. q0.limits = CostLimits(p)
  OBVIOUS
<1> HIDE DEF q0
<1>3. (CHOOSE q \in {q0} : TRUE) = q0
  BY ChooseOnly
<1> QED  BY <1>1, <1>2, <1>3 DEF q0

\* Equal cache keys, equal delegates.
LEMMA CostKeyDetermines ==
  ASSUME NEW p \in CostParams, NEW q \in CostParams, CostCacheKey(p) = CostCacheKey(q)
  PROVE  CostTransform(p) = CostTransform(q)
  BY DEF CostCacheKey, CostTransform, CostLimits, NumericBudgets

LEMMA CostTransformStable ==
  ASSUME instance' = instance, NEW p
  PROVE  CostTransform(p)' = CostTransform(p) /\ CostBuilt(p)' = CostBuilt(p)
  BY DEF CostTransform, CostBuilt

\* What stays true of a request and of the entry while the instance stays.
LEMMA CostStable ==
  ASSUME instance' = instance
  PROVE  /\ CostDelegateSet' = CostDelegateSet
         /\ CostRecords' = CostRecords
         /\ \A c : CostRequestFits(c)' <=> CostRequestFits(c)
         /\ entry' = entry => (CostEntryFits' <=> CostEntryFits)
<1>1. \A p : CostTransform(p)' = CostTransform(p) /\ CostBuilt(p)' = CostBuilt(p)
  BY CostTransformStable
<1>2. CostDelegateSet' = CostDelegateSet
  BY <1>1 DEF CostDelegateSet
<1>3. CostRecords' = CostRecords
  BY <1>2 DEF CostRecords
<1>4. \A c : CostRequestFits(c)' <=> CostRequestFits(c)
  BY <1>1 DEF CostRequestFits
<1>5. entry' = entry => (CostEntryFits' <=> CostEntryFits)
  BY <1>1 DEF CostEntryFits
<1> QED  BY <1>2, <1>3, <1>4, <1>5

\* One request moves on.
LEMMA CostMoves ==
  ASSUME CostInv, instance # "none", instance' = instance, CostEntryFits',
         NEW r \in CostRequests, NEW c \in CostRecords, CostRequestFits(c),
         CostGoto(r, c)
  PROVE  CostInv'
<1>1. cost' \in [CostRequests -> CostRecords]
  BY DEF CostInv, CostGoto
<1>2. \A q \in CostRequests : CostRequestFits(cost'[q])
  BY DEF CostInv, CostGoto
<1>3. (\A q \in CostRequests : CostRequestFits(cost[q]))'
  BY <1>2, CostStable
<1> QED  BY <1>1, <1>3, CostStable DEF CostInv

LEMMA CostInitInv == CostInit => CostInv
  BY DEF CostInit, CostInv, NewCost, CostRecords, CostDelegateSet, DollarReports, CostEntryFits, CostRequestFits

LEMMA CostNextInv == CostInv /\ [CostNext]_costVars => CostInv'
<1> SUFFICES ASSUME CostInv, [CostNext]_costVars PROVE CostInv'
  OBVIOUS
<1>1. CASE UNCHANGED costVars
  <2>1. instance' = instance /\ entry' = entry /\ cost' = cost
    BY <1>1 DEF costVars
  <2> QED  BY <2>1, CostStable DEF CostInv
<1>2. CASE CostGetPolicy
  <2>1. entry' = NoCostEntry /\ cost' = [r \in CostRequests |-> NewCost]
    BY <1>2 DEF CostInv, CostGetPolicy
  <2>2. instance' \in {"backend", "consumer"}
    BY <1>2 DEF CostGetPolicy
  <2>3. NewCost \in CostRecords'
    BY DEF NewCost, CostRecords, CostDelegateSet, DollarReports
  <2>4. CostRequestFits(NewCost)'
    BY DEF NewCost, CostRequestFits
  <2> QED  BY <2>1, <2>2, <2>3, <2>4 DEF CostInv, CostEntryFits
<1>3. ASSUME NEW r \in CostRequests, CostOnRequestHeaders(r) PROVE CostInv'
  <2> instance # "none" /\ instance' = instance /\ entry' = entry /\ cost[r].pc = "new"
    BY <1>3 DEF CostOnRequestHeaders, CostStep
  <2> cost[r] \in CostRecords /\ CostRequestFits(cost[r]) /\ CostEntryFits
    BY DEF CostInv
  <2>1. PICK p \in CostParams, named \in BOOLEAN, blocked \in BOOLEAN :
          LET c == [cost[r] EXCEPT !.params = p, !.provider = named]
          IN  CostGoto(r, IF ~named THEN [c EXCEPT !.pc = "sent"]
                          ELSE IF entry.key = CostCacheKey(p) THEN Pin(c, entry.delegate, blocked)
                          ELSE [c EXCEPT !.pc = "build"])
    BY <1>3 DEF CostOnRequestHeaders
  <2> DEFINE c == [cost[r] EXCEPT !.params = p, !.provider = named]
  <2>2. c \in CostRecords /\ c.pinned = NoCostDelegate /\ c.params = p
    BY DEF CostRecords, CostRequestFits
  <2>3. CASE ~named
    <3>1. [c EXCEPT !.pc = "sent"] \in CostRecords /\ CostRequestFits([c EXCEPT !.pc = "sent"])
      BY <2>2 DEF CostRecords, CostRequestFits
    <3> QED  BY <2>1, <2>3, <3>1, CostMoves, CostStable
  <2>4. CASE named /\ entry.key # CostCacheKey(p)
    <3>1. [c EXCEPT !.pc = "build"] \in CostRecords /\ CostRequestFits([c EXCEPT !.pc = "build"])
      BY <2>2 DEF CostRecords, CostRequestFits
    <3> QED  BY <2>1, <2>4, <3>1, CostMoves, CostStable
  <2>5. CASE named /\ entry.key = CostCacheKey(p)
    <3>1. CostTransform(p).quotas # {} /\ entry.delegate = CostBuilt(p)
      <4>1. entry # NoCostEntry
        <5>1. NoCostEntry.key = <<>>
          BY DEF NoCostEntry
        <5>2. CostCacheKey(p) # <<>>
          BY DEF CostCacheKey
        <5> QED  BY <2>5, <5>1, <5>2
      <4>2. PICK q \in CostParams : /\ entry = [key |-> CostCacheKey(q), delegate |-> CostBuilt(q)]
                                    /\ CostTransform(q).quotas # {}
        BY <4>1 DEF CostEntryFits
      <4>3. CostTransform(q) = CostTransform(p)
        BY <2>5, <4>2, CostKeyDetermines
      <4> QED  BY <4>2, <4>3 DEF CostBuilt
    <3>2. Pin(c, entry.delegate, blocked) \in CostRecords
      BY <2>2, <3>1, CostScalePositive DEF Pin, CostRecords, CostDelegateSet
    <3>3. CostRequestFits(Pin(c, entry.delegate, blocked))
      BY <2>2, <3>1 DEF Pin, CostRecords, CostRequestFits
    <3> QED  BY <2>1, <2>5, <3>2, <3>3, CostMoves, CostStable
  <2> QED  BY <2>3, <2>4, <2>5
<1>4. ASSUME NEW r \in CostRequests, CostResolve(r) PROVE CostInv'
  <2> instance' = instance /\ cost[r].pc = "build"
    BY <1>4 DEF CostResolve, CostStep
  <2> instance # "none"
    BY DEF CostInv, NewCost
  <2> cost[r] \in CostRecords /\ CostRequestFits(cost[r]) /\ CostEntryFits
    BY DEF CostInv
  <2> DEFINE p == cost[r].params
             d == CostBuilt(p)
  <2>1. p \in CostParams /\ cost[r].pinned = NoCostDelegate
    BY DEF CostRequestFits
  <2>2. CASE CostGoto(r, [cost[r] EXCEPT !.pc = "sent"]) /\ UNCHANGED entry
    <3>1. [cost[r] EXCEPT !.pc = "sent"] \in CostRecords /\ CostRequestFits([cost[r] EXCEPT !.pc = "sent"])
      BY <2>1 DEF CostRecords, CostRequestFits
    <3> QED  BY <2>2, <3>1, CostMoves, CostStable
  <2>3. ASSUME NEW blocked \in BOOLEAN, d.of.quotas # {},
               entry' = [key |-> CostCacheKey(p), delegate |-> d], CostGoto(r, Pin(cost[r], d, blocked))
        PROVE  CostInv'
    <3>0. CostTransform(p).quotas # {} /\ d # NoCostDelegate
      BY <2>3 DEF CostBuilt, NoCostDelegate
    <3>1. CostEntryFits'
      BY <2>1, <2>3, <3>0, CostTransformStable DEF CostEntryFits
    <3>2. Pin(cost[r], d, blocked) \in CostRecords
      BY <2>1, CostScalePositive DEF Pin, CostRecords, CostDelegateSet
    <3>3. CostRequestFits(Pin(cost[r], d, blocked))
      BY <2>1, <3>0 DEF Pin, CostRecords, CostRequestFits
    <3> QED  BY <2>3, <3>1, <3>2, <3>3, CostMoves
  <2> QED  BY <1>4, <2>2, <2>3 DEF CostResolve, CostBuilt
<1>5. ASSUME NEW r \in CostRequests, CostOnResponseHeaders(r) PROVE CostInv'
  <2> DEFINE d == ResponseDelegate(cost[r])
             s == ResponseScale(cost[r])
             lim == (CHOOSE q \in d.of.quotas : TRUE).limits
             c == [cost[r] EXCEPT !.pc = "headers",
                     !.dollars = IF d = NoCostDelegate THEN <<>> ELSE addScaledHeader(lim, s)]
  <2> instance' = instance /\ entry' = entry /\ cost[r].pc = "sent" /\ CostGoto(r, c)
    BY <1>5 DEF CostOnResponseHeaders, CostStep
  <2> instance # "none"
    BY DEF CostInv, NewCost
  <2> cost[r] \in CostRecords /\ CostRequestFits(cost[r]) /\ CostEntryFits
    BY DEF CostInv
  <2>1. cost[r].params \in CostParams
    BY DEF CostRequestFits
  <2>2. s \in Int /\ (cost[r].pinned # NoCostDelegate => s = extractCostScaleFactor(cost[r].params))
    BY <2>1, CostScalePositive DEF ResponseScale, CostRecords, CostRequestFits
  <2>3. d = NoCostDelegate \/ \E p \in CostParams : d = CostBuilt(p) /\ CostTransform(p).quotas # {}
    BY <2>1 DEF ResponseDelegate, CostRequestFits, CostEntryFits, NoCostEntry
  <2>4. d # NoCostDelegate => \E p \in CostParams : d = CostBuilt(p) /\ lim = CostLimits(p)
    BY <2>3, CostQuota DEF CostBuilt
  <2>5. cost[r].pinned # NoCostDelegate => d = CostBuilt(cost[r].params) /\ lim = CostLimits(cost[r].params)
    BY <2>1, CostQuota DEF ResponseDelegate, CostRequestFits, CostBuilt
  <2> HIDE DEF d, s, lim
  <2>6. c.dollars \in DollarReports
    BY <2>2, <2>4 DEF DollarReports, CostRecords
  <2>7. c \in CostRecords
    BY <2>6 DEF CostRecords
  <2>8. cost[r].pinned # NoCostDelegate => c.dollars = Budgets(cost[r].params)
    BY <2>1, <2>2, <2>5, DollarsAreBudgets DEF CostRecords, CostRequestFits
  <2>9. CostRequestFits(c)
    BY <2>1, <2>8 DEF CostRequestFits, CostRecords
  <2> QED  BY <2>7, <2>9, CostMoves, CostStable
<1>6. ASSUME NEW r \in CostRequests, CostOnResponseBody(r) PROVE CostInv'
  <2> DEFINE d == ResponseDelegate(cost[r])
             c == [cost[r] EXCEPT !.pc = "done", !.charged = d]
  <2> instance' = instance /\ entry' = entry /\ cost[r].pc = "headers" /\ CostGoto(r, c)
    BY <1>6 DEF CostOnResponseBody, CostStep
  <2> instance # "none"
    BY DEF CostInv, NewCost
  <2> cost[r] \in CostRecords /\ CostRequestFits(cost[r]) /\ CostEntryFits
    BY DEF CostInv
  <2>1. d \in CostDelegateSet /\ (cost[r].pinned # NoCostDelegate => d = cost[r].pinned)
    BY DEF ResponseDelegate, CostRecords, CostEntryFits, NoCostEntry, CostDelegateSet
  <2> HIDE DEF d
  <2>2. c \in CostRecords /\ CostRequestFits(c)
    BY <2>1 DEF CostRecords, CostRequestFits
  <2> QED  BY <2>2, CostMoves, CostStable
<1> QED  BY <1>1, <1>2, <1>3, <1>4, <1>5, <1>6 DEF CostNext

LEMMA CostHostStep == [HostNext]_hostVars => [CostNext]_costVars
  BY DEF HostNext, hostVars, costVars

\* The cost of a response is charged to the delegate that checked the request, which
\* enforces the budgets of the request's parameters at their scale, and the dollars
\* reported are those budgets: resolveDelegate, the pinned metadata and addScaledHeader,
\* for any parameters and any interleaving of requests that rebuild the delegate.
THEOREM CostChargedWhereCheckedHolds == HostSpec => []CostChargedWhereChecked
<1>1. HostInit => CostInv
  BY CostInitInv DEF HostInit
<1>2. CostInv /\ [HostNext]_hostVars => CostInv'
  BY CostNextInv, CostHostStep
<1>3. CostInv => CostChargedWhereChecked
  <2> SUFFICES ASSUME CostInv, NEW r \in CostRequests, cost[r].pinned # NoCostDelegate
               PROVE  /\ cost[r].pinned.of = CostTransform(cost[r].params)
                      /\ cost[r].pc \in {"headers", "done"} => cost[r].dollars = Budgets(cost[r].params)
                      /\ cost[r].pc = "done" => cost[r].charged = cost[r].pinned
    BY DEF CostChargedWhereChecked
  <2>1. CostRequestFits(cost[r])
    BY DEF CostInv
  <2>2. CostBuilt(cost[r].params).of = CostTransform(cost[r].params)
    BY DEF CostBuilt
  <2> QED  BY <2>1, <2>2 DEF CostRequestFits
<1> QED  BY <1>1, <1>2, <1>3, PTL DEF HostSpec

-----------------------------------------------------------------------------
(***************************************************************************)
(* token-based-ratelimit                                                   *)
(***************************************************************************)

TokenDelegateSet ==
    {NoDelegate} \union {createDelegateWithTemplate(t) : t \in Templates \union {NoTemplate}}
TokenRecords ==
    [pc : {"new", "load", "loadKey", "join", "wait", "reload", "reloadKey", "build", "storeKey",
           "finish", "resolved", "sent", "done"},
     template : Templates \union {NoTemplate}, seen : TokenDelegateSet, got : TokenDelegateSet,
     disturbed : BOOLEAN]

\* No build is between its two stores.
NoStore == \A q \in TokenRequests : token[q].pc # "storeKey"

\* A request between its two loads, undisturbed, saw the delegate that is still there.
LoadFits(c) ==
    c.pc \in {"loadKey", "reloadKey"} =>
       /\ c.seen # NoDelegate
       /\ ~c.disturbed /\ ~torn => NoStore /\ c.seen = delegate

\* A build between its two stores: the delegate of its template, and the one in the map.
StoreFits(c) ==
    c.pc = "storeKey" =>
       /\ c.got # NoDelegate /\ c.got.of = c.template
       /\ ~torn => delegate = c.got

\* The delegate a request or a build has settled on.
SettledFits(c) ==
    /\ c.pc \in {"resolved", "sent"} => c.got # NoDelegate
    /\ c.pc \in {"finish", "resolved", "sent"} /\ ~c.disturbed /\ ~torn /\ c.got # NoDelegate
          => c.got.of = c.template

TokenTypeInv ==
    /\ torn \in BOOLEAN
    /\ template \in Templates \union {NoTemplate, Unreadable}
    /\ delegate \in TokenDelegateSet
    /\ token \in [TokenRequests -> TokenRecords]
    /\ attachment = NotAttached => delegate = NoDelegate /\ token = [r \in TokenRequests |-> NewToken]

TokenInv ==
    /\ TokenTypeInv
    /\ ~torn => \A q, r \in TokenRequests : token[q].pc = "storeKey" /\ token[r].pc = "storeKey" => q = r
    /\ ~torn /\ NoStore /\ delegate # NoDelegate => delegate.of = delegateKey
    /\ \A r \in TokenRequests : LoadFits(token[r]) /\ StoreFits(token[r]) /\ SettledFits(token[r])

LEMMA TokenBuilt ==
  ASSUME NEW t
  PROVE  createDelegateWithTemplate(t) # NoDelegate /\ createDelegateWithTemplate(t).of = t
  BY DEF createDelegateWithTemplate, NoDelegate

LEMMA TokenStable ==
  ASSUME attachment' = attachment
  PROVE  TokenDelegateSet' = TokenDelegateSet /\ TokenRecords' = TokenRecords
<1>1. \A t : createDelegateWithTemplate(t)' = createDelegateWithTemplate(t)
  BY DEF createDelegateWithTemplate
<1>2. TokenDelegateSet' = TokenDelegateSet
  BY <1>1 DEF TokenDelegateSet
<1> QED  BY <1>2 DEF TokenRecords

\* One request moves on and nothing is stored.
LEMMA TokenMoves ==
  ASSUME TokenInv, attachment # NotAttached,
         UNCHANGED <<attachment, template, delegate, delegateKey, torn>>,
         NEW r \in TokenRequests, NEW c \in TokenRecords, Goto(r, c),
         token[r].pc # "storeKey", c.pc # "storeKey", LoadFits(c), SettledFits(c)
  PROVE  TokenInv'
<1>1. token' \in [TokenRequests -> TokenRecords]
  BY DEF TokenInv, TokenTypeInv, Goto
<1>2. TokenTypeInv'
  BY <1>1, TokenStable DEF TokenInv, TokenTypeInv
<1>3. \A q \in TokenRequests : token'[q].pc = "storeKey" <=> token[q].pc = "storeKey"
  BY DEF TokenInv, TokenTypeInv, Goto
<1>4. NoStore' <=> NoStore
  BY <1>3 DEF NoStore
<1>5. ASSUME NEW q \in TokenRequests PROVE (LoadFits(token[q]) /\ StoreFits(token[q]) /\ SettledFits(token[q]))'
  <2>1. CASE q = r
    <3>1. token'[q] = c
      BY <2>1 DEF TokenInv, TokenTypeInv, Goto
    <3> QED  BY <3>1, <1>4 DEF LoadFits, StoreFits, SettledFits
  <2>2. CASE q # r
    <3>1. token'[q] = token[q]
      BY <2>2 DEF TokenInv, TokenTypeInv, Goto
    <3> QED  BY <3>1, <1>4 DEF TokenInv, LoadFits, StoreFits, SettledFits
  <2> QED  BY <2>1, <2>2
<1> QED  BY <1>2, <1>3, <1>4, <1>5 DEF TokenInv

LEMMA TokenInitInv == TokenInit => TokenInv
<1> SUFFICES ASSUME TokenInit PROVE TokenInv
  OBVIOUS
<1>1. NewToken \in TokenRecords
  BY DEF NewToken, TokenRecords, TokenDelegateSet
<1>2. TokenTypeInv
  BY <1>1 DEF TokenInit, TokenTypeInv, TokenDelegateSet
<1> QED  BY <1>2 DEF TokenInit, TokenInv, NewToken, LoadFits, StoreFits, SettledFits

LEMMA TokenStoreDelegateInv ==
  ASSUME TokenInv, NEW r \in TokenRequests, StoreDelegate(r), attachment # NotAttached
  PROVE  TokenInv'
<1> DEFINE d == createDelegateWithTemplate(token[r].template)
<1>1. /\ token[r].pc = "build" /\ delegate' = d
      /\ torn' = (torn \/ \E q \in TokenRequests : token[q].pc = "storeKey")
      /\ token' = [q \in TokenRequests |->
                     IF q = r THEN [token[r] EXCEPT !.pc = "storeKey", !.got = d]
                     ELSE [token[q] EXCEPT !.disturbed = @ \/ token[q].pc \in {"loadKey", "reloadKey"}]]
      /\ attachment' = attachment /\ template' = template /\ delegateKey' = delegateKey
  BY DEF StoreDelegate, Step, Publish
<1>0. ASSUME NEW q \in TokenRequests PROVE token[q] \in TokenRecords
  BY DEF TokenInv, TokenTypeInv
<1>2. d # NoDelegate /\ d.of = token[r].template
  BY TokenBuilt
<1>3. d \in TokenDelegateSet
  BY <1>0 DEF TokenRecords, TokenDelegateSet
<1> HIDE DEF d
<1>4. ASSUME NEW q \in TokenRequests
      PROVE  /\ token'[q] \in TokenRecords
             /\ q = r => /\ token'[q].pc = "storeKey" /\ token'[q].got = d
                         /\ token'[q].template = token[r].template
             /\ q # r => /\ token'[q].pc = token[q].pc /\ token'[q].got = token[q].got
                         /\ token'[q].template = token[q].template /\ token'[q].seen = token[q].seen
                         /\ token[q].disturbed => token'[q].disturbed
                         /\ token[q].pc \in {"loadKey", "reloadKey"} => token'[q].disturbed
  BY <1>0, <1>1, <1>3 DEF TokenRecords
<1>5. token' \in [TokenRequests -> TokenRecords]
  BY <1>1, <1>4
<1>6. torn \in BOOLEAN /\ torn' \in BOOLEAN
  BY <1>1 DEF TokenInv, TokenTypeInv
<1>7. TokenTypeInv'
  BY <1>1, <1>3, <1>5, <1>6, TokenStable DEF TokenInv, TokenTypeInv
<1>8. ~torn' => ~torn /\ NoStore
  BY <1>1, <1>6 DEF NoStore
<1>9. ~NoStore'
  BY <1>4 DEF NoStore
<1>10. ~torn' => \A p, q \in TokenRequests : token'[p].pc = "storeKey" /\ token'[q].pc = "storeKey" => p = q
  BY <1>4, <1>8 DEF NoStore
<1>11. ASSUME NEW q \in TokenRequests PROVE (LoadFits(token[q]) /\ StoreFits(token[q]) /\ SettledFits(token[q]))'
  <2>1. LoadFits(token[q])'
    <3>1. LoadFits(token[q])
      BY DEF TokenInv
    <3> QED  BY <1>4, <3>1 DEF LoadFits
  <2>2. StoreFits(token[q])'
    <3>1. CASE q = r
      BY <3>1, <1>1, <1>2, <1>4 DEF StoreFits
    <3>2. CASE q # r
      <4>1. StoreFits(token[q])
        BY DEF TokenInv
      <4> QED  BY <3>2, <4>1, <1>4, <1>8 DEF StoreFits, NoStore
    <3> QED  BY <3>1, <3>2
  <2>3. SettledFits(token[q])'
    <3>1. CASE q = r
      BY <3>1, <1>4 DEF SettledFits
    <3>2. CASE q # r
      <4>1. SettledFits(token[q])
        BY DEF TokenInv
      <4> QED  BY <3>2, <4>1, <1>4, <1>8 DEF SettledFits
    <3> QED  BY <3>1, <3>2
  <2> QED  BY <2>1, <2>2, <2>3
<1> QED  BY <1>7, <1>9, <1>10, <1>11 DEF TokenInv

LEMMA TokenStoreKeyInv ==
  ASSUME TokenInv, NEW r \in TokenRequests, StoreKey(r), attachment # NotAttached
  PROVE  TokenInv'
<1>1. /\ token[r].pc = "storeKey" /\ delegateKey' = token[r].template
      /\ token' = [token EXCEPT ![r] = [token[r] EXCEPT !.pc = "finish"]]
      /\ attachment' = attachment /\ template' = template /\ delegate' = delegate /\ torn' = torn
  BY DEF StoreKey, Step, Goto, computeResourceHash
<1>2. ASSUME NEW q \in TokenRequests
      PROVE  /\ token[q] \in TokenRecords /\ token'[q] \in TokenRecords
             /\ q # r => token'[q] = token[q]
             /\ q = r => /\ token'[q].pc = "finish" /\ token'[q].got = token[q].got
                         /\ token'[q].template = token[q].template
  BY <1>1 DEF TokenInv, TokenTypeInv, TokenRecords
<1>3. token' \in [TokenRequests -> TokenRecords]
  BY <1>1, <1>2 DEF TokenInv, TokenTypeInv
<1>4. TokenTypeInv'
  BY <1>1, <1>3, TokenStable DEF TokenInv, TokenTypeInv
<1>5. ~torn => delegate = token[r].got /\ delegate.of = token[r].template
  BY <1>1 DEF TokenInv, StoreFits
<1>6. token[r].got.of = token[r].template
  BY <1>1 DEF TokenInv, StoreFits
<1>7. ~NoStore
  BY <1>1 DEF NoStore
<1>8. ASSUME NEW q \in TokenRequests PROVE (LoadFits(token[q]) /\ StoreFits(token[q]) /\ SettledFits(token[q]))'
  <2>0. LoadFits(token[q]) /\ StoreFits(token[q]) /\ SettledFits(token[q])
    BY DEF TokenInv
  <2>1. LoadFits(token[q])'
    BY <1>1, <1>2, <1>7, <2>0 DEF LoadFits
  <2>2. StoreFits(token[q])'
    BY <1>1, <1>2, <2>0 DEF StoreFits
  <2>3. SettledFits(token[q])'
    BY <1>1, <1>2, <1>6, <2>0 DEF SettledFits
  <2> QED  BY <2>1, <2>2, <2>3
<1>9. ~torn => \A p, q \in TokenRequests : token'[p].pc = "storeKey" /\ token'[q].pc = "storeKey" => p = q
  BY <1>1, <1>2 DEF TokenInv
<1> QED  BY <1>1, <1>4, <1>5, <1>8, <1>9 DEF TokenInv

LEMMA TokenFinishInv ==
  ASSUME TokenInv, NEW r \in TokenRequests, FinishFlight(r), attachment # NotAttached
  PROVE  TokenInv'
<1> DEFINE t == token[r].template
           next == IF token[r].got = NoDelegate THEN "done" ELSE "resolved"
<1>1. /\ token[r].pc = "finish"
      /\ token' = [q \in TokenRequests |->
                     IF q = r \/ (token[q].pc = "wait" /\ token[q].template = t)
                     THEN [token[q] EXCEPT !.got = token[r].got, !.disturbed = @ \/ token[r].disturbed,
                                           !.pc = next]
                     ELSE token[q]]
      /\ attachment' = attachment /\ template' = template /\ delegate' = delegate
      /\ delegateKey' = delegateKey /\ torn' = torn
  BY DEF FinishFlight, Step
<1>2. ASSUME NEW q \in TokenRequests PROVE token[q] \in TokenRecords
  BY DEF TokenInv, TokenTypeInv
<1>3. ASSUME NEW q \in TokenRequests
      PROVE  /\ token'[q] \in TokenRecords
             /\ \/ token'[q] = token[q]
                \/ /\ token'[q].pc = next /\ token'[q].got = token[r].got /\ token'[q].template = t
                   /\ token[r].disturbed => token'[q].disturbed
                   /\ token[q].pc # "storeKey"
  BY <1>1, <1>2 DEF TokenRecords
<1>4. token' \in [TokenRequests -> TokenRecords]
  BY <1>1, <1>3
<1>5. TokenTypeInv'
  BY <1>1, <1>4, TokenStable DEF TokenInv, TokenTypeInv
<1>6. \A q \in TokenRequests : token'[q].pc = "storeKey" <=> token[q].pc = "storeKey"
  BY <1>3
<1>7. NoStore' <=> NoStore
  BY <1>6 DEF NoStore
<1>8. SettledFits(token[r])
  BY DEF TokenInv
<1>9. ASSUME NEW q \in TokenRequests PROVE (LoadFits(token[q]) /\ StoreFits(token[q]) /\ SettledFits(token[q]))'
  <2>0. LoadFits(token[q]) /\ StoreFits(token[q]) /\ SettledFits(token[q])
    BY DEF TokenInv
  <2>1. CASE token'[q] = token[q]
    BY <1>1, <1>7, <2>0, <2>1 DEF LoadFits, StoreFits, SettledFits
  <2>2. CASE /\ token'[q].pc = next /\ token'[q].got = token[r].got /\ token'[q].template = t
             /\ token[r].disturbed => token'[q].disturbed
    <3>1. (LoadFits(token[q]) /\ StoreFits(token[q]))'
      BY <2>2 DEF LoadFits, StoreFits
    <3>2. ASSUME token[r].got = NoDelegate PROVE SettledFits(token[q])'
      BY <2>2, <3>2 DEF SettledFits
    <3>3. ASSUME token[r].got # NoDelegate PROVE SettledFits(token[q])'
      <4>1. token'[q].pc = "resolved"
        BY <2>2, <3>3
      <4>2. ~token[r].disturbed /\ ~torn => token[r].got.of = t
        BY <1>1, <1>8, <3>3 DEF SettledFits
      <4> HIDE DEF t, next
      <4>3. token'[q].got # NoDelegate /\ (~token'[q].disturbed /\ ~torn' => token'[q].got.of = token'[q].template)
        BY <1>1, <2>2, <3>3, <4>2
      <4> QED  BY <4>1, <4>3 DEF SettledFits
    <3> QED  BY <3>1, <3>2, <3>3
  <2> QED  BY <1>3, <2>1, <2>2
<1> QED  BY <1>1, <1>5, <1>6, <1>7, <1>9 DEF TokenInv

LEMMA TokenNextInv == TokenInv /\ [TokenNext]_tokenVars => TokenInv'
<1> SUFFICES ASSUME TokenInv, [TokenNext]_tokenVars PROVE TokenInv'
  OBVIOUS
<1>1. CASE UNCHANGED tokenVars
  <2>1. UNCHANGED <<attachment, template, delegate, delegateKey, token, torn>>
    BY <1>1 DEF tokenVars
  <2> QED  BY <2>1, TokenStable DEF TokenInv, TokenTypeInv, NoStore, LoadFits, StoreFits, SettledFits
<1>2. CASE TokenGetPolicy
  <2>1. /\ delegate' = NoDelegate /\ token' = [r \in TokenRequests |-> NewToken]
        /\ attachment' # NotAttached /\ UNCHANGED <<template, torn>>
    BY <1>2 DEF TokenGetPolicy, TokenInv, TokenTypeInv, NotAttached
  <2>2. NewToken \in TokenRecords' /\ NoDelegate \in TokenDelegateSet'
    BY DEF NewToken, TokenRecords, TokenDelegateSet
  <2>3. TokenTypeInv'
    BY <2>1, <2>2 DEF TokenInv, TokenTypeInv
  <2> QED  BY <2>1, <2>3 DEF TokenInv, NewToken, LoadFits, StoreFits, SettledFits
<1>3. CASE ChangeTemplate
  <2>1. /\ template' \in Templates \union {NoTemplate, Unreadable}
        /\ UNCHANGED <<attachment, delegate, delegateKey, token, torn>>
    BY <1>3 DEF ChangeTemplate
  <2> QED  BY <2>1, TokenStable DEF TokenInv, TokenTypeInv, NoStore, LoadFits, StoreFits, SettledFits
<1>4. ASSUME NEW r \in TokenRequests,
             \/ ReadTemplate(r) \/ LoadDelegate(r) \/ LoadKey(r) \/ JoinFlight(r)
             \/ ReloadDelegate(r) \/ ReloadKey(r) \/ StoreDelegate(r) \/ BuildFails(r)
             \/ StoreKey(r) \/ FinishFlight(r) \/ CheckRequest(r) \/ OnResponse(r)
      PROVE  TokenInv'
  <2> DEFINE c == token[r]
  <2> attachment # NotAttached
    <3>1. ReadTemplate(r) \/ token[r].pc # "new"
      BY <1>4 DEF Step, LoadDelegate, LoadKey, JoinFlight, ReloadDelegate, ReloadKey, StoreDelegate,
                  BuildFails, StoreKey, FinishFlight, CheckRequest, OnResponse
    <3>2. attachment = NotAttached => token[r].pc = "new"
      BY DEF TokenInv, TokenTypeInv, NewToken
    <3> QED  BY <3>1, <3>2 DEF ReadTemplate
  <2>0. c \in TokenRecords /\ delegate \in TokenDelegateSet /\ LoadFits(c) /\ SettledFits(c)
    BY DEF TokenInv, TokenTypeInv
  <2>1. CASE ReadTemplate(r)
    <3> DEFINE n == IF template \in {NoTemplate, Unreadable} THEN [c EXCEPT !.pc = "done"]
                    ELSE [c EXCEPT !.pc = "load", !.template = template]
    <3>1. Goto(r, n) /\ c.pc = "new" /\ UNCHANGED <<attachment, template, delegate, delegateKey, torn>>
      BY <2>1 DEF ReadTemplate, Step
    <3>2. n \in TokenRecords /\ n.pc \in {"load", "done"}
      BY <2>0 DEF TokenRecords, TokenInv, TokenTypeInv
    <3> HIDE DEF n
    <3>3. LoadFits(n) /\ SettledFits(n)
      BY <3>2 DEF LoadFits, SettledFits
    <3> QED  BY <3>1, <3>2, <3>3, TokenMoves
  <2>2. CASE LoadDelegate(r) \/ ReloadDelegate(r)
    <3>1. PICK pc \in {"join", "loadKey", "build", "reloadKey"} :
            /\ Goto(r, [Seeing(r) EXCEPT !.pc = pc])
            /\ pc \in {"loadKey", "reloadKey"} => delegate # NoDelegate
      BY <2>2 DEF LoadDelegate, ReloadDelegate
    <3>2. c.pc \in {"load", "reload"} /\ UNCHANGED <<attachment, template, delegate, delegateKey, torn>>
      BY <2>2 DEF LoadDelegate, ReloadDelegate, Step
    <3> DEFINE n == [Seeing(r) EXCEPT !.pc = pc]
    <3>3. n \in TokenRecords /\ n.pc = pc /\ n.seen = delegate /\ (~n.disturbed => NoStore)
      BY <2>0 DEF Seeing, TokenRecords, NoStore, Step
    <3> HIDE DEF n
    <3>4. LoadFits(n) /\ SettledFits(n)
      BY <3>1, <3>3 DEF LoadFits, SettledFits
    <3> QED  BY <3>1, <3>2, <3>3, <3>4, TokenMoves DEF n
  <2>3. CASE LoadKey(r) \/ ReloadKey(r)
    <3>1. c.pc \in {"loadKey", "reloadKey"} /\ UNCHANGED <<attachment, template, delegate, delegateKey, torn>>
      BY <2>3 DEF LoadKey, ReloadKey, Step
    <3>2. CASE KeyFits(r)
      <4>1. PICK pc \in {"resolved", "finish"} : Goto(r, [c EXCEPT !.pc = pc, !.got = c.seen])
        BY <2>3, <3>2 DEF LoadKey, ReloadKey
      <4> DEFINE n == [c EXCEPT !.pc = pc, !.got = c.seen]
      <4>2. n \in TokenRecords /\ n.pc = pc /\ n.got = c.seen /\ n.disturbed = c.disturbed /\ n.template = c.template
        BY <2>0 DEF TokenRecords
      <4>3. c.seen # NoDelegate
        BY <2>0, <3>1 DEF LoadFits
      <4>4. LoadFits(n) /\ SettledFits(n)
        BY <2>0, <3>1, <3>2, <4>2, <4>3 DEF LoadFits, SettledFits, KeyFits, computeResourceHash, TokenInv
      <4> QED  BY <3>1, <4>1, <4>2, <4>4, TokenMoves DEF n
    <3>3. CASE ~KeyFits(r)
      <4>1. PICK pc \in {"join", "build"} : Goto(r, [c EXCEPT !.pc = pc])
        BY <2>3, <3>3 DEF LoadKey, ReloadKey
      <4> DEFINE n == [c EXCEPT !.pc = pc]
      <4>2. n \in TokenRecords /\ n.pc = pc
        BY <2>0 DEF TokenRecords
      <4>3. LoadFits(n) /\ SettledFits(n)
        BY <4>2 DEF LoadFits, SettledFits
      <4> QED  BY <3>1, <4>1, <4>2, <4>3, TokenMoves DEF n
    <3> QED  BY <3>2, <3>3
  <2>4. CASE JoinFlight(r)
    <3>1. PICK pc \in {"wait", "reload"} : Goto(r, [c EXCEPT !.pc = pc])
      BY <2>4 DEF JoinFlight
    <3>2. c.pc = "join" /\ UNCHANGED <<attachment, template, delegate, delegateKey, torn>>
      BY <2>4 DEF JoinFlight, Step
    <3> DEFINE n == [c EXCEPT !.pc = pc]
    <3>3. n \in TokenRecords /\ n.pc = pc
      BY <2>0 DEF TokenRecords
    <3>4. LoadFits(n) /\ SettledFits(n)
      BY <3>3 DEF LoadFits, SettledFits
    <3> QED  BY <3>1, <3>2, <3>3, <3>4, TokenMoves DEF n
  <2>5. CASE StoreDelegate(r)
    BY <2>5, TokenStoreDelegateInv
  <2>6. CASE BuildFails(r)
    <3> DEFINE n == [c EXCEPT !.pc = "finish", !.got = NoDelegate]
    <3>1. Goto(r, n) /\ c.pc = "build" /\ UNCHANGED <<attachment, template, delegate, delegateKey, torn>>
      BY <2>6 DEF BuildFails, Step
    <3>2. n \in TokenRecords /\ n.pc = "finish" /\ n.got = NoDelegate
      BY <2>0 DEF TokenRecords, TokenDelegateSet
    <3> HIDE DEF n
    <3>3. LoadFits(n) /\ SettledFits(n)
      BY <3>2 DEF LoadFits, SettledFits
    <3> QED  BY <3>1, <3>2, <3>3, TokenMoves
  <2>7. CASE StoreKey(r)
    BY <2>7, TokenStoreKeyInv
  <2>8. CASE FinishFlight(r)
    BY <2>8, TokenFinishInv
  <2>9. CASE CheckRequest(r)
    <3>1. PICK pc \in {"done", "sent"} : Goto(r, [c EXCEPT !.pc = pc])
      BY <2>9 DEF CheckRequest
    <3>2. c.pc = "resolved" /\ UNCHANGED <<attachment, template, delegate, delegateKey, torn>>
      BY <2>9 DEF CheckRequest, Step
    <3> DEFINE n == [c EXCEPT !.pc = pc]
    <3>3. /\ n \in TokenRecords /\ n.pc = pc /\ n.got = c.got /\ n.disturbed = c.disturbed
          /\ n.template = c.template
      BY <2>0 DEF TokenRecords
    <3>4. LoadFits(n) /\ SettledFits(n)
      BY <2>0, <3>2, <3>3 DEF LoadFits, SettledFits
    <3> QED  BY <3>1, <3>2, <3>3, <3>4, TokenMoves DEF n
  <2>10. CASE OnResponse(r)
    <3> DEFINE n == [c EXCEPT !.pc = "done", !.got = delegate]
    <3>1. Goto(r, n) /\ c.pc = "sent" /\ UNCHANGED <<attachment, template, delegate, delegateKey, torn>>
      BY <2>10 DEF OnResponse, Step
    <3>2. n \in TokenRecords /\ n.pc = "done"
      BY <2>0 DEF TokenRecords
    <3> HIDE DEF n
    <3>3. LoadFits(n) /\ SettledFits(n)
      BY <3>2 DEF LoadFits, SettledFits
    <3> QED  BY <3>1, <3>2, <3>3, TokenMoves
  <2> QED  BY <1>4, <2>1, <2>2, <2>3, <2>4, <2>5, <2>6, <2>7, <2>8, <2>9, <2>10
<1> QED  BY <1>1, <1>2, <1>3, <1>4 DEF TokenNext

LEMMA TokenHostStep == [HostNext]_hostVars => [TokenNext]_tokenVars
  BY DEF HostNext, hostVars, tokenVars

\* The delegate of token-based-ratelimit was built from the template its cache key
\* names, and a request is checked by the delegate of the template it read, except
\* where its two loads overlap the two stores of a build or the stores of two builds
\* interleave: resolveDelegate, for any templates and any number of requests.
THEOREM TokenDelegateFitsHolds == HostSpec => []TokenDelegateFits
<1>1. HostInit => TokenInv
  BY TokenInitInv DEF HostInit
<1>2. TokenInv /\ [HostNext]_hostVars => TokenInv'
  BY TokenNextInv, TokenHostStep
<1>3. TokenInv => TokenDelegateFits
  BY DEF TokenInv, NoStore, SettledFits, TokenDelegateFits, computeResourceHash
<1> QED  BY <1>1, <1>2, <1>3, PTL DEF HostSpec

-----------------------------------------------------------------------------
(***************************************************************************)
(* mcp-ratelimit                                                           *)
(***************************************************************************)

\* The keys under which the rules can ask for a delegate.
McpKeys == {findMatches(b)[k] : b \in McpBodies, k \in Nat}
McpRecords ==
    [pc : {"new", "next", "build", "store", "429", "forwarded", "refused", "done"},
     left : Seq(McpKeys), matched : Seq(McpKeys), charged : Seq(McpKeys \X Nat), failed : BOOLEAN,
     built : Nat, code : Int, reported : Seq(McpKeys \X Nat)]

\* The charges are at the delegates in the map.
ChargesFit(c, map) ==
    \A i \in 1..Len(c.charged) : /\ c.charged[i][1] \in DOMAIN map
                                 /\ map[c.charged[i][1]] = c.charged[i][2]

\* The keys charged and the ones left are the ones that matched, in this order.
MatchesServed(c) ==
    ~c.failed =>
       /\ Len(c.charged) + Len(c.left) = Len(c.matched)
       /\ \A i \in 1..Len(c.charged) : c.charged[i][1] = c.matched[i]
       /\ \A i \in 1..Len(c.left) : c.left[i] = c.matched[Len(c.charged) + i]

McpRequestFits(c) ==
    /\ ChargesFit(c, delegates)
    /\ MatchesServed(c)
    /\ c.pc = "new" => c.left = <<>> /\ c.charged = <<>> /\ c.matched = <<>>
    /\ c.pc \in {"build", "store"} => c.left # <<>>
    /\ c.pc \in {"forwarded", "done"} => c.left = <<>>
    /\ c.pc = "done" => c.reported = c.charged

McpInv ==
    /\ \E n \in Nat : DOMAIN rules.entries = 1..n
    /\ instances \in Nat
    /\ delegates \in [DOMAIN delegates -> Nat]
    /\ mcp \in [McpCallers -> McpRecords]
    /\ rules = NoRules => delegates = << >> /\ mcp = [r \in McpCallers |-> NewMcp]
    /\ \A r \in McpCallers : McpRequestFits(mcp[r])

\* The rules parsed are a list.
LEMMA ParsedList ==
  ASSUME NEW raw \in McpConfigs
  PROVE  \E n \in Nat : DOMAIN parseEntries(raw) = 1..n
<1> DEFINE E(x) == SectionEntries(raw, x)
           T == UNION {{E(x)[i] : i \in DOMAIN E(x)} : x \in Sections}
<1>1. ASSUME NEW x \in Sections PROVE E(x) \in Seq(T)
  <2> DEFINE n == Len(raw[x].items)
  <2>1. n \in Nat /\ DOMAIN raw[x].items = 1..n
    BY McpAssumption
  <2>2. E(x) = [i \in 1..n |-> E(x)[i]] /\ DOMAIN E(x) = 1..n
    BY <2>1 DEF SectionEntries
  <2>3. \A i \in 1..n : E(x)[i] \in T
    BY <2>2
  <2> HIDE DEF n, E, T
  <2> QED  BY <2>1, <2>2, <2>3
<1>2. parseEntries(raw) = E("tools") \o E("resources") \o E("prompts") \o E("methods")
  BY DEF parseEntries
<1> HIDE DEF E, T
<1>3. parseEntries(raw) \in Seq(T)
  BY <1>1, <1>2 DEF Sections
<1> QED  BY <1>3

LEMMA KeysInOrderList ==
  ASSUME NEW n \in Nat, NEW I \in SUBSET (1..n), NEW b
  PROVE  \E T : KeysInOrder(I, b) \in Seq(T)
<1>1. Cardinality(I) \in Nat
  <2>1. IsFiniteSet(1..n)
    BY FS_Interval
  <2>2. IsFiniteSet(I)
    BY <2>1, FS_Subset
  <2> QED  BY <2>2, FS_CardinalityType
<1> DEFINE k0 == KeysInOrder(I, b)
           m == Cardinality(I)
           T == {k0[k] : k \in 1..m}
<1>2. k0 = [k \in 1..m |-> k0[k]]
  BY DEF KeysInOrder
<1>3. \A k \in 1..m : k0[k] \in T
  OBVIOUS
<1> HIDE DEF k0, m, T
<1>4. k0 \in Seq(T)
  BY <1>1, <1>2, <1>3 DEF m
<1> QED  BY <1>4 DEF k0

LEMMA ConcatList ==
  ASSUME NEW S, NEW s \in Seq(S), NEW T, NEW t \in Seq(T)
  PROVE  s \o t \in Seq(S \union T)
<1>1. s \in Seq(S \union T) /\ t \in Seq(S \union T)
  OBVIOUS
<1> QED  BY <1>1

\* The matches are a list of keys.
LEMMA MatchesList ==
  ASSUME \E n \in Nat : DOMAIN rules.entries = 1..n, NEW b \in McpBodies
  PROVE  findMatches(b) \in Seq(McpKeys)
<1> DEFINE about == {i \in DOMAIN rules.entries : Subject(rules.entries[i], b) # ""}
           exact == {i \in about : rules.entries[i].name = Subject(rules.entries[i], b)}
           wild == {i \in about \ exact : rules.entries[i].name = "*"}
<1>1. findMatches(b) = KeysInOrder(exact, b) \o KeysInOrder(wild, b)
  BY DEF findMatches
<1>2. PICK n \in Nat : DOMAIN rules.entries = 1..n
  OBVIOUS
<1>3. exact \in SUBSET (1..n) /\ wild \in SUBSET (1..n)
  BY <1>2
<1> HIDE DEF exact, wild
<1>4. PICK S : KeysInOrder(exact, b) \in Seq(S)
  BY <1>3, KeysInOrderList
<1>5. PICK T : KeysInOrder(wild, b) \in Seq(T)
  BY <1>3, KeysInOrderList
<1>6. findMatches(b) \in Seq(S \union T)
  BY <1>1, <1>4, <1>5, ConcatList
<1>7. \A k \in Nat : findMatches(b)[k] \in McpKeys
  BY DEF McpKeys
<1> QED  BY <1>6, <1>7

LEMMA McpStable ==
  ASSUME rules' = rules
  PROVE  McpKeys' = McpKeys /\ McpRecords' = McpRecords
<1>1. \A b : findMatches(b)' = findMatches(b)
  BY DEF findMatches, KeysInOrder
<1>2. McpKeys' = McpKeys
  BY <1>1 DEF McpKeys
<1> QED  BY <1>2 DEF McpRecords

\* One request moves on; the map of delegates may have grown.
LEMMA McpMoves ==
  ASSUME McpInv, rules # NoRules, rules' = rules, instances' \in Nat,
         delegates' \in [DOMAIN delegates' -> Nat],
         \A k \in DOMAIN delegates : k \in DOMAIN delegates' /\ delegates'[k] = delegates[k],
         NEW r \in McpCallers, NEW c \in McpRecords, McpGoto(r, c),
         ChargesFit(c, delegates'), MatchesServed(c), c.pc # "new",
         c.pc \in {"build", "store"} => c.left # <<>>,
         c.pc \in {"forwarded", "done"} => c.left = <<>>,
         c.pc = "done" => c.reported = c.charged
  PROVE  McpInv'
<1>1. mcp' \in [McpCallers -> McpRecords]
  BY DEF McpInv, McpGoto
<1>2. ASSUME NEW q \in McpCallers PROVE McpRequestFits(mcp[q])'
  <2>1. CASE q = r
    <3>1. mcp'[q] = c
      BY <2>1 DEF McpInv, McpGoto
    <3> QED  BY <3>1 DEF McpRequestFits, MatchesServed, ChargesFit
  <2>2. CASE q # r
    <3>1. mcp'[q] = mcp[q] /\ McpRequestFits(mcp[q])
      BY <2>2 DEF McpInv, McpGoto
    <3>2. ChargesFit(mcp[q], delegates')
      BY <3>1 DEF McpRequestFits, ChargesFit
    <3> QED  BY <3>1, <3>2 DEF McpRequestFits, MatchesServed
  <2> QED  BY <2>1, <2>2
<1> QED  BY <1>1, <1>2, McpStable DEF McpInv

LEMMA McpInitInv == McpInit => McpInv
<1> SUFFICES ASSUME McpInit PROVE McpInv
  OBVIOUS
<1>1. NewMcp \in McpRecords
  BY DEF NewMcp, McpRecords
<1>2. McpRequestFits(NewMcp)
  BY DEF NewMcp, McpRequestFits, ChargesFit, MatchesServed
<1>3. DOMAIN rules.entries = 1..0
  BY DEF McpInit, NoRules
<1> QED  BY <1>1, <1>2, <1>3 DEF McpInit, McpInv

\* The request charges the first match that is left.
Invoked(c, d, pc) ==
    [c EXCEPT !.charged = Append(@, <<Head(c.left), d>>), !.left = Tail(@), !.built = 0, !.pc = pc]

LEMMA Regroup ==
  ASSUME NEW S, NEW s \in Seq(S), NEW T, NEW t \in Seq(T)
  PROVE  /\ (Len(s) + 1) + (Len(t) - 1) = Len(s) + Len(t)
         /\ \A i \in Int : Len(s) + (i + 1) = (Len(s) + 1) + i
  OBVIOUS

LEMMA McpInvokes ==
  ASSUME NEW c \in McpRecords, MatchesServed(c), c.left # <<>>, NEW d \in Nat, NEW pc \in {"429", "next"}
  PROVE  LET n == Invoked(c, d, pc)
         IN  /\ n \in McpRecords /\ MatchesServed(n) /\ n.pc = pc /\ Head(c.left) \in McpKeys
             /\ Len(n.charged) = Len(c.charged) + 1
             /\ \A i \in 1..Len(c.charged) : n.charged[i] = c.charged[i]
             /\ n.charged[Len(n.charged)] = <<Head(c.left), d>>
<1> DEFINE n == Invoked(c, d, pc)
<1>1. c.left \in Seq(McpKeys) /\ c.charged \in Seq(McpKeys \X Nat) /\ c.matched \in Seq(McpKeys)
  BY DEF McpRecords
<1>2. Head(c.left) \in McpKeys /\ Tail(c.left) \in Seq(McpKeys)
  BY <1>1
<1>3. Append(c.charged, <<Head(c.left), d>>) \in Seq(McpKeys \X Nat)
  BY <1>1, <1>2
<1>4. /\ n.charged = Append(c.charged, <<Head(c.left), d>>) /\ n.left = Tail(c.left) /\ n.matched = c.matched
      /\ n.failed = c.failed /\ n.pc = pc
  BY DEF McpRecords, Invoked
<1>5. n \in McpRecords
  BY <1>2, <1>3 DEF McpRecords, Invoked
<1> HIDE DEF n
<1>6. Len(n.charged) = Len(c.charged) + 1 /\ Len(n.left) = Len(c.left) - 1 /\ Len(c.left) > 0
  BY <1>1, <1>2, <1>4
<1>7. \A i \in 1..Len(c.charged) : n.charged[i] = c.charged[i]
  BY <1>1, <1>2, <1>4
<1>8. n.charged[Len(n.charged)] = <<Head(c.left), d>>
  BY <1>1, <1>2, <1>4
<1>9. \A i \in 1..Len(n.left) : n.left[i] = c.left[i + 1]
  BY <1>1, <1>4
<1>10. Head(c.left) = c.left[1] /\ Len(c.left) \in Nat /\ Len(c.charged) \in Nat /\ Len(c.matched) \in Nat
  BY <1>1
<1>11. (Len(c.charged) + 1) + (Len(c.left) - 1) = Len(c.charged) + Len(c.left)
  BY <1>1, Regroup
<1>12. \A i \in Int : Len(c.charged) + (i + 1) = (Len(c.charged) + 1) + i
  BY <1>1, Regroup
<1>13. ASSUME ~n.failed
       PROVE  /\ Len(n.charged) + Len(n.left) = Len(n.matched)
              /\ \A i \in 1..Len(n.charged) : n.charged[i][1] = n.matched[i]
              /\ \A i \in 1..Len(n.left) : n.left[i] = n.matched[Len(n.charged) + i]
  <2>1. /\ Len(c.charged) + Len(c.left) = Len(c.matched)
        /\ \A i \in 1..Len(c.charged) : c.charged[i][1] = c.matched[i]
        /\ \A i \in 1..Len(c.left) : c.left[i] = c.matched[Len(c.charged) + i]
    BY <1>4, <1>13 DEF MatchesServed
  <2>2. Len(n.charged) + Len(n.left) = Len(n.matched)
    BY <2>1, <1>4, <1>6, <1>11
  <2>3. ASSUME NEW i \in 1..Len(n.charged) PROVE n.charged[i][1] = n.matched[i]
    <3>1. CASE i \in 1..Len(c.charged)
      BY <3>1, <2>1, <1>4, <1>7
    <3>2. CASE i = Len(n.charged)
      BY <3>2, <2>1, <1>4, <1>6, <1>8, <1>10
    <3> QED  BY <3>1, <3>2, <1>6, <1>10
  <2>4. ASSUME NEW i \in 1..Len(n.left) PROVE n.left[i] = n.matched[Len(n.charged) + i]
    <3>1. n.left[i] = c.left[i + 1] /\ i + 1 \in 1..Len(c.left)
      BY <1>6, <1>9, <1>10
    <3>2. c.left[i + 1] = c.matched[Len(c.charged) + (i + 1)]
      BY <2>1, <3>1
    <3>3. Len(c.charged) + (i + 1) = Len(n.charged) + i
      <4>1. Len(n.left) \in Int
        BY <1>6, <1>10
      <4>2. i \in Int
        BY <4>1
      <4>3. Len(c.charged) + (i + 1) = (Len(c.charged) + 1) + i
        BY <4>2, <1>12
      <4> QED  BY <1>6, <4>3
    <3> QED  BY <3>1, <3>2, <3>3, <1>4
  <2> QED  BY <2>2, <2>3, <2>4
<1> QED  BY <1>2, <1>4, <1>5, <1>6, <1>7, <1>8, <1>13 DEF MatchesServed, n

LEMMA ReadingCases ==
  ASSUME NEW c, NEW b
  PROVE  \/ Reading(c, b) = [c EXCEPT !.pc = "forwarded"]
         \/ Reading(c, b) = [c EXCEPT !.pc = "refused", !.code = ParseError]
         \/ Reading(c, b) = [c EXCEPT !.pc = "refused", !.code = InvalidRequest]
         \/ Reading(c, b) = [c EXCEPT !.pc = "next", !.left = findMatches(b), !.matched = findMatches(b)]
  BY DEF Reading

LEMMA McpNextInv == McpInv /\ [McpNext]_mcpVars => McpInv'
<1> SUFFICES ASSUME McpInv, [McpNext]_mcpVars PROVE McpInv'
  OBVIOUS
<1>1. CASE UNCHANGED mcpVars
  <2>1. UNCHANGED <<rules, delegates, instances, mcp>>
    BY <1>1 DEF mcpVars
  <2> QED  BY <2>1, McpStable DEF McpInv, McpRequestFits, ChargesFit, MatchesServed
<1>2. CASE McpGetPolicy
  <2>1. delegates' = << >> /\ instances' = instances /\ mcp' = [r \in McpCallers |-> NewMcp]
    BY <1>2 DEF McpGetPolicy, McpInv
  <2>2. \E n \in Nat : DOMAIN rules'.entries = 1..n
    <3>1. PICK raw \in McpConfigs : rules'.entries = parseEntries(raw) \/ rules'.entries = <<>>
      BY <1>2 DEF McpGetPolicy
    <3>2. DOMAIN <<>> = 1..0
      OBVIOUS
    <3> QED  BY <3>1, <3>2, ParsedList
  <2>3. NewMcp \in McpRecords'
    BY DEF NewMcp, McpRecords
  <2>4. McpRequestFits(NewMcp)'
    BY DEF NewMcp, McpRequestFits, ChargesFit, MatchesServed
  <2> QED  BY <2>1, <2>2, <2>3, <2>4 DEF McpInv
<1>3. ASSUME NEW r \in McpCallers,
             \/ McpOnRequestBody(r) \/ McpLoad(r) \/ McpBuild(r) \/ McpLoadOrStore(r)
             \/ McpForward(r) \/ McpOnResponseHeaders(r)
      PROVE  McpInv'
  <2> DEFINE c == mcp[r]
  <2>1. c \in McpRecords /\ McpRequestFits(c) /\ instances \in Nat /\ delegates \in [DOMAIN delegates -> Nat]
    BY DEF McpInv
  <2>2. rules # NoRules
    <3>1. McpOnRequestBody(r) \/ c.pc # "new"
      BY <1>3 DEF McpStep, McpLoad, McpBuild, McpLoadOrStore, McpForward, McpOnResponseHeaders
    <3>2. rules = NoRules => c.pc = "new"
      BY DEF McpInv, NewMcp
    <3>3. NoRules.state # "ok"
      BY DEF NoRules
    <3>4. McpOnRequestBody(r) => rules.state = "ok"
      BY DEF McpOnRequestBody
    <3> QED  BY <3>1, <3>2, <3>3, <3>4
  <2>3. CASE McpOnRequestBody(r)
    <3>1. c.pc = "new" /\ UNCHANGED <<rules, delegates, instances>>
      BY <2>3 DEF McpOnRequestBody, McpStep
    <3>2. c.left = <<>> /\ c.charged = <<>> /\ c.matched = <<>>
      BY <2>1, <3>1 DEF McpRequestFits
    <3>3. ASSUME NEW pc \in {"forwarded", "refused"}, NEW code \in Int,
                 McpGoto(r, [c EXCEPT !.pc = pc, !.code = code])
          PROVE  McpInv'
      <4> DEFINE n == [c EXCEPT !.pc = pc, !.code = code]
      <4>1. /\ n \in McpRecords /\ n.pc = pc /\ n.left = <<>> /\ n.charged = <<>> /\ n.matched = <<>>
        BY <2>1, <3>2 DEF McpRecords
      <4> HIDE DEF n
      <4>2. ChargesFit(n, delegates') /\ MatchesServed(n)
        BY <4>1 DEF ChargesFit, MatchesServed
      <4> QED  BY <2>1, <2>2, <3>1, <3>3, <4>1, <4>2, McpMoves DEF n
    <3>4. ASSUME NEW b \in McpBodies,
                 McpGoto(r, [c EXCEPT !.pc = "next", !.left = findMatches(b), !.matched = findMatches(b)])
          PROVE  McpInv'
      <4> DEFINE m == findMatches(b)
                 n == [c EXCEPT !.pc = "next", !.left = m, !.matched = m]
      <4>1. m \in Seq(McpKeys)
        BY MatchesList DEF McpInv
      <4> HIDE DEF m
      <4>2. /\ n \in McpRecords /\ n.pc = "next" /\ n.left = m /\ n.charged = <<>> /\ n.matched = m
        BY <2>1, <3>2, <4>1 DEF McpRecords
      <4> HIDE DEF n
      <4>3. ChargesFit(n, delegates') /\ MatchesServed(n)
        BY <4>1, <4>2 DEF ChargesFit, MatchesServed
      <4> QED  BY <2>1, <2>2, <3>1, <3>4, <4>2, <4>3, McpMoves DEF n, m
    <3>5. PICK b \in McpBodies : McpGoto(r, Reading(c, b))
      BY <2>3 DEF McpOnRequestBody
    <3>6. [c EXCEPT !.pc = "forwarded"] = [c EXCEPT !.pc = "forwarded", !.code = c.code] /\ c.code \in Int
      BY <2>1 DEF McpRecords
    <3>7. \/ Reading(c, b) = [c EXCEPT !.pc = "forwarded", !.code = c.code]
          \/ Reading(c, b) = [c EXCEPT !.pc = "refused", !.code = ParseError]
          \/ Reading(c, b) = [c EXCEPT !.pc = "refused", !.code = InvalidRequest]
          \/ Reading(c, b) = [c EXCEPT !.pc = "next", !.left = findMatches(b), !.matched = findMatches(b)]
      BY <3>6, ReadingCases
    <3>8. ParseError \in Int /\ InvalidRequest \in Int
      BY DEF ParseError, InvalidRequest
    <3>9. CASE Reading(c, b) = [c EXCEPT !.pc = "forwarded", !.code = c.code]
      BY <3>3, <3>5, <3>6, <3>9
    <3>10. CASE Reading(c, b) = [c EXCEPT !.pc = "refused", !.code = ParseError]
      BY <3>3, <3>5, <3>8, <3>10
    <3>11. CASE Reading(c, b) = [c EXCEPT !.pc = "refused", !.code = InvalidRequest]
      BY <3>3, <3>5, <3>8, <3>11
    <3>12. CASE Reading(c, b) = [c EXCEPT !.pc = "next", !.left = findMatches(b), !.matched = findMatches(b)]
      BY <3>4, <3>5, <3>12
    <3> QED  BY <3>7, <3>9, <3>10, <3>11, <3>12
  <2>4. CASE McpLoad(r)
    <3>1. c.pc = "next" /\ c.left # <<>> /\ UNCHANGED <<rules, delegates, instances>>
      BY <2>4 DEF McpLoad, McpStep
    <3>2. CASE Key(r) \in DOMAIN delegates
      <4> DEFINE d == delegates[Key(r)]
      <4>1. PICK denied \in BOOLEAN : McpGoto(r, Invoke(r, d, denied))
        BY <2>4, <3>2 DEF McpLoad
      <4> DEFINE n == Invoke(r, d, denied)
                 pc == IF denied THEN "429" ELSE "next"
      <4>2. d \in Nat /\ Key(r) = Head(c.left)
        BY <2>1, <3>2 DEF Key
      <4>3. n = Invoked(c, d, pc)
        BY DEF Invoke, Key, Invoked
      <4>4. pc \in {"429", "next"}
        OBVIOUS
      <4> HIDE DEF n, pc, d
      <4>5. /\ n \in McpRecords /\ MatchesServed(n) /\ n.pc = pc /\ Head(c.left) \in McpKeys
            /\ Len(n.charged) = Len(c.charged) + 1
            /\ \A i \in 1..Len(c.charged) : n.charged[i] = c.charged[i]
            /\ n.charged[Len(n.charged)] = <<Head(c.left), d>>
        BY <2>1, <3>1, <4>2, <4>3, <4>4, McpInvokes DEF McpRequestFits
      <4>6. ChargesFit(n, delegates')
        <5>1. ChargesFit(c, delegates) /\ Len(c.charged) \in Nat
          BY <2>1 DEF McpRequestFits, McpRecords
        <5>2. ASSUME NEW i \in 1..Len(n.charged)
              PROVE  n.charged[i][1] \in DOMAIN delegates' /\ delegates'[n.charged[i][1]] = n.charged[i][2]
          <6>1. CASE i = Len(n.charged)
            BY <6>1, <3>1, <3>2, <4>2, <4>5 DEF d
          <6>2. CASE i \in 1..Len(c.charged)
            BY <6>2, <3>1, <4>5, <5>1 DEF ChargesFit
          <6> QED  BY <6>1, <6>2, <4>5, <5>1
        <5> QED  BY <5>2 DEF ChargesFit
      <4> QED  BY <2>1, <2>2, <3>1, <4>1, <4>4, <4>5, <4>6, McpMoves DEF n
    <3>3. CASE Key(r) \notin DOMAIN delegates
      <4> DEFINE n == [c EXCEPT !.pc = "build"]
      <4>1. McpGoto(r, n)
        BY <2>4, <3>3 DEF McpLoad
      <4>2. n \in McpRecords /\ n.pc = "build" /\ n.left = c.left /\ n.charged = c.charged /\ n.matched = c.matched
            /\ n.failed = c.failed
        BY <2>1 DEF McpRecords
      <4> HIDE DEF n
      <4>3. ChargesFit(n, delegates') /\ MatchesServed(n)
        BY <2>1, <3>1, <4>2 DEF ChargesFit, MatchesServed, McpRequestFits
      <4> QED  BY <2>1, <2>2, <3>1, <4>1, <4>2, <4>3, McpMoves
    <3> QED  BY <3>2, <3>3
  <2>5. CASE McpBuild(r)
    <3>1. c.pc = "build" /\ UNCHANGED <<rules, delegates>>
      BY <2>5 DEF McpBuild, McpStep
    <3>2. ASSUME instances' = instances + 1, McpGoto(r, [c EXCEPT !.pc = "store", !.built = instances + 1])
          PROVE  McpInv'
      <4> DEFINE n == [c EXCEPT !.pc = "store", !.built = instances + 1]
      <4>0. instances + 1 \in Nat
        BY <2>1
      <4>1. /\ n \in McpRecords /\ n.pc = "store" /\ n.left = c.left /\ n.charged = c.charged
            /\ n.matched = c.matched /\ n.failed = c.failed
        BY <2>1, <4>0 DEF McpRecords
      <4> HIDE DEF n
      <4>2. ChargesFit(n, delegates') /\ MatchesServed(n) /\ n.left # <<>>
        BY <2>1, <3>1, <4>1 DEF ChargesFit, MatchesServed, McpRequestFits
      <4>3. McpGoto(r, n) /\ instances' \in Nat
        BY <3>2, <4>0 DEF n
      <4> QED  BY <2>1, <2>2, <3>1, <4>1, <4>2, <4>3, McpMoves
    <3>3. ASSUME UNCHANGED instances, McpGoto(r, [c EXCEPT !.pc = "next", !.left = Tail(@), !.failed = TRUE])
          PROVE  McpInv'
      <4> DEFINE n == [c EXCEPT !.pc = "next", !.left = Tail(@), !.failed = TRUE]
      <4>0. Tail(c.left) \in Seq(McpKeys)
        BY <2>1, <3>1 DEF McpRecords, McpRequestFits
      <4>1. n \in McpRecords /\ n.pc = "next" /\ n.charged = c.charged /\ n.failed
        BY <2>1, <4>0 DEF McpRecords
      <4> HIDE DEF n
      <4>2. ChargesFit(n, delegates') /\ MatchesServed(n)
        BY <2>1, <3>1, <4>1 DEF ChargesFit, MatchesServed, McpRequestFits
      <4> QED  BY <2>1, <2>2, <3>1, <3>3, <4>1, <4>2, McpMoves DEF n
    <3> QED  BY <2>5, <3>2, <3>3 DEF McpBuild
  <2>6. CASE McpLoadOrStore(r)
    <3> DEFINE k == Key(r)
               d == Winner(k, c.built)
    <3>1. /\ c.pc = "store" /\ UNCHANGED <<rules, instances>>
          /\ delegates' = [q \in DOMAIN delegates \union {k} |-> IF q = k THEN d ELSE delegates[q]]
      BY <2>6 DEF McpLoadOrStore, McpStep
    <3>2. PICK denied \in BOOLEAN : McpGoto(r, Invoke(r, d, denied))
      BY <2>6 DEF McpLoadOrStore
    <3> DEFINE n == Invoke(r, d, denied)
               pc == IF denied THEN "429" ELSE "next"
    <3>3. d \in Nat /\ k = Head(c.left)
      BY <2>1 DEF Key, Winner, McpRecords
    <3>4. n = Invoked(c, d, pc)
      BY DEF Invoke, Key, Invoked
    <3>5. pc \in {"429", "next"}
      OBVIOUS
    <3>6. k \in DOMAIN delegates => d = delegates[k]
      BY DEF Winner
    <3> HIDE DEF n, pc, d, k
    <3>7. /\ n \in McpRecords /\ MatchesServed(n) /\ n.pc = pc /\ Head(c.left) \in McpKeys
          /\ Len(n.charged) = Len(c.charged) + 1
          /\ \A i \in 1..Len(c.charged) : n.charged[i] = c.charged[i]
          /\ n.charged[Len(n.charged)] = <<Head(c.left), d>>
      BY <2>1, <3>1, <3>3, <3>4, <3>5, McpInvokes DEF McpRequestFits
    <3>8. /\ delegates' \in [DOMAIN delegates' -> Nat] /\ k \in DOMAIN delegates' /\ delegates'[k] = d
          /\ \A q \in DOMAIN delegates : q \in DOMAIN delegates' /\ delegates'[q] = delegates[q]
      BY <2>1, <3>1, <3>3, <3>6
    <3>9. ChargesFit(n, delegates')
      <4>1. ChargesFit(c, delegates) /\ Len(c.charged) \in Nat
        BY <2>1 DEF McpRequestFits, McpRecords
      <4>2. ASSUME NEW i \in 1..Len(n.charged)
            PROVE  n.charged[i][1] \in DOMAIN delegates' /\ delegates'[n.charged[i][1]] = n.charged[i][2]
        <5>1. CASE i = Len(n.charged)
          BY <5>1, <3>3, <3>7, <3>8
        <5>2. CASE i \in 1..Len(c.charged)
          BY <5>2, <4>1, <3>7, <3>8 DEF ChargesFit
        <5> QED  BY <5>1, <5>2, <4>1, <3>7
      <4> QED  BY <4>2 DEF ChargesFit
    <3> QED  BY <2>1, <2>2, <3>1, <3>2, <3>5, <3>7, <3>8, <3>9, McpMoves DEF n
  <2>7. CASE McpForward(r)
    <3> DEFINE n == [c EXCEPT !.pc = "forwarded"]
    <3>1. McpGoto(r, n) /\ c.left = <<>> /\ UNCHANGED <<rules, delegates, instances>>
      BY <2>7 DEF McpForward, McpStep
    <3>2. /\ n \in McpRecords /\ n.pc = "forwarded" /\ n.left = c.left /\ n.charged = c.charged
          /\ n.matched = c.matched /\ n.failed = c.failed
      BY <2>1 DEF McpRecords
    <3> HIDE DEF n
    <3>3. ChargesFit(n, delegates') /\ MatchesServed(n)
      BY <2>1, <3>1, <3>2 DEF ChargesFit, MatchesServed, McpRequestFits
    <3> QED  BY <2>1, <2>2, <3>1, <3>2, <3>3, McpMoves
  <2>8. CASE McpOnResponseHeaders(r)
    <3> DEFINE rep == [i \in DOMAIN c.charged |-> <<c.charged[i][1], delegates[c.charged[i][1]]>>]
               n == [c EXCEPT !.pc = "done", !.reported = rep]
    <3>1. McpGoto(r, n) /\ c.pc = "forwarded" /\ UNCHANGED <<rules, delegates, instances>>
      BY <2>8 DEF McpOnResponseHeaders, McpStep
    <3>2. rep = c.charged
      <4>1. c.charged \in Seq(McpKeys \X Nat)
        BY <2>1 DEF McpRecords
      <4>2. ChargesFit(c, delegates)
        BY <2>1 DEF McpRequestFits
      <4>3. \A i \in 1..Len(c.charged) : c.charged[i] = <<c.charged[i][1], c.charged[i][2]>>
        BY <4>1
      <4>4. \A i \in 1..Len(c.charged) : <<c.charged[i][1], delegates[c.charged[i][1]]>> = c.charged[i]
        BY <4>2, <4>3 DEF ChargesFit
      <4>5. DOMAIN c.charged = 1..Len(c.charged) /\ c.charged = [i \in 1..Len(c.charged) |-> c.charged[i]]
        BY <4>1
      <4> QED  BY <4>4, <4>5
    <3> HIDE DEF rep
    <3>3. /\ n \in McpRecords /\ n.pc = "done" /\ n.left = c.left /\ n.charged = c.charged
          /\ n.matched = c.matched /\ n.failed = c.failed /\ n.reported = c.charged
      BY <2>1, <3>2 DEF McpRecords
    <3> HIDE DEF n
    <3>4. ChargesFit(n, delegates') /\ MatchesServed(n) /\ n.left = <<>>
      BY <2>1, <3>1, <3>3 DEF ChargesFit, MatchesServed, McpRequestFits
    <3> QED  BY <2>1, <2>2, <3>1, <3>3, <3>4, McpMoves
  <2> QED  BY <1>3, <2>3, <2>4, <2>5, <2>6, <2>7, <2>8
<1> QED  BY <1>1, <1>2, <1>3 DEF McpNext

LEMMA McpHostStep == [HostNext]_hostVars => [McpNext]_mcpVars
  BY DEF HostNext, hostVars, mcpVars

\* All requests for one rule and capability of mcp-ratelimit are charged to the one
\* delegate in the map, which reports, and a request that goes on was charged once to
\* every rule that matches it: resolveDelegate with LoadOrStore, for any rules, bodies
\* and number of requests.
THEOREM McpOneDelegateHolds == HostSpec => []McpOneDelegate
<1>1. HostInit => McpInv
  BY McpInitInv DEF HostInit
<1>2. McpInv /\ [HostNext]_hostVars => McpInv'
  BY McpNextInv, McpHostStep
<1>3. McpInv => McpOneDelegate
  <2> SUFFICES ASSUME McpInv, NEW r \in McpCallers
               PROVE  /\ \A i \in DOMAIN mcp[r].charged : delegates[mcp[r].charged[i][1]] = mcp[r].charged[i][2]
                      /\ mcp[r].pc = "done" => mcp[r].reported = mcp[r].charged
                      /\ mcp[r].pc \in {"forwarded", "done"} /\ ~mcp[r].failed => ChargedKeys(r) = mcp[r].matched
    BY DEF McpOneDelegate
  <2>1. mcp[r] \in McpRecords /\ McpRequestFits(mcp[r])
    BY DEF McpInv
  <2>2. \A i \in DOMAIN mcp[r].charged : delegates[mcp[r].charged[i][1]] = mcp[r].charged[i][2]
    <3>1. DOMAIN mcp[r].charged = 1..Len(mcp[r].charged)
      BY <2>1 DEF McpRecords
    <3>2. ChargesFit(mcp[r], delegates)
      BY <2>1 DEF McpRequestFits
    <3> QED  BY <3>1, <3>2 DEF ChargesFit
  <2>3. ASSUME mcp[r].pc \in {"forwarded", "done"}, ~mcp[r].failed PROVE ChargedKeys(r) = mcp[r].matched
    <3>1. mcp[r].charged \in Seq(McpKeys \X Nat) /\ mcp[r].matched \in Seq(McpKeys) /\ mcp[r].left = <<>>
      BY <2>1, <2>3 DEF McpRecords, McpRequestFits
    <3>2. Len(mcp[r].charged) = Len(mcp[r].matched)
      BY <2>1, <2>3, <3>1 DEF McpRequestFits, MatchesServed
    <3>3. \A i \in 1..Len(mcp[r].charged) : mcp[r].charged[i][1] = mcp[r].matched[i]
      BY <2>1, <2>3 DEF McpRequestFits, MatchesServed
    <3>4. DOMAIN mcp[r].charged = 1..Len(mcp[r].charged)
      BY <3>1
    <3>5. mcp[r].matched = [i \in 1..Len(mcp[r].matched) |-> mcp[r].matched[i]]
      BY <3>1
    <3>6. ChargedKeys(r) = [i \in 1..Len(mcp[r].charged) |-> mcp[r].charged[i][1]]
      BY <3>4 DEF ChargedKeys
    <3> QED  BY <3>2, <3>3, <3>5, <3>6
  <2> QED  BY <2>1, <2>2, <2>3 DEF McpRequestFits
<1> QED  BY <1>1, <1>2, <1>3, PTL DEF HostSpec

-----------------------------------------------------------------------------
(***************************************************************************)
(* subscription-validation.  The invariant bounds, for the counter of a    *)
(* subscription, the admissions since every moment: since the start of its *)
(* window those it counts, since one window earlier a quota more.          *)
(***************************************************************************)

\* A set of admissions, each with its stamp.
Stamped(S) == IsFiniteSet(S) /\ \A a \in S : a[1] \in Int

\* The admissions stamped x or later.
Since(S, x) == {a \in S : a[1] >= x}

\* Of the window of length W that starts at w, n <= lim admissions are counted; the
\* evictions so far account for extra.
Carried(S, w, n, W, lim, extra) ==
    \A x \in Int : /\ x >= w + W => Cardinality(Since(S, x)) = 0
                   /\ x >= w     => Cardinality(Since(S, x)) <= n + extra
                   /\ x >= w - W => Cardinality(Since(S, x)) <= n + lim + extra

SpansKept(S, W, lim, extra) ==
    \A x \in Int : Cardinality(Within(S, x, x + (W - LockLag))) <= lim + lim + extra

LEMMA SinceCounts ==
  ASSUME NEW S, Stamped(S), NEW x \in Int
  PROVE  Cardinality(Since(S, x)) \in Nat
<1>1. IsFiniteSet(Since(S, x))
  BY FS_Subset DEF Since, Stamped
<1> QED  BY <1>1, FS_CardinalityType

\* One more admission, stamped t.
LEMMA OneMore ==
  ASSUME NEW S, Stamped(S), NEW a, a \notin S, a[1] \in Int, NEW x \in Int, NEW y \in Int
  PROVE  /\ Stamped(S \union {a})
         /\ Cardinality(Since(S \union {a}, x)) = Cardinality(Since(S, x)) + (IF a[1] >= x THEN 1 ELSE 0)
         /\ Cardinality(Within(S \union {a}, x, y)) \in Nat
         /\ ~(a[1] \in x..y) => Within(S \union {a}, x, y) = Within(S, x, y)
         /\ Cardinality(Within(S \union {a}, x, y)) <= Cardinality(Since(S \union {a}, x))
<1>1. Stamped(S \union {a})
  BY FS_AddElement DEF Stamped
<1>2. IsFiniteSet(Since(S, x)) /\ IsFiniteSet(Since(S \union {a}, x))
  BY <1>1, FS_Subset DEF Since, Stamped
<1>3. Cardinality(Since(S \union {a}, x)) = Cardinality(Since(S, x)) + (IF a[1] >= x THEN 1 ELSE 0)
  <2>1. CASE a[1] >= x
    <3>1. Since(S \union {a}, x) = Since(S, x) \union {a} /\ a \notin Since(S, x)
      BY <2>1 DEF Since
    <3> QED  BY <1>2, <2>1, <3>1, FS_AddElement
  <2>2. CASE ~(a[1] >= x)
    <3>1. Since(S \union {a}, x) = Since(S, x)
      BY <2>2 DEF Since
    <3>2. Cardinality(Since(S, x)) \in Nat
      BY <1>2, FS_CardinalityType
    <3> QED  BY <2>2, <3>1, <3>2
  <2> QED  BY <2>1, <2>2
<1>4. Within(S \union {a}, x, y) \subseteq Since(S \union {a}, x)
  BY <1>1 DEF Within, Since, Stamped
<1>5. /\ IsFiniteSet(Within(S \union {a}, x, y))
      /\ Cardinality(Within(S \union {a}, x, y)) <= Cardinality(Since(S \union {a}, x))
  BY <1>2, <1>4, FS_Subset
<1>6. Cardinality(Within(S \union {a}, x, y)) \in Nat
  BY <1>5, FS_CardinalityType
<1>7. ~(a[1] \in x..y) => Within(S \union {a}, x, y) = Within(S, x, y)
  BY DEF Within
<1> QED  BY <1>1, <1>3, <1>5, <1>6, <1>7

\* An admission counted in the window that starts at w keeps every bound.
LEMMA Admits ==
  ASSUME NEW S, Stamped(S), NEW a, a \notin S, NEW t \in Int, a[1] = t,
         NEW w \in Int, NEW n \in Nat, NEW W \in Nat, NEW lim \in Nat, NEW extra \in Nat,
         LockLag \in Nat, n + 1 <= lim, w - LockLag <= t, t < w + W,
         Carried(S, w, n, W, lim, extra), SpansKept(S, W, lim, extra)
  PROVE  /\ Stamped(S \union {a})
         /\ Carried(S \union {a}, w, n + 1, W, lim, extra)
         /\ SpansKept(S \union {a}, W, lim, extra)
<1>1. Stamped(S \union {a})
  BY OneMore
<1>2. Carried(S \union {a}, w, n + 1, W, lim, extra)
  <2> SUFFICES ASSUME NEW x \in Int
               PROVE  /\ x >= w + W => Cardinality(Since(S \union {a}, x)) = 0
                      /\ x >= w     => Cardinality(Since(S \union {a}, x)) <= (n + 1) + extra
                      /\ x >= w - W => Cardinality(Since(S \union {a}, x)) <= (n + 1) + lim + extra
    BY Zenon DEF Carried
  <2>1. Cardinality(Since(S \union {a}, x)) = Cardinality(Since(S, x)) + (IF a[1] >= x THEN 1 ELSE 0)
    BY OneMore
  <2>2. Cardinality(Since(S, x)) \in Nat
    BY SinceCounts
  <2>3. /\ x >= w + W => Cardinality(Since(S, x)) = 0
        /\ x >= w     => Cardinality(Since(S, x)) <= n + extra
        /\ x >= w - W => Cardinality(Since(S, x)) <= n + lim + extra
    BY Zenon DEF Carried
  <2> QED  BY <2>1, <2>2, <2>3
<1>3. SpansKept(S \union {a}, W, lim, extra)
  <2> SUFFICES ASSUME NEW x \in Int
               PROVE  Cardinality(Within(S \union {a}, x, x + (W - LockLag))) <= lim + lim + extra
    BY Zenon DEF SpansKept
  <2>0. x + (W - LockLag) \in Int
    OBVIOUS
  <2>1. CASE t \in x..(x + (W - LockLag))
    <3>1. Cardinality(Since(S \union {a}, x)) <= (n + 1) + lim + extra
      BY <1>2, <2>1 DEF Carried
    <3>2. /\ Cardinality(Within(S \union {a}, x, x + (W - LockLag))) \in Nat
          /\ Cardinality(Within(S \union {a}, x, x + (W - LockLag))) <= Cardinality(Since(S \union {a}, x))
      BY <2>0, OneMore
    <3>3. Cardinality(Since(S \union {a}, x)) \in Nat
      BY <1>1, SinceCounts
    <3> QED  BY <3>1, <3>2, <3>3
  <2>2. CASE ~(t \in x..(x + (W - LockLag)))
    <3>1. Within(S \union {a}, x, x + (W - LockLag)) = Within(S, x, x + (W - LockLag))
      BY <2>2 DEF Within
    <3> QED  BY <3>1 DEF SpansKept
  <2> QED  BY <2>1, <2>2
<1> QED  BY <1>1, <1>2, <1>3

\* The next window starts a window later, or after an eviction, which accounts for a quota.
LEMMA Reopens ==
  ASSUME NEW S, Stamped(S), NEW w \in Int, NEW v \in Int, NEW n \in Nat, NEW W \in Nat,
         NEW lim \in Nat, NEW extra \in Nat, NEW more \in Nat, n <= lim,
         Carried(S, w, n, W, lim, extra),
         \/ v >= w + W /\ more >= extra
         \/ v >= w /\ more >= extra + lim
         \/ v >= w /\ n = 0 /\ more >= extra
  PROVE  Carried(S, v, 0, W, lim, more)
<1> SUFFICES ASSUME NEW x \in Int
             PROVE  /\ x >= v + W => Cardinality(Since(S, x)) = 0
                    /\ x >= v     => Cardinality(Since(S, x)) <= 0 + more
                    /\ x >= v - W => Cardinality(Since(S, x)) <= 0 + lim + more
  BY Zenon DEF Carried
<1>1. Cardinality(Since(S, x)) \in Nat
  BY SinceCounts
<1>2. /\ x >= w + W => Cardinality(Since(S, x)) = 0
      /\ x >= w     => Cardinality(Since(S, x)) <= n + extra
      /\ x >= w - W => Cardinality(Since(S, x)) <= n + lim + extra
  BY Zenon DEF Carried
<1> QED  BY <1>1, <1>2

-----------------------------------------------------------------------------
\* A request that waits for the mutex has a plan to be counted by, and waits at most LockLag.
WaitsFit(w) ==
    w.busy => /\ Entry(w) \in DOMAIN Subscriptions
              /\ Plan(w).limit > 0 /\ windowDuration(Plan(w).unit) > 0
              /\ w.stamp \in Int /\ w.stamp <= subClock /\ subClock <= w.stamp + LockLag

\* The admissions with one stamp are numbered from 0.
Numbered(S) ==
    \A a \in S : /\ Cardinality({b \in S : b[1] = a[1]}) \in Nat
                 /\ a[2] \in Nat /\ a[2] < Cardinality({b \in S : b[1] = a[1]})

CounterFits(r) ==
    /\ r.windowStart \in Int /\ r.count \in Nat /\ r.lastSeen \in Int
    /\ r.windowStart <= subClock /\ r.windowStart - LockLag <= r.lastSeen

Window(s) == windowDuration(Subscriptions[s].unit)
Quota(s) == Subscriptions[s].limit
Extra(s) == Quota(s) * Lost(s)

\* The admissions that the counter of s counts.
Counted(s) ==
    IF rateLimits[s[2]].count <= Quota(s) THEN rateLimits[s[2]].count ELSE Quota(s)

QuotaFits(s) ==
    /\ SpansKept(stamps[s[2]], Window(s), Quota(s), Extra(s))
    /\ s[2] \in DOMAIN rateLimits =>
          Carried(stamps[s[2]], rateLimits[s[2]].windowStart, Counted(s), Window(s), Quota(s), Extra(s))
    /\ s[2] \notin DOMAIN rateLimits =>
          Carried(stamps[s[2]], subClock - LockLag, 0, Window(s), Quota(s), Extra(s))

SubTypes ==
    /\ subClock \in Int
    /\ active \subseteq DOMAIN Subscriptions
    /\ waiting = [c \in SubCallers |-> waiting[c]]
    /\ \A c \in SubCallers : WaitsFit(waiting[c])
    /\ \A id \in DOMAIN rateLimits : CounterFits(rateLimits[id])
    /\ stamps = [id \in Ids |-> stamps[id]]
    /\ \A id \in Ids : Stamped(stamps[id]) /\ Numbered(stamps[id])
    /\ evictions \in [Ids -> Nat]

SubInv ==
    /\ SubTypes
    /\ \A s \in DOMAIN Subscriptions : OnePlan(s) => QuotaFits(s)

LEMMA PlanTypes ==
  ASSUME NEW s \in DOMAIN Subscriptions, OnePlan(s)
  PROVE  Quota(s) \in Nat /\ Quota(s) > 0 /\ Window(s) \in Nat /\ Window(s) > 0 /\ s[2] \in Ids
  BY SubscriptionAssumption DEF Quota, Window, OnePlan, windowDuration, Ids

LEMMA LostType ==
  ASSUME NEW s \in DOMAIN Subscriptions, OnePlan(s), evictions \in [Ids -> Nat]
  PROVE  Lost(s) \in Nat /\ Extra(s) \in Nat
<1>1. Lost(s) \in Nat
  BY PlanTypes DEF Lost
<1> QED  BY <1>1, PlanTypes DEF Extra

LEMMA NoneYet ==
  ASSUME NEW w \in Int, NEW W \in Nat, NEW lim \in Nat, NEW extra \in Nat
  PROVE  Stamped({}) /\ Numbered({}) /\ Carried({}, w, 0, W, lim, extra) /\ SpansKept({}, W, lim, extra)
<1>1. IsFiniteSet({}) /\ Cardinality({}) = 0
  BY FS_EmptySet
<1>2. \A x : Since({}, x) = {}
  BY DEF Since
<1>3. \A x, y : Within({}, x, y) = {}
  BY DEF Within
<1>4. Stamped({}) /\ Numbered({})
  BY <1>1 DEF Stamped, Numbered
<1>5. 0 <= 0 + extra /\ 0 <= 0 + lim + extra /\ 0 <= lim + lim + extra
  OBVIOUS
<1>6. Carried({}, w, 0, W, lim, extra)
  BY <1>1, <1>2, <1>5, Zenon DEF Carried
<1>7. SpansKept({}, W, lim, extra)
  BY <1>1, <1>3, <1>5, Zenon DEF SpansKept
<1> QED  BY <1>4, <1>6, <1>7

LEMMA SubInitInv == SubInit => SubInv
<1> SUFFICES ASSUME SubInit PROVE SubInv
  OBVIOUS
<1>1. SubTypes
  <2>1. /\ subClock \in Int /\ active \subseteq DOMAIN Subscriptions
        /\ waiting = [c \in SubCallers |-> waiting[c]]
        /\ \A c \in SubCallers : WaitsFit(waiting[c])
    BY DEF SubInit, Idle, WaitsFit
  <2>2. DOMAIN rateLimits = {}
    BY DEF SubInit
  <2>3. Stamped({}) /\ Numbered({})
    BY FS_EmptySet DEF Stamped, Numbered
  <2>4. /\ stamps = [id \in Ids |-> stamps[id]] /\ evictions \in [Ids -> Nat]
        /\ \A id \in Ids : stamps[id] = {}
    BY DEF SubInit
  <2> QED  BY <2>1, <2>2, <2>3, <2>4 DEF SubTypes
<1>2. ASSUME NEW s \in DOMAIN Subscriptions, OnePlan(s) PROVE QuotaFits(s)
  <2>1. Quota(s) \in Nat /\ Window(s) \in Nat /\ s[2] \in Ids /\ Extra(s) \in Nat
    BY <1>1, <1>2, PlanTypes, LostType DEF SubTypes
  <2>2. stamps[s[2]] = {} /\ DOMAIN rateLimits = {}
    BY <2>1 DEF SubInit
  <2>3. subClock - LockLag \in Int
    BY SubscriptionAssumption DEF SubInit
  <2>4. /\ Carried({}, subClock - LockLag, 0, Window(s), Quota(s), Extra(s))
        /\ SpansKept({}, Window(s), Quota(s), Extra(s))
    BY <2>1, <2>3, NoneYet
  <2> QED  BY <2>2, <2>4 DEF QuotaFits
<1> QED  BY <1>1, <1>2 DEF SubInv

\* A step that touches neither the counters nor the clock leaves the quotas alone.
LEMMA QuotasUntouched ==
  ASSUME SubInv, SubTypes', UNCHANGED <<rateLimits, stamps, evictions, subClock>>
  PROVE  SubInv'
<1>1. ASSUME NEW s \in DOMAIN Subscriptions, OnePlan(s) PROVE QuotaFits(s)'
  BY <1>1 DEF SubInv, QuotaFits, Counted, Extra, Lost
<1> QED  BY <1>1 DEF SubInv

LEMMA GetPolicyQuotas == SubInv /\ SubGetPolicy => SubInv'
<1> SUFFICES ASSUME SubInv, SubGetPolicy PROVE SubInv'
  OBVIOUS
<1>1. UNCHANGED <<active, rateLimits, subClock, waiting, stamps, evictions>>
  BY DEF SubGetPolicy
<1>2. SubTypes'
  BY <1>1 DEF SubInv, SubTypes, WaitsFit, CounterFits
<1> QED  BY <1>1, <1>2, QuotasUntouched

LEMMA ChangeQuotas == SubInv /\ ChangeSubscription => SubInv'
<1> SUFFICES ASSUME SubInv, ChangeSubscription PROVE SubInv'
  OBVIOUS
<1>1. UNCHANGED <<rateLimits, subClock, waiting, stamps, evictions>>
  BY DEF ChangeSubscription
<1>2. active' \subseteq DOMAIN Subscriptions
  BY DEF ChangeSubscription, SubInv, SubTypes
<1>3. SubTypes'
  BY <1>1, <1>2 DEF SubInv, SubTypes, WaitsFit, CounterFits
<1> QED  BY <1>1, <1>3, QuotasUntouched

LEMMA LookupQuotas == ASSUME NEW c \in SubCallers, SubInv, Lookup(c) PROVE SubInv'
<1>1. UNCHANGED <<active, rateLimits, subClock, stamps, evictions>>
  BY DEF Lookup
<1>2. PICK w : waiting' = [waiting EXCEPT ![c] = w] /\ WaitsFit(w)
  <2>1. PICK r \in SubRequests :
          LET who == Identity(r)
              found == r.apiKnown /\ who.by # "none" /\ Entry(who) \in active
              counted == found /\ Plan(who).limit > 0 /\ windowDuration(Plan(who).unit) > 0
          IN  waiting' = [waiting EXCEPT ![c] =
                    IF counted THEN [busy |-> TRUE, by |-> who.by, id |-> who.id, stamp |-> subClock]
                    ELSE Idle]
    BY Zenon DEF Lookup
  <2> DEFINE who == Identity(r)
             w == [busy |-> TRUE, by |-> who.by, id |-> who.id, stamp |-> subClock]
  <2>2. Entry(w) = Entry(who) /\ Plan(w) = Plan(who)
    BY DEF Entry, Plan
  <2>3. WaitsFit(Idle)
    BY DEF WaitsFit, Idle
  <2>4. ASSUME Entry(who) \in active, Plan(who).limit > 0, windowDuration(Plan(who).unit) > 0
        PROVE  WaitsFit(w)
    <3>1. subClock \in Int /\ active \subseteq DOMAIN Subscriptions /\ LockLag \in Nat
      BY SubscriptionAssumption DEF SubInv, SubTypes
    <3>2. w.stamp = subClock
      OBVIOUS
    <3> HIDE DEF w
    <3> QED  BY <2>2, <2>4, <3>1, <3>2 DEF WaitsFit
  <2> HIDE DEF w
  <2> QED  BY <2>1, <2>3, <2>4, Zenon DEF w
<1>3. waiting' = [d \in SubCallers |-> waiting'[d]] /\ \A d \in SubCallers : waiting'[d] = waiting[d] \/ waiting'[d] = w
  BY <1>2 DEF SubInv, SubTypes
<1>4. \A d \in SubCallers : WaitsFit(waiting[d])' 
  BY <1>1, <1>2, <1>3 DEF SubInv, SubTypes, WaitsFit
<1>5. SubTypes'
  BY <1>1, <1>3, <1>4 DEF SubInv, SubTypes, CounterFits
<1> QED  BY <1>1, <1>5, QuotasUntouched

LEMMA TickQuotas == SubInv /\ SubTick => SubInv'
<1> SUFFICES ASSUME SubInv, SubTick PROVE SubInv'
  OBVIOUS
<1> USE SubscriptionAssumption
<1>1. /\ UNCHANGED <<active, rateLimits, waiting, stamps, evictions>>
      /\ subClock' = subClock + 1 /\ subClock \in Int
  BY DEF SubTick, SubInv, SubTypes
<1>2. \A c \in SubCallers : WaitsFit(waiting[c])'
  <2> SUFFICES ASSUME NEW c \in SubCallers PROVE WaitsFit(waiting[c])'
    BY <1>1
  <2>1. WaitsFit(waiting[c]) /\ (waiting[c].busy => subClock < waiting[c].stamp + LockLag)
    BY DEF SubTick, SubInv, SubTypes
  <2> QED  BY <1>1, <2>1 DEF WaitsFit
<1>3. \A id \in DOMAIN rateLimits : CounterFits(rateLimits[id])'
  BY <1>1 DEF SubInv, SubTypes, CounterFits
<1>4. SubTypes'
  BY <1>1, <1>2, <1>3 DEF SubInv, SubTypes
<1>5. ASSUME NEW s \in DOMAIN Subscriptions, OnePlan(s) PROVE QuotaFits(s)'
  <2>1. QuotaFits(s) /\ UNCHANGED <<Counted(s), Extra(s)>>
    BY <1>1, <1>5 DEF SubInv, Counted, Extra, Lost
  <2>2. /\ Quota(s) \in Nat /\ Window(s) \in Nat /\ s[2] \in Ids /\ Extra(s) \in Nat
        /\ Stamped(stamps[s[2]])
    BY <1>5, PlanTypes, LostType DEF SubTypes, SubInv
  <2>3. ASSUME s[2] \notin DOMAIN rateLimits
        PROVE  Carried(stamps[s[2]], subClock' - LockLag, 0, Window(s), Quota(s), Extra(s))
    <3>1. Carried(stamps[s[2]], subClock - LockLag, 0, Window(s), Quota(s), Extra(s))
      BY <2>1, <2>3 DEF QuotaFits
    <3>2. /\ subClock - LockLag \in Int /\ subClock' - LockLag \in Int /\ 0 \in Nat /\ 0 <= Quota(s)
          /\ subClock' - LockLag >= subClock - LockLag /\ Extra(s) >= Extra(s)
      BY <1>1, <2>2
    <3> QED  BY <2>2, <3>1, <3>2, Reopens
  <2> QED  BY <1>1, <2>1, <2>3 DEF QuotaFits
<1> QED  BY <1>4, <1>5 DEF SubInv

LEMMA SpansGrow ==
  ASSUME NEW S, Stamped(S), NEW W, NEW lim \in Nat, NEW extra \in Nat, NEW more \in Nat, more >= extra,
         SpansKept(S, W, lim, extra)
  PROVE  SpansKept(S, W, lim, more)
<1> SUFFICES ASSUME NEW x \in Int
             PROVE  Cardinality(Within(S, x, x + (W - LockLag))) <= lim + lim + more
  BY Zenon DEF SpansKept
<1>1. Cardinality(Within(S, x, x + (W - LockLag))) <= lim + lim + extra
  BY Zenon DEF SpansKept
<1>2. Cardinality(Within(S, x, x + (W - LockLag))) \in Nat
  BY FS_Subset, FS_CardinalityType DEF Within, Stamped
<1> QED  BY <1>1, <1>2

LEMMA EvictionQuotas == SubInv /\ runRateLimitCleaner => SubInv'
<1> SUFFICES ASSUME SubInv, runRateLimitCleaner PROVE SubInv'
  OBVIOUS
<1> USE SubscriptionAssumption
<1> DEFINE stale == {id \in DOMAIN rateLimits : Stale(id)}
<1>1. /\ UNCHANGED <<active, subClock, waiting, stamps>> /\ subClock \in Int
      /\ DOMAIN rateLimits' = DOMAIN rateLimits \ stale
      /\ \A id \in DOMAIN rateLimits' : rateLimits'[id] = rateLimits[id]
      /\ evictions' = [id \in Ids |-> evictions[id] + (IF id \in stale THEN 1 ELSE 0)]
      /\ evictions \in [Ids -> Nat]
  BY DEF runRateLimitCleaner, SubInv, SubTypes
<1> HIDE DEF stale
<1>2. evictions' \in [Ids -> Nat]
  BY <1>1
<1>3. \A id \in DOMAIN rateLimits' : CounterFits(rateLimits[id])'
  BY <1>1 DEF SubInv, SubTypes, CounterFits
<1>4. \A c \in SubCallers : WaitsFit(waiting[c])'
  BY <1>1 DEF SubInv, SubTypes, WaitsFit
<1>5. SubTypes'
  BY <1>1, <1>2, <1>3, <1>4 DEF SubInv, SubTypes
<1>6. ASSUME NEW s \in DOMAIN Subscriptions, OnePlan(s) PROVE QuotaFits(s)'
  <2>1. QuotaFits(s)
    BY <1>6 DEF SubInv
  <2>2. /\ Quota(s) \in Nat /\ Window(s) \in Nat /\ s[2] \in Ids /\ Extra(s) \in Nat
        /\ Lost(s) \in Nat /\ Stamped(stamps[s[2]])
    BY <1>6, PlanTypes, LostType DEF SubTypes, SubInv
  <2>3. CASE s[2] \notin stale
    <3>1. evictions'[s[2]] = evictions[s[2]]
      BY <1>1, <2>2, <2>3
    <3>2. Extra(s)' = Extra(s)
      BY <3>1 DEF Extra, Lost
    <3>3. /\ s[2] \in DOMAIN rateLimits' <=> s[2] \in DOMAIN rateLimits
          /\ s[2] \in DOMAIN rateLimits => rateLimits'[s[2]] = rateLimits[s[2]]
      BY <1>1, <2>3
    <3> QED  BY <1>1, <2>1, <3>2, <3>3 DEF QuotaFits, Counted
  <2>4. CASE s[2] \in stale
    <3>1. s[2] \in DOMAIN rateLimits /\ s[2] \notin DOMAIN rateLimits' /\ Stale(s[2])
      BY <1>1, <2>4 DEF stale
    <3>2. PICK w \in Int : w = rateLimits[s[2]].windowStart
      BY <3>1 DEF SubInv, SubTypes, CounterFits
    <3>3. PICK v \in Int : v = subClock - LockLag
      BY <1>1
    <3>4. PICK n \in Nat : n = Counted(s) /\ n <= Quota(s)
      BY <2>2, <3>1 DEF Counted, SubInv, SubTypes, CounterFits
    <3>5. v >= w /\ (Window(s) + 2 * LockLag <= EvictionTTL + 1 => v >= w + Window(s))
      <4>1. w - LockLag <= rateLimits[s[2]].lastSeen /\ rateLimits[s[2]].lastSeen \in Int
        BY <3>1, <3>2 DEF SubInv, SubTypes, CounterFits
      <4>2. rateLimits[s[2]].lastSeen < subClock - EvictionTTL
        BY <3>1 DEF Stale
      <4> QED  BY <1>1, <2>2, <3>3, <4>1, <4>2
    <3>6. evictions'[s[2]] = evictions[s[2]] + 1 /\ evictions[s[2]] \in Nat
      BY <1>1, <2>2, <2>4
    <3>7. PICK e \in Nat : e = Extra(s)
      BY <2>2
    <3>8. PICK m \in Nat : m = Extra(s)'
      BY <1>2, <1>6, <2>2, <3>6 DEF Extra, Lost, Window
    <3>9. m >= e /\ (~(Window(s) + 2 * LockLag <= EvictionTTL + 1) => m >= e + Quota(s))
      <4>1. CASE Window(s) + 2 * LockLag <= EvictionTTL + 1
        <5>1. Lost(s) = 0 /\ Lost(s)' = 0
          BY <4>1 DEF Lost, Window
        <5> QED  BY <2>2, <3>7, <3>8, <4>1, <5>1 DEF Extra
      <4>2. CASE ~(Window(s) + 2 * LockLag <= EvictionTTL + 1)
        <5>1. Lost(s) = evictions[s[2]] /\ Lost(s)' = evictions'[s[2]]
          BY <4>2 DEF Lost, Window
        <5>2. m = Quota(s) * (evictions[s[2]] + 1) /\ e = Quota(s) * evictions[s[2]]
          BY <3>6, <3>7, <3>8, <5>1 DEF Extra
        <5>3. Quota(s) * (evictions[s[2]] + 1) = Quota(s) * evictions[s[2]] + Quota(s)
          BY <2>2, <3>6
        <5> QED  BY <2>2, <5>2, <5>3
      <4> QED  BY <4>1, <4>2
    <3>10. Carried(stamps[s[2]], w, n, Window(s), Quota(s), e) /\ SpansKept(stamps[s[2]], Window(s), Quota(s), e)
      BY <2>1, <3>1, <3>2, <3>4, <3>7 DEF QuotaFits
    <3>11. Carried(stamps[s[2]], v, 0, Window(s), Quota(s), m)
      BY <2>2, <3>4, <3>5, <3>9, <3>10, Reopens
    <3>12. SpansKept(stamps[s[2]], Window(s), Quota(s), m)
      BY <2>2, <3>9, <3>10, SpansGrow
    <3> QED  BY <1>1, <3>1, <3>3, <3>8, <3>11, <3>12 DEF QuotaFits
  <2> QED  BY <2>3, <2>4
<1> QED  BY <1>5, <1>6 DEF SubInv

\* The number of an admission is not taken.
LEMMA NextNumber ==
  ASSUME NEW S, Stamped(S), Numbered(S), NEW t \in Int,
         NEW a, a = <<t, Cardinality({b \in S : b[1] = t})>>
  PROVE  a \notin S /\ Numbered(S \union {a})
<1> DEFINE Of(T, x) == {b \in T : b[1] = x}
<1>1. \A x : IsFiniteSet(Of(S, x)) /\ Cardinality(Of(S, x)) \in Nat
  BY FS_Subset, FS_CardinalityType DEF Stamped
<1>2. a[1] = t /\ a[2] = Cardinality(Of(S, t)) /\ a[2] \in Nat
  BY <1>1
<1>3. a \notin S
  BY <1>1, <1>2 DEF Numbered
<1>4. \A x : x # t => Of(S \union {a}, x) = Of(S, x)
  BY <1>2
<1>5. Of(S \union {a}, t) = Of(S, t) \union {a} /\ a \notin Of(S, t)
  BY <1>2, <1>3
<1>6. \A d \in S : d[2] \in Nat /\ d[2] < Cardinality(Of(S, d[1]))
  BY DEF Numbered
<1> HIDE DEF Of
<1>7. Cardinality(Of(S \union {a}, t)) = Cardinality(Of(S, t)) + 1
  BY <1>1, <1>5, FS_AddElement
<1>8. \A d \in S \union {a} : /\ Cardinality(Of(S \union {a}, d[1])) \in Nat
                              /\ d[2] \in Nat /\ d[2] < Cardinality(Of(S \union {a}, d[1]))
  <2> SUFFICES ASSUME NEW d \in S \union {a}
               PROVE  /\ Cardinality(Of(S \union {a}, d[1])) \in Nat
                      /\ d[2] \in Nat /\ d[2] < Cardinality(Of(S \union {a}, d[1]))
    OBVIOUS
  <2>1. CASE d = a
    BY <1>1, <1>2, <1>7, <2>1
  <2>2. CASE d \in S /\ d[1] = t
    BY <1>1, <1>6, <1>7, <2>2
  <2>3. CASE d \in S /\ d[1] # t
    BY <1>1, <1>4, <1>6, <2>3
  <2> QED  BY <2>1, <2>2, <2>3
<1> QED  BY <1>3, <1>8 DEF Numbered, Of

LEMMA CountQuotas == ASSUME NEW c \in SubCallers, SubInv, checkRateLimit(c) PROVE SubInv'
<1> USE SubscriptionAssumption
<1> DEFINE w == waiting[c]
           plan == Plan(w)
           W == windowDuration(plan.unit)
           opens == NewWindow(w.id, w.stamp, W)
           count == IF opens THEN 1 ELSE rateLimits[w.id].count + 1
           start == IF opens THEN w.stamp ELSE rateLimits[w.id].windowStart
           admit == opens \/ count <= plan.limit \/ ~plan.stop
           a == Admission(w.id, w.stamp)
           counter == [windowStart |-> start, count |-> count, lastSeen |-> w.stamp]
<1>1. /\ w.busy /\ waiting' = [waiting EXCEPT ![c] = Idle]
      /\ SetCounter(w.id, counter)
      /\ stamps' = IF admit THEN [stamps EXCEPT ![w.id] = @ \union {a}] ELSE stamps
      /\ UNCHANGED <<active, subClock, evictions>>
  BY Zenon DEF checkRateLimit
<1>2. /\ Entry(w) \in DOMAIN Subscriptions /\ plan.limit > 0 /\ plan.limit \in Nat
      /\ w.stamp \in Int /\ w.stamp <= subClock /\ subClock <= w.stamp + LockLag
      /\ w.id = Entry(w)[2] /\ w.id \in Ids
  BY <1>1 DEF SubInv, SubTypes, WaitsFit, Entry, Ids, Plan
<1>3. /\ DOMAIN rateLimits' = DOMAIN rateLimits \union {w.id} /\ rateLimits'[w.id] = counter
      /\ \A id \in DOMAIN rateLimits : id # w.id => rateLimits'[id] = rateLimits[id]
  <2> HIDE DEF counter, w
  <2> QED  BY <1>1 DEF SetCounter
<1>4. /\ stamps' = [id \in Ids |-> stamps'[id]]
      /\ \A id \in Ids : stamps'[id] = IF admit /\ id = w.id THEN stamps[w.id] \union {a} ELSE stamps[id]
  <2> HIDE DEF admit, a, w
  <2>1. stamps = [id \in Ids |-> stamps[id]]
    BY DEF SubInv, SubTypes
  <2> QED  BY <1>1, <2>1
<1>5. Stamped(stamps[w.id]) /\ Numbered(stamps[w.id]) /\ subClock \in Int
  BY <1>2 DEF SubInv, SubTypes
<1>6. a = <<w.stamp, Cardinality({b \in stamps[w.id] : b[1] = w.stamp})>> /\ a[1] = w.stamp
  BY DEF Admission
<1>7. opens \/ /\ w.id \in DOMAIN rateLimits
               /\ w.stamp - rateLimits[w.id].windowStart < W /\ CounterFits(rateLimits[w.id])
  <2>1. CASE opens
    BY <2>1
  <2>2. CASE ~opens
    <3>1. w.id \in DOMAIN rateLimits /\ ~(w.stamp - rateLimits[w.id].windowStart >= W)
      BY <2>2 DEF NewWindow
    <3>2. CounterFits(rateLimits[w.id])
      BY <3>1 DEF SubInv, SubTypes
    <3>3. W \in Nat
      BY <1>2 DEF windowDuration
    <3> HIDE DEF w, W
    <3> QED  BY <1>2, <3>1, <3>2, <3>3 DEF CounterFits
  <2> QED  BY <2>1, <2>2
<1> HIDE DEF a, opens, W, plan, w
<1>8. start \in Int /\ count \in Nat /\ start <= subClock /\ start - LockLag <= w.stamp
  BY <1>2, <1>5, <1>7 DEF CounterFits
<1>9. a \notin stamps[w.id] /\ Numbered(stamps[w.id] \union {a})
  BY <1>2, <1>5, <1>6, NextNumber
<1>10. Stamped(stamps[w.id] \union {a})
  BY <1>2, <1>5, <1>6, <1>9, OneMore
<1> HIDE DEF start, count, admit
<1>11. /\ counter.windowStart = start /\ counter.count = count /\ counter.lastSeen = w.stamp
  OBVIOUS
<1> HIDE DEF counter
<1>12. SubTypes'
  <2>1. \A id \in DOMAIN rateLimits' : CounterFits(rateLimits[id])'
    <3> SUFFICES ASSUME NEW id \in DOMAIN rateLimits' PROVE CounterFits(rateLimits[id])'
      OBVIOUS
    <3>1. CASE id = w.id
      BY <1>1, <1>2, <1>3, <1>8, <1>11, <3>1 DEF CounterFits
    <3>2. CASE id # w.id
      BY <1>1, <1>3, <3>2 DEF SubInv, SubTypes, CounterFits
    <3> QED  BY <3>1, <3>2
  <2>2. /\ waiting' = [d \in SubCallers |-> waiting'[d]]
        /\ \A d \in SubCallers : waiting'[d] = waiting[d] \/ waiting'[d] = Idle
    BY <1>1 DEF SubInv, SubTypes
  <2>3. \A d \in SubCallers : WaitsFit(waiting[d])'
    <3>1. ~Idle.busy
      BY DEF Idle
    <3> QED  BY <1>1, <2>2, <3>1 DEF SubInv, SubTypes, WaitsFit
  <2>4. \A id \in Ids : Stamped(stamps[id])' /\ Numbered(stamps[id])'
    BY <1>4, <1>5, <1>9, <1>10 DEF SubInv, SubTypes
  <2> QED  BY <1>1, <1>4, <2>1, <2>2, <2>3, <2>4 DEF SubInv, SubTypes
<1>13. ASSUME NEW s \in DOMAIN Subscriptions, OnePlan(s) PROVE QuotaFits(s)'
  <2>1. QuotaFits(s)
    BY <1>13 DEF SubInv
  <2>2. /\ Quota(s) \in Nat /\ Quota(s) > 0 /\ Window(s) \in Nat /\ s[2] \in Ids /\ Extra(s) \in Nat
        /\ Stamped(stamps[s[2]])
    BY <1>13, PlanTypes, LostType DEF SubTypes, SubInv
  <2>3. Extra(s)' = Extra(s)
    BY <1>1 DEF Extra, Lost
  <2>4. CASE s[2] # w.id
    <3>1. /\ stamps'[s[2]] = stamps[s[2]]
          /\ s[2] \in DOMAIN rateLimits' <=> s[2] \in DOMAIN rateLimits
          /\ s[2] \in DOMAIN rateLimits => rateLimits'[s[2]] = rateLimits[s[2]]
      BY <1>3, <1>4, <2>2, <2>4
    <3> QED  BY <1>1, <2>1, <2>3, <3>1 DEF QuotaFits, Counted
  <2>5. CASE s[2] = w.id
    <3>1. plan = Subscriptions[s] /\ plan.stop /\ plan.limit = Quota(s) /\ W = Window(s)
      BY <1>2, <1>13, <2>5 DEF OnePlan, Plan, plan, W, Quota, Window
    <3> DEFINE S == stamps[w.id]
               n == IF count <= Quota(s) THEN count ELSE Quota(s)
    <3>2. Counted(s)' = n /\ w.id \in DOMAIN rateLimits' /\ rateLimits'[w.id].windowStart = start
      BY <1>3, <1>11, <2>5 DEF Counted
    <3>3. SpansKept(S, W, Quota(s), Extra(s))
      BY <2>1, <2>5, <3>1 DEF QuotaFits
    <3>4. W \in Nat /\ W > 0
      BY <1>13, <3>1, PlanTypes
    <3>5. CASE opens
      <4>1. Carried(S, w.stamp, 0, W, Quota(s), Extra(s))
        <5>1. CASE w.id \in DOMAIN rateLimits
          <6>1. PICK v \in Int : v = rateLimits[w.id].windowStart /\ w.stamp >= v + W
            <7>1. w.stamp - rateLimits[w.id].windowStart >= W
              BY <3>5, <5>1 DEF opens, NewWindow
            <7>2. rateLimits[w.id].windowStart \in Int
              BY <5>1 DEF SubInv, SubTypes, CounterFits
            <7> QED  BY <1>2, <3>4, <7>1, <7>2
          <6>2. PICK m \in Nat : m = Counted(s) /\ m <= Quota(s)
            BY <2>2, <2>5, <5>1 DEF Counted, SubInv, SubTypes, CounterFits
          <6>3. Carried(S, v, m, W, Quota(s), Extra(s))
            BY <2>1, <2>5, <3>1, <5>1, <6>1, <6>2 DEF QuotaFits
          <6>4. Stamped(S) /\ Extra(s) >= Extra(s) /\ w.stamp \in Int /\ 0 \in Nat
            BY <1>2, <1>5, <2>2
          <6> HIDE DEF S, n
          <6> QED  BY <2>2, <3>4, <6>1, <6>2, <6>3, <6>4, Reopens
        <5>2. CASE w.id \notin DOMAIN rateLimits
          <6>1. PICK v \in Int : v = subClock - LockLag /\ w.stamp >= v
            BY <1>2, <1>5
          <6>2. Carried(S, v, 0, W, Quota(s), Extra(s))
            BY <2>1, <2>5, <3>1, <5>2, <6>1 DEF QuotaFits
          <6>3. Stamped(S) /\ Extra(s) >= Extra(s) /\ w.stamp \in Int /\ 0 \in Nat /\ 0 <= Quota(s)
            BY <1>2, <1>5, <2>2
          <6> HIDE DEF S, n
          <6> QED  BY <2>2, <3>4, <6>1, <6>2, <6>3, Reopens
        <5> QED  BY <5>1, <5>2
      <4>2. 0 \in Nat /\ 0 + 1 <= Quota(s) /\ w.stamp - LockLag <= w.stamp /\ w.stamp < w.stamp + W
        BY <1>2, <2>2, <3>4
      <4>3. /\ Carried(S \union {a}, w.stamp, 0 + 1, W, Quota(s), Extra(s))
            /\ SpansKept(S \union {a}, W, Quota(s), Extra(s))
        BY <1>2, <1>5, <1>6, <1>9, <2>2, <3>3, <3>4, <4>1, <4>2, Admits
      <4>4. n = 0 + 1 /\ start = w.stamp /\ admit
        BY <2>2, <3>5 DEF start, count, admit
      <4>5. stamps'[s[2]] = S \union {a}
        BY <1>2, <1>4, <2>5, <4>4
      <4> HIDE DEF n, S
      <4> QED  BY <2>3, <2>5, <3>1, <3>2, <4>3, <4>4, <4>5 DEF QuotaFits
    <3>6. CASE ~opens
      <4>1. PICK v \in Int : v = rateLimits[w.id].windowStart /\ start = v /\ w.stamp < v + W
        BY <1>2, <1>7, <3>4, <3>6 DEF start, CounterFits
      <4>2. PICK m \in Nat : m = Counted(s) /\ m <= Quota(s)
        BY <1>7, <2>2, <2>5, <3>6 DEF Counted, CounterFits
      <4>3. Carried(S, v, m, W, Quota(s), Extra(s))
        BY <1>7, <2>1, <2>5, <3>1, <3>6, <4>1, <4>2 DEF QuotaFits
      <4>4. rateLimits[w.id].count \in Nat /\ count = rateLimits[w.id].count + 1
        BY <1>7, <3>6 DEF count, CounterFits
      <4>5. CASE count <= Quota(s)
        <5>1. n = m + 1 /\ m + 1 <= Quota(s) /\ admit
          BY <2>2, <2>5, <3>1, <4>2, <4>4, <4>5 DEF Counted, admit
        <5>2. v - LockLag <= w.stamp
          BY <1>8, <4>1
        <5>3. /\ Carried(S \union {a}, v, m + 1, W, Quota(s), Extra(s))
              /\ SpansKept(S \union {a}, W, Quota(s), Extra(s))
          BY <1>2, <1>5, <1>6, <1>9, <2>2, <3>3, <3>4, <4>1, <4>3, <5>1, <5>2, Admits
        <5>4. stamps'[s[2]] = S \union {a}
          BY <1>2, <1>4, <2>5, <5>1
        <5> HIDE DEF n, S
        <5> QED  BY <2>3, <2>5, <3>1, <3>2, <4>1, <5>1, <5>3, <5>4 DEF QuotaFits
      <4>6. CASE ~(count <= Quota(s))
        <5>1. n = m /\ ~admit
          BY <2>2, <2>5, <3>1, <3>6, <4>2, <4>4, <4>6 DEF Counted, admit
        <5>2. stamps'[s[2]] = S
          BY <1>2, <1>4, <2>5, <5>1
        <5> HIDE DEF n, S
        <5> QED  BY <2>3, <2>5, <3>1, <3>2, <3>3, <4>1, <4>3, <5>1, <5>2 DEF QuotaFits
      <4> QED  BY <4>5, <4>6
    <3> QED  BY <3>5, <3>6
  <2> QED  BY <2>4, <2>5
<1> QED  BY <1>12, <1>13 DEF SubInv

LEMMA SubNextInv == SubInv /\ [SubNext]_subVars => SubInv'
<1> SUFFICES ASSUME SubInv, [SubNext]_subVars PROVE SubInv'
  OBVIOUS
<1>1. CASE UNCHANGED subVars
  <2>1. SubTypes'
    BY <1>1 DEF subVars, SubInv, SubTypes, WaitsFit, CounterFits
  <2> QED  BY <1>1, <2>1, QuotasUntouched DEF subVars
<1>2. CASE SubNext
  BY <1>2, GetPolicyQuotas, LookupQuotas, CountQuotas, EvictionQuotas, ChangeQuotas, TickQuotas DEF SubNext
<1> QED  BY <1>1, <1>2

LEMMA SubHostStep == [HostNext]_hostVars => [SubNext]_subVars
  BY DEF HostNext, hostVars, subVars

\* A plan of subscription-validation that stops at its quota admits at most two quotas in
\* any span of one window, and one more for each eviction of its counter where the window
\* is longer than the eviction TTL: checkRateLimit and the cleaner, for any plans, windows
\* and number of requests, which may wait for the mutex in any order.
THEOREM SubscriptionQuotaHolds == HostSpec => []SubscriptionQuota
<1>1. HostInit => SubInv
  BY SubInitInv DEF HostInit
<1>2. SubInv /\ [HostNext]_hostVars => SubInv'
  BY SubNextInv, SubHostStep
<1>3. SubInv => SubscriptionQuota
  <2> SUFFICES ASSUME SubInv, NEW s \in DOMAIN Subscriptions, OnePlan(s), NEW a \in stamps[s[2]]
               PROVE  Cardinality(Within(stamps[s[2]], a[1], a[1] + (Window(s) - LockLag)))
                         <= Quota(s) * (2 + Lost(s))
    BY Zenon DEF SubscriptionQuota, Window, Quota
  <2>1. s[2] \in Ids /\ Quota(s) \in Nat /\ Lost(s) \in Nat
    BY PlanTypes, LostType DEF SubInv, SubTypes
  <2>2. a[1] \in Int
    BY <2>1 DEF SubInv, SubTypes, Stamped
  <2>3. SpansKept(stamps[s[2]], Window(s), Quota(s), Extra(s))
    BY DEF SubInv, QuotaFits
  <2>4. Cardinality(Within(stamps[s[2]], a[1], a[1] + (Window(s) - LockLag))) <= Quota(s) + Quota(s) + Extra(s)
    BY <2>2, <2>3 DEF SpansKept
  <2>5. Quota(s) + Quota(s) + Extra(s) = Quota(s) * (2 + Lost(s))
    BY <2>1 DEF Extra
  <2> QED  BY <2>4, <2>5
<1> QED  BY <1>1, <1>2, <1>3, PTL DEF HostSpec
=============================================================================
