--------------------------- MODULE TokenDelegates ---------------------------
(***************************************************************************)
(* token-based-ratelimit: the limits are enforced by an advanced-ratelimit *)
(* instance, the delegate, built from the template of the provider.  The   *)
(* delegate and the cache key that tells which template it was built from  *)
(* are kept in two maps; builds for one cache key are merged by a          *)
(* singleflight group.  One provider; the template may change at any time. *)
(***************************************************************************)
EXTENDS Integers, Sequences, FiniteSets

CONSTANTS
    Templates,         \* contents the template may have: field -> location, or "none"
    TokenParams,       \* the limits configured: name of the limits -> how many
    TokenLevels,       \* policy.Level of the attachment: "api" or "route"
    TokenRequests,     \* requests
    MaxTemplateChanges \* bound

ASSUME TokenAssumption == MaxTemplateChanges \in Nat

VARIABLES
    attachment,    \* the policy: its parameters and level
    template,      \* the LazyResourceStore: the template, "missing" or "unreadable"
    changes,       \* changes of the template so far
    delegate,      \* delegates[provider]
    delegateKey,   \* delegateCacheKeys[provider]
    flight,        \* the singleflight group: template -> the request that runs the build
    token,         \* the requests: where each is and what it holds
    torn           \* history: two builds stored their results interleaved

tokenVars == <<attachment, template, changes, delegate, delegateKey, flight, token, torn>>

NoTemplate == [state |-> "missing"]
Unreadable == [state |-> "unreadable"]
NoDelegate == [state |-> "none"]
NotAttached == [state |-> "none"]
NewToken == [pc |-> "new", template |-> NoTemplate, seen |-> NoDelegate, got |-> NoDelegate, disturbed |-> FALSE]

-----------------------------------------------------------------------------
\* transformToRatelimitParams.

\* resolveCostSource: where the cost of a field is read; {} when the template does not say.
resolveCostSource(t, field) ==
    CASE t.spec[field] = "absent"   -> {}
      [] t.spec[field] = "header"   -> {<<"request_header", field>>}
      [] t.spec[field] = "metadata" -> {<<"metadata", field>>}
      [] OTHER                      -> {<<"response_body", field>>}

\* addQuota: the first group of fields with any source gives them; without one the
\* quota charges 1 per request.
Sources(t, group) == UNION {resolveCostSource(t, f) : f \in group}
CostSources(t, groups) ==
    IF \E i \in DOMAIN groups : Sources(t, groups[i]) # {}
    THEN LET first == CHOOSE i \in DOMAIN groups :
                         /\ Sources(t, groups[i]) # {}
                         /\ \A j \in 1..(i - 1) : Sources(t, groups[j]) = {}
         IN  Sources(t, groups[first])
    ELSE {}

QuotaGroups ==
    [prompt_tokens     |-> <<{"promptTokens"}>>,
     completion_tokens |-> <<{"completionTokens"}>>,
     total_tokens      |-> <<{"totalTokens"}, {"promptTokens", "completionTokens"}>>]

\* convertTokenLimits: entries that are not objects are dropped, so a quota may have none.
convertTokenLimits(limits) == SelectSeq(limits, LAMBDA l : l # "bad")

transformToRatelimitParams(params, t, level) ==
    [key |-> (IF level = "api" THEN <<"apiname">> ELSE <<"routename">>)
             \o (IF params.consumerBased THEN <<"application">> ELSE <<>>),
     quotas |-> {[name |-> q, limits |-> convertTokenLimits(params.limits[q]),
                  sources |-> CostSources(t, QuotaGroups[q])] :
                 q \in {n \in DOMAIN QuotaGroups : convertTokenLimits(params.limits[n]) # <<>>}}]

\* createDelegateWithTemplate.
createDelegateWithTemplate(t) ==
    [state |-> "built", of |-> t, params |-> transformToRatelimitParams(attachment.params, t, attachment.level)]

\* A stored template is used under the hash of its contents.
computeResourceHash(t) == t

-----------------------------------------------------------------------------
TokenGetPolicy ==
    /\ attachment = NotAttached
    /\ \E p \in TokenParams, l \in TokenLevels :
          attachment' = [state |-> "attached", params |-> p, level |-> l]
    /\ UNCHANGED <<template, changes, delegate, delegateKey, flight, token, torn>>

Step(r, pc) == token[r].pc = pc
Goto(r, rec) == token' = [token EXCEPT ![r] = rec]

\* resolveDelegate reads the template; without one the request is not limited.
ReadTemplate(r) ==
    /\ attachment # NotAttached /\ Step(r, "new")
    /\ r = CHOOSE q \in TokenRequests : Step(q, "new")
    /\ Goto(r, IF template \in {NoTemplate, Unreadable} THEN [token[r] EXCEPT !.pc = "done"]
               ELSE [token[r] EXCEPT !.pc = "load", !.template = template])
    /\ UNCHANGED <<attachment, template, changes, delegate, delegateKey, flight, torn>>

\* A request that loads between the two stores of a build is disturbed, and so is one
\* that loads before and after them.
Seeing(r) == [token[r] EXCEPT !.seen = delegate, !.disturbed = @ \/ \E q \in TokenRequests : Step(q, "storeKey")]

\* Fast path, first load: the delegate.
LoadDelegate(r) ==
    /\ Step(r, "load")
    /\ Goto(r, [Seeing(r) EXCEPT !.pc = IF delegate = NoDelegate THEN "join" ELSE "loadKey"])
    /\ UNCHANGED <<attachment, template, changes, delegate, delegateKey, flight, torn>>

\* Fast path, second load: the key decides whether the delegate just loaded is used.
KeyFits(r) == delegateKey = computeResourceHash(token[r].template)
LoadKey(r) ==
    /\ Step(r, "loadKey")
    /\ Goto(r, IF KeyFits(r) THEN [token[r] EXCEPT !.pc = "resolved", !.got = token[r].seen]
               ELSE [token[r] EXCEPT !.pc = "join"])
    /\ UNCHANGED <<attachment, template, changes, delegate, delegateKey, flight, torn>>

\* sf.Do: the first request for a cache key runs the function, the others wait.
JoinFlight(r) ==
    /\ Step(r, "join")
    /\ IF token[r].template \in DOMAIN flight
       THEN Goto(r, [token[r] EXCEPT !.pc = "wait"]) /\ UNCHANGED flight
       ELSE /\ Goto(r, [token[r] EXCEPT !.pc = "reload"])
            /\ flight' = [t \in DOMAIN flight \union {token[r].template} |->
                            IF t = token[r].template THEN r ELSE flight[t]]
    /\ UNCHANGED <<attachment, template, changes, delegate, delegateKey, torn>>

\* The double check, again in two loads.
ReloadDelegate(r) ==
    /\ Step(r, "reload")
    /\ Goto(r, [Seeing(r) EXCEPT !.pc = IF delegate = NoDelegate THEN "build" ELSE "reloadKey"])
    /\ UNCHANGED <<attachment, template, changes, delegate, delegateKey, flight, torn>>
ReloadKey(r) ==
    /\ Step(r, "reloadKey")
    /\ Goto(r, IF KeyFits(r) THEN [token[r] EXCEPT !.pc = "finish", !.got = token[r].seen]
               ELSE [token[r] EXCEPT !.pc = "build"])
    /\ UNCHANGED <<attachment, template, changes, delegate, delegateKey, flight, torn>>

\* Mutant: a delegate that is there already is kept.
PublishOnce(d) == delegate' = IF delegate = NoDelegate THEN d ELSE delegate

\* delegates.Store
Publish(d) == delegate' = d

\* Build the delegate and store it.
StoreDelegate(r) ==
    LET d == createDelegateWithTemplate(token[r].template)
    IN  /\ Step(r, "build")
        /\ Publish(d)
        /\ torn' = (torn \/ \E q \in TokenRequests : Step(q, "storeKey"))
        /\ token' = [q \in TokenRequests |->
                       IF q = r THEN [token[r] EXCEPT !.pc = "storeKey", !.got = d]
                       ELSE [token[q] EXCEPT !.disturbed = @ \/ token[q].pc \in {"loadKey", "reloadKey"}]]
        /\ UNCHANGED <<attachment, template, changes, delegateKey, flight>>

\* The build fails: an error for everyone who waits, and nothing is limited.
BuildFails(r) ==
    /\ Step(r, "build")
    /\ Goto(r, [token[r] EXCEPT !.pc = "finish", !.got = NoDelegate])
    /\ UNCHANGED <<attachment, template, changes, delegate, delegateKey, flight, torn>>

\* delegateCacheKeys.Store, a step later.
StoreKey(r) ==
    /\ Step(r, "storeKey")
    /\ delegateKey' = computeResourceHash(token[r].template)
    /\ Goto(r, [token[r] EXCEPT !.pc = "finish"])
    /\ UNCHANGED <<attachment, template, changes, delegate, flight, torn>>

\* The function returns: everyone who joined gets the same result.
FinishFlight(r) ==
    LET t == token[r].template
    IN  /\ Step(r, "finish")
        /\ token' = [q \in TokenRequests |->
                       IF q = r \/ (token[q].pc = "wait" /\ token[q].template = t)
                       THEN [token[q] EXCEPT !.got = token[r].got, !.disturbed = @ \/ token[r].disturbed,
                                             !.pc = IF token[r].got = NoDelegate THEN "done" ELSE "resolved"]
                       ELSE token[q]]
        /\ flight' = [k \in DOMAIN flight \ {t} |-> flight[k]]
        /\ UNCHANGED <<attachment, template, changes, delegate, delegateKey, torn>>

\* The rest of OnRequestHeaders: the delegate's own check may answer 429.
CheckRequest(r) ==
    /\ Step(r, "resolved")
    /\ \E blocked \in BOOLEAN : Goto(r, [token[r] EXCEPT !.pc = IF blocked THEN "done" ELSE "sent"])
    /\ UNCHANGED <<attachment, template, changes, delegate, delegateKey, flight, torn>>

\* The response phases look the delegate up again: it may be another one.
OnResponse(r) ==
    /\ Step(r, "sent")
    /\ Goto(r, [token[r] EXCEPT !.pc = "done", !.got = delegate])
    /\ UNCHANGED <<attachment, template, changes, delegate, delegateKey, flight, torn>>

\* The control plane replaces, removes or breaks the template (outside the policy).
ChangeTemplate ==
    /\ attachment # NotAttached /\ changes < MaxTemplateChanges
    /\ changes' = changes + 1
    /\ \E t \in Templates \union {NoTemplate, Unreadable} : t # template /\ template' = t
    /\ UNCHANGED <<attachment, delegate, delegateKey, flight, token, torn>>

TokenInit ==
    /\ attachment = NotAttached /\ template = NoTemplate /\ changes = 0
    /\ delegate = NoDelegate /\ delegateKey = NoTemplate /\ flight = << >>
    /\ token = [r \in TokenRequests |-> NewToken] /\ torn = FALSE

TokenNext ==
    \/ TokenGetPolicy
    \/ ChangeTemplate
    \/ \E r \in TokenRequests :
          \/ ReadTemplate(r) \/ LoadDelegate(r) \/ LoadKey(r) \/ JoinFlight(r)
          \/ ReloadDelegate(r) \/ ReloadKey(r) \/ StoreDelegate(r) \/ BuildFails(r)
          \/ StoreKey(r) \/ FinishFlight(r) \/ CheckRequest(r) \/ OnResponse(r)

-----------------------------------------------------------------------------
\* The delegate in the map was built from the template its key names whenever no build
\* is between its two stores, and a request is checked by a delegate built from the very
\* template it read, with two exceptions the code leaves open: the two loads of the
\* request overlap the two stores of a build, and two builds whose stores interleave.
TokenDelegateFits ==
    /\ (~torn /\ delegate # NoDelegate /\ ~\E r \in TokenRequests : token[r].pc = "storeKey")
          => computeResourceHash(delegate.of) = delegateKey
    /\ \A r \in TokenRequests :
          token[r].pc \in {"resolved", "sent"} /\ ~token[r].disturbed /\ ~torn
             => token[r].got.of = token[r].template
=============================================================================
