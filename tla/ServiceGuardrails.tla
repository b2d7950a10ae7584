------------------------- MODULE ServiceGuardrails -------------------------
(***************************************************************************)
(* The guardrails that ask a service about a text: aws-bedrock-guardrail,  *)
(* azure-content-safety and semantic-prompt-guard.  The services are       *)
(* outside the repository.  Their answer is an input of the handlers, and  *)
(* so is their failure: every call may fail.                               *)
(***************************************************************************)
EXTENDS GuardrailText, TLC

\* Mutant: an error always lets the text pass.
OnServiceErrorOpen(p, error) == Pass

\* An error while a text is inspected: let it pass, or refuse it.
OnServiceError(p, error) == IF p.Passthrough THEN Pass ELSE error

(***************************************************************************)
(* aws-bedrock-guardrail.  The service names the sensitive matches it      *)
(* found; a placeholder is the single token "p0", "p1", ...                *)
(***************************************************************************)

BedrockIds == <<"p0", "p1", "p2">>
BedrockStars == <<"*">>

BedrockParseParams(raw, enabledByDefault) ==
  [ok |-> "bad" \notin {raw.enabled, raw.redact, raw.passthrough, raw.show, raw.rest},
   Enabled |-> Truth(raw.enabled, enabledByDefault),
   RedactPII |-> Truth(raw.redact, FALSE),
   Passthrough |-> Truth(raw.passthrough, FALSE),
   Show |-> Truth(raw.show, FALSE)]

\* resolveGuardrailParam: the attachment's value wins, even a broken one.
BedrockGuardrailParam(local, system) ==
  IF local # "absent" THEN local = "ok" ELSE system = "ok"

\* validateAWSConfigParams: a region, well-formed keys, and a role only with
\* the region it lives in.
BedrockConfigValid(aws) ==
  /\ aws.region = "ok"
  /\ aws.keys \in {"absent", "ok"}
  /\ aws.role \in {"absent", "empty", "ok"}
  /\ aws.role = "ok" => aws.roleRegion = "ok"

\* loadAWSConfig: which credentials the call is made with.
BedrockCredentials(aws) ==
  CASE aws.role = "ok" /\ aws.roleRegion = "ok" -> "assumeRole"
    [] ~(aws.role = "ok" /\ aws.roleRegion = "ok") /\ aws.keys = "ok" -> "static"
    [] OTHER -> "default"

\* A request that redacts makes the response redact too.
BedrockGetPolicy(raw) ==
  LET pol == BuildPolicy(Flow(LaxFlow(raw.request), BedrockParseParams(raw.request, TRUE)),
                         Flow(LaxFlow(raw.response), BedrockParseParams(raw.response, FALSE)))
      forced == pol.ok /\ pol.hasRequest /\ pol.hasResponse /\ pol.request.RedactPII
  IN  [ok |-> /\ pol.ok
              /\ BedrockConfigValid(raw.aws)
              /\ BedrockGuardrailParam(raw.local, raw.system),
       hasRequest |-> pol.hasRequest, request |-> pol.request,
       hasResponse |-> pol.hasResponse,
       response |-> IF forced THEN [pol.response EXCEPT !.RedactPII = TRUE] ELSE pol.response,
       credentials |-> BedrockCredentials(raw.aws)]

BedrockAssessment(isResponse, show) == Assessment(isResponse, show)
BedrockError(p, isResponse) == Block(BedrockAssessment(isResponse, p.Show))

\* applyBedrockGuardrail, after the configuration was loaded: the credentials
\* may be refused and the call itself may fail.
applyBedrockGuardrail(credentials, ans) == credentials \notin ans.refused /\ ~ans.fails

\* processPIIEntitiesForMasking: every reported match, longest first, gets the
\* next number.  A match the service reports twice is not recognised as seen
\* (the marker is the empty string), so its later number replaces the earlier
\* one in the map although the text holds the earlier one.
BedrockAnonymised(pii) == SelectSeq(pii, LAMBDA m : m.anonymised)
BedrockMatches(pii) ==
  SortSeq([i \in DOMAIN pii |-> pii[i].match], LAMBDA a, b : Len(a) > Len(b))
processPIIEntitiesForMasking(content, pii) ==
  LET matches == BedrockMatches(BedrockAnonymised(pii))
      text[n \in 0..Len(matches)] ==
        IF n = 0 THEN content ELSE SubstituteAll(text[n-1], matches[n], <<BedrockIds[n]>>)
  IN  [text |-> text[Len(matches)],
       masked |-> {<<matches[n], <<BedrockIds[n]>>>> : n \in
                     {k \in DOMAIN matches : \A l \in DOMAIN matches :
                                                l > k => matches[l] # matches[k]}}]

\* extractRedactedContent: every match of the first assessment, whatever the service
\* did about it; those of the others stay.
extractRedactedContent(content, pii) ==
  FoldLeft(LAMBDA t, m : SubstituteAll(t, m, BedrockStars), content,
           BedrockMatches(SelectSeq(pii, LAMBDA m : m.at = 1)))

\* restorePIIInResponse
BedrockRestore(t, masked) ==
  FoldLeft(LAMBDA acc, m : SubstituteAll(acc, m[2], m[1]), t, SetToSeq(masked))

\* updatePayloadWithMaskedContent
BedrockUpdatePayload(body, text) == [body EXCEPT !.v = JString(text)]

\* evaluateGuardrailResponse: sensitive matches are masked, redacted or let
\* through; only an intervention without any is a violation.
BedrockEvaluate(content, ans, redact, isResponse) ==
  LET none == [is |-> "pass", text |-> content, masked |-> {}]
      masked == processPIIEntitiesForMasking(content, ans.pii)
  IN  CASE ans.action = "none" -> none
        [] ans.action = "odd" -> [none EXCEPT !.is = "error"]
        [] ans.action = "intervened" /\ ans.pii = <<>> -> [none EXCEPT !.is = "violation"]
        [] ans.action = "intervened" /\ ans.pii # <<>> /\ redact ->
             [none EXCEPT !.text = extractRedactedContent(content, ans.pii)]
        [] ans.action = "intervened" /\ ans.pii # <<>> /\ ~redact ->
             IF isResponse THEN none
             ELSE [none EXCEPT !.text = masked.text, !.masked = masked.masked]

\* validatePayload: restoration first, and it is the whole answer when there
\* was something to restore; then extraction, configuration, call, evaluation.
BedrockValidatePayload(body, p, credentials, isResponse, meta, ans) ==
  LET restored == IF body.v.j = "string" THEN BedrockRestore(body.v.s, meta.masked) ELSE <<>>
      restores == /\ isResponse /\ ~p.RedactPII /\ body.v.j = "string"
                  /\ restored # body.v.s
      found == ExtractString(body.v)
      content == TrimSpace(Clean(found.text))
      eval == BedrockEvaluate(content, ans, p.RedactPII, isResponse)
      called == applyBedrockGuardrail(credentials, ans)
      error == OnServiceError(p, BedrockError(p, isResponse))
      answer ==
        CASE restores -> Mutate(BedrockUpdatePayload(body, restored))
          [] ~restores /\ body.none -> Pass
          [] ~restores /\ ~body.none /\ (~found.ok \/ ~called \/ eval.is = "error") -> error
          [] ~restores /\ ~body.none /\ found.ok /\ called /\ eval.is = "violation" ->
               BedrockError(p, isResponse)
          [] OTHER -> IF eval.text \in {<<>>, content} THEN Pass
                      ELSE Mutate(BedrockUpdatePayload(body, eval.text))
      evaluated == ~restores /\ ~body.none /\ found.ok /\ called
  IN  [r |-> answer,
       meta |-> IF evaluated /\ eval.masked # {}
                THEN [meta EXCEPT !.masked = eval.masked] ELSE meta]

BedrockOnRequestBody(pol, meta, body, ans) ==
  IF Active(pol.hasRequest, pol.request)
  THEN BedrockValidatePayload(body, pol.request, pol.credentials, FALSE, meta, ans)
  ELSE [r |-> Pass, meta |-> meta]

BedrockOnResponseBody(pol, meta, body, ans) ==
  IF Active(pol.hasResponse, pol.response)
  THEN BedrockValidatePayload(body, pol.response, pol.credentials, TRUE, meta, ans)
  ELSE [r |-> Pass, meta |-> meta]

(***************************************************************************)
(* azure-content-safety: severities per category, with retries.            *)
(***************************************************************************)

AzureCategories == {"Hate", "Sexual", "SelfHarm", "Violence"}
AzureDefault == [c \in AzureCategories |->
  CASE c = "Hate" -> 4 [] c = "Sexual" -> 5 [] c = "SelfHarm" -> 3 [] OTHER -> 4]

\* A threshold of -1 switches its category off.
AzureParseParams(raw) ==
  [ok |-> /\ "bad" \notin {raw.passthrough, raw.show, raw.rest}
          /\ \A c \in AzureCategories :
               /\ raw.thresholds[c].is # "bad"
               /\ raw.thresholds[c].is = "num" => raw.thresholds[c].v \in -1..7,
   Thresholds |-> [c \in AzureCategories |-> Number(raw.thresholds[c], AzureDefault[c])],
   Passthrough |-> Truth(raw.passthrough, FALSE),
   Show |-> Truth(raw.show, FALSE)]

AzureConfigValid(raw) == raw.endpoint = "ok" /\ raw.key = "ok"

AzureGetPolicy(raw) ==
  LET pol == BuildPolicy(Flow(LaxFlow(raw.request), AzureParseParams(raw.request)),
                         Flow(LaxFlow(raw.response), AzureParseParams(raw.response)))
  IN  [pol EXCEPT !.ok = @ /\ AzureConfigValid(raw)]

AzureAssessment(isResponse, show) == Assessment(isResponse, show)
AzureError(p, isResponse) == Block(AzureAssessment(isResponse, p.Show))

\* buildCategoryMap, getValidCategories
AzureCategoryMap(p) == p.Thresholds
AzureValidCategories(p) == {c \in AzureCategories : AzureCategoryMap(p)[c] \in 0..7}

\* makeHTTPRequest: the reply of one attempt.
AzureReplies == {"network", "5xx", "4xx", "garbled", "ok"}

\* callAzureContentSafetyAPI: network errors and 5xx are retried, at most
\* Len(replies) attempts (maxRetries in the code); the first other reply, or
\* the last one, decides.
callAzureContentSafetyAPI(replies) ==
  LET decisive == {n \in DOMAIN replies : replies[n] \notin {"network", "5xx"}}
  IN  decisive # {} /\ replies[Min(decisive)] = "ok"

AzureValidatePayload(body, p, isResponse, ans) ==
  LET categories == AzureValidCategories(p)
      found == ExtractString(body.v)
      violates == \E c \in categories : ans.severity[c] >= AzureCategoryMap(p)[c]
  IN  CASE categories = {} \/ body.none -> Pass
        [] ~(categories = {} \/ body.none)
             /\ (~found.ok \/ ~callAzureContentSafetyAPI(ans.replies)) ->
               OnServiceError(p, AzureError(p, isResponse))
        [] OTHER -> IF violates THEN AzureError(p, isResponse) ELSE Pass

\* There is no switch: a flow that is configured is inspected.
AzureOnRequestBody(pol, body, ans) ==
  IF pol.hasRequest THEN AzureValidatePayload(body, pol.request, FALSE, ans) ELSE Pass
AzureOnResponseBody(pol, body, ans) ==
  IF pol.hasResponse THEN AzureValidatePayload(body, pol.response, TRUE, ans) ELSE Pass

(***************************************************************************)
(* semantic-prompt-guard: requests only.  An embedding is a direction in   *)
(* 0..4 and similarity is counted in quarters, 4 minus the distance; a     *)
(* vector that cannot be compared (empty, zero, of another dimension) is   *)
(* Unusable.                                                               *)
(***************************************************************************)

Unusable == 9
Quarters == 0..4
Distance(a, b) == IF a > b THEN a - b ELSE b - a

cosineSimilarity(a, b) ==
  [ok |-> a # Unusable /\ b # Unusable, sim |-> 4 - Distance(a, b)]

maxSimilarity(target, phrases) ==
  [ok |-> \A p \in phrases : cosineSimilarity(target, p).ok,
   sim |-> IF phrases = {} THEN 0 ELSE Max({cosineSimilarity(target, p).sim : p \in phrases})]

\* parseEmbeddingConfig, createEmbeddingProvider
SemanticConfigValid(raw) ==
  /\ raw.provider \in {"OPENAI", "MISTRAL", "AZURE_OPENAI"}
  /\ raw.provider \in {"OPENAI", "MISTRAL"} => raw.model = "ok"
  /\ raw.endpoint = "ok" /\ raw.key = "ok"

\* parsePhraseEmbeddings: absent, an array of phrases, or an error.
SemanticPhrasesValid(raw) == raw.is # "bad"

\* ensureEmbeddings: one embedding per phrase or the factory fails.
SemanticEmbeds(raw, fetch) == raw.v = {} \/ fetch

\* parseFloatParam: a value that is no number falls back to the default.
SemanticThreshold(n, default) == Number(n, default)

SemanticParseParams(raw) ==
  LET allow == SemanticThreshold(raw.allowThreshold, 3)
      deny == SemanticThreshold(raw.denyThreshold, 3)
  IN  [ok |-> /\ SemanticConfigValid(raw)
              /\ "bad" \notin {raw.show, raw.rest}
              /\ allow \in Quarters /\ deny \in Quarters
              /\ SemanticPhrasesValid(raw.allowed) /\ SemanticPhrasesValid(raw.denied)
              /\ raw.allowed.v \cup raw.denied.v # {}
              /\ SemanticEmbeds(raw.allowed, raw.fetch) /\ SemanticEmbeds(raw.denied, raw.fetch),
       Allowed |-> raw.allowed.v, Denied |-> raw.denied.v,
       AllowThreshold |-> allow, DenyThreshold |-> deny,
       Show |-> Truth(raw.show, FALSE)]

SemanticGetPolicy(raw) == SemanticParseParams(raw)

SemanticAssessment(show) == Assessment(FALSE, show)
SemanticError(p) == Block(SemanticAssessment(p.Show))

\* Denied phrases are looked at first; allowed phrases, when there are any,
\* must be met as well.
SemanticValidatePayload(v, p, ans) ==
  LET found == ExtractString(v)
      denied == maxSimilarity(ans.embedding, p.Denied)
      allowed == maxSimilarity(ans.embedding, p.Allowed)
  IN  IF /\ found.ok /\ found.text # <<>>
         /\ ~ans.fails
         /\ p.Denied # {} => denied.ok /\ denied.sim < p.DenyThreshold
         /\ p.Allowed # {} => allowed.ok /\ allowed.sim >= p.AllowThreshold
      THEN Pass ELSE SemanticError(p)

SemanticOnRequestBody(pol, body, ans) == SemanticValidatePayload(body.v, pol, ans)

============================================================================
