-------------------------- MODULE CountGuardrails --------------------------
(***************************************************************************)
(* The word-count, sentence-count and content-length guardrails: the       *)
(* parameters a factory accepts, the verdict on a whole body, and the gate *)
(* and the verdict on a streamed reply.  The three policies are copies of  *)
(* one design that have drifted apart; each keeps its own operators, so    *)
(* that every difference between them is visible here.                     *)
(***************************************************************************)
EXTENDS GuardrailText

InRange(count, p) == count >= p.Min /\ count <= p.Max
Admitted(count, p) == IF p.Invert THEN ~InRange(count, p) ELSE InRange(count, p)

\* Mutant: minimum and maximum are not compared.
ParseRangeUnordered(raw, enabledByDefault) ==
  [ok |-> /\ raw.enabled = "no" \/ (raw.min.is = "num" /\ raw.max.is = "num")
          /\ "bad" \notin {raw.enabled, raw.invert, raw.show, raw.stream, raw.rest},
   Enabled |-> Truth(raw.enabled, enabledByDefault),
   Min |-> Number(raw.min, 0), Max |-> Number(raw.max, 0),
   Invert |-> Truth(raw.invert, FALSE), Show |-> Truth(raw.show, FALSE), Stream |-> "delta"]

\* parseParams of the three policies: the range is read unless the flow is
\* switched off explicitly.
ParseRange(raw, enabledByDefault) ==
  LET off == raw.enabled = "no" 
  IN  [ok |-> /\ raw.enabled # "bad"
              /\ ~off => /\ raw.min.is = "num" /\ raw.max.is = "num"
                         /\ raw.min.v >= 0 /\ raw.max.v > 0
                         /\ raw.min.v <= raw.max.v
              /\ "bad" \notin {raw.invert, raw.show, raw.stream, raw.rest},
       Enabled |-> Truth(raw.enabled, enabledByDefault),
       Min |-> IF off THEN 0 ELSE Number(raw.min, 0),
       Max |-> IF off THEN 0 ELSE Number(raw.max, 0),
       Invert |-> Truth(raw.invert, FALSE),
       Show |-> Truth(raw.show, FALSE),
       Stream |-> "delta"]

\* An empty batch leaves no trace; a batch that is not SSE extends the plain
\* JSON body kept in the metadata.
WithJson(meta, lines) == [meta EXCEPT !.json = @ \o lines]
WithText(meta, text) == [meta EXCEPT !.text = text]

(***************************************************************************)
(* word-count-guardrail                                                    *)
(***************************************************************************)

WordParseParams(raw, isResponse) == ParseRange(raw, ~isResponse)
WordGetFlowParams(raw) == StrictFlow(raw, TRUE)
WordNewPolicy(raw) ==
  BuildPolicy(Flow(WordGetFlowParams(raw.request), WordParseParams(raw.request, FALSE)),
              Flow(WordGetFlowParams(raw.response), WordParseParams(raw.response, TRUE)))

WordNormalize(v) == NormalizeValue(v, Found(<<>>))
WordExtract(v) ==
  IF ExtractString(v).ok THEN ExtractString(v)
  ELSE IF Extractable(v) THEN WordNormalize(v) ELSE NotFound
WordIsSSE(lines) == IsSSE(lines)
WordDelta(lines) == DeltaContent(lines, "delta")

countWords(t) == Segments(TrimSpace(Clean(t)), Space)

WordAssessment(isResponse, show) == Assessment(isResponse, show)
WordError(p, isResponse) == Block(WordAssessment(isResponse, p.Show))
WordSSEError(p, meta) == Cut(WordAssessment(TRUE, p.Show), meta)

validateWordCount(t, p) ==
  IF Admitted(Segments(TrimSpace(Clean(t)), Space), p) THEN Pass ELSE WordError(p, TRUE)

WordValidatePayload(v, p, isResponse) ==
  LET found == WordExtract(v)
  IN  IF found.ok /\ Admitted(Segments(TrimSpace(Clean(found.text)), Space), p)
      THEN Pass ELSE WordError(p, isResponse)

WordOnRequestBody(pol, body) ==
  IF Active(pol.hasRequest, pol.request)
  THEN WordValidatePayload(body.v, pol.request, FALSE) ELSE Pass

WordOnResponseBody(pol, body) ==
  IF ~Active(pol.hasResponse, pol.response) THEN Pass
  ELSE IF WordIsSSE(body.lines) THEN validateWordCount(WordDelta(body.lines), pol.response)
  ELSE WordValidatePayload(body.v, pol.response, TRUE)

\* Mutant: the batch is let go one word too early.
WordNeedsMoreEarly(pol, acc) ==
  /\ Active(pol.hasResponse, pol.response)
  /\ WordIsSSE(acc)
  /\ ~HasDone(acc)
  /\ IF pol.response.Invert THEN countWords(WordDelta(acc)) < pol.response.Max
     ELSE countWords(WordDelta(acc)) + 1 < pol.response.Min

\* The gate: hold the batch back until the text has left the undecided range.
WordNeedsMore(pol, acc) ==
  LET p == pol.response
      count == countWords(WordDelta(acc))
  IN  /\ Active(pol.hasResponse, p)
      /\ WordIsSSE(acc)
      /\ ~HasDone(acc)
      /\ IF p.Invert THEN count <= p.Max ELSE p.Min > 0 /\ count < p.Min

\* The last verdict on a stream that has ended: only what the running checks
\* could not decide before the end.
BelowOrExcluded(count, p) == IF p.Invert THEN InRange(count, p) ELSE count < p.Min

WordOnPlainChunk(p, meta, lines, eos) ==
  LET m == WithJson(meta, lines)
  IN  CASE ~eos -> Forward(m)
        [] eos /\ AllBlank(m.json) ->
             IF BelowOrExcluded(countWords(m.text), p) THEN WordSSEError(p, m) ELSE Forward(m)
        [] OTHER ->
             LET r == WordValidatePayload(JsonBodyValue(m.json), p, TRUE)
             IN  IF r = Pass THEN Forward(m) ELSE Cut(r.why, m)

\* Mutant: only the words of the batch are counted.
WordOnSSEChunkForgets(p, meta, lines, eos) ==
  LET count == countWords(WordDelta(lines))
  IN  IF (~p.Invert /\ count > p.Max) \/ (eos /\ BelowOrExcluded(count, p))
      THEN WordSSEError(p, meta) ELSE Forward(meta)

WordOnSSEChunk(p, meta, lines, eos) ==
  LET m == WithText(meta, meta.text \o WordDelta(lines))
      count == countWords(m.text)
  IN  IF \/ ~p.Invert /\ p.Max > 0 /\ count > p.Max
         \/ eos /\ BelowOrExcluded(count, p)
      THEN WordSSEError(p, m) ELSE Forward(m)

WordOnChunk(pol, meta, lines, eos) ==
  IF ~Active(pol.hasResponse, pol.response) \/ lines = <<>> THEN Forward(meta)
  ELSE IF WordIsSSE(lines) THEN WordOnSSEChunk(pol.response, meta, lines, eos)
  ELSE WordOnPlainChunk(pol.response, meta, lines, eos)

(***************************************************************************)
(* sentence-count-guardrail                                                *)
(***************************************************************************)

SentenceParseParams(raw, isResponse) == ParseRange(raw, ~isResponse)
SentenceGetFlowParams(raw) == StrictFlow(raw, TRUE)
SentenceGetPolicy(raw) ==
  BuildPolicy(Flow(SentenceGetFlowParams(raw.request), SentenceParseParams(raw.request, FALSE)),
              Flow(SentenceGetFlowParams(raw.response), SentenceParseParams(raw.response, TRUE)))

\* Unlike the word count, a null at the path is an error.
SentenceNormalize(v) == NormalizeValue(v, NotFound)
SentenceExtract(v) ==
  IF ExtractString(v).ok THEN ExtractString(v)
  ELSE IF Extractable(v) THEN SentenceNormalize(v) ELSE NotFound
SentenceIsSSE(lines) == IsSSE(lines)
SentenceDelta(lines) == DeltaContent(lines, "delta")

\* The count of an event stream, buffered or not, ignores segments of white
\* space; the count of a JSON body does not.
countSentences(t) == SolidSegments(TrimSpace(Clean(t)), Stop)

SentenceAssessment(isResponse, show) == Assessment(isResponse, show)
SentenceError(p, isResponse) == Block(SentenceAssessment(isResponse, p.Show))
SentenceSSEError(p, meta) == Cut(SentenceAssessment(TRUE, p.Show), meta)

\* Mutant: the segments of a buffered event stream are counted like those of a JSON body.
validateEverySegment(t, p) ==
  IF Admitted(Segments(TrimSpace(Clean(t)), Stop), p) THEN Pass ELSE SentenceError(p, TRUE)

validateSentenceCountInText(t, p) ==
  IF Admitted(countSentences(TrimSpace(Clean(t))), p) THEN Pass ELSE SentenceError(p, TRUE)

SentenceValidatePayload(v, p, isResponse) ==
  LET found == SentenceExtract(v)
  IN  IF found.ok /\ Admitted(Segments(TrimSpace(Clean(found.text)), Stop), p)
      THEN Pass ELSE SentenceError(p, isResponse)

SentenceOnRequestBody(pol, body) ==
  IF Active(pol.hasRequest, pol.request)
  THEN SentenceValidatePayload(body.v, pol.request, FALSE) ELSE Pass

SentenceOnResponseBody(pol, body) ==
  IF ~Active(pol.hasResponse, pol.response) THEN Pass
  ELSE IF SentenceIsSSE(body.lines)
  THEN validateSentenceCountInText(SentenceDelta(body.lines), pol.response)
  ELSE SentenceValidatePayload(body.v, pol.response, TRUE)

SentenceNeedsMore(pol, acc) ==
  LET p == pol.response
      count == countSentences(SentenceDelta(acc))
  IN  /\ Active(pol.hasResponse, p)
      /\ SentenceIsSSE(acc)
      /\ ~HasDone(acc)
      /\ IF p.Invert THEN count <= p.Max ELSE p.Min > 0 /\ count < p.Min

\* A refused plain body is answered with an error in place of its last chunk,
\* which ends the stream as well.
SentenceOnPlainChunk(p, meta, lines, eos) ==
  LET m == WithJson(meta, lines)
  IN  CASE ~eos -> Forward(m)
        [] eos /\ AllBlank(m.json) ->
             IF BelowOrExcluded(countSentences(m.text), p)
             THEN SentenceSSEError(p, m) ELSE Forward(m)
        [] OTHER ->
             LET r == SentenceValidatePayload(JsonBodyValue(m.json), p, TRUE)
             IN  IF r = Pass THEN Forward(m) ELSE Cut(r.why, m)

SentenceOnSSEChunk(p, meta, lines, eos) ==
  LET m == WithText(meta, meta.text \o SentenceDelta(lines))
      count == countSentences(m.text)
  IN  IF \/ ~p.Invert /\ p.Max > 0 /\ count > p.Max
         \/ eos /\ BelowOrExcluded(count, p)
      THEN SentenceSSEError(p, m) ELSE Forward(m)

SentenceOnChunk(pol, meta, lines, eos) ==
  IF ~Active(pol.hasResponse, pol.response) \/ lines = <<>> THEN Forward(meta)
  ELSE IF SentenceIsSSE(lines) THEN SentenceOnSSEChunk(pol.response, meta, lines, eos)
  ELSE SentenceOnPlainChunk(pol.response, meta, lines, eos)

(***************************************************************************)
(* content-length-guardrail: bytes, one per token.                         *)
(***************************************************************************)

LengthParseParams(raw, isResponse) == ParseRange(raw, ~isResponse)

\* The type assertion drops a flow that is not an object; an empty object is a
\* flow without its required parameters.
LengthGetPolicy(raw) ==
  BuildPolicy(Flow(LaxFlow(raw.request), LengthParseParams(raw.request, FALSE)),
              Flow(LaxFlow(raw.response), LengthParseParams(raw.response, TRUE)))

LengthIsSSE(lines) == IsSSE(lines)
LengthDelta(lines) == DeltaContent(lines, "delta")
LengthAssessment(isResponse, show) == Assessment(isResponse, show)
LengthError(p, isResponse) == Block(LengthAssessment(isResponse, p.Show))
LengthSSEError(p, meta) == Cut(LengthAssessment(TRUE, p.Show), meta)

\* Only a string or a number at the path is measured; the rest is an error.
LengthValidatePayload(v, p, isResponse) ==
  LET found == ExtractString(v)
  IN  IF found.ok /\ Admitted(Len(TrimSpace(Clean(found.text))), p)
      THEN Pass ELSE LengthError(p, isResponse)

\* An absent body is refused before anything is extracted.
LengthOnRequestBody(pol, body) ==
  IF ~Active(pol.hasRequest, pol.request) THEN Pass
  ELSE IF body.none THEN Block(LengthAssessment(FALSE, FALSE))
  ELSE LengthValidatePayload(body.v, pol.request, FALSE)

\* A buffered SSE body has no branch of its own: it is not JSON.
LengthOnResponseBody(pol, body) ==
  IF Active(pol.hasResponse, pol.response)
  THEN LengthValidatePayload(body.v, pol.response, TRUE) ELSE Pass

LengthNeedsMore(pol, acc) ==
  LET p == pol.response
      bytes == Len(LengthDelta(acc))
  IN  /\ Active(pol.hasResponse, p)
      /\ LengthIsSSE(acc)
      /\ ~HasDone(acc)
      /\ IF p.Invert THEN bytes <= p.Max ELSE p.Min > 0 /\ bytes < p.Min

\* White space at the end of the stream is taken for a plain body, which it is
\* not: it is refused.
LengthOnPlainChunk(p, meta, lines, eos) ==
  LET m == WithJson(meta, lines)
      r == LengthValidatePayload(JsonBodyValue(m.json), p, TRUE)
  IN  IF ~eos \/ r = Pass THEN Forward(m) ELSE Cut(r.why, m)

\* The metadata holds the running number of bytes, as they came.
LengthOnSSEChunk(p, meta, lines, eos) ==
  LET m == [meta EXCEPT !.running = @ + Len(LengthDelta(lines))]
      inRange == m.running >= p.Min /\ (p.Max = 0 \/ m.running <= p.Max)
  IN  IF \/ p.Max > 0 /\ ~p.Invert /\ m.running > p.Max
         \/ eos /\ (IF p.Invert THEN inRange ELSE ~inRange)
      THEN LengthSSEError(p, m) ELSE Forward(m)

LengthOnChunk(pol, meta, lines, eos) ==
  IF ~Active(pol.hasResponse, pol.response) \/ lines = <<>> THEN Forward(meta)
  ELSE IF LengthIsSSE(lines) THEN LengthOnSSEChunk(pol.response, meta, lines, eos)
  ELSE LengthOnPlainChunk(pol.response, meta, lines, eos)

============================================================================
