------------------------- MODULE PatternGuardrails -------------------------
(***************************************************************************)
(* The url, regex and json-schema guardrails: what they look for in a text *)
(* and the verdict on a whole body and on a streamed reply.                *)
(*                                                                         *)
(* URLs are spelt with the tokens "ht" and "tp" (two parts of the protocol *)
(* name, http or https, which a stream may cut anywhere), "://" and the    *)
(* pieces "h", "x" of what follows.  The network is outside the            *)
(* repository: a host answers or it does not.                              *)
(***************************************************************************)
EXTENDS GuardrailText

PatternJson(meta, lines) == [meta EXCEPT !.json = @ \o lines]

\* A plain JSON body that came in chunks is judged when it is complete.
JudgeAtEnd(verdict, meta, eos) ==
  IF ~eos \/ verdict = Pass THEN Forward(meta) ELSE Cut(verdict.why, meta)

(***************************************************************************)
(* url-guardrail                                                           *)
(***************************************************************************)

UrlParseParams(raw, enabledByDefault) ==
  [ok |-> /\ "bad" \notin {raw.enabled, raw.onlyDNS, raw.show, raw.stream, raw.rest}
          /\ raw.timeout.is = "absent" \/ (raw.timeout.is = "num" /\ raw.timeout.v >= 0),
   Enabled |-> Truth(raw.enabled, enabledByDefault),
   OnlyDNS |-> Truth(raw.onlyDNS, FALSE),
   Timeout |-> Number(raw.timeout, 3000),
   Show |-> Truth(raw.show, FALSE)]

UrlGetFlowParams(raw) == StrictFlow(raw, FALSE)
UrlGetPolicy(raw) ==
  BuildPolicy(Flow(UrlGetFlowParams(raw.request), UrlParseParams(raw.request, FALSE)),
              Flow(UrlGetFlowParams(raw.response), UrlParseParams(raw.response, TRUE)))

UrlNormalize(v) == NormalizeValue(v, NotFound)
UrlExtract(v) ==
  IF ExtractString(v).ok THEN ExtractString(v)
  ELSE IF Extractable(v) THEN UrlNormalize(v) ELSE NotFound
UrlIsSSE(lines) == IsSSE(lines)
UrlDelta(lines) == DeltaContent(lines, "delta")

\* The network: the host "h" has an address, and only its root page answers.
\* A timeout of 0 ms expires before either answer arrives.
checkDNS(body, timeout) == timeout > 0 /\ body[1] = "h"
checkURL(body, timeout) == timeout > 0 /\ body = <<"h">>
UrlIsValid(body, p) == IF p.OnlyDNS THEN checkDNS(body, p.Timeout) ELSE checkURL(body, p.Timeout)

\* urlRegexCompiled.FindAllString: what follows http:// up to white space or a
\* quote; the first match of an unbroken run takes the rest of the run.
UrlEnds == {Space, Quote}
ProtocolAt(t, i) == t[i] = "ht" /\ t[i+1] = "tp"
UrlStarts(t) ==
  {i \in 1..(Len(t) - 3) : ProtocolAt(t, i) /\ t[i+2] = "://" /\ t[i+3] \notin UrlEnds}
UrlRunEnd(t, i) ==
  Max({k \in i..Len(t) : \A j \in i..k : t[j] \notin UrlEnds})
Urls(t) ==
  {SubSeq(t, i + 3, UrlRunEnd(t, i)) :
     i \in {s \in UrlStarts(t) : \A e \in UrlStarts(t) : e < s => UrlRunEnd(t, e) < s}}

InvalidUrls(t, p) == {u \in Urls(TrimSpace(Clean(t))) : ~UrlIsValid(u, p)}

\* incompleteURLAtEnd: the text ends in a whole protocol name, or in one
\* followed by "://" and no white space, that no word character precedes.  The
\* beginning of a protocol name is not held back.
WordChars == {"w", "h", "x", "ht", "tp"}
IncompleteUrlAtEnd(t) ==
  \E i \in 1..(Len(t) - 1) :
     /\ ProtocolAt(t, i)
     /\ i = 1 \/ t[i-1] \notin WordChars
     /\ i + 1 < Len(t) => t[i+2] = "://" /\ \A j \in i..Len(t) : t[j] # Space

UrlAssessment(isResponse, show) == Assessment(isResponse, show)
UrlError(p, isResponse) == Block(UrlAssessment(isResponse, p.Show))
UrlSSEError(p, meta) == Cut(UrlAssessment(TRUE, p.Show), meta)

validateURLsInText(t, p, isResponse) ==
  IF InvalidUrls(t, p) = {} THEN Pass ELSE UrlError(p, isResponse)

UrlValidatePayload(v, p, isResponse) ==
  LET found == UrlExtract(v)
  IN  IF found.ok THEN validateURLsInText(found.text, p, isResponse) ELSE UrlError(p, isResponse)

UrlOnRequestBody(pol, body) ==
  IF Active(pol.hasRequest, pol.request)
  THEN UrlValidatePayload(body.v, pol.request, FALSE) ELSE Pass

\* A buffered SSE body without any text falls through to the JSONPath.
UrlOnResponseBody(pol, body) ==
  IF ~Active(pol.hasResponse, pol.response) THEN Pass
  ELSE IF UrlDelta(body.lines) # <<>>
  THEN validateURLsInText(UrlDelta(body.lines), pol.response, TRUE)
  ELSE UrlValidatePayload(body.v, pol.response, TRUE)

\* Mutant: the gate waits for the protocol name only, not for the whole URL.
UrlNeedsMoreProtocol(pol, acc) ==
  /\ Active(pol.hasResponse, pol.response)
  /\ ~HasDone(acc)
  /\ UrlDelta(acc) # <<>>
  /\ Last(UrlDelta(acc)) = "tp"

UrlNeedsMore(pol, acc) ==
  /\ Active(pol.hasResponse, pol.response)
  /\ ~HasDone(acc)
  /\ UrlDelta(acc) # <<>>
  /\ IncompleteUrlAtEnd(UrlDelta(acc))

\* Each batch is judged by itself: the gate keeps a URL in one batch once its
\* protocol name is there.
UrlOnSSEChunk(p, meta, lines) ==
  IF InvalidUrls(UrlDelta(lines), p) = {} THEN Forward(meta) ELSE UrlSSEError(p, meta)

UrlOnChunk(pol, meta, lines, eos) ==
  IF ~Active(pol.hasResponse, pol.response) \/ lines = <<>> THEN Forward(meta)
  ELSE IF UrlIsSSE(lines) THEN UrlOnSSEChunk(pol.response, meta, lines)
  ELSE LET m == PatternJson(meta, lines)
       IN  JudgeAtEnd(UrlValidatePayload(JsonBodyValue(m.json), pol.response, TRUE), m, eos)

(***************************************************************************)
(* regex-guardrail: the pattern is "ab", in two adjacent tokens.           *)
(***************************************************************************)

Pattern == <<"a", "b">>
Matches(t) == Occurs(Pattern, t)

\* The streaming JSONPath has no default here: it stays empty when absent.
RegexParseParams(raw, enabledByDefault) ==
  LET off == raw.enabled = "no"
  IN  [ok |-> /\ "bad" \notin {raw.enabled, raw.invert, raw.show, raw.stream, raw.rest}
              /\ off \/ raw.regex = "ok",
       Enabled |-> Truth(raw.enabled, enabledByDefault),
       Invert |-> Truth(raw.invert, FALSE),
       Show |-> Truth(raw.show, FALSE),
       Stream |-> IF raw.stream = "given" THEN "delta" ELSE ""]

RegexGetPolicy(raw) ==
  BuildPolicy(Flow(LaxFlow(raw.request), RegexParseParams(raw.request, TRUE)),
              Flow(LaxFlow(raw.response), RegexParseParams(raw.response, FALSE)))

RegexIsSSE(lines) == IsSSE(lines)
RegexDelta(lines, path) == DeltaContent(lines, path)
RegexAssessment(isResponse, show) == Assessment(isResponse, show)
RegexError(p, isResponse) == Block(RegexAssessment(isResponse, p.Show))
RegexSSEError(p, meta) == Cut(RegexAssessment(TRUE, p.Show), meta)

RegexValidatePayload(empty, v, p, isResponse) ==
  LET found == ExtractString(v)
  IN  IF empty \/ (found.ok /\ (Matches(found.text) # p.Invert))
      THEN Pass ELSE RegexError(p, isResponse)

RegexOnRequestBody(pol, body) ==
  IF Active(pol.hasRequest, pol.request)
  THEN RegexValidatePayload(body.none, body.v, pol.request, FALSE) ELSE Pass

RegexOnResponseBody(pol, body) ==
  IF Active(pol.hasResponse, pol.response)
  THEN RegexValidatePayload(body.none, body.v, pol.response, TRUE) ELSE Pass

RegexNeedsMore(pol, acc) == FALSE

\* The whole text so far is matched after every batch: a blocklist is decided
\* at the first match, an allowlist at the end of the stream.
RegexOnSSEChunk(p, meta, lines, eos) ==
  LET m == [meta EXCEPT !.text = @ \o RegexDelta(lines, p.Stream)]
      violated == IF p.Invert THEN Matches(m.text)
                  ELSE eos /\ m.text # <<>> /\ ~Matches(m.text)
  IN  IF violated THEN RegexSSEError(p, m) ELSE Forward(m)

RegexOnChunk(pol, meta, lines, eos) ==
  IF ~Active(pol.hasResponse, pol.response) \/ lines = <<>> THEN Forward(meta)
  ELSE IF RegexIsSSE(lines) THEN RegexOnSSEChunk(pol.response, meta, lines, eos)
  ELSE LET m == PatternJson(meta, lines)
       IN  JudgeAtEnd(RegexValidatePayload(FALSE, JsonBodyValue(m.json), pol.response, TRUE),
                      m, eos)

(***************************************************************************)
(* json-schema-guardrail: buffered in both directions.  The schema accepts *)
(* strings; "broken" is JSON that is not a schema.                         *)
(***************************************************************************)

SchemaParseParams(raw, enabledByDefault) ==
  LET off == raw.enabled = "no"
  IN  [ok |-> /\ "bad" \notin {raw.enabled, raw.invert, raw.show, raw.rest}
              /\ off \/ raw.schema \in {"ok", "broken"},
       Enabled |-> Truth(raw.enabled, enabledByDefault),
       Schema |-> raw.schema,
       Invert |-> Truth(raw.invert, FALSE),
       Show |-> Truth(raw.show, FALSE)]

SchemaGetPolicy(raw) ==
  BuildPolicy(Flow(LaxFlow(raw.request), SchemaParseParams(raw.request, FALSE)),
              Flow(LaxFlow(raw.response), SchemaParseParams(raw.response, TRUE)))

SchemaAssessment(isResponse, show) == Assessment(isResponse, show)
SchemaError(p, isResponse) == Block(SchemaAssessment(isResponse, p.Show))

\* extractValueFromJSONPathForSchema
SchemaExtractable(v) == Extractable(v)
SchemaAccepts(v) == v.j = "string"

\* Neither a missing value nor a broken schema passes, inverted or not.
SchemaValidatePayload(v, p, isResponse) ==
  IF /\ SchemaExtractable(v)
     /\ p.Schema = "ok"
     /\ SchemaAccepts(v) # p.Invert
  THEN Pass ELSE SchemaError(p, isResponse)

SchemaOnRequestBody(pol, body) ==
  IF Active(pol.hasRequest, pol.request)
  THEN SchemaValidatePayload(body.v, pol.request, FALSE) ELSE Pass

SchemaOnResponseBody(pol, body) ==
  IF Active(pol.hasResponse, pol.response)
  THEN SchemaValidatePayload(body.v, pol.response, TRUE) ELSE Pass

============================================================================
