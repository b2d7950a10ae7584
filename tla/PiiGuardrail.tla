--------------------------- MODULE PiiGuardrail ----------------------------
(***************************************************************************)
(* pii-masking-regex: personal data leaves the gateway as placeholders (or *)
(* redacted) and the placeholders of the reply are turned back, also when  *)
(* the reply is streamed and a placeholder is split over several events.   *)
(*                                                                         *)
(* Detectors are literal: the built-in one finds "x" and a custom one "xy",*)
(* so that one match is part of another.  A placeholder [KEY_0000] is the  *)
(* three tokens "[", "p0" and "]", which a stream may cut anywhere.        *)
(***************************************************************************)
EXTENDS GuardrailText, TLC

CONSTANT HoldLines    \* data lines the gate waits for a "]" (5 in the code)
ASSUME HoldLinesAssumption == HoldLines \in Nat

EmailEntity == <<"x">>
CustomEntity == <<"x", "y">>
PiiIds == <<"p0", "p1">>
Placeholder(n) == <<"[", PiiIds[n], "]">>
Stars == <<"*">>

\* parseParams, parseBoolParam: custom detectors and the built-in toggles; two
\* detectors of one name are refused and so is a policy without any.
PiiParseBool(b) == Truth(b, FALSE)
PiiParseParams(raw) ==
  LET custom == IF raw.custom \in {"own", "EMAIL"} THEN {CustomEntity} ELSE {}
      email == IF PiiParseBool(raw.email) THEN {EmailEntity} ELSE {}
  IN  [ok |-> /\ raw.custom \notin {"bad", "dup"}
              /\ "bad" \notin {raw.email, raw.redact, raw.rest}
              /\ ~(raw.custom = "EMAIL" /\ PiiParseBool(raw.email))
              /\ custom \cup email # {},
       Entities |-> custom \cup email,
       RedactPII |-> Truth(raw.redact, FALSE)]

PiiGetPolicy(raw) == PiiParseParams(raw)

\* The orders in which Go may range over the map of detectors.
PiiOrders(pol) == SetToSeqs(pol.Entities)

\* One substitution after the other, by the pairs of old and new text.
ReplaceEach(t, pairs) == FoldLeft(LAMBDA u, m : SubstituteAll(u, m[1], m[2]), t, pairs)

\* maskPIIFromContent: number the distinct matches detector by detector, then
\* replace the longest first.  The masked value is empty when nothing matched.
PiiMatches(content, order) == {n \in DOMAIN order : Occurs(order[n], content)}
\* Mutant: the number of the placeholder is not advanced.
PiiMappingSameNumber(content, order) ==
  {<<order[n], Placeholder(1)>> : n \in PiiMatches(content, order)}

PiiMapping(content, order) ==
  LET found == PiiMatches(content, order)
  IN  {<<order[n], Placeholder(Cardinality({m \in found : m <= n}))>> : n \in found}

LongestFirst(pairs) ==
  \A i, j \in DOMAIN pairs : i < j => Len(pairs[i][1]) >= Len(pairs[j][1])
\* Mutant: the lengths are compared the other way.
maskPIIFromContentShortestFirst(content, order) ==
  ReplaceEach(content,
    CHOOSE s \in SetToSeqs(PiiMapping(content, order)) : LongestFirst(Reverse(s)))

maskPIIFromContent(content, order) ==
  ReplaceEach(content, CHOOSE s \in SetToSeqs(PiiMapping(content, order)) : LongestFirst(s))

redactPIIFromContent(content, order) ==
  ReplaceEach(content, [i \in DOMAIN order |-> <<order[i], Stars>>])

\* extractStringFromPath: a scalar, nothing to mask, or an error.
PiiExtract(v) ==
  IF v.j \in {"string", "number"} THEN "scalar"
  ELSE IF Extractable(v) THEN "other" ELSE "error"

PiiError == Block(Assessment(FALSE, FALSE))

\* updatePayloadWithMaskedContent puts the new text at the same path.
PiiUpdatePayload(body, text) == [body EXCEPT !.v = JString(text)]

\* processRequestBody: the action and the mapping left in the metadata.
PiiOnRequestBody(pol, meta, body, order) ==
  LET content == TrimSpace(Clean(body.v.s))
      mapping == IF pol.RedactPII THEN {} ELSE PiiMapping(content, order)
      modified == IF pol.RedactPII THEN redactPIIFromContent(content, order)
                                   ELSE maskPIIFromContent(content, order)
  IN  CASE body.none -> [r |-> Pass, meta |-> meta]
        [] ~body.none /\ PiiExtract(body.v) = "error" -> [r |-> PiiError, meta |-> meta]
        [] ~body.none /\ PiiExtract(body.v) = "other" -> [r |-> Pass, meta |-> meta]
        [] OTHER -> [r |-> IF PiiMatches(content, order) = {} THEN Pass
                           ELSE Mutate(PiiUpdatePayload(body, modified)),
                     meta |-> [meta EXCEPT !.masked = mapping]]

(***************************************************************************)
(* The reply.                                                              *)
(***************************************************************************)

\* invertStringMap and restore: every placeholder back to its original.
invertStringMap(mapping) == {<<m[2], m[1]>> : m \in mapping}
restore(t, restoreMap) == ReplaceEach(t, SetToSeq(restoreMap))

PiiIsSSE(lines) == IsSSE(lines)

\* extractFirstDeltaContent
FirstDeltaContent(line) == IF line.l = "delta" THEN line.s ELSE <<>>

\* replaceContentInSSELine, updateDeltaContentInLine
ReplaceContent(line, text) == [line EXCEPT !.s = text]

\* restoreSSEChunk: restore the text of the whole batch, give it to the first
\* event that carries text and drop the other ones with their blank line.
restoreSSEChunk(lines, restoreMap) ==
  LET carriers == {i \in DOMAIN lines : FirstDeltaContent(lines[i]) # <<>>}
      full == FlattenSeq([i \in DOMAIN lines |-> FirstDeltaContent(lines[i])])
      restored == restore(full, restoreMap)
      dropped == carriers \ {Min(carriers)}
      blanks == {i \in DOMAIN lines : lines[i].l = "blank" /\ (i - 1) \in dropped}
  IN  IF carriers = {} \/ restored = full THEN lines
      ELSE FlattenSeq([i \in DOMAIN lines |->
             CASE i = Min(carriers) -> <<ReplaceContent(lines[i], restored)>>
               [] i \in dropped \cup blanks -> <<>>
               [] OTHER -> <<lines[i]>>])

\* restoreJSONChunk: in the bytes of the body, whatever parts it came in.
restoreJSONChunk(lines, restoreMap) ==
  LET full == JsonBody(lines)
      restored == restore(full, restoreMap)
  IN  IF restored = full THEN lines ELSE <<JsonEnd(restored)>>

\* restoreInChoices: the text of choices[*].message.content.
restoreInChoices(v, restoreMap) ==
  IF v.j = "string" THEN JString(restore(v.s, restoreMap)) ELSE v

\* processResponseBody
PiiOnResponseBody(pol, meta, body) ==
  LET map == invertStringMap(meta.masked)
      newLines == restoreSSEChunk(body.lines, map)
      newValue == restoreInChoices(body.v, map)
  IN  CASE pol.RedactPII \/ map = {} \/ body.none -> Pass
        [] ~(pol.RedactPII \/ map = {} \/ body.none) /\ PiiIsSSE(body.lines) ->
             IF newLines = body.lines THEN Pass ELSE Mutate([body EXCEPT !.lines = newLines])
        [] OTHER -> IF newValue = body.v THEN Pass ELSE Mutate([body EXCEPT !.v = newValue])

\* extractSSEDeltaContentTracked: the data lines that count, and their text.
TrackedLines(acc) ==
  SelectSeq(acc, LAMBDA x : x.l \in SSELines /\ ~(x.l \in {"event", "raw"} /\ x.s = <<>>))
TrackedContent(line) == IF line.l \in {"delta", "raw", "event"} THEN line.s ELSE <<>>

\* Mutant: the gate waits one line too short.
PiiNeedsMoreShort(pol, acc) ==
  LET data == TrackedLines(acc)
      text == FlattenSeq([i \in DOMAIN data |-> TrackedContent(data[i])])
      opens == {i \in DOMAIN text : text[i] = "["}
      openLines == {i \in DOMAIN data : Contains(TrackedContent(data[i]), "[")}
  IN  /\ ~pol.RedactPII
      /\ IF ~PiiIsSSE(acc) THEN ~JsonComplete(acc)
         ELSE /\ opens # {}
              /\ \A i \in (Max(opens) + 1)..Len(text) : text[i] # "]"
              /\ Len(data) - Max(openLines) < HoldLines

\* NeedsMoreResponseData: hold back an open bracket, but not for ever.
PiiNeedsMore(pol, acc) ==
  LET data == TrackedLines(acc)
      text == FlattenSeq([i \in DOMAIN data |-> TrackedContent(data[i])])
      opens == {i \in DOMAIN text : text[i] = "["}
      openLines == {i \in DOMAIN data : Contains(TrackedContent(data[i]), "[")}
  IN  /\ ~pol.RedactPII
      /\ IF ~PiiIsSSE(acc) THEN ~JsonComplete(acc)
         ELSE /\ opens # {}
              /\ \A i \in (Max(opens) + 1)..Len(text) : text[i] # "]"
              /\ Len(data) - Max(openLines) <= HoldLines

PiiOnChunk(pol, meta, lines, eos) ==
  LET map == invertStringMap(meta.masked)
      new == IF PiiIsSSE(lines) THEN restoreSSEChunk(lines, map) ELSE restoreJSONChunk(lines, map)
  IN  IF pol.RedactPII \/ lines = <<>> \/ map = {} \/ new = lines
      THEN Forward(meta) ELSE ForwardBody(new, meta)

============================================================================
