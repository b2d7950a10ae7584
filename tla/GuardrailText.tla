--------------------------- MODULE GuardrailText ---------------------------
(***************************************************************************)
(* What the guardrail policies share: texts, the JSON values a JSONPath    *)
(* finds in a body, and the server-sent-event (SSE) batches of a streamed  *)
(* reply.                                                                  *)
(*                                                                         *)
(* A text is a sequence of token classes, one token per fragment the       *)
(* policies' regular expressions tell apart: "_" is white space, "." ends  *)
(* a sentence, "q" is a double quote and every other token is a piece of a *)
(* word.  Concatenating texts concatenates their characters, so a word     *)
(* that is cut in two by a chunk boundary is one word again.               *)
(*                                                                         *)
(* The JSONPath library and the kernel's body types are outside the        *)
(* repository; they are modelled from how the policies use them.           *)
(***************************************************************************)
EXTENDS Integers, Sequences, FiniteSets, SequencesExt

Space == "_"
Quote == "q"
Stop == "."

(***************************************************************************)
(* Text operations (Go's strings package and the two shared regexes).      *)
(***************************************************************************)

\* strings.TrimSpace
TrimSpace(t) ==
  LET kept == {i \in DOMAIN t : t[i] # Space}
  IN  IF kept = {} THEN <<>> ELSE SubSeq(t, Min(kept), Max(kept))

\* textCleanRegexCompiled.ReplaceAllString(t, ""): one quote at either end.
Clean(t) ==
  LET head == IF t # <<>> /\ t[1] = Quote THEN Tail(t) ELSE t
  IN  IF head # <<>> /\ Last(head) = Quote THEN Front(head) ELSE head

\* The number of non-empty segments of t between separators.
Segments(t, sep) ==
  Cardinality({i \in DOMAIN t : t[i] # sep /\ (i = 1 \/ t[i-1] = sep)})

\* The number of segments between separators that are more than white space.
SolidSegments(t, sep) ==
  Cardinality({i \in DOMAIN t :
     /\ t[i] \notin {sep, Space}
     /\ \A j \in 1..(i-1) :
          t[j] \notin {sep, Space} => \E k \in (j+1)..(i-1) : t[k] = sep})

\* Does pattern occur in t?
Occurs(pattern, t) ==
  \E i \in 1..Len(t) :
     /\ i + Len(pattern) - 1 <= Len(t)
     /\ SubSeq(t, i, i + Len(pattern) - 1) = pattern

\* strings.ReplaceAll(t, old, new): left to right, without overlaps.
SubstituteAll(t, old, new) ==
  LET n == Len(old)
      from[i \in 1..(Len(t) + 1)] ==
        IF i > Len(t) THEN <<>>
        ELSE IF i + n - 1 <= Len(t) /\ SubSeq(t, i, i + n - 1) = old
             THEN new \o from[i + n]
             ELSE <<t[i]>> \o from[i + 1]
  IN  IF n = 0 THEN t ELSE from[1]

(***************************************************************************)
(* JSON: the value found at the policy's path.  A scalar carries the text  *)
(* it is printed as.                                                       *)
(***************************************************************************)

JString(t) == [j |-> "string", s |-> t]
JNumber(t) == [j |-> "number", s |-> t]
JBool(t) == [j |-> "bool", s |-> t]
JNull == [j |-> "null"]
JObject(field, v, t) == [j |-> "object", field |-> field, v |-> v, s |-> t]
JArray(items) == [j |-> "array", items |-> items]
JAbsent == [j |-> "absent"]     \* valid JSON, nothing at the path
JInvalid == [j |-> "invalid"]   \* not JSON (an empty body included)

Found(t) == [ok |-> TRUE, text |-> t]
NotFound == [ok |-> FALSE, text |-> <<>>]

\* utils.ExtractStringValueFromJsonpath: strings and numbers only.
ExtractString(v) == IF v.j \in {"string", "number"} THEN Found(v.s) ELSE NotFound

\* utils.ExtractValueFromJsonpath after json.Unmarshal.
Extractable(v) == v.j \notin {"absent", "invalid"}

JoinTexts(parts) == 
  FoldSeq(LAMBDA p, acc : IF acc = <<>> THEN p ELSE p \o <<Space>> \o acc, <<>>, parts)

\* A scalar of normalizeExtractedValue; nullText is what nil becomes.
NormalizeScalar(v, nullText) ==
  CASE v.j \in {"string", "number", "bool"} -> Found(v.s)
    [] v.j = "null" -> nullText
    [] OTHER -> NotFound

\* An object: its content, else its text, else its encoding.
NormalizeObject(v, nullText) ==
  IF v.field \in {"content", "text"} THEN NormalizeScalar(v.v, nullText) ELSE Found(v.s)

NormalizeItem(v, nullText) ==
  IF v.j = "object" THEN NormalizeObject(v, nullText) ELSE NormalizeScalar(v, nullText)

\* An array: the trimmed, non-empty texts of its items, joined by a blank.
NormalizeArray(v, nullText) ==
  LET texts == [i \in DOMAIN v.items |-> NormalizeItem(v.items[i], nullText)]
      parts == SelectSeq([i \in DOMAIN texts |-> TrimSpace(texts[i].text)],
                         LAMBDA p : p # <<>>)
  IN  IF parts = <<>> THEN NotFound ELSE Found(JoinTexts(parts))

NormalizeValue(v, nullText) ==
  IF v.j = "array" THEN NormalizeArray(v, nullText) ELSE NormalizeItem(v, nullText)

\* extractStringFromJSONPath: a string or a number as it is, else normalised.
ExtractText(v, nullText) ==
  IF ExtractString(v).ok THEN ExtractString(v)
  ELSE IF Extractable(v) THEN NormalizeValue(v, nullText) ELSE NotFound

(***************************************************************************)
(* SSE.  A line of a stream is a data line whose JSON holds a delta, a     *)
(* list of fragments or no content, a data line that is not JSON, an       *)
(* event line, the data: [DONE] line, or something that is not SSE (white  *)
(* space, a piece of a plain JSON body).                                   *)
(***************************************************************************)

Delta(t) == [l |-> "delta", s |-> t]
Fragments(ts) == [l |-> "fragments", s |-> FlattenSeq(ts)]
NullDelta == [l |-> "null", s |-> <<>>]
RawData(t) == [l |-> "raw", s |-> t]
EventLine(t) == [l |-> "event", s |-> t]
DoneLine == [l |-> "done", s |-> <<>>]
BlankLine == [l |-> "blank", s |-> <<>>]
JsonPart(t) == [l |-> "json", s |-> t]
JsonEnd(t) == [l |-> "jsonend", s |-> t]   \* the part that closes the body

SSELines == {"delta", "fragments", "null", "raw", "event", "done"}

\* isSSEChunk: a data: or event: prefix on one of the first five lines.
IsSSE(lines) == \E i \in DOMAIN lines : i <= 5 /\ lines[i].l \in SSELines

HasDone(lines) == \E i \in DOMAIN lines : lines[i].l = "done"

\* joinSSEFragments: the fragments side by side, "" when there is no content.
JoinFragments(line) == line.s

\* An empty JSONPath stands for the whole payload, braces included.
WholePayload(line) ==
  IF line.l \in {"delta", "fragments", "null"} THEN <<"{">> \o line.s \o <<"}">> ELSE line.s

\* extractSSEDeltaContent: what every data and event line adds to the text; a
\* line that is not JSON counts with its whole value.
DeltaContent(lines, path) ==
  FlattenSeq([i \in DOMAIN lines |->
     IF lines[i].l \notin SSELines \ {"done"} THEN <<>>
     ELSE IF path = "" THEN WholePayload(lines[i]) ELSE JoinFragments(lines[i])])

\* The text of a plain JSON body that arrived in chunks.
JsonBody(lines) ==
  FlattenSeq([i \in DOMAIN lines |->
     IF lines[i].l \in {"json", "jsonend"} THEN lines[i].s ELSE <<>>])

\* json.Valid: the last part has arrived and nothing but white space is there
\* besides the parts.
JsonComplete(lines) ==
  /\ \E i \in DOMAIN lines : lines[i].l = "jsonend"
  /\ \A i \in DOMAIN lines : lines[i].l \in {"json", "jsonend", "blank"}

\* What the JSONPath finds in such a body; white space alone is not JSON.
JsonBodyValue(lines) ==
  IF JsonComplete(lines) THEN JString(JsonBody(lines)) ELSE JInvalid

\* strings.TrimSpace(full) == ""
AllBlank(lines) == \A i \in DOMAIN lines : lines[i].l = "blank"

(***************************************************************************)
(* Parameters.  The raw parameters of a flow are a record: an optional     *)
(* Boolean is "absent", "bad" (of another type), "yes" or "no", an optional *)
(* number is [is |-> "absent"|"bad"|"num", v |-> Int], and rest says       *)
(* whether the parameters the model does not tell apart are well typed.    *)
(***************************************************************************)

NoFlow == [ok |-> FALSE]

Truth(b, default) == IF b = "absent" THEN default ELSE b = "yes"
Number(n, default) == IF n.is = "num" THEN n.v ELSE default

\* A factory that treats a flow of the wrong type as an error; emptyIsAbsent
\* says whether an empty object counts as no flow.
StrictFlow(raw, emptyIsAbsent) ==
  CASE raw.given = "absent" -> "absent"
    [] raw.given = "notobject" -> "error"
    [] raw.given = "empty" -> IF emptyIsAbsent THEN "absent" ELSE "present"
    [] OTHER -> "present"

\* A factory whose type assertion ignores a flow of the wrong type.
LaxFlow(raw) == IF raw.given \in {"absent", "notobject"} THEN "absent" ELSE "present"

\* A policy from its two flows: every present flow must parse and one must be
\* present.
BuildPolicy(request, response) ==
  [ok |-> /\ "error" \notin {request.is, response.is}
          /\ "present" \in {request.is, response.is}
          /\ request.is = "present" => request.p.ok
          /\ response.is = "present" => response.p.ok,
   hasRequest |-> request.is = "present", request |-> request.p,
   hasResponse |-> response.is = "present", response |-> response.p]

Flow(is, p) == [is |-> is, p |-> IF is = "present" THEN p ELSE NoFlow]

Active(has, p) == has /\ p.Enabled

(***************************************************************************)
(* What a handler answers.                                                 *)
(***************************************************************************)

\* The object an intervention carries: the direction, and the details only
\* when the flow shows them.
Assessment(isResponse, show) ==
  [direction |-> IF isResponse THEN "RESPONSE" ELSE "REQUEST", shown |-> show]

Pass == [act |-> "pass"]
Block(a) == [act |-> "block", why |-> a]
Mutate(v) == [act |-> "mutate", body |-> v]

\* The outcome of one chunk: the action and the metadata it leaves.
Forward(meta) == [act |-> "forward", meta |-> meta]
ForwardBody(body, meta) == [act |-> "replace", body |-> body, meta |-> meta]
Cut(a, meta) == [act |-> "cut", why |-> a, meta |-> meta]

============================================================================
