-------------------------- MODULE GuardedExchange --------------------------
(***************************************************************************)
(* One exchange through one guardrail policy: the factory builds the       *)
(* policy, the kernel hands it the request body, and then either the whole *)
(* reply or the chunks of a streamed reply.                                *)
(*                                                                         *)
(* The kernel is outside the repository.  The policies rely on this of it: *)
(* it appends every chunk to an accumulator and asks NeedsMoreResponseData *)
(* about it; when the answer is no, or the stream has ended, it passes the *)
(* accumulated batch to OnResponseBodyChunk and starts a new one; metadata *)
(* is kept for the whole exchange; a terminated stream ends there.         *)
(***************************************************************************)
EXTENDS CountGuardrails, PatternGuardrails, PiiGuardrail, ServiceGuardrails

CONSTANTS
  Kinds,      \* the policies under study
  RawOf,      \* kind -> raw parameters
  BodyOf(_, _),  \* the request bodies for a kind and its raw parameters
  ReplyOf,    \* kind -> whole replies
  ChunkOf(_, _), \* the chunks of a streamed reply, each a sequence of lines
  AnswerOf,   \* kind -> answers of the service it asks
  MaxLines    \* lines a stream may have

Streaming == {"word", "sentence", "length", "url", "regex", "pii"}
Counting == {"word", "sentence", "length"}
Services == {"bedrock", "azure", "semantic"}
Buffered == {"schema", "bedrock", "azure"}

\* A parsed number is an integer; a service answers in one of the ways its caller tells
\* apart; an embedding, if it is usable, is a direction.
Lines == [l : SSELines \cup {"blank", "json", "jsonend"}, s : Seq(STRING)]
GuardAssumption ==
  /\ Kinds \subseteq Streaming \cup Buffered \cup Services
  /\ \A k \in Kinds : \A r \in RawOf[k] :
       /\ ChunkOf(k, r) \subseteq Seq(Lines)
       /\ \A body \in BodyOf(k, r) :
            /\ body = [none |-> body.none, v |-> body.v, lines |-> body.lines]
            /\ body.v.j \in {"string", "number"} => body.v.s \in Seq(STRING)
       /\ k \in Counting => \A n \in {r.request.min, r.request.max, r.response.min, r.response.max} :
                              n.is = "num" => n.v \in Int
       /\ k = "semantic" => r.allowed.v \cup r.denied.v \subseteq Quarters \cup {Unusable}
  /\ \A k \in Kinds : \A a \in AnswerOf[k] :
       /\ k = "bedrock" => a.action \in {"none", "intervened", "odd"}
       /\ k = "azure" => /\ a.replies \in Seq(AzureReplies)
                         /\ a.severity \in [AzureCategories -> Int]
       /\ k = "semantic" => a.embedding \in Quarters \cup {Unusable}
ASSUME GuardAssumption

VARIABLES
  kind, raw,  \* which policy, and the parameters it is given
  pol,        \* the policy the factory built
  phase,      \* "config", "rejected", "request", "blocked", "reply", "stream", "closed"
  asked,      \* the request body as the client sent it
  answer,     \* what the service said of the request
  sent,       \* the request body as the upstream got it
  meta,       \* metadata of the exchange
  acc,        \* the kernel's accumulator
  produced,   \* lines of the streamed reply so far
  released,   \* how many of them the policy has let go
  delivered,  \* lines the client has received
  reply,      \* the buffered reply: as it came and as the client got it
  ending,     \* the last batch of a stream: "none", "lines", "blank" or "bare"
  verdict     \* the last intervention, or none

vars == <<kind, raw, pol, phase, asked, answer, sent, meta, acc, produced, released,
          delivered, reply, ending, verdict>>

requestVars == <<kind, raw, pol, asked, answer, sent>>
streamVars == <<acc, produced, released, delivered, ending>>

NoBody == [none |-> TRUE, v |-> JInvalid, lines |-> <<>>]
NoPolicy == [ok |-> FALSE]
NoReply == [came |-> NoBody, got |-> NoBody]
NoAnswer == [fails |-> FALSE]
Untouched == [is |-> "none", why |-> Assessment(FALSE, FALSE)]
Intervention(a) == [is |-> "hit", why |-> a]

\* ResponseContext.Metadata: the text, the JSON body and the byte count of a
\* stream so far, and the placeholders of the request.
NoMeta == [text |-> <<>>, json |-> <<>>, running |-> 0, masked |-> {}]

Init ==
  /\ kind \in Kinds
  /\ raw \in RawOf[kind]
  /\ pol = NoPolicy
  /\ phase = "config"
  /\ asked = NoBody /\ answer = NoAnswer /\ sent = NoBody
  /\ meta = NoMeta
  /\ acc = <<>> /\ produced = <<>> /\ released = 0 /\ delivered = <<>> /\ ending = "none"
  /\ reply = NoReply
  /\ verdict = Untouched

(***************************************************************************)
(* Dispatch on the policy.                                                 *)
(***************************************************************************)

GetPolicy(k, r) ==
  CASE k = "word" -> WordNewPolicy(r)
    [] k = "sentence" -> SentenceGetPolicy(r)
    [] k = "length" -> LengthGetPolicy(r)
    [] k = "url" -> UrlGetPolicy(r)
    [] k = "regex" -> RegexGetPolicy(r)
    [] k = "schema" -> SchemaGetPolicy(r)
    [] k = "pii" -> PiiGetPolicy(r)
    [] k = "bedrock" -> BedrockGetPolicy(r)
    [] k = "azure" -> AzureGetPolicy(r)
    [] k = "semantic" -> SemanticGetPolicy(r)

\* What OnRequestBody may answer, with the metadata it leaves.
OnRequestBody(body, ans) ==
  CASE kind = "word" -> {[r |-> WordOnRequestBody(pol, body), meta |-> meta]}
    [] kind = "sentence" -> {[r |-> SentenceOnRequestBody(pol, body), meta |-> meta]}
    [] kind = "length" -> {[r |-> LengthOnRequestBody(pol, body), meta |-> meta]}
    [] kind = "url" -> {[r |-> UrlOnRequestBody(pol, body), meta |-> meta]}
    [] kind = "regex" -> {[r |-> RegexOnRequestBody(pol, body), meta |-> meta]}
    [] kind = "schema" -> {[r |-> SchemaOnRequestBody(pol, body), meta |-> meta]}
    [] kind = "pii" -> {PiiOnRequestBody(pol, meta, body, o) : o \in PiiOrders(pol)}
    [] kind = "bedrock" -> {BedrockOnRequestBody(pol, meta, body, ans)}
    [] kind = "azure" -> {[r |-> AzureOnRequestBody(pol, body, ans), meta |-> meta]}
    [] kind = "semantic" -> {[r |-> SemanticOnRequestBody(pol, body, ans), meta |-> meta]}

OnResponseBody(body, ans) ==
  CASE kind = "word" -> [r |-> WordOnResponseBody(pol, body), meta |-> meta]
    [] kind = "sentence" -> [r |-> SentenceOnResponseBody(pol, body), meta |-> meta]
    [] kind = "length" -> [r |-> LengthOnResponseBody(pol, body), meta |-> meta]
    [] kind = "url" -> [r |-> UrlOnResponseBody(pol, body), meta |-> meta]
    [] kind = "regex" -> [r |-> RegexOnResponseBody(pol, body), meta |-> meta]
    [] kind = "schema" -> [r |-> SchemaOnResponseBody(pol, body), meta |-> meta]
    [] kind = "pii" -> [r |-> PiiOnResponseBody(pol, meta, body), meta |-> meta]
    [] kind = "bedrock" -> BedrockOnResponseBody(pol, meta, body, ans)
    [] kind = "azure" -> [r |-> AzureOnResponseBody(pol, body, ans), meta |-> meta]
    [] kind = "semantic" -> [r |-> Pass, meta |-> meta]

NeedsMoreResponseData(batch) ==
  CASE kind = "word" -> WordNeedsMore(pol, batch)
    [] kind = "sentence" -> SentenceNeedsMore(pol, batch)
    [] kind = "length" -> LengthNeedsMore(pol, batch)
    [] kind = "url" -> UrlNeedsMore(pol, batch)
    [] kind = "regex" -> RegexNeedsMore(pol, batch)
    [] kind = "pii" -> PiiNeedsMore(pol, batch)

OnResponseBodyChunk(batch, eos) ==
  CASE kind = "word" -> WordOnChunk(pol, meta, batch, eos)
    [] kind = "sentence" -> SentenceOnChunk(pol, meta, batch, eos)
    [] kind = "length" -> LengthOnChunk(pol, meta, batch, eos)
    [] kind = "url" -> UrlOnChunk(pol, meta, batch, eos)
    [] kind = "regex" -> RegexOnChunk(pol, meta, batch, eos)
    [] kind = "pii" -> PiiOnChunk(pol, meta, batch, eos)


(***************************************************************************)
(* The exchange.                                                           *)
(***************************************************************************)

Build ==
  /\ phase = "config"
  /\ LET built == GetPolicy(kind, raw)
     IN  IF built.ok THEN pol' = built /\ phase' = "request"
                     ELSE pol' = NoPolicy /\ phase' = "rejected"
  /\ UNCHANGED <<kind, raw, asked, answer, sent, meta, streamVars, reply, verdict>>

\* A sensitive match that a service reports occurs in the text it was shown.
Plausible(body, ans) ==
  kind = "bedrock" => \A i \in DOMAIN ans.pii :
                         ExtractString(body.v).ok /\ Occurs(ans.pii[i].match, body.v.s)

Request(body, ans) ==
  /\ phase = "request"
  /\ Plausible(body, ans)
  /\ asked' = body
  /\ answer' = ans
  /\ \E out \in OnRequestBody(body, ans) :
       /\ meta' = out.meta
       /\ phase' = IF out.r.act = "block" THEN "blocked" ELSE "reply"
       /\ verdict' = IF out.r.act = "block" THEN Intervention(out.r.why) ELSE Untouched
       /\ sent' = CASE out.r.act = "block" -> NoBody
                    [] out.r.act = "pass" -> body
                    [] out.r.act = "mutate" -> out.r.body
  /\ UNCHANGED <<kind, raw, pol, streamVars, reply>>

BufferedReply(body, ans) ==
  /\ phase = "reply"
  /\ Plausible(body, ans)
  /\ LET out == OnResponseBody(body, ans)
     IN  /\ meta' = out.meta
         /\ verdict' = IF out.r.act = "block" THEN Intervention(out.r.why) ELSE Untouched
         /\ reply' = [came |-> body,
                      got |-> CASE out.r.act = "block" -> NoBody
                                [] out.r.act = "pass" -> body
                                [] out.r.act = "mutate" -> out.r.body]
  /\ phase' = "closed"
  /\ UNCHANGED <<requestVars, streamVars>>

\* A stream is SSE or the parts of one JSON body, and says nothing after its
\* last line but white space.
WellFormed(lines) ==
  /\ \/ \A i \in DOMAIN lines : lines[i].l \in SSELines \cup {"blank"}
     \/ \A i \in DOMAIN lines : lines[i].l \in {"json", "jsonend", "blank"}
  /\ \A i, j \in DOMAIN lines :
       i < j /\ lines[i].l \in {"done", "jsonend"} => lines[j].l = "blank"

\* The kernel keeps a batch back while the policy needs more.
Hold(lines) ==
  /\ phase' = "stream"
  /\ acc' = acc \o lines
  /\ UNCHANGED <<released, delivered, ending, meta, verdict>>

EndKind(batch) ==
  CASE batch = <<>> -> "bare"
    [] batch # <<>> /\ AllBlank(batch) -> "blank"
    [] OTHER -> "lines"

\* The batch goes to the policy, which forwards, replaces or cuts it.
Flush(lines, eos) ==
  LET batch == acc \o lines
      out == OnResponseBodyChunk(batch, eos)
  IN  /\ meta' = out.meta
      /\ ending' = IF eos THEN EndKind(batch) ELSE "none"
      /\ phase' = IF eos \/ out.act = "cut" THEN "closed" ELSE "stream"
      /\ IF out.act = "cut"
         THEN /\ verdict' = Intervention(out.why)
              /\ UNCHANGED <<acc, released, delivered>>
         ELSE /\ acc' = <<>>
              /\ released' = Len(produced) + Len(lines)
              /\ delivered' = delivered \o (IF out.act = "replace" THEN out.body ELSE batch)
              /\ UNCHANGED verdict

Arriving(lines) ==
  /\ phase \in {"reply", "stream"}
  /\ kind \in Streaming
  /\ Len(produced) + Len(lines) <= MaxLines
  /\ WellFormed(produced \o lines)
  /\ produced' = produced \o lines
  /\ UNCHANGED <<requestVars, reply>>

Chunk(lines) ==
  /\ Arriving(lines)
  /\ IF NeedsMoreResponseData(acc \o lines) THEN Hold(lines) ELSE Flush(lines, FALSE)

\* The last chunk may carry lines, only white space, or nothing at all.
EndOfStream(lines) == Arriving(lines) /\ Flush(lines, TRUE)

\* The upstream may send back what it got.
Echo == [none |-> FALSE, v |-> sent.v, lines |-> <<>>]

Next ==
  \/ Build
  \/ \E body \in BodyOf(kind, raw), ans \in AnswerOf[kind] : Request(body, ans)
  \/ \E body \in ReplyOf[kind] \cup {Echo}, ans \in AnswerOf[kind] : BufferedReply(body, ans)
  \/ \E lines \in ChunkOf(kind, raw) : Chunk(lines)
  \/ \E lines \in ChunkOf(kind, raw) \cup {<<>>, <<BlankLine>>} : EndOfStream(lines)

Spec == Init /\ [][Next]_vars

(***************************************************************************)
(* Properties.                                                             *)
(***************************************************************************)

\* What the whole text of a stream must satisfy to pass the response flow, as
\* the streaming path counts it: the byte count takes the text as it came,
\* quotes and outer white space included; the others clean it first.
TextOf(lines) == DeltaContent(lines, "delta")
Acceptable(t) ==
  LET p == pol.response
  IN  CASE kind = "word" -> Admitted(Segments(Clean(t), Space), p)
        [] kind = "sentence" -> Admitted(SolidSegments(Clean(t), Stop), p)
        [] kind = "length" -> Admitted(Len(t), p)
        [] kind = "url" -> InvalidUrls(t, p) = {}
        [] kind = "regex" -> Matches(t) # p.Invert

Watched == kind \in Streaming \ {"pii"} /\ pol.ok /\ Active(pol.hasResponse, pol.response)
IsEventStream(lines) == \E i \in DOMAIN lines : lines[i].l \in SSELines
WatchedStream == phase \in {"stream", "closed"} /\ Watched /\ IsEventStream(produced)

\* A chunk that has a line of an event stream has one among its first five, where isSSEChunk
\* looks.
EventsShow ==
  \A k \in Kinds : \A r \in RawOf[k] : \A lines \in ChunkOf(k, r) :
     IsEventStream(lines) => IsSSE(lines)

\* A URL that directly follows a word character is invisible to the gate.
Glued(t) == \E i \in 2..(Len(t) - 1) : ProtocolAt(t, i) /\ t[i-1] \in WordChars

\* So is one whose protocol name is divided between two events: the gate does
\* not wait for the rest of an "ht".
Halves(t, u) == t # <<>> /\ u # <<>> /\ Last(t) = "ht" /\ u[1] = "tp"
Halved(lines) ==
  \E i \in 1..(Len(lines) - 1) :
     Halves(TextOf(SubSeq(lines, 1, i)), TextOf(SubSeq(lines, i + 1, Len(lines))))

\* Requests fail closed: a body reaches the upstream past an active request
\* flow only if the rule was evaluated on a text found at the path and holds.
\* A missing value, a refused credential, a service that does not answer and an
\* embedding that cannot be compared are no permission, unless the flow says
\* passthroughOnError; an absent body has nothing to judge for some policies.
RequestRuleHolds(v) ==
  LET p == pol.request
      t == TrimSpace(Clean(v.s))
  IN  CASE kind \in {"word", "sentence"} ->
             Extractable(v) /\ (v.j = "string" =>
               Admitted(Segments(t, IF kind = "word" THEN Space ELSE Stop), p))
        [] kind = "length" -> v.j \in {"string", "number"} /\ Admitted(Len(t), p)
        [] kind = "url" -> Extractable(v) /\ (v.j = "string" => InvalidUrls(v.s, p) = {})
        [] kind = "regex" -> v.j \in {"string", "number"} /\ Matches(v.s) # p.Invert
        [] kind = "schema" -> Extractable(v) /\ p.Schema = "ok" /\ ((v.j = "string") # p.Invert)
        [] kind = "bedrock" ->
             /\ v.j \in {"string", "number"}
             /\ ~answer.fails /\ pol.credentials \notin answer.refused
             /\ answer.action = "none" \/ (answer.action = "intervened" /\ answer.pii # <<>>)
        [] kind = "azure" ->
             /\ v.j \in {"string", "number"}
             /\ \E n \in DOMAIN answer.replies :
                  /\ answer.replies[n] = "ok"
                  /\ \A m \in 1..(n-1) : answer.replies[m] \in {"network", "5xx"}
             /\ \A c \in AzureCategories :
                  p.Thresholds[c] >= 0 => answer.severity[c] < p.Thresholds[c]
MayPassUnjudged ==
  LET p == pol.request
  IN  \/ kind \in {"regex", "azure", "bedrock"} /\ asked.none
      \/ kind = "azure" /\ \A c \in AzureCategories : p.Thresholds[c] = -1
      \/ /\ kind \in {"azure", "bedrock"} /\ p.Passthrough
         /\ \/ asked.v.j \notin {"string", "number"}
            \/ kind = "azure" /\ ~callAzureContentSafetyAPI(answer.replies)
            \/ kind = "bedrock" /\ \/ answer.fails \/ answer.action = "odd"
                                   \/ pol.credentials \in answer.refused
\* Requests fail closed: a body goes upstream only if OnRequestBody's rule holds of it,
\* or the policy's configuration says that what cannot be judged may pass.
RequestFailsClosed ==
  phase \in {"reply", "stream", "closed"} =>
    CASE kind = "pii" -> TRUE
      [] kind = "semantic" ->
           /\ asked.v.j \in {"string", "number"} /\ asked.v.s # <<>>
           /\ ~answer.fails
           /\ \A d \in pol.Denied : /\ Unusable \notin {d, answer.embedding}
                                    /\ 4 - Distance(d, answer.embedding) < pol.DenyThreshold
           /\ pol.Allowed # {} =>
                \E a \in pol.Allowed : 4 - Distance(a, answer.embedding) >= pol.AllowThreshold
      [] OTHER ->
           pol.hasRequest /\ (kind # "azure" => pol.request.Enabled)
             => MayPassUnjudged \/ RequestRuleHolds(asked.v)

\* Personal data stays inside: whatever order the detectors run in, no text
\* that a detector of the policy finds is left in the body that goes upstream,
\* and when masking no piece of one either: a second half that was only ever
\* there behind a first is gone.
NoPiiUpstream ==
  phase \in {"reply", "stream", "closed"} /\ kind = "pii" /\ ~asked.none
    /\ asked.v.j \in {"string", "number"} =>
    /\ \A e \in pol.Entities : ~Occurs(e, sent.v.s)
    /\ /\ ~pol.RedactPII /\ CustomEntity \in pol.Entities
       /\ \A i \in DOMAIN asked.v.s : asked.v.s[i] = "y" => i > 1 /\ asked.v.s[i-1] = "x"
       => ~Contains(sent.v.s, "y")

\* A client of a counted event stream never holds a text the policy would not
\* let it have: before the end it has received nothing, or a count between the
\* bounds (above the excluded range when inverted).  Text split between chunks,
\* held batches and the running count have to agree for this; a [DONE] releases
\* what is held.
StreamedInRange ==
  phase = "stream" /\ WatchedStream /\ kind \in Counting =>
    LET p == pol.response
        t == TextOf(delivered)
        count == CASE kind = "word" -> Segments(Clean(t), Space)
                   [] kind = "sentence" -> SolidSegments(Clean(t), Stop)
                   [] OTHER -> Len(t)
    IN  \/ t = <<>>
        \/ HasDone(delivered)
        \/ IF p.Invert THEN count > p.Max ELSE p.Min <= count /\ count <= p.Max

\* An end without any byte is not judged, and white space alone at the end is
\* judged only by the word and sentence counts.
Judged ==
  /\ ending = "lines" \/ (ending = "blank" /\ kind \in {"word", "sentence"})
  /\ kind = "regex" => TextOf(produced) # <<>> /\ pol.response.Stream = "delta"
Visible(lines) == kind = "url" => ~Glued(TextOf(lines)) /\ ~Halved(lines)

\* The verdict on a stream does not depend on how it was chunked: NeedsMoreResponseData
\* and OnResponseBodyChunk cut an event stream that ran to its end exactly if its whole
\* text breaks the rule as streams are counted, and an earlier one only for a text that
\* already does; a count with an excluded range is never decided early.
StreamVerdictExact ==
  phase = "closed" /\ WatchedStream /\ Visible(produced) =>
    /\ verdict.is = "hit" /\ (ending \in {"none", "lines"} \/ kind \in {"word", "sentence"}) =>
         /\ (kind = "regex" => pol.response.Stream = "delta") => ~Acceptable(TextOf(produced))
         /\ kind \in Counting /\ ending = "none" => ~pol.response.Invert
    /\ Judged /\ verdict.is = "none" => Acceptable(TextOf(produced))

\* Streaming decides like buffering: OnResponseBodyChunk cuts an event stream that ran to
\* its end exactly if OnResponseBody refuses the same lines in one piece, or for the two
\* policies that find no text in buffered events a body that holds the same text.  The
\* two paths of the code count differently, and are compared where they must agree: the
\* byte count of a buffered text leaves out outer white space and quotes, the sentence
\* count removes quotes a second time, and a buffered stream without text is not JSON.
InOnePiece(lines) ==
  IF kind \in {"length", "regex"}
  THEN [none |-> FALSE, v |-> JString(TextOf(lines)), lines |-> <<>>]
  ELSE [none |-> FALSE, v |-> JInvalid, lines |-> lines]
CountedAlike(lines) ==
  LET t == TextOf(lines)
      u == TrimSpace(Clean(t))
  IN  CASE kind = "length" -> u = t
        [] kind = "sentence" -> IsSSE(lines) /\ Clean(u) = u
        [] kind = "word" -> IsSSE(lines)
        [] kind = "url" -> t # <<>> /\ Visible(lines)
        [] kind = "regex" -> pol.response.Stream = "delta"
StreamsLikeBuffered ==
  phase = "closed" /\ WatchedStream /\ CountedAlike(produced) =>
    LET passes == OnResponseBody(InOnePiece(produced), answer).r = Pass
    IN  /\ verdict.is = "hit" /\ (ending \in {"none", "lines"} \/ kind \in {"word", "sentence"})
             => ~passes
        /\ Judged /\ verdict.is = "none" => passes

\* One decision on one reply: what NeedsMoreResponseData and OnResponseBodyChunk decide
\* is independent of the chunks and, where both paths count alike, what OnResponseBody
\* decides.
OneVerdict == StreamVerdictExact /\ StreamsLikeBuffered

\* Nothing the pattern guardrails look for reaches the client in pieces: at no
\* point of a stream does the text it has received hold a URL that does not
\* answer or a match of a blocked pattern, although every piece of it passed.
\* A URL must not be glued to a word, nor its protocol name be divided.
NothingForbiddenReleased ==
  WatchedStream =>
    LET t == TextOf(delivered)
    IN  /\ kind = "url" /\ Visible(delivered) => InvalidUrls(t, pol.response) = {}
        /\ kind = "regex" /\ pol.response.Invert /\ pol.response.Stream = "delta" => ~Matches(t)

\* The same with no condition on the streaming path: a blocked pattern that is
\* spread over events is caught, as the gateway's documentation of the default
\* path and the comment on RegexGuardrailPolicy.OnResponseBodyChunk say.
SplitPatternCaught ==
  WatchedStream /\ kind = "regex" /\ pol.response.Invert => ~Matches(TextOf(delivered))

\* A placeholder in a stream is complete within the lines the gate waits for.
FitsWindow(lines) ==
  LET data == TrackedLines(lines)
      tokens == FlattenSeq([i \in DOMAIN data |->
                  [k \in DOMAIN data[i].s |-> [at |-> i, tok |-> data[i].s[k]]]])
      pair(i, j) == /\ i < j /\ tokens[i].tok = "[" /\ tokens[j].tok = "]"
                    /\ \A k \in (i+1)..(j-1) : tokens[k].tok \notin {"[", "]"}
  IN  \A i, j \in DOMAIN tokens : pair(i, j) => tokens[j].at - tokens[i].at <= HoldLines + 1

\* Masking is invisible end to end: when the upstream sends back exactly what
\* it got, the client gets the text it had sent (trimmed if it was changed at
\* all), for every set of overlapping matches and every numbering of them.  The
\* bedrock guardrail keeps this only for matches that are reported once.
EchoRestored ==
  LET text == ExtractString(asked.v).text
      masks == \/ kind = "pii" /\ ~pol.RedactPII
               \/ /\ kind = "bedrock" /\ pol.hasRequest /\ ~pol.request.RedactPII
                  /\ Active(pol.hasResponse, pol.response) /\ ~pol.response.RedactPII
                  /\ \A i, j \in DOMAIN answer.pii : 
                       i # j => answer.pii[i].match # answer.pii[j].match
  IN  phase = "closed" /\ masks /\ meta.masked # {} /\ reply.came.v = sent.v
        => reply.got.v.s = TrimSpace(Clean(text))

\* Every guarded exchange is a StreamGate: the client of a stream has received
\* nothing, or all of it so far with every placeholder of the request turned
\* back into the original, however chunks cut the placeholders; what it has
\* received is only ever extended; nothing follows a cut; and a stream that
\* ends uncut is complete.  A placeholder that outgrows the lines the gate
\* waits for is delivered as it came.
Content(lines) == TextOf(lines) \o JsonBody(lines)
Image ==
  IF kind = "pii" /\ ~FitsWindow(produced) THEN Content(delivered \o acc)
  ELSE restore(Content(produced), invertStringMap(meta.masked))
GateState ==
  CASE phase # "closed" -> "open"
    [] phase = "closed" /\ verdict.is = "hit" -> "cut"
    [] OTHER -> "ended"
Gate == INSTANCE StreamGate
          WITH image <- Image, released <- Content(delivered), gate <- GateState
\* NeedsMoreResponseData and OnResponseBodyChunk together implement the abstract gate.
ImplementsStreamGate == Gate!Spec

============================================================================
