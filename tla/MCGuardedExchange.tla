------------------------ MODULE MCGuardedExchange -------------------------
(***************************************************************************)
(* Finite instances of GuardedExchange.  Streams use few tokens, chosen    *)
(* for every way a chunk boundary can cut what a policy looks for.         *)
(***************************************************************************)
EXTENDS GuardedExchange

Num(n) == [is |-> "num", v |-> n]
Missing == [is |-> "absent", v |-> 0]
BadNum == [is |-> "bad", v |-> 0]

\* A flow with nothing but its required parameters, and the flow left out.
Plain == [given |-> "object", enabled |-> "yes", invert |-> "absent", show |-> "absent",
          onlyDNS |-> "absent", redact |-> "absent", passthrough |-> "absent",
          min |-> Num(1), max |-> Num(2), timeout |-> Missing, stream |-> "absent",
          regex |-> "ok", schema |-> "ok", rest |-> "ok",
          thresholds |-> [c \in AzureCategories |-> Missing]]
Absent == [Plain EXCEPT !.given = "absent"]
Only(response) == [request |-> Absent, response |-> response]
Ask(request) == [request |-> request, response |-> Absent]

\* Parameters a factory must refuse, ignore or take its defaults for.
OddFlows ==
  {[Plain EXCEPT !.given = g] : g \in {"notobject", "empty"}}
  \cup {[Plain EXCEPT !.enabled = b] : b \in {"absent", "no", "bad"}}
  \cup {[Plain EXCEPT !.enabled = "no", !.min = BadNum, !.regex = "bad", !.schema = "bad"],
        [Plain EXCEPT !.min = Num(3)], [Plain EXCEPT !.max = Num(0), !.min = Num(0)],
        [Plain EXCEPT !.min = Missing], [Plain EXCEPT !.invert = "bad"],
        [Plain EXCEPT !.regex = "bad"], [Plain EXCEPT !.schema = "broken"],
        [Plain EXCEPT !.timeout = Num(0), !.rest = "bad"]}
OddRaw == {[request |-> f, response |-> Absent] : f \in OddFlows}
          \cup {[request |-> Absent, response |-> f] : f \in OddFlows}
          \cup {[request |-> Absent, response |-> Absent]}

Shown == [Plain EXCEPT !.show = "yes"]
Inverted == [Plain EXCEPT !.invert = "yes"]
Range23 == [Plain EXCEPT !.min = Num(2), !.max = Num(3)]
Free == [Plain EXCEPT !.min = Num(0)]

CountRaw == OddRaw
  \cup {Only(f) : f \in {Plain, Inverted, Range23, Free}}
  \cup {Ask(f) : f \in {Shown, Inverted}}
UrlRaw == OddRaw
  \cup {Only(f) : f \in {Plain, [Plain EXCEPT !.onlyDNS = "yes"]}}
  \cup {Ask(f) : f \in {Shown, [Plain EXCEPT !.timeout = Num(0)]}}
RegexRaw == OddRaw
  \cup {Only([f EXCEPT !.stream = s]) : f \in {Plain, Inverted}, s \in {"absent", "given"}}
  \cup {Ask(f) : f \in {Shown, Inverted}}
SchemaRaw == OddRaw
  \cup {[request |-> f, response |-> g] :
          f \in {Shown, Inverted, [Plain EXCEPT !.schema = "broken"]}, g \in {Plain, Inverted}}
PiiRaw ==
  {[custom |-> c, email |-> e, redact |-> r, rest |-> "ok"] :
      c \in {"absent", "bad", "dup", "own", "EMAIL"}, e \in {"yes", "no"}, r \in {"absent", "yes"}}
  \cup {[custom |-> "own", email |-> "bad", redact |-> "no", rest |-> "ok"]}
Aws == [region |-> "ok", keys |-> "ok", role |-> "absent", roleRegion |-> "absent"]
BedrockMake(request, response, aws) ==
  [request |-> request, response |-> response, aws |-> aws, local |-> "absent", system |-> "ok"]
BedrockRaw ==
  {BedrockMake([Plain EXCEPT !.redact = r, !.passthrough = q], f, Aws) :
      r \in {"yes", "no"}, q \in {"yes", "no"}, f \in {Absent, Plain}}
  \cup {BedrockMake(Plain, Absent, a) :
          a \in {[Aws EXCEPT !.region = "bad"], [Aws EXCEPT !.keys = "bad"],
                 [Aws EXCEPT !.keys = "absent"], [Aws EXCEPT !.role = "ok"],
                 [Aws EXCEPT !.role = "ok", !.roleRegion = "ok"]}}
  \cup {[BedrockMake(Plain, Absent, Aws) EXCEPT !.local = l, !.system = "absent"] :
          l \in {"ok", "bad", "absent"}}
AzureFlow(n) == [Plain EXCEPT !.thresholds = [@ EXCEPT !["Hate"] = n]]
AzureRaw ==
  {[request |-> [AzureFlow(n) EXCEPT !.passthrough = q], response |-> Plain,
    endpoint |-> "ok", key |-> k] :
      n \in {Num(-1), Num(0), Num(4), Num(8), BadNum}, q \in {"yes", "no"}, k \in {"ok", "bad"}}
  \cup {[request |-> [Plain EXCEPT !.thresholds = [c \in AzureCategories |-> Num(-1)]],
         response |-> Absent, endpoint |-> "ok", key |-> "ok"]}
Phrases(vs) == [is |-> "ok", v |-> vs]
SemanticBase ==
  [provider |-> "OPENAI", model |-> "ok", endpoint |-> "ok", key |-> "ok", show |-> "absent",
   rest |-> "ok", allowed |-> Phrases({0, 4}), denied |-> Phrases({2}), fetch |-> TRUE,
   allowThreshold |-> Missing, denyThreshold |-> Num(4)]
SemanticRaw ==
  {[SemanticBase EXCEPT !.allowed = Phrases(a), !.denied = Phrases(d)] :
      a \in {{}, {0, 4}, {0, Unusable}}, d \in {{}, {2}, {Unusable}}}
  \cup {[SemanticBase EXCEPT !.provider = "none"], [SemanticBase EXCEPT !.model = "bad"],
        [SemanticBase EXCEPT !.fetch = FALSE], [SemanticBase EXCEPT !.allowThreshold = Num(5)],
        [SemanticBase EXCEPT !.denied = [is |-> "bad", v |-> {}]]}

MCRawOf ==
  [k \in Kinds |->
     CASE k \in Counting -> CountRaw [] k = "url" -> UrlRaw [] k = "regex" -> RegexRaw
       [] k = "schema" -> SchemaRaw [] k = "pii" -> PiiRaw [] k = "bedrock" -> BedrockRaw
       [] k = "azure" -> AzureRaw [] k = "semantic" -> SemanticRaw]

(***************************************************************************)
(* Bodies.                                                                 *)
(***************************************************************************)

Body(v) == [none |-> FALSE, v |-> v, lines |-> <<>>]
Sse(lines) == [none |-> FALSE, v |-> JInvalid, lines |-> lines]

\* One value of every shape a JSONPath may find.
Shapes ==
  {JInvalid, JAbsent, JNull, JNumber(<<"w">>), JBool(<<"w">>),
   JObject("content", JString(<<"w">>), <<"w">>), JObject("none", JNull, <<"w">>),
   JArray(<<JObject("text", JString(<<"w", "_">>), <<>>), JBool(<<"w">>), JNull>>),
   JArray(<<>>)}
Texts(k) ==
  CASE k = "word" -> {<<>>, <<"q", "w", "_", "_", "w", "q">>, <<"w", "_", "w", "_", "w">>}
    [] k = "sentence" -> {<<"_", ".">>, <<"w", ".", "_", "w">>, <<"w", ".", "w", ".", "w">>}
    [] k = "length" -> {<<>>, <<"q", "w", "w", "q">>, <<"_", "w", "w", "w">>}
    [] k = "url" -> {<<"ht", "tp", "://", "h">>, <<"w", "ht", "tp", "://", "h", "x">>,
                     <<"ht", "tp", "://", "_">>,
                     <<"ht", "tp", "://", "h", "_", "ht", "tp", "://", "x">>}
    [] k = "regex" -> {<<"a", "b">>, <<"a", "_", "b">>}
    [] k \in {"pii", "bedrock"} -> {<<"w">>, <<"_", "x", "w", "x", "y">>, <<"q", "x", "x", "q">>}
    [] OTHER -> {<<>>, <<"w">>}

\* The parameters whose streams are explored; under the others a stream has
\* only one kind of line.
Explored(k, r) ==
  IF k = "pii" THEN r = [custom |-> "own", email |-> "yes", redact |-> "absent", rest |-> "ok"]
  ELSE r.request.given = "absent" /\ r.response \notin OddFlows

MCBodyOf(k, r) ==
  IF k = "pii" /\ Explored(k, r) THEN {Body(JString(t)) : t \in Texts(k)}
  ELSE IF k \in Streaming \ {"pii"} /\ r.request.given = "absent" THEN {Body(JString(<<"w">>))}
  ELSE {NoBody} \cup {Body(v) : v \in Shapes} \cup {Body(JString(t)) : t \in Texts(k)}

MCReplyOf ==
  [k \in Kinds |->
     {NoBody, Body(JAbsent)} \cup {Body(JString(t)) : t \in Texts(k)}
     \cup (IF k = "pii" THEN {Sse(<<Delta(<<"[">>), BlankLine, Delta(<<"p0", "]">>), DoneLine>>)}
           ELSE IF k \in Streaming
           THEN {Sse(<<Delta(<<"w">>), Delta(<<"_", "w">>), DoneLine>>), Sse(<<NullDelta, DoneLine>>)}
           ELSE {})]

(***************************************************************************)
(* Streams.                                                                *)
(***************************************************************************)

Deltas(k) ==
  CASE k = "word" -> {<<"w">>, <<"w", "_">>, <<"_", "w">>, <<"q">>}
    [] k = "sentence" -> {<<"w">>, <<".">>, <<"_">>, <<"w", ".", "w">>}
    [] k = "length" -> {<<"w">>, <<"w", "w">>, <<"_">>}
    [] k = "url" -> {<<"ht">>, <<"ht", "tp">>, <<"tp", "://">>, <<"://">>, <<"h">>, <<"x">>,
                     <<"w", "ht", "tp">>, <<"_">>}
    [] k = "regex" -> {<<"a">>, <<"b">>, <<"w", "a">>}
    [] k = "pii" -> {<<"[">>, <<"p0">>, <<"]">>, <<"w", "[">>, <<"p0", "]">>}

MCChunkOf(k, r) ==
  IF k \notin Streaming THEN {}
  ELSE IF ~Explored(k, r) THEN {<<Delta(<<"w">>)>>}
  ELSE {<<Delta(t)>> : t \in Deltas(k)}
       \cup {<<NullDelta>>, <<DoneLine>>, <<BlankLine>>, <<JsonPart(<<"w">>)>>,
             <<JsonEnd(CHOOSE t \in Deltas(k) : TRUE)>>}
       \cup {<<Delta(t), BlankLine, DoneLine>> : t \in {CHOOSE t \in Deltas(k) : TRUE}}
       \cup (IF k = "pii" THEN {} ELSE {<<RawData(<<"w">>)>>, <<Fragments(<<<<"w">>, <<"w">>>>)>>})

(***************************************************************************)
(* Answers of the services.                                                *)
(***************************************************************************)

\* A match of the at-th assessment.
ReportIn(at, match, anonymised) == [at |-> at, match |-> match, anonymised |-> anonymised]
Report(match, anonymised) == ReportIn(1, match, anonymised)
BedrockAnswers ==
  {[refused |-> r, fails |-> f, action |-> a, pii |-> <<>>] :
      r \in {{}, {"static"}}, f \in BOOLEAN, a \in {"none", "intervened", "odd"}}
  \cup {[refused |-> {}, fails |-> FALSE, action |-> "intervened", pii |-> p] :
          p \in {<<Report(<<"x">>, TRUE)>>, <<Report(<<"x">>, FALSE)>>,
                 <<Report(<<"x">>, TRUE), Report(<<"x", "y">>, TRUE)>>,
                 <<Report(<<"x">>, TRUE), Report(<<"x">>, TRUE)>>,
                 <<ReportIn(2, <<"x">>, TRUE)>>,
                 <<Report(<<"x">>, TRUE), ReportIn(2, <<"x", "y">>, TRUE)>>}}
\* Severities around the thresholds, and every way five attempts may go.
AzureAnswers ==
  {[replies |-> <<"ok">>, severity |-> [c \in AzureCategories |-> IF c = d THEN n ELSE 0]] :
      d \in {"Hate", "SelfHarm"}, n \in {2, 3, 4}}
  \cup {[replies |-> rs, severity |-> [c \in AzureCategories |-> 0]] :
          rs \in {<<"network", "5xx", "network", "5xx", "ok">>, <<"5xx", "4xx">>, <<"garbled">>,
                  <<"network", "network", "network", "5xx", "5xx">>}}
SemanticAnswers == {[embedding |-> e, fails |-> FALSE] : e \in Quarters \cup {Unusable}}
                   \cup {[embedding |-> 0, fails |-> TRUE]}

MCAnswerOf ==
  [k \in Kinds |->
     CASE k = "bedrock" -> BedrockAnswers [] k = "azure" -> AzureAnswers
       [] k = "semantic" -> SemanticAnswers [] OTHER -> {NoAnswer}]

AllKinds == Streaming \cup Buffered \cup Services

\* What the theorems on event streams suppose of the chunks holds of these instances.
ASSUME EventsShow

============================================================================
