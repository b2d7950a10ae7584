------------------------- MODULE MCRateLimitPhases -------------------------
(* Finite instances of RateLimitPhases: two requests for a policy with one *)
(* quota, one request for a policy with two.                               *)
EXTENDS RateLimitPhases, TLC

Kind(s, c) == [sources |-> s, cel |-> c, keyed |-> TRUE]
Keyless(s) == [sources |-> s, cel |-> FALSE, keyed |-> FALSE]

\* One mix of sources for each way the handlers can share a quota between them.
Mixes == {{}, {"request_header"}, {"request_metadata"}, {"request_header", "request_body"},
          {"response_header"}, {"response_metadata"}, {"response_body"},
          {"response_header", "response_cel"},
          {"request_header", "response_header"}, {"request_header", "response_body"},
          {"request_cel", "response_header"}, {"request_body", "response_body"}}

Make(quotas, backend, open) == [quotas |-> quotas, backend |-> backend, failOpen |-> open]

\* The backend and its failure mode.
Modes == {<<"memory", FALSE>>, <<"redis", TRUE>>, <<"redis", FALSE>>}

\* Every mix, with and without a CEL key, before a quota that is charged early or late.
Pairs ==
    {Make(<<Kind(s, c), Kind(t, FALSE)>>, "redis", TRUE) :
        s \in Mixes, c \in BOOLEAN, t \in {{}, {"response_body"}}}
    \cup {Make(<<Kind({}, FALSE), Kind(s, FALSE)>>, m[1], m[2]) : s \in Mixes, m \in Modes}
    \cup {Make(<<Keyless({}), Keyless(s)>>, "memory", FALSE) : s \in Mixes}

\* Quotas two requests compete for.
Contended ==
    {Make(<<Kind(s, FALSE)>>, m[1], m[2]) : s \in {{}, {"response_body"}}, m \in Modes}
    \cup {Make(<<Kind(s, TRUE)>>, "memory", FALSE) : s \in {{}, {"request_body"}}}
    \cup {Make(<<Kind({"request_header", "response_header"}, FALSE)>>, "memory", FALSE)}

SomePolicies == Pairs \cup Contended

\* A CEL key and a cost from a request header.
CelHeaderPolicies == {Make(<<Kind({"request_header"}, TRUE), Kind({}, FALSE)>>, "memory", FALSE)}

SomeValues == {-2, 1, 4}

\* Requests are interchangeable: no definition names one.
RequestSymmetry == Permutations(Requests)
=============================================================================
