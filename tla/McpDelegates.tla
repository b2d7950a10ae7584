---------------------------- MODULE McpDelegates ----------------------------
(***************************************************************************)
(* mcp-ratelimit: limits per MCP capability.  Each rule that matches a     *)
(* request is enforced by an advanced-ratelimit instance of its own, the   *)
(* delegate of that rule and that capability, which the first request      *)
(* that needs it builds.  Requests interleave between the matches.         *)
(***************************************************************************)
EXTENDS Integers, Sequences, FiniteSets

CONSTANTS
    McpConfigs,    \* raw rules: section -> absent, bad or a list of rules
    McpBodies,     \* requests as read from the body
    McpCallers     \* requests

Sections == {"tools", "resources", "prompts", "methods"}

\* The rules of a section are a list.
ASSUME McpAssumption ==
    \A raw \in McpConfigs : \A section \in Sections :
        /\ Len(raw[section].items) \in Nat
        /\ DOMAIN raw[section].items = 1..Len(raw[section].items)

VARIABLES
    rules,         \* the policy: its rules in order
    delegates,     \* delegateKey -> instance
    instances,     \* advanced-ratelimit instances built so far
    mcp            \* the requests: phase, matches left, what was charged and reported

mcpVars == <<rules, delegates, instances, mcp>>

NewMcp == [pc |-> "new", left |-> <<>>, matched |-> <<>>, charged |-> <<>>, failed |-> FALSE,
           built |-> 0, code |-> 0, reported |-> <<>>]
NoRules == [state |-> "none", entries |-> <<>>]

-----------------------------------------------------------------------------
\* parseEntries: the sections in a fixed order; a rule without a name is a wildcard.
RuleValid(rule) == rule.object /\ rule.limits > 0
SectionValid(s) == s.state \in {"absent", "list"} /\ \A i \in DOMAIN s.items : RuleValid(s.items[i])
SectionEntries(raw, section) ==
    [i \in DOMAIN raw[section].items |->
        [section |-> section, name |-> IF raw[section].items[i].name \in {"", "bad"} THEN "*"
                                       ELSE raw[section].items[i].name]]
parseEntries(raw) ==
    SectionEntries(raw, "tools") \o SectionEntries(raw, "resources")
      \o SectionEntries(raw, "prompts") \o SectionEntries(raw, "methods")

-----------------------------------------------------------------------------
\* checkRateLimitMemberSpelling: a member must be spelled as it should be, and once.
Misspelled(members, names) ==
    \/ \E i \in DOMAIN members : members[i].is \in names /\ members[i].name # members[i].is
    \/ \E i, j \in DOMAIN members : i # j /\ members[i].is \in names /\ members[i].is = members[j].is

\* validateUnambiguousRequestMembers: the name or uri only where the method reads it.
DecidingMember(method) ==
    CASE method \in {"tools/call", "prompts/get"} -> {"name"}
      [] method = "resources/read"                -> {"uri"}
      [] OTHER                                    -> {}
Ambiguous(b) ==
    \/ Misspelled(b.members, {"method", "params"})
    \/ DecidingMember(b.method) # {} /\ Misspelled(b.params, DecidingMember(b.method))

\* identifyCapability.
CapabilityType(b) ==
    CASE b.family = "tools" -> "tool" [] b.family = "resources" -> "resource"
      [] b.family = "prompts" -> "prompt" [] OTHER -> ""
CapabilityName(b) == IF DecidingMember(b.method) = {} THEN "" ELSE b.name

SectionOf(type) ==
    CASE type = "tool" -> "tools" [] type = "resource" -> "resources" [] type = "prompt" -> "prompts" [] OTHER -> ""

\* findMatches: what the rule is matched with; "" when the section is about something else.
Subject(rule, b) ==
    CASE rule.section = "methods" -> b.method
      [] rule.section = SectionOf(CapabilityType(b)) -> CapabilityName(b)
      [] OTHER -> ""

\* delegateKey: one delegate per rule and capability, under a wildcard too.  The rules of
\* a set of indices in their order.
Nth(I, k) == CHOOSE i \in I : Cardinality({j \in I : j <= i}) = k
KeysInOrder(I, b) == [k \in 1..Cardinality(I) |-> <<Nth(I, k), Subject(rules.entries[Nth(I, k)], b)>>]

\* The exact matches, then the wildcards.
findMatches(b) ==
    LET about == {i \in DOMAIN rules.entries : Subject(rules.entries[i], b) # ""}
        exact == {i \in about : rules.entries[i].name = Subject(rules.entries[i], b)}
    IN  KeysInOrder(exact, b) \o KeysInOrder({i \in about \ exact : rules.entries[i].name = "*"}, b)

-----------------------------------------------------------------------------
McpGetPolicy ==
    /\ rules = NoRules
    /\ \E raw \in McpConfigs :
          LET valid == \A s \in DOMAIN raw : SectionValid(raw[s])
          IN  rules' = IF valid /\ parseEntries(raw) # <<>>
                       THEN [state |-> "ok", entries |-> parseEntries(raw)]
                       ELSE [state |-> "error", entries |-> <<>>]
    /\ UNCHANGED <<delegates, instances, mcp>>

McpStep(r, pc) == mcp[r].pc = pc
McpGoto(r, rec) == mcp' = [mcp EXCEPT ![r] = rec]

\* JSON-RPC codes of the refusals.
ParseError == -32700
InvalidRequest == -32600

\* OnRequestBody up to the matches.
Reading(c, b) ==
    CASE ~b.post \/ b.state = "empty" -> [c EXCEPT !.pc = "forwarded"]
      [] b.post /\ b.state = "broken" -> [c EXCEPT !.pc = "refused", !.code = ParseError]
      [] b.post /\ b.state = "json" /\ Ambiguous(b) -> [c EXCEPT !.pc = "refused", !.code = InvalidRequest]
      [] OTHER -> [c EXCEPT !.pc = "next", !.left = findMatches(b), !.matched = findMatches(b)]
McpOnRequestBody(r) ==
    /\ rules.state = "ok" /\ McpStep(r, "new")
    /\ \E b \in McpBodies : McpGoto(r, Reading(mcp[r], b))
    /\ UNCHANGED <<rules, delegates, instances>>

Key(r) == Head(mcp[r].left)

\* The delegate checks the request; a denial ends it, with the earlier matches charged
\* and no record of the delegates that were invoked.
Invoke(r, d, denied) ==
    [mcp[r] EXCEPT !.charged = Append(@, <<Key(r), d>>), !.left = Tail(@), !.built = 0,
                   !.pc = IF denied THEN "429" ELSE "next"]

\* resolveDelegate: load.
McpLoad(r) ==
    /\ McpStep(r, "next") /\ mcp[r].left # <<>>
    /\ IF Key(r) \in DOMAIN delegates
       THEN \E denied \in BOOLEAN : McpGoto(r, Invoke(r, delegates[Key(r)], denied))
       ELSE McpGoto(r, [mcp[r] EXCEPT !.pc = "build"])
    /\ UNCHANGED <<rules, delegates, instances>>

\* Build an instance; if that fails the match is skipped.
McpBuild(r) ==
    /\ McpStep(r, "build")
    /\ \/ /\ instances' = instances + 1
          /\ McpGoto(r, [mcp[r] EXCEPT !.pc = "store", !.built = instances + 1])
       \/ /\ McpGoto(r, [mcp[r] EXCEPT !.pc = "next", !.left = Tail(@), !.failed = TRUE])
          /\ UNCHANGED instances
    /\ UNCHANGED <<rules, delegates>>

\* Mutant: the instance just built is stored and used.
WinnerLast(k, d) == d

\* LoadOrStore: the instance that is there wins.
Winner(k, d) == IF k \in DOMAIN delegates THEN delegates[k] ELSE d
McpLoadOrStore(r) ==
    LET k == Key(r)
        d == Winner(k, mcp[r].built)
    IN  /\ McpStep(r, "store")
        /\ delegates' = [q \in DOMAIN delegates \union {k} |-> IF q = k THEN d ELSE delegates[q]]
        /\ \E denied \in BOOLEAN : McpGoto(r, Invoke(r, d, denied))
        /\ UNCHANGED <<rules, instances>>

\* No match is left: the request goes on.
McpForward(r) ==
    /\ McpStep(r, "next") /\ mcp[r].left = <<>>
    /\ McpGoto(r, [mcp[r] EXCEPT !.pc = "forwarded"])
    /\ UNCHANGED <<rules, delegates, instances>>

\* OnResponseHeaders: the delegates of the invoked keys, loaded again, report.
McpOnResponseHeaders(r) ==
    /\ McpStep(r, "forwarded")
    /\ McpGoto(r, [mcp[r] EXCEPT !.pc = "done",
                     !.reported = [i \in DOMAIN mcp[r].charged |->
                                      <<mcp[r].charged[i][1], delegates[mcp[r].charged[i][1]]>>]])
    /\ UNCHANGED <<rules, delegates, instances>>

McpInit == rules = NoRules /\ delegates = << >> /\ instances = 0 /\ mcp = [r \in McpCallers |-> NewMcp]

McpNext ==
    \/ McpGetPolicy
    \/ \E r \in McpCallers :
          \/ McpOnRequestBody(r) \/ McpLoad(r) \/ McpBuild(r) \/ McpLoadOrStore(r)
          \/ McpForward(r) \/ McpOnResponseHeaders(r)

-----------------------------------------------------------------------------
ChargedKeys(r) == [i \in DOMAIN mcp[r].charged |-> mcp[r].charged[i][1]]

\* All requests for one rule and capability are charged to one and the same delegate,
\* also when several of them built one at the same time, and its headers are the ones
\* reported; a request that goes on was charged once to every rule that matches it,
\* unless a delegate could not be built.
McpOneDelegate ==
    \A r \in McpCallers :
        /\ \A i \in DOMAIN mcp[r].charged : delegates[mcp[r].charged[i][1]] = mcp[r].charged[i][2]
        /\ mcp[r].pc = "done" => mcp[r].reported = mcp[r].charged
        /\ mcp[r].pc \in {"forwarded", "done"} /\ ~mcp[r].failed => ChargedKeys(r) = mcp[r].matched
=============================================================================
