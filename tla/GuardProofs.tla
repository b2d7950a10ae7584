----------------------------- MODULE GuardProofs -----------------------------
(***************************************************************************)
(* The guardrails, for every set of parameters, bodies, answers of the     *)
(* services and chunks of any number and length: requests fail closed, a   *)
(* client of a counted stream holds a text within the bounds, a stream is  *)
(* cut exactly if its whole text breaks the rule, nothing a pattern        *)
(* guardrail refuses is delivered in pieces, and personal data does not go *)
(* upstream, whatever order the detectors run in.                          *)
(***************************************************************************)
EXTENDS GuardedExchange, FiniteSetTheorems, NaturalsInduction, WellFoundedInduction, TLAPS

-----------------------------------------------------------------------------
(***************************************************************************)
(* The inductive invariant                                                 *)
(***************************************************************************)

\* After the factory the policy is what it parsed, and parsing succeeded.
BuiltInv ==
  /\ kind \in Kinds /\ raw \in RawOf[kind]
  /\ phase \in {"config", "rejected", "request", "blocked", "reply", "stream", "closed"}
  /\ phase \notin {"config", "rejected"} => pol = GetPolicy(kind, raw) /\ pol.ok

\* The policies that let a stream go as it came, or cut it.
Gated == kind \in Streaming \ {"pii"}
Open == phase \in {"config", "request", "reply", "stream"}

\* A whole payload comes with its braces.
Tokens == STRING \cup {"{", "}"}
MetaType == [text : Seq(Tokens), json : Seq(Lines), running : Nat, masked : {{}}]
StreamTypes ==
  /\ acc \in Seq(Lines) /\ produced \in Seq(Lines) /\ delivered \in Seq(Lines)
  /\ meta \in MetaType
  /\ Open => verdict.is = "none"
  /\ phase \notin {"stream", "closed"} =>
       produced = <<>> /\ acc = <<>> /\ delivered = <<>> /\ meta = NoMeta

\* The count of a text, as the response flow of the policy takes it.
CountOf(t) ==
  CASE kind = "word" -> Segments(Clean(t), Space)
    [] kind = "sentence" -> SolidSegments(Clean(t), Stop)
    [] OTHER -> Len(t)

\* Nothing is between the client and the accumulator, which holds the beginning of a batch
\* that shows what it is; what was taken for a plain body is part of the stream.
Carried ==
  /\ produced = delivered \o acc
  /\ acc = <<>> \/ IsSSE(acc)
  /\ ~HasDone(acc)
  /\ WellFormed(produced)
  /\ \A i \in DOMAIN meta.json : /\ meta.json[i].l \notin SSELines
                                  /\ \E j \in DOMAIN produced : meta.json[i] = produced[j]

Reads == kind \in {"word", "sentence"} \/ (kind = "regex" /\ pol.response.Stream = "delta")

\* Metadata m sums up what a client that has the lines d has.
Remembered(m, d) ==
  /\ Reads => m.text = TextOf(d)
  /\ kind = "length" => m.running = Len(TextOf(d))

\* What it has was within the rule when it was let go, and will stay so.
Bounded(d) ==
  kind \in Counting =>
    LET p == pol.response
        t == TextOf(d)
    IN  /\ ~p.Invert => CountOf(t) <= p.Max
        /\ \/ t = <<>> \/ HasDone(d)
           \/ IF p.Invert THEN CountOf(t) > p.Max ELSE p.Min <= CountOf(t)
UrlsWhole(d) ==
  kind = "url" =>
    LET t == TextOf(d)
    IN  /\ Visible(d) => InvalidUrls(t, pol.response) = {}
        /\ Halved(d) \/ HasDone(d) \/ ~IncompleteUrlAtEnd(t)
Unmatched(d) ==
  kind = "regex" /\ pol.response.Invert /\ Reads => ~Matches(TextOf(d))

Summed(m, d) == Remembered(m, d) /\ Bounded(d) /\ UrlsWhole(d) /\ Unmatched(d)
StreamSums == Carried /\ Summed(meta, delivered)
StreamInv ==
  Gated =>
    /\ StreamTypes
    /\ Watched /\ phase = "stream" => StreamSums

GuardInv == BuiltInv /\ RequestFailsClosed
WatchInv ==
  /\ GuardInv /\ StreamInv
  /\ phase = "closed" => StreamVerdictExact /\ NothingForbiddenReleased

-----------------------------------------------------------------------------
(***************************************************************************)
(* Texts: what a sequence of lines says                                    *)
(***************************************************************************)

LEMMA NatLeast ==
  ASSUME NEW S \in SUBSET Nat, S # {}
  PROVE  \E x \in S : \A y \in S : x <= y
<1> DEFINE R == {ss \in Nat \X Nat : ss[1] < ss[2]}
<1>1. IsWellFoundedOn(R, Nat)
  BY NatLessThanWellFounded, Zenon DEF OpToRel
<1>2. PICK x \in S : \A y \in S : <<y, x>> \notin R
  BY <1>1, WFMin, Zenon
<1>3. ASSUME NEW y \in S PROVE x <= y
  <2>1. <<y, x>> \notin R
    BY <1>2, Zenon
  <2>2. ~(y < x)
    BY <2>1
  <2> QED BY <2>2
<1> QED BY <1>3

\* f is the list of prefixes FlattenSeq goes through.
Flattens(f, n, s) == f = [i \in 1..n |-> IF i = 1 THEN s[i] ELSE f[i - 1] \o s[i]]

LEMMA Flattened ==
  ASSUME NEW N \in Nat, NEW s
  PROVE  \E f : Flattens(f, N, s)
<1> DEFINE T == {n \in Nat : ~\E f : Flattens(f, n, s)}
<1> SUFFICES ASSUME T # {} PROVE FALSE
  OBVIOUS
<1>1. PICK n \in T : \A m \in T : n <= m
  BY NatLeast
<1>2. n \in Nat /\ ~\E f : Flattens(f, n, s)
  OBVIOUS
<1>3. CASE n = 0
  <2>1. Flattens([i \in 1..n |-> <<>>], n, s)
    BY <1>3 DEF Flattens
  <2> QED BY <2>1, <1>2
<1>4. CASE n # 0
  <2>1. n - 1 \in Nat /\ n - 1 \notin T
    BY <1>1, <1>2, <1>4
  <2>2. PICK f : Flattens(f, n - 1, s)
    BY <2>1
  <2> DEFINE g == [i \in 1..n |-> IF i # n THEN f[i] ELSE IF n = 1 THEN s[1] ELSE f[n - 1] \o s[n]]
  <2>3. ASSUME NEW i \in 1..n PROVE g[i] = IF i = 1 THEN s[i] ELSE g[i - 1] \o s[i]
    <3>1. CASE i = n
      BY <1>2, <1>4, <3>1
    <3>2. CASE i # n
      <4>1. i \in 1..(n - 1)
        BY <1>2, <3>2
      <4>2. f[i] = IF i = 1 THEN s[i] ELSE f[i - 1] \o s[i]
        BY <2>2, <4>1 DEF Flattens
      <4>3. g[i] = f[i]
        BY <3>2
      <4>4. i # 1 => g[i - 1] = f[i - 1]
        BY <4>1, <1>2
      <4> QED BY <4>2, <4>3, <4>4
    <3> QED BY <3>1, <3>2
  <2>4. g = [i \in 1..n |-> IF i = 1 THEN s[i] ELSE g[i - 1] \o s[i]]
    BY <2>3
  <2>5. Flattens(g, n, s)
    BY <2>4 DEF Flattens
  <2> QED BY <2>5, <1>2
<1> QED BY <1>3, <1>4

\* FlattenSeq yields the last of them.
LEMMA FlattenIs ==
  ASSUME NEW S, NEW s \in Seq(Seq(S)), s # <<>>
  PROVE  \E f : Flattens(f, Len(s), s) /\ FlattenSeq(s) = f[Len(s)]
<1> DEFINE N == Len(s)
           fix(f) == f = [i \in 1..N |-> IF i = 1 THEN s[i] ELSE f[i - 1] \o s[i]]
<1>1. N \in Nat /\ N # 0
  OBVIOUS
<1>2. PICK g : Flattens(g, N, s)
  BY <1>1, Flattened
<1>3. fix(CHOOSE f : fix(f))
  BY <1>2, Zenon DEF Flattens
<1>4. FlattenSeq(s) = (CHOOSE f : fix(f))[N]
  BY <1>1, Zenon DEF FlattenSeq
<1> DEFINE h == CHOOSE f : fix(f)
<1>5. Flattens(h, N, s)
  BY <1>3, Zenon DEF Flattens
<1> HIDE DEF h, fix
<1> QED BY <1>4, <1>5 DEF h

\* Prefixes are sequences, and depend on what they are prefixes of only up to there.
LEMMA FlattenPrefix ==
  ASSUME NEW S, NEW s \in Seq(Seq(S)), NEW t \in Seq(Seq(S)), NEW f, NEW g,
         Flattens(f, Len(s), s), Flattens(g, Len(t), t),
         NEW N \in 0..Len(s), N <= Len(t), \A i \in 1..N : s[i] = t[i]
  PROVE  \A i \in 1..N : f[i] = g[i] /\ f[i] \in Seq(S)
<1> DEFINE T == {n \in Nat : n \in 1..N /\ ~(f[n] = g[n] /\ f[n] \in Seq(S))}
<1> SUFFICES ASSUME NEW i \in 1..N, ~(f[i] = g[i] /\ f[i] \in Seq(S)) PROVE FALSE
  OBVIOUS
<1>0. T # {}
  <2>1. i \in Nat
    OBVIOUS
  <2> QED BY <2>1
<1>1. PICK n \in T : \A m \in T : n <= m
  BY <1>0, NatLeast
<1>2. /\ n \in Nat /\ n \in 1..N /\ ~(f[n] = g[n] /\ f[n] \in Seq(S))
      /\ Len(s) \in Nat /\ Len(t) \in Nat /\ n \in 1..Len(s) /\ n \in 1..Len(t)
  OBVIOUS
<1>3. /\ f[n] = IF n = 1 THEN s[n] ELSE f[n - 1] \o s[n]
      /\ g[n] = IF n = 1 THEN t[n] ELSE g[n - 1] \o t[n]
  BY <1>2 DEF Flattens
<1>4. s[n] = t[n] /\ s[n] \in Seq(S)
  BY <1>2
<1>5. CASE n = 1
  BY <1>2, <1>3, <1>4, <1>5
<1>6. CASE n # 1
  <2>1. n - 1 \in 1..N /\ n - 1 \notin T /\ n - 1 \in Nat
    BY <1>1, <1>2, <1>6
  <2>2. f[n - 1] = g[n - 1] /\ f[n - 1] \in Seq(S)
    BY <2>1
  <2>3. f[n - 1] \o s[n] \in Seq(S)
    BY <2>2, <1>4
  <2> QED BY <1>2, <1>3, <1>4, <1>6, <2>2, <2>3
<1> QED BY <1>5, <1>6

LEMMA FlattenType ==
  ASSUME NEW S, NEW s \in Seq(Seq(S))
  PROVE  FlattenSeq(s) \in Seq(S)
<1>1. CASE s = <<>>
  BY <1>1 DEF FlattenSeq
<1>2. CASE s # <<>>
  <2>1. PICK f : Flattens(f, Len(s), s) /\ FlattenSeq(s) = f[Len(s)]
    BY <1>2, FlattenIs
  <2>2. Len(s) \in 1..Len(s) /\ Len(s) \in 0..Len(s) /\ Len(s) <= Len(s) /\ \A i \in 1..Len(s) : s[i] = s[i]
    BY <1>2
  <2>3. \A i \in 1..Len(s) : f[i] = f[i] /\ f[i] \in Seq(S)
    <3> HIDE <1>2
    <3> QED BY <2>1, <2>2, FlattenPrefix
  <2> QED BY <2>1, <2>2, <2>3
<1> QED BY <1>1, <1>2

LEMMA FlattenAppend ==
  ASSUME NEW S, NEW s \in Seq(Seq(S)), NEW x \in Seq(S)
  PROVE  FlattenSeq(Append(s, x)) = FlattenSeq(s) \o x
<1> DEFINE t == Append(s, x)
           N == Len(s)
<1>1. /\ t \in Seq(Seq(S)) /\ t # <<>> /\ Len(t) = N + 1 /\ t[N + 1] = x /\ N \in Nat
      /\ \A i \in 1..N : t[i] = s[i]
  <2>1. t \in Seq(Seq(S)) /\ Len(t) = N + 1 /\ N \in Nat /\ t[N + 1] = x /\ \A i \in 1..N : t[i] = s[i]
    OBVIOUS
  <2>2. t # <<>>
    <3> HIDE DEF t
    <3> QED BY <2>1
  <2> QED BY <2>1, <2>2
<1>2. PICK g : Flattens(g, Len(t), t) /\ FlattenSeq(t) = g[Len(t)]
  BY <1>1, FlattenIs
<1> HIDE DEF t
<1>3. g[N + 1] = IF N = 0 THEN x ELSE g[N] \o x
  <2>1. PICK m \in 1..Len(t) : m = N + 1
    BY <1>1
  <2>2. g[m] = IF m = 1 THEN t[m] ELSE g[m - 1] \o t[m]
    BY <1>2 DEF Flattens
  <2>3. t[m] = x /\ m - 1 = N /\ (m = 1 <=> N = 0) /\ g[m] = g[N + 1]
    BY <1>1, <2>1
  <2> QED BY <2>2, <2>3
<1>4. CASE s = <<>>
  <2>1. FlattenSeq(s) = <<>> /\ N = 0
    BY <1>4 DEF FlattenSeq
  <2> QED BY <1>1, <1>2, <1>3, <2>1 DEF t
<1>5. CASE s # <<>>
  <2>1. PICK f : Flattens(f, Len(s), s) /\ FlattenSeq(s) = f[Len(s)]
    BY <1>5, FlattenIs
  <2>2. N \in 1..N /\ N \in 0..N /\ N <= Len(t) /\ \A i \in 1..N : s[i] = t[i]
    BY <1>1, <1>5
  <2>3. f[N] = g[N]
    <3>1. \A i \in 1..N : f[i] = g[i] /\ f[i] \in Seq(S)
      BY <1>1, <1>2, <2>1, <2>2, FlattenPrefix
    <3> QED BY <2>2, <3>1
  <2>4. g[N + 1] = g[N] \o x
    BY <1>1, <1>3, <2>2
  <2> QED BY <1>1, <1>2, <2>1, <2>3, <2>4 DEF t
<1> QED BY <1>4, <1>5

LEMMA Associate ==
  ASSUME NEW S, NEW a \in Seq(S), NEW b \in Seq(S), NEW c \in Seq(S)
  PROVE  (a \o b) \o c = a \o (b \o c) /\ a \o b \in Seq(S) /\ b \o c \in Seq(S)
  OBVIOUS

LEMMA Joined ==
  ASSUME NEW S, NEW a \in Seq(S), NEW b \in Seq(S)
  PROVE  /\ a \o b \in Seq(S) /\ Len(a) \in Nat /\ Len(b) \in Nat /\ Len(a \o b) = Len(a) + Len(b)
         /\ \A i \in 1..Len(a) : (a \o b)[i] = a[i]
         /\ \A i \in 1..(Len(a) + Len(b)) : ~(i <= Len(a)) => (a \o b)[i] = b[i - Len(a)]
  OBVIOUS

LEMMA JoinedAppend ==
  ASSUME NEW S, NEW a \in Seq(S), NEW b \in Seq(S), NEW x \in S
  PROVE  a \o Append(b, x) = Append(a \o b, x)
  OBVIOUS

LEMMA SameSeq ==
  ASSUME NEW S, NEW a \in Seq(S), NEW b \in Seq(S), Len(a) = Len(b), \A i \in 1..Len(a) : a[i] = b[i]
  PROVE  a = b
  OBVIOUS

LEMMA Grow ==
  ASSUME NEW S, NEW b \in Seq(S), NEW n \in 1..Len(b)
  PROVE  /\ SubSeq(b, 1, n) = Append(SubSeq(b, 1, n - 1), b[n])
         /\ SubSeq(b, 1, n - 1) \in Seq(S) /\ SubSeq(b, 1, n) \in Seq(S) /\ b[n] \in S
<1>1. n \in Nat /\ n - 1 \in 0..Len(b) /\ Len(b) \in Nat
  OBVIOUS
<1>2. SubSeq(b, 1, n - 1) \in Seq(S) /\ SubSeq(b, 1, n) \in Seq(S) /\ b[n] \in S
  BY <1>1
<1> QED BY <1>1, <1>2

LEMMA FlattenConcat ==
  ASSUME NEW S, NEW a \in Seq(Seq(S)), NEW b \in Seq(Seq(S))
  PROVE  FlattenSeq(a \o b) = FlattenSeq(a) \o FlattenSeq(b)
<1> DEFINE P(n) == FlattenSeq(a \o SubSeq(b, 1, n)) = FlattenSeq(a) \o FlattenSeq(SubSeq(b, 1, n))
           T == {n \in Nat : n \in 0..Len(b) /\ ~P(n)}
<1>0. Len(b) \in Nat /\ Len(b) \in 0..Len(b) /\ SubSeq(b, 1, Len(b)) = b
  OBVIOUS
<1> SUFFICES ASSUME ~P(Len(b)) PROVE FALSE
  BY <1>0
<1>1. PICK n \in T : \A m \in T : n <= m
  <2>1. Len(b) \in T
    BY <1>0
  <2> HIDE DEF T
  <2>2. T \subseteq Nat
    BY DEF T
  <2> QED BY <2>1, <2>2, NatLeast
<1>2. n \in Nat /\ n \in 0..Len(b) /\ ~P(n)
  OBVIOUS
<1> HIDE DEF P
<1>3. CASE n = 0
  <2>1. SubSeq(b, 1, 0) = <<>> /\ a \o <<>> = a
    OBVIOUS
  <2>2. FlattenSeq(<<>>) = <<>> /\ FlattenSeq(a) \in Seq(S)
    BY FlattenType DEF FlattenSeq
  <2>3. FlattenSeq(a) \o <<>> = FlattenSeq(a)
    BY <2>2
  <2>4. P(0)
    BY <2>1, <2>2, <2>3, Zenon DEF P
  <2> QED BY <1>2, <1>3, <2>4
<1>4. CASE n # 0
  <2> DEFINE c == SubSeq(b, 1, n - 1)
             x == b[n]
  <2>1. n \in 1..Len(b) /\ n - 1 \in 0..Len(b) /\ n - 1 \in Nat /\ ~(n <= n - 1)
    BY <1>0, <1>2, <1>4
  <2>2. P(n - 1)
    BY <1>1, <2>1
  <2>3. SubSeq(b, 1, n) = Append(c, x) /\ c \in Seq(Seq(S)) /\ x \in Seq(S)
    BY <2>1, Grow
  <2> HIDE DEF c, x
  <2>4. a \o Append(c, x) = Append(a \o c, x) /\ a \o c \in Seq(Seq(S))
    <3>1. a \o Append(c, x) = Append(a \o c, x)
      <4>1. a \in Seq(Seq(S)) /\ c \in Seq(Seq(S)) /\ x \in Seq(S)
        BY <2>3
      <4> HIDE DEF T
      <4> QED BY <4>1, JoinedAppend
    <3>2. a \o c \in Seq(Seq(S))
      BY <2>3, Joined
    <3> QED BY <3>1, <3>2
  <2>5. FlattenSeq(a \o c) = FlattenSeq(a) \o FlattenSeq(c)
    BY <2>2 DEF P, c
  <2>6. /\ FlattenSeq(Append(a \o c, x)) = FlattenSeq(a \o c) \o x
        /\ FlattenSeq(Append(c, x)) = FlattenSeq(c) \o x
    BY <2>3, <2>4, FlattenAppend
  <2>7. FlattenSeq(a) \in Seq(S) /\ FlattenSeq(c) \in Seq(S)
    BY <2>3, FlattenType
  <2>8. (FlattenSeq(a) \o FlattenSeq(c)) \o x = FlattenSeq(a) \o (FlattenSeq(c) \o x)
    <3> DEFINE u == FlattenSeq(a)
               v == FlattenSeq(c)
    <3>1. u \in Seq(S) /\ v \in Seq(S) /\ x \in Seq(S)
      BY <2>3, <2>7
    <3> HIDE DEF u, v
    <3>2. (u \o v) \o x = u \o (v \o x)
      BY <3>1, Associate, SMTT(30)
    <3> QED BY <3>2 DEF u, v
  <2>9. FlattenSeq(a \o SubSeq(b, 1, n)) = FlattenSeq(a) \o FlattenSeq(SubSeq(b, 1, n))
    BY <2>3, <2>4, <2>5, <2>6, <2>8
  <2> QED BY <1>2, <2>9 DEF P
<1> QED BY <1>3, <1>4

LEMMA FlattenEmpty ==
  ASSUME NEW S, NEW b \in Seq(Seq(S)), \A i \in 1..Len(b) : b[i] = <<>>
  PROVE  FlattenSeq(b) = <<>>
<1> DEFINE P(n) == FlattenSeq(SubSeq(b, 1, n)) = <<>>
           T == {n \in Nat : n \in 0..Len(b) /\ ~P(n)}
<1>0. Len(b) \in Nat /\ Len(b) \in 0..Len(b) /\ SubSeq(b, 1, Len(b)) = b
  OBVIOUS
<1> SUFFICES ASSUME ~P(Len(b)) PROVE FALSE
  BY <1>0
<1>1. PICK n \in T : \A m \in T : n <= m
  <2>1. Len(b) \in T
    BY <1>0
  <2> HIDE DEF T
  <2>2. T \subseteq Nat
    BY DEF T
  <2> QED BY <2>1, <2>2, NatLeast
<1>2. n \in Nat /\ n \in 0..Len(b) /\ ~P(n)
  OBVIOUS
<1> HIDE DEF P
<1>3. CASE n = 0
  <2>1. SubSeq(b, 1, 0) = <<>>
    OBVIOUS
  <2>2. FlattenSeq(<<>>) = <<>>
    BY DEF FlattenSeq
  <2>3. P(0)
    BY <2>1, <2>2, Zenon DEF P
  <2> QED BY <1>2, <1>3, <2>3
<1>4. CASE n # 0
  <2>1. n \in 1..Len(b) /\ n - 1 \in 0..Len(b) /\ n - 1 \in Nat /\ ~(n <= n - 1)
    BY <1>0, <1>2, <1>4
  <2>2. P(n - 1)
    BY <1>1, <2>1
  <2>3. SubSeq(b, 1, n) = Append(SubSeq(b, 1, n - 1), b[n]) /\ SubSeq(b, 1, n - 1) \in Seq(Seq(S)) /\ b[n] \in Seq(S)
    BY <2>1, Grow
  <2>4. FlattenSeq(SubSeq(b, 1, n)) = FlattenSeq(SubSeq(b, 1, n - 1)) \o b[n]
    BY <2>3, FlattenAppend
  <2>5. b[n] = <<>> /\ FlattenSeq(SubSeq(b, 1, n - 1)) = <<>>
    BY <2>1, <2>2 DEF P
  <2>6. FlattenSeq(SubSeq(b, 1, n)) = <<>>
    BY <2>4, <2>5
  <2> QED BY <1>2, <2>6 DEF P
<1> QED BY <1>3, <1>4

-----------------------------------------------------------------------------
\* What a line adds to the text.
Says(line) == IF line.l \notin SSELines \ {"done"} THEN <<>> ELSE line.s
Pieces(lines) == [i \in 1..Len(lines) |-> Says(lines[i])]

LEMMA PiecesType ==
  ASSUME NEW a \in Seq(Lines)
  PROVE  Pieces(a) \in Seq(Seq(STRING)) /\ Len(Pieces(a)) = Len(a)
<1>1. Len(a) \in Nat /\ \A i \in 1..Len(a) : a[i] \in Lines
  OBVIOUS
<1>2. \A i \in 1..Len(a) : Says(a[i]) \in Seq(STRING)
  <2> SUFFICES ASSUME NEW i \in 1..Len(a) PROVE Says(a[i]) \in Seq(STRING)
    OBVIOUS
  <2>1. a[i].s \in Seq(STRING)
    BY <1>1 DEF Lines
  <2>2. <<>> \in Seq(STRING)
    OBVIOUS
  <2> QED BY <2>1, <2>2, Zenon DEF Says
<1> QED BY <1>1, <1>2 DEF Pieces

LEMMA TextIs ==
  ASSUME NEW a \in Seq(Lines)
  PROVE  TextOf(a) = FlattenSeq(Pieces(a)) /\ TextOf(a) \in Seq(STRING)
<1>1. DOMAIN a = 1..Len(a)
  OBVIOUS
<1>2. [i \in DOMAIN a |-> IF a[i].l \notin SSELines \ {"done"} THEN <<>>
                         ELSE IF "delta" = "" THEN WholePayload(a[i]) ELSE JoinFragments(a[i])]
      = Pieces(a)
  BY <1>1 DEF Pieces, Says, JoinFragments
<1>3. TextOf(a) = FlattenSeq(Pieces(a))
  BY <1>2, Zenon DEF TextOf, DeltaContent
<1> QED BY <1>3, PiecesType, FlattenType

\* The text of two batches, and of none.
LEMMA TextConcat ==
  ASSUME NEW a \in Seq(Lines), NEW b \in Seq(Lines)
  PROVE  TextOf(a \o b) = TextOf(a) \o TextOf(b)
<1>1. a \o b \in Seq(Lines) /\ Len(a) \in Nat /\ Len(b) \in Nat /\ Len(a \o b) = Len(a) + Len(b)
  BY Joined
<1>0. DOMAIN Pieces(a) = 1..Len(a) /\ DOMAIN Pieces(b) = 1..Len(b)
  BY DEF Pieces
<1>2. /\ Pieces(a) \in Seq(Seq(STRING)) /\ Len(Pieces(a)) = Len(a)
      /\ Pieces(b) \in Seq(Seq(STRING)) /\ Len(Pieces(b)) = Len(b)
      /\ Pieces(a \o b) \in Seq(Seq(STRING)) /\ Len(Pieces(a \o b)) = Len(a) + Len(b)
  BY <1>1, PiecesType
<1>3. ASSUME NEW i \in 1..(Len(a) + Len(b)) PROVE Pieces(a \o b)[i] = (Pieces(a) \o Pieces(b))[i]
  <2>1. CASE i <= Len(a)
    <3>1. i \in 1..Len(a) /\ (a \o b)[i] = a[i]
      BY <1>1, <2>1
    <3>2. (Pieces(a) \o Pieces(b))[i] = Pieces(a)[i]
      BY <1>2, <3>1, Joined
    <3> QED BY <1>1, <3>1, <3>2 DEF Pieces
  <2>2. CASE ~(i <= Len(a))
    <3>1. i - Len(a) \in 1..Len(b) /\ (a \o b)[i] = b[i - Len(a)]
      BY <1>1, <2>2
    <3>2. (Pieces(a) \o Pieces(b))[i] = Pieces(b)[i - Len(a)]
      <4> DEFINE u == Pieces(a)
                 v == Pieces(b)
      <4>1. u \in Seq(Seq(STRING)) /\ v \in Seq(Seq(STRING)) /\ Len(u) = Len(a) /\ Len(v) = Len(b)
        BY <1>2
      <4> HIDE DEF u, v
      <4>2. (u \o v)[i] = v[i - Len(u)]
        BY <2>2, <4>1, Joined
      <4> QED BY <4>1, <4>2 DEF u, v
    <3> QED BY <1>1, <3>1, <3>2 DEF Pieces
  <2> QED BY <2>1, <2>2
<1>4. Pieces(a \o b) = Pieces(a) \o Pieces(b)
  <2>1. Pieces(a) \o Pieces(b) \in Seq(Seq(STRING)) /\ Len(Pieces(a) \o Pieces(b)) = Len(a) + Len(b)
    <3> DEFINE u == Pieces(a)
               v == Pieces(b)
    <3>1. u \in Seq(Seq(STRING)) /\ v \in Seq(Seq(STRING)) /\ Len(u) = Len(a) /\ Len(v) = Len(b)
      BY <1>2
    <3> HIDE DEF u, v
    <3>2. u \o v \in Seq(Seq(STRING)) /\ Len(u \o v) = Len(a) + Len(b)
      <4>1. u \o v \in Seq(Seq(STRING))
        BY <3>1, Joined
      <4>2. Len(u \o v) = Len(u) + Len(v)
        BY <3>1, Joined
      <4> QED BY <3>1, <4>1, <4>2
    <3> QED BY <3>2 DEF u, v
  <2> HIDE DEF Pieces
  <2> QED BY <1>2, <1>3, <2>1, SameSeq
<1>5. FlattenSeq(Pieces(a) \o Pieces(b)) = FlattenSeq(Pieces(a)) \o FlattenSeq(Pieces(b))
  BY <1>2, FlattenConcat, Zenon
<1> QED BY <1>1, <1>4, <1>5, TextIs, Zenon

LEMMA NoText ==
  ASSUME NEW a \in Seq(Lines), ~IsEventStream(a)
  PROVE  TextOf(a) = <<>>
<1>1. \A i \in 1..Len(a) : Pieces(a)[i] = <<>>
  BY DEF Pieces, Says, IsEventStream
<1> QED BY <1>1, PiecesType, TextIs, FlattenEmpty

LEMMA EmptyText == TextOf(<<>>) = <<>>
<1>1. <<>> \in Seq(Lines) /\ ~IsEventStream(<<>>)
  BY DEF IsEventStream
<1> QED BY <1>1, NoText

-----------------------------------------------------------------------------
(***************************************************************************)
(* Texts: trimming, cleaning and counting                                  *)
(***************************************************************************)

\* w is what is left of t after its first d tokens and some of its last, all in Out, are gone.
Within(w, t, d, Out) ==
  /\ d \in Nat /\ w \in Seq(STRING) /\ d + Len(w) <= Len(t)
  /\ \A i \in 1..Len(w) : w[i] = t[i + d]
  /\ \A i \in 1..Len(t) : i <= d \/ i > d + Len(w) => t[i] \in Out

LEMMA LeastOf ==
  ASSUME NEW S \in SUBSET Nat, S # {}
  PROVE  Min(S) \in S /\ \A y \in S : Min(S) <= y
  BY NatLeast DEF Min

LEMMA GreatestOf ==
  ASSUME NEW B \in Int, NEW S \in SUBSET Int, S # {}, \A x \in S : x <= B
  PROVE  Max(S) \in S /\ \A y \in S : Max(S) >= y
<1> DEFINE R == {B - x : x \in S}
<1>1. R \subseteq Nat /\ R # {}
  <2>1. \A x \in S : B - x \in Nat
    OBVIOUS
  <2> QED BY <2>1
<1>2. PICK r \in R : \A y \in R : r <= y
  BY <1>1, NatLeast
<1>3. PICK m \in S : r = B - m
  BY <1>2
<1>4. ASSUME NEW y \in S PROVE m >= y
  <2>1. B - y \in R
    OBVIOUS
  <2>2. r <= B - y /\ m \in Int /\ y \in Int
    BY <1>2, <2>1
  <2> QED BY <1>3, <2>2
<1>5. \E x \in S : \A y \in S : x >= y
  BY <1>4
<1> QED BY <1>5, Zenon DEF Max

LEMMA SubSeqFacts ==
  ASSUME NEW S, NEW t \in Seq(S), NEW lo \in Nat, NEW hi \in Nat, 1 <= lo, hi <= Len(t), lo <= hi + 1
  PROVE  /\ SubSeq(t, lo, hi) \in Seq(S) /\ Len(SubSeq(t, lo, hi)) = hi - lo + 1
         /\ \A i \in 1..(hi - lo + 1) : SubSeq(t, lo, hi)[i] = t[i + lo - 1]
<1>1. Len(t) \in Nat /\ \A i \in 1..Len(t) : t[i] \in S
  OBVIOUS
<1> QED BY <1>1

LEMMA TrimWithin ==
  ASSUME NEW t \in Seq(STRING)
  PROVE  \E d \in Nat : Within(TrimSpace(t), t, d, {Space})
<1> DEFINE kept == {i \in DOMAIN t : t[i] # Space}
<1>1. Len(t) \in Nat /\ DOMAIN t = 1..Len(t)
  OBVIOUS
<1>2. CASE kept = {}
  <2>1. TrimSpace(t) = <<>>
    BY <1>2 DEF TrimSpace
  <2>2. <<>> \in Seq(STRING) /\ Len(<<>>) = 0
    OBVIOUS
  <2>3. \A i \in 1..Len(t) : t[i] = Space
    BY <1>1, <1>2
  <2> QED BY <1>1, <2>1, <2>2, <2>3 DEF Within
<1>3. CASE kept # {}
  <2>1. kept \subseteq 1..Len(t) /\ kept \subseteq Nat /\ kept \subseteq Int /\ \A x \in kept : x <= Len(t)
    BY <1>1
  <2>2. Min(kept) \in kept /\ \A y \in kept : Min(kept) <= y
    BY <1>3, <2>1, LeastOf
  <2>3. Max(kept) \in kept /\ \A y \in kept : Max(kept) >= y
    <3> HIDE DEF kept
    <3>1. Len(t) \in Int
      BY <1>1
    <3> QED BY <1>3, <2>1, <3>1, GreatestOf
  <2>4. PICK lo \in Nat, hi \in Nat : lo = Min(kept) /\ hi = Max(kept)
    BY <2>1, <2>2, <2>3
  <2>5. /\ 1 <= lo /\ hi <= Len(t) /\ lo <= hi
        /\ \A i \in 1..Len(t) : t[i] # Space => lo <= i /\ i <= hi
    BY <1>1, <2>1, <2>2, <2>3, <2>4
  <2>6. TrimSpace(t) = SubSeq(t, lo, hi)
    BY <1>3, <2>4, Zenon DEF TrimSpace
  <2>7. /\ SubSeq(t, lo, hi) \in Seq(STRING) /\ Len(SubSeq(t, lo, hi)) = hi - lo + 1
        /\ \A i \in 1..(hi - lo + 1) : SubSeq(t, lo, hi)[i] = t[i + lo - 1]
    BY <2>5, SubSeqFacts
  <2> DEFINE w == TrimSpace(t)
             d == lo - 1
  <2>8. w \in Seq(STRING) /\ Len(w) = hi - lo + 1 /\ \A i \in 1..(hi - lo + 1) : w[i] = t[i + lo - 1]
    BY <2>6, <2>7
  <2> HIDE DEF w
  <2>9. d \in Nat /\ d + Len(w) = hi
    BY <2>5, <2>8
  <2>10. \A i \in 1..Len(w) : w[i] = t[i + d]
    BY <2>8
  <2>11. \A i \in 1..Len(t) : i <= d \/ i > d + Len(w) => t[i] \in {Space}
    BY <2>5, <2>9
  <2>12. Within(w, t, d, {Space})
    BY <2>5, <2>8, <2>9, <2>10, <2>11 DEF Within
  <2> QED BY <2>9, <2>12 DEF w
<1> QED BY <1>2, <1>3

\* What the regex for quotes leaves, by position.
Opens(t) == IF t # <<>> /\ t[1] = Quote THEN 1 ELSE 0
Closes(t) == IF Len(t) - Opens(t) > 0 /\ t[Len(t)] = Quote THEN 1 ELSE 0

LEMMA CleanIs ==
  ASSUME NEW t \in Seq(STRING)
  PROVE  /\ Clean(t) \in Seq(STRING) /\ Len(Clean(t)) = Len(t) - Opens(t) - Closes(t)
         /\ Opens(t) \in 0..1 /\ Closes(t) \in 0..1 /\ Len(Clean(t)) \in Nat
         /\ \A i \in 1..Len(Clean(t)) : Clean(t)[i] = t[i + Opens(t)]
<1> DEFINE head == IF t # <<>> /\ t[1] = Quote THEN Tail(t) ELSE t
<1>0. Len(t) \in Nat /\ (t # <<>> => Len(t) > 0)
  OBVIOUS
<1>1. /\ head \in Seq(STRING) /\ Len(head) = Len(t) - Opens(t) /\ Opens(t) \in 0..1
      /\ \A i \in 1..Len(head) : head[i] = t[i + Opens(t)]
  <2>1. CASE t # <<>> /\ t[1] = Quote
    <3>1. Tail(t) \in Seq(STRING) /\ Len(Tail(t)) = Len(t) - 1 /\ \A i \in 1..(Len(t) - 1) : Tail(t)[i] = t[i + 1]
      BY <2>1
    <3> QED BY <2>1, <3>1 DEF Opens
  <2>2. CASE ~(t # <<>> /\ t[1] = Quote)
    BY <2>2, <1>0 DEF Opens
  <2> QED BY <2>1, <2>2
<1>2. Clean(t) = IF head # <<>> /\ Last(head) = Quote THEN Front(head) ELSE head
  BY Zenon DEF Clean
<1> HIDE DEF head
<1>3. Len(head) \in Nat /\ (head # <<>> <=> Len(t) - Opens(t) > 0)
  <2>1. head # <<>> <=> Len(head) > 0
    BY <1>1
  <2> QED BY <1>1, <2>1
<1>4. head # <<>> => Last(head) = t[Len(t)]
  BY <1>0, <1>1, <1>3 DEF Last
<1>5. CASE head # <<>> /\ Last(head) = Quote
  <2>1. Front(head) \in Seq(STRING) /\ Len(Front(head)) = Len(head) - 1 /\ \A i \in 1..(Len(head) - 1) : Front(head)[i] = head[i]
    BY <1>1, <1>5 DEF Front
  <2>2. Closes(t) = 1
    BY <1>3, <1>4, <1>5 DEF Closes
  <2>3. Clean(t) = Front(head)
    BY <1>2, <1>5
  <2> HIDE DEF Front
  <2> QED BY <1>1, <1>3, <1>5, <2>1, <2>2, <2>3
<1>6. CASE ~(head # <<>> /\ Last(head) = Quote)
  <2>1. Closes(t) = 0
    BY <1>3, <1>4, <1>6 DEF Closes
  <2>2. Clean(t) = head
    BY <1>2, <1>6
  <2> QED BY <1>1, <1>3, <2>1, <2>2
<1> QED BY <1>5, <1>6

LEMMA CleanWithin ==
  ASSUME NEW t \in Seq(STRING)
  PROVE  Within(Clean(t), t, Opens(t), {Quote})
<1>0. Len(t) \in Nat
  OBVIOUS
<1>1. PICK o \in 0..1, e \in 0..1 : o = Opens(t) /\ e = Closes(t)
  BY CleanIs
<1>2. /\ Clean(t) \in Seq(STRING) /\ Len(Clean(t)) = Len(t) - o - e /\ Len(Clean(t)) \in Nat
      /\ \A i \in 1..Len(Clean(t)) : Clean(t)[i] = t[i + o]
  BY <1>1, CleanIs
<1>3. ASSUME NEW i \in 1..Len(t), i <= o \/ i > o + Len(Clean(t)) PROVE t[i] = Quote
  <2>1. CASE i <= o
    <3>1. i = 1 /\ o = 1
      BY <2>1
    <3> QED BY <1>1, <3>1 DEF Opens
  <2>2. CASE ~(i <= o)
    <3>1. e = 1 /\ i = Len(t)
      BY <1>0, <1>2, <1>3, <2>2
    <3> QED BY <1>1, <3>1 DEF Closes
  <2> QED BY <2>1, <2>2
<1>4. Within(Clean(t), t, o, {Quote})
  BY <1>0, <1>2, <1>3 DEF Within
<1> QED BY <1>1, <1>4

LEMMA ShiftCount ==
  ASSUME NEW n \in Nat, NEW A \in SUBSET (1..n), NEW d \in Nat, NEW B \in SUBSET Int,
         \A i \in A : i + d \in B, \A j \in B : j - d \in A
  PROVE  Cardinality(A) = Cardinality(B)
<1> DEFINE f == [i \in A |-> i + d]
<1>1. f \in Bijection(A, B)
  <2>1. f \in [A -> B]
    OBVIOUS
  <2>2. \A i, j \in A : f[i] = f[j] => i = j
    OBVIOUS
  <2>3. ASSUME NEW j \in B PROVE \E i \in A : f[i] = j
    <3>1. j - d \in A /\ f[j - d] = j
      BY <2>3
    <3> QED BY <3>1
  <2> HIDE DEF f
  <2> QED BY <2>1, <2>2, <2>3 DEF Bijection, Injection, Surjection, IsInjective
<1>2. IsFiniteSet(A)
  <2>1. IsFiniteSet(1..n)
    BY FS_Interval
  <2> QED BY <2>1, FS_Subset
<1> HIDE DEF f
<1> QED BY <1>1, <1>2, FS_Bijection DEF ExistsBijection

\* White space at the ends holds no word and no sentence.
LEMMA SegmentsWithin ==
  ASSUME NEW t \in Seq(STRING), NEW w, NEW d, Within(w, t, d, {Space})
  PROVE  Segments(w, Space) = Segments(t, Space)
<1> DEFINE A == {i \in DOMAIN w : w[i] # Space /\ (i = 1 \/ w[i-1] = Space)}
           B == {i \in DOMAIN t : t[i] # Space /\ (i = 1 \/ t[i-1] = Space)}
<1>1. /\ d \in Nat /\ Len(w) \in Nat /\ Len(t) \in Nat /\ d + Len(w) <= Len(t)
      /\ DOMAIN w = 1..Len(w) /\ DOMAIN t = 1..Len(t)
      /\ \A i \in 1..Len(w) : w[i] = t[i + d]
      /\ \A i \in 1..Len(t) : i <= d \/ i > d + Len(w) => t[i] = Space
  BY DEF Within
<1>2. ASSUME NEW i \in A PROVE i + d \in B
  <2>1. i \in 1..Len(w) /\ i + d \in 1..Len(t) /\ t[i + d] # Space
    BY <1>1
  <2>2. CASE i = 1
    <3>1. d = 0 \/ (d \in 1..Len(t) /\ d <= d)
      BY <1>1
    <3>2. d = 0 \/ t[i + d - 1] = Space
      BY <1>1, <2>2, <3>1
    <3> QED BY <1>1, <2>1, <2>2, <3>2
  <2>3. CASE i # 1
    <3>1. i - 1 \in 1..Len(w) /\ w[i - 1] = Space /\ (i - 1) + d = i + d - 1
      BY <1>1, <2>1, <2>3
    <3>2. t[i + d - 1] = Space
      BY <1>1, <3>1
    <3> QED BY <1>1, <2>1, <3>2
  <2> QED BY <2>2, <2>3
<1>3. ASSUME NEW j \in B PROVE j - d \in A
  <2>1. j \in 1..Len(t) /\ t[j] # Space /\ (j = 1 \/ t[j - 1] = Space)
    BY <1>1
  <2>2. j > d /\ j <= d + Len(w)
    BY <1>1, <2>1
  <2>3. PICK i \in 1..Len(w) : i = j - d /\ j = i + d
    BY <1>1, <2>1, <2>2
  <2>4. w[i] # Space
    BY <1>1, <2>1, <2>3
  <2>5. i = 1 \/ w[i - 1] = Space
    <3>1. CASE i # 1
      <4>1. i - 1 \in 1..Len(w) /\ j # 1 /\ (i - 1) + d = j - 1
        BY <1>1, <2>1, <2>3, <3>1, SMTT(30)
      <4> QED BY <1>1, <2>1, <4>1
    <3> QED BY <3>1
  <2> QED BY <1>1, <2>3, <2>4, <2>5
<1>4. A \subseteq 1..Len(w) /\ B \subseteq Int
  BY <1>1
<1>5. Cardinality(A) = Cardinality(B)
  <2> HIDE DEF A, B
  <2> QED BY <1>1, <1>2, <1>3, <1>4, ShiftCount
<1> QED BY <1>5, Zenon DEF Segments

LEMMA SolidWithin ==
  ASSUME NEW t \in Seq(STRING), NEW w, NEW d, Within(w, t, d, {Space})
  PROVE  SolidSegments(w, Stop) = SolidSegments(t, Stop)
<1> DEFINE A == {i \in DOMAIN w : /\ w[i] \notin {Stop, Space}
                                  /\ \A j \in 1..(i-1) : w[j] \notin {Stop, Space} =>
                                        \E k \in (j+1)..(i-1) : w[k] = Stop}
           B == {i \in DOMAIN t : /\ t[i] \notin {Stop, Space}
                                  /\ \A j \in 1..(i-1) : t[j] \notin {Stop, Space} =>
                                        \E k \in (j+1)..(i-1) : t[k] = Stop}
<1>1. /\ d \in Nat /\ Len(w) \in Nat /\ Len(t) \in Nat /\ d + Len(w) <= Len(t)
      /\ DOMAIN w = 1..Len(w) /\ DOMAIN t = 1..Len(t)
      /\ \A i \in 1..Len(w) : w[i] = t[i + d]
      /\ \A i \in 1..Len(t) : i <= d \/ i > d + Len(w) => t[i] = Space
  BY DEF Within
<1>2. ASSUME NEW i \in A PROVE i + d \in B
  <2>1. i \in 1..Len(w) /\ i + d \in 1..Len(t) /\ t[i + d] \notin {Stop, Space}
    BY <1>1
  <2>2. ASSUME NEW m \in 1..(i + d - 1), t[m] \notin {Stop, Space}
        PROVE  \E n \in (m + 1)..(i + d - 1) : t[n] = Stop
    <3>1. m \in 1..Len(t) /\ m > d
      BY <1>1, <2>1, <2>2
    <3>2. PICK j \in 1..(i - 1) : j = m - d /\ m = j + d /\ j \in 1..Len(w)
      BY <1>1, <2>1, <3>1
    <3>3. w[j] \notin {Stop, Space}
      BY <1>1, <2>2, <3>2
    <3>4. PICK k \in (j + 1)..(i - 1) : w[k] = Stop
      BY <3>2, <3>3
    <3>5. k \in 1..Len(w) /\ k + d \in (m + 1)..(i + d - 1)
      BY <1>1, <2>1, <3>2, <3>4
    <3>6. t[k + d] = Stop
      BY <1>1, <3>4, <3>5
    <3> QED BY <3>5, <3>6
  <2> QED BY <1>1, <2>1, <2>2
<1>3. ASSUME NEW m \in B PROVE m - d \in A
  <2>1. /\ m \in 1..Len(t) /\ t[m] \notin {Stop, Space}
        /\ \A j \in 1..(m-1) : t[j] \notin {Stop, Space} => \E k \in (j+1)..(m-1) : t[k] = Stop
    BY <1>1
  <2>2. m > d /\ m <= d + Len(w)
    BY <1>1, <2>1
  <2> HIDE DEF A, B
  <2>3. PICK i \in 1..Len(w) : i = m - d /\ m = i + d
    BY <1>1, <2>1, <2>2
  <2>4. w[i] \notin {Stop, Space}
    BY <1>1, <2>1, <2>3
  <2>5. ASSUME NEW j \in 1..(i - 1), w[j] \notin {Stop, Space}
        PROVE  \E k \in (j + 1)..(i - 1) : w[k] = Stop
    <3>1. j \in 1..Len(w) /\ j + d \in 1..(m - 1)
      BY <1>1, <2>3, <2>5
    <3>2. t[j + d] \notin {Stop, Space}
      BY <1>1, <2>5, <3>1
    <3>3. PICK n \in (j + d + 1)..(m - 1) : t[n] = Stop
      BY <2>1, <3>1, <3>2
    <3>4. PICK k \in (j + 1)..(i - 1) : k = n - d /\ n = k + d /\ k \in 1..Len(w)
      BY <1>1, <2>3, <3>1, <3>3
    <3> QED BY <1>1, <3>3, <3>4
  <2> QED BY <1>1, <2>3, <2>4, <2>5 DEF A
<1>4. A \subseteq 1..Len(w) /\ B \subseteq Int
  BY <1>1
<1>5. Cardinality(A) = Cardinality(B)
  <2> HIDE DEF A, B
  <2> QED BY <1>1, <1>2, <1>3, <1>4, ShiftCount
<1> QED BY <1>5, Zenon DEF SolidSegments

\* A text that goes on has no fewer words, sentences or tokens.
Begins(x, y) ==
  /\ x \in Seq(STRING) /\ y \in Seq(STRING) /\ Len(x) <= Len(y)
  /\ \A i \in 1..Len(x) : x[i] = y[i]

LEMMA SegmentsGrow ==
  ASSUME NEW x, NEW y, Begins(x, y), NEW sep
  PROVE  Segments(x, sep) \in Nat /\ Segments(y, sep) \in Nat /\ Segments(x, sep) <= Segments(y, sep)
<1> DEFINE At(t) == {i \in DOMAIN t : t[i] # sep /\ (i = 1 \/ t[i-1] = sep)}
<1>1. /\ Len(x) \in Nat /\ Len(y) \in Nat /\ DOMAIN x = 1..Len(x) /\ DOMAIN y = 1..Len(y)
      /\ Len(x) <= Len(y) /\ \A i \in 1..Len(x) : x[i] = y[i]
  BY DEF Begins
<1>2. ASSUME NEW i \in At(x) PROVE i \in At(y)
  <2>1. i \in 1..Len(x) /\ i \in 1..Len(y) /\ (i # 1 => i - 1 \in 1..Len(x))
    BY <1>1
  <2> QED BY <1>1, <2>1
<1>3. At(x) \subseteq 1..Len(x) /\ At(y) \subseteq 1..Len(y)
  BY <1>1
<1>4. Segments(x, sep) = Cardinality(At(x)) /\ Segments(y, sep) = Cardinality(At(y))
  BY Zenon DEF Segments
<1> HIDE DEF At
<1>5. IsFiniteSet(At(x)) /\ IsFiniteSet(At(y)) /\ At(x) \subseteq At(y)
  <2>1. IsFiniteSet(1..Len(x)) /\ IsFiniteSet(1..Len(y))
    <3>1. 1 \in Int /\ Len(x) \in Int /\ Len(y) \in Int
      BY <1>1
    <3> QED BY <3>1, FS_Interval
  <2>2. IsFiniteSet(At(x))
    BY <1>3, <2>1, FS_Subset
  <2>3. IsFiniteSet(At(y))
    BY <1>3, <2>1, FS_Subset
  <2> QED BY <1>2, <2>2, <2>3
<1> QED BY <1>4, <1>5, FS_Subset, FS_CardinalityType

LEMMA SolidGrow ==
  ASSUME NEW x, NEW y, Begins(x, y), NEW sep
  PROVE  SolidSegments(x, sep) \in Nat /\ SolidSegments(y, sep) \in Nat
         /\ SolidSegments(x, sep) <= SolidSegments(y, sep)
<1> DEFINE At(t) == {i \in DOMAIN t : /\ t[i] \notin {sep, Space}
                                      /\ \A j \in 1..(i-1) : t[j] \notin {sep, Space} =>
                                            \E k \in (j+1)..(i-1) : t[k] = sep}
<1>1. /\ Len(x) \in Nat /\ Len(y) \in Nat /\ DOMAIN x = 1..Len(x) /\ DOMAIN y = 1..Len(y)
      /\ Len(x) <= Len(y) /\ \A i \in 1..Len(x) : x[i] = y[i]
  BY DEF Begins
<1>2. ASSUME NEW i \in At(x) PROVE i \in At(y)
  <2>1. i \in 1..Len(x) /\ i \in 1..Len(y) /\ x[i] \notin {sep, Space} /\ x[i] = y[i]
    BY <1>1
  <2>2. ASSUME NEW j \in 1..(i-1), y[j] \notin {sep, Space} PROVE \E k \in (j+1)..(i-1) : y[k] = sep
    <3>1. j \in 1..Len(x) /\ x[j] \notin {sep, Space}
      BY <1>1, <2>1, <2>2
    <3>2. PICK k \in (j+1)..(i-1) : x[k] = sep
      BY <3>1
    <3>3. k \in 1..Len(x)
      BY <1>1, <2>1, <3>1
    <3> QED BY <1>1, <3>2, <3>3
  <2> QED BY <1>1, <2>1, <2>2
<1>3. At(x) \subseteq 1..Len(x) /\ At(y) \subseteq 1..Len(y)
  BY <1>1
<1>4. SolidSegments(x, sep) = Cardinality(At(x)) /\ SolidSegments(y, sep) = Cardinality(At(y))
  BY Zenon DEF SolidSegments
<1> HIDE DEF At
<1>5. IsFiniteSet(At(x)) /\ IsFiniteSet(At(y)) /\ At(x) \subseteq At(y)
  <2>1. IsFiniteSet(1..Len(x)) /\ IsFiniteSet(1..Len(y))
    <3>1. 1 \in Int /\ Len(x) \in Int /\ Len(y) \in Int
      BY <1>1
    <3> QED BY <3>1, FS_Interval
  <2>2. IsFiniteSet(At(x))
    BY <1>3, <2>1, FS_Subset
  <2>3. IsFiniteSet(At(y))
    BY <1>3, <2>1, FS_Subset
  <2> QED BY <1>2, <2>2, <2>3
<1> QED BY <1>4, <1>5, FS_Subset, FS_CardinalityType

LEMMA CleanBegins ==
  ASSUME NEW t \in Seq(STRING), NEW u \in Seq(STRING)
  PROVE  Begins(Clean(t), Clean(t \o u))
<1> DEFINE v == t \o u
<1>1. /\ v \in Seq(STRING) /\ Len(t) \in Nat /\ Len(u) \in Nat /\ Len(v) = Len(t) + Len(u)
      /\ \A i \in 1..Len(t) : v[i] = t[i]
  BY Joined
<1>2. CASE Len(t) = 0
  <2>1. Clean(t) \in Seq(STRING) /\ Clean(v) \in Seq(STRING) /\ Len(Clean(v)) \in Nat /\ Len(Clean(t)) \in Nat
        /\ Opens(t) \in 0..1 /\ Closes(t) \in 0..1 /\ Len(Clean(t)) = Len(t) - Opens(t) - Closes(t)
    BY <1>1, CleanIs
  <2>2. Len(Clean(t)) = 0
    BY <1>2, <2>1
  <2> HIDE DEF v
  <2>3. Begins(Clean(t), Clean(v))
    BY <2>1, <2>2 DEF Begins
  <2> QED BY <2>3 DEF v
<1>3. CASE Len(u) = 0
  <2>1. v = t
    <3> HIDE DEF v
    <3> QED BY <1>1, <1>3, SameSeq
  <2>2. Begins(Clean(t), Clean(t))
    BY CleanIs DEF Begins
  <2> QED BY <2>1, <2>2
<1>4. CASE Len(t) # 0 /\ Len(u) # 0
  <2>1. Opens(v) = Opens(t)
    <3>1. v[1] = t[1] /\ t # <<>>
      BY <1>1, <1>4
    <3>2. v # <<>>
      <4> HIDE DEF v
      <4> QED BY <1>1, <1>4
    <3> QED BY <3>1, <3>2 DEF Opens
  <2> HIDE DEF v
  <2>2. PICK o \in 0..1, e \in 0..1, f \in 0..1 : o = Opens(t) /\ e = Closes(t) /\ f = Closes(v)
    BY <1>1, CleanIs
  <2>3. /\ Clean(t) \in Seq(STRING) /\ Len(Clean(t)) = Len(t) - o - e /\ Len(Clean(t)) \in Nat
        /\ \A i \in 1..Len(Clean(t)) : Clean(t)[i] = t[i + o]
    BY <2>2, CleanIs
  <2>4. /\ Clean(v) \in Seq(STRING) /\ Len(Clean(v)) = Len(v) - o - f /\ Len(Clean(v)) \in Nat
        /\ \A i \in 1..Len(Clean(v)) : Clean(v)[i] = v[i + o]
    BY <1>1, <2>1, <2>2, CleanIs
  <2>5. Len(Clean(t)) <= Len(Clean(v))
    BY <1>1, <1>4, <2>3, <2>4
  <2>6. ASSUME NEW i \in 1..Len(Clean(t)) PROVE Clean(t)[i] = Clean(v)[i]
    <3>0. PICK n \in Nat, m \in Nat, r \in Nat : n = Len(Clean(t)) /\ m = Len(t) /\ r = Len(Clean(v))
      BY <1>1, <2>3, <2>4
    <3>1. n = m - o - e /\ n <= r /\ i \in 1..n
      BY <2>3, <2>5, <3>0
    <3>2. i + o \in 1..m /\ i \in 1..r
      BY <3>1
    <3>3. i + o \in 1..Len(t) /\ i \in 1..Len(Clean(v))
      BY <3>0, <3>2
    <3> QED BY <1>1, <2>3, <2>4, <3>3
  <2>7. Begins(Clean(t), Clean(v))
    BY <2>3, <2>4, <2>5, <2>6 DEF Begins
  <2> QED BY <2>7 DEF v
<1> QED BY <1>1, <1>2, <1>3, <1>4

\* The counts of the code are those of the property, grow with the text, and start at 0.
LEMMA CountIs ==
  ASSUME NEW t \in Seq(STRING)
  PROVE  /\ countWords(t) = Segments(Clean(t), Space)
         /\ countSentences(t) = SolidSegments(Clean(t), Stop)
<1>1. Clean(t) \in Seq(STRING)
  BY CleanIs
<1>2. PICK d \in Nat : Within(TrimSpace(Clean(t)), Clean(t), d, {Space})
  BY <1>1, TrimWithin
<1>3. Segments(TrimSpace(Clean(t)), Space) = Segments(Clean(t), Space)
  BY <1>1, <1>2, SegmentsWithin
<1>4. SolidSegments(TrimSpace(Clean(t)), Stop) = SolidSegments(Clean(t), Stop)
  BY <1>1, <1>2, SolidWithin
<1> QED BY <1>3, <1>4 DEF countWords, countSentences

LEMMA CountGrows ==
  ASSUME NEW t \in Seq(STRING), NEW u \in Seq(STRING)
  PROVE  CountOf(t) \in Nat /\ CountOf(t \o u) \in Nat /\ CountOf(t) <= CountOf(t \o u)
<1>1. /\ Segments(Clean(t), Space) \in Nat /\ Segments(Clean(t \o u), Space) \in Nat
      /\ Segments(Clean(t), Space) <= Segments(Clean(t \o u), Space)
  BY CleanBegins, SegmentsGrow
<1>2. /\ SolidSegments(Clean(t), Stop) \in Nat /\ SolidSegments(Clean(t \o u), Stop) \in Nat
      /\ SolidSegments(Clean(t), Stop) <= SolidSegments(Clean(t \o u), Stop)
  BY CleanBegins, SolidGrow
<1>3. Len(t) \in Nat /\ Len(t \o u) \in Nat /\ Len(t) <= Len(t \o u)
  OBVIOUS
<1>4. CASE kind = "word"
  BY <1>1, <1>4 DEF CountOf
<1>5. CASE kind = "sentence"
  BY <1>2, <1>5 DEF CountOf
<1>6. CASE kind \notin {"word", "sentence"}
  BY <1>3, <1>6 DEF CountOf
<1> QED BY <1>4, <1>5, <1>6

LEMMA CountOfNone == CountOf(<<>>) = 0
<1>1. <<>> \in Seq(STRING) /\ Len(<<>>) = 0
  OBVIOUS
<1>2. Clean(<<>>) \in Seq(STRING) /\ Len(Clean(<<>>)) = 0
  <2>1. Opens(<<>>) = 0 /\ Closes(<<>>) = 0
    BY DEF Opens, Closes
  <2>2. Clean(<<>>) \in Seq(STRING) /\ Len(Clean(<<>>)) = Len(<<>>) - Opens(<<>>) - Closes(<<>>)
    BY <1>1, CleanIs
  <2> QED BY <1>1, <2>1, <2>2
<1>3. \A x \in Seq(STRING) : Len(x) = 0 => DOMAIN x = {}
  OBVIOUS
<1>4. DOMAIN Clean(<<>>) = {}
  BY <1>2, <1>3
<1>5. Segments(Clean(<<>>), Space) = 0 /\ SolidSegments(Clean(<<>>), Stop) = 0
  <2>1. Segments(Clean(<<>>), Space) = Cardinality({})
    BY <1>4 DEF Segments
  <2>2. SolidSegments(Clean(<<>>), Stop) = Cardinality({})
    BY <1>4 DEF SolidSegments
  <2> QED BY <2>1, <2>2, FS_EmptySet
<1> QED BY <1>1, <1>5 DEF CountOf

-----------------------------------------------------------------------------
(***************************************************************************)
(* Requests fail closed                                                    *)
(***************************************************************************)

LEMMA WordRequest ==
  ASSUME NEW pl, NEW body, Active(pl.hasRequest, pl.request), WordOnRequestBody(pl, body).act # "block"
  PROVE  /\ Extractable(body.v)
         /\ body.v.j = "string" =>
              Admitted(Segments(TrimSpace(Clean(body.v.s)), Space), pl.request)
<1> DEFINE found == WordExtract(body.v)
<1>1. found.ok /\ Admitted(Segments(TrimSpace(Clean(found.text)), Space), pl.request)
  BY Zenon DEF WordOnRequestBody, WordValidatePayload, WordError, Block
<1>2. body.v.j \in {"string", "number"} => found = Found(body.v.s)
  BY DEF WordExtract, ExtractString, Found
<1>3. Extractable(body.v)
  BY <1>1 DEF WordExtract, ExtractString, NotFound, Found, Extractable
<1> HIDE DEF found
<1> QED BY <1>1, <1>2, <1>3 DEF Found

LEMMA SentenceRequest ==
  ASSUME NEW pl, NEW body, Active(pl.hasRequest, pl.request), SentenceOnRequestBody(pl, body).act # "block"
  PROVE  /\ Extractable(body.v)
         /\ body.v.j = "string" =>
              Admitted(Segments(TrimSpace(Clean(body.v.s)), Stop), pl.request)
<1> DEFINE found == SentenceExtract(body.v)
<1>1. found.ok /\ Admitted(Segments(TrimSpace(Clean(found.text)), Stop), pl.request)
  BY Zenon DEF SentenceOnRequestBody, SentenceValidatePayload, SentenceError, Block
<1>2. body.v.j \in {"string", "number"} => found = Found(body.v.s)
  BY DEF SentenceExtract, ExtractString, Found
<1>3. Extractable(body.v)
  BY <1>1 DEF SentenceExtract, ExtractString, NotFound, Found, Extractable
<1> HIDE DEF found
<1> QED BY <1>1, <1>2, <1>3 DEF Found

LEMMA LengthRequest ==
  ASSUME NEW pl, NEW body, Active(pl.hasRequest, pl.request), LengthOnRequestBody(pl, body).act # "block"
  PROVE  body.v.j \in {"string", "number"} /\ Admitted(Len(TrimSpace(Clean(body.v.s))), pl.request)
<1> DEFINE found == ExtractString(body.v)
<1>1. found.ok /\ Admitted(Len(TrimSpace(Clean(found.text))), pl.request)
  BY Zenon DEF LengthOnRequestBody, LengthValidatePayload, LengthError, Block
<1> QED BY <1>1 DEF ExtractString, Found, NotFound

LEMMA UrlRequest ==
  ASSUME NEW pl, NEW body, Active(pl.hasRequest, pl.request), UrlOnRequestBody(pl, body).act # "block"
  PROVE  /\ Extractable(body.v)
         /\ body.v.j = "string" => InvalidUrls(body.v.s, pl.request) = {}
<1> DEFINE found == UrlExtract(body.v)
<1>1. found.ok /\ InvalidUrls(found.text, pl.request) = {}
  BY Zenon DEF UrlOnRequestBody, UrlValidatePayload, validateURLsInText, UrlError, Block
<1>2. body.v.j \in {"string", "number"} => found = Found(body.v.s)
  BY DEF UrlExtract, ExtractString, Found
<1>3. Extractable(body.v)
  BY <1>1 DEF UrlExtract, ExtractString, NotFound, Found, Extractable
<1> HIDE DEF found
<1> QED BY <1>1, <1>2, <1>3 DEF Found

LEMMA RegexRequest ==
  ASSUME NEW pl, NEW body, Active(pl.hasRequest, pl.request), RegexOnRequestBody(pl, body).act # "block"
  PROVE  body.none \/ (body.v.j \in {"string", "number"} /\ Matches(body.v.s) # pl.request.Invert)
<1> DEFINE found == ExtractString(body.v)
<1>1. body.none \/ (found.ok /\ Matches(found.text) # pl.request.Invert)
  BY Zenon DEF RegexOnRequestBody, RegexValidatePayload, RegexError, Block
<1>2. found.ok => body.v.j \in {"string", "number"} /\ found.text = body.v.s
  BY DEF ExtractString, Found, NotFound
<1> HIDE DEF found
<1> QED BY <1>1, <1>2

LEMMA SchemaRequest ==
  ASSUME NEW pl, NEW body, Active(pl.hasRequest, pl.request), SchemaOnRequestBody(pl, body).act # "block"
  PROVE  Extractable(body.v) /\ pl.request.Schema = "ok" /\ ((body.v.j = "string") # pl.request.Invert)
  BY Zenon DEF SchemaOnRequestBody, SchemaValidatePayload, SchemaExtractable, SchemaAccepts, SchemaError, Block

LEMMA BedrockRequest ==
  ASSUME NEW pl, NEW mt, NEW body, NEW ans, Active(pl.hasRequest, pl.request),
         ans.action \in {"none", "intervened", "odd"},
         BedrockOnRequestBody(pl, mt, body, ans).r.act # "block"
  PROVE  \/ body.none
         \/ /\ pl.request.Passthrough
            /\ \/ body.v.j \notin {"string", "number"}
               \/ ans.fails \/ ans.action = "odd" \/ pl.credentials \in ans.refused
         \/ /\ body.v.j \in {"string", "number"}
            /\ ~ans.fails /\ pl.credentials \notin ans.refused
            /\ ans.action = "none" \/ (ans.action = "intervened" /\ ans.pii # <<>>)
<1> DEFINE p == pl.request
           found == ExtractString(body.v)
           content == TrimSpace(Clean(found.text))
           eval == BedrockEvaluate(content, ans, p.RedactPII, FALSE)
           called == applyBedrockGuardrail(pl.credentials, ans)
           r == BedrockOnRequestBody(pl, mt, body, ans).r
<1>1. r = CASE body.none -> Pass
            [] ~body.none /\ (~found.ok \/ ~called \/ eval.is = "error") ->
                 OnServiceError(p, BedrockError(p, FALSE))
            [] ~body.none /\ found.ok /\ called /\ eval.is = "violation" -> BedrockError(p, FALSE)
            [] OTHER -> IF eval.text \in {<<>>, content} THEN Pass
                        ELSE Mutate(BedrockUpdatePayload(body, eval.text))
  BY DEF BedrockOnRequestBody, BedrockValidatePayload
<1>2. BedrockError(p, FALSE).act = "block" /\ Pass.act = "pass"
  BY DEF BedrockError, Block, Pass
<1>3. eval.is = CASE ans.action = "none" -> "pass"
                  [] ans.action = "odd" -> "error"
                  [] ans.action = "intervened" /\ ans.pii = <<>> -> "violation"
                  [] OTHER -> "pass"
  BY DEF BedrockEvaluate
<1>4. found.ok <=> body.v.j \in {"string", "number"}
  BY DEF ExtractString, Found, NotFound
<1>5. called <=> pl.credentials \notin ans.refused /\ ~ans.fails
  BY DEF applyBedrockGuardrail
<1>6. r.act # "block"
  OBVIOUS
<1> HIDE DEF found, content, eval, called, r
<1>7. CASE ~body.none /\ (~found.ok \/ ~called \/ eval.is = "error")
  <2>1. r = OnServiceError(p, BedrockError(p, FALSE))
    BY <1>1, <1>7, Zenon
  <2>2. p.Passthrough
    BY <1>2, <1>6, <2>1, Zenon DEF OnServiceError
  <2> QED BY <1>3, <1>4, <1>5, <1>7, <2>2
<1>8. CASE ~body.none /\ found.ok /\ called /\ eval.is = "violation"
  <2>1. r = BedrockError(p, FALSE)
    BY <1>1, <1>8
  <2> QED BY <1>2, <1>6, <2>1
<1>9. CASE ~body.none /\ found.ok /\ called /\ eval.is \notin {"error", "violation"}
  BY <1>3, <1>4, <1>5, <1>9
<1> QED BY <1>7, <1>8, <1>9

LEMMA AzureDecides ==
  ASSUME NEW replies \in Seq(AzureReplies), callAzureContentSafetyAPI(replies)
  PROVE  \E n \in DOMAIN replies :
            replies[n] = "ok" /\ \A m \in 1..(n-1) : replies[m] \in {"network", "5xx"}
<1> DEFINE decisive == {n \in DOMAIN replies : replies[n] \notin {"network", "5xx"}}
<1>1. decisive # {} /\ replies[Min(decisive)] = "ok"
  BY DEF callAzureContentSafetyAPI
<1>2. decisive \subseteq 1..Len(replies) /\ Len(replies) \in Nat /\ DOMAIN replies = 1..Len(replies)
  OBVIOUS
<1>3. decisive \subseteq Nat
  BY <1>2
<1>4. Min(decisive) \in decisive /\ \A y \in decisive : Min(decisive) <= y
  <2> HIDE DEF decisive
  <2> QED BY <1>1, <1>3, LeastOf
<1>5. PICK n \in 1..Len(replies) : n = Min(decisive)
  BY <1>2, <1>4
<1>6. ASSUME NEW m \in 1..(n-1) PROVE replies[m] \in {"network", "5xx"}
  <2>1. m \in DOMAIN replies /\ ~(n <= m)
    BY <1>2
  <2>2. m \notin decisive
    BY <1>4, <1>5, <2>1
  <2> QED BY <2>1, <2>2
<1> QED BY <1>1, <1>2, <1>5, <1>6

LEMMA AzureRequest ==
  ASSUME NEW rw, NEW pl, NEW body, NEW ans, pl = AzureGetPolicy(rw),
         ans.replies \in Seq(AzureReplies), ans.severity \in [AzureCategories -> Int],
         pl.ok, pl.hasRequest,
         AzureOnRequestBody(pl, body, ans).act # "block"
  PROVE  \/ body.none
         \/ \A c \in AzureCategories : pl.request.Thresholds[c] = -1
         \/ /\ pl.request.Passthrough
            /\ \/ body.v.j \notin {"string", "number"}
               \/ ~callAzureContentSafetyAPI(ans.replies)
         \/ /\ body.v.j \in {"string", "number"}
            /\ \E n \in DOMAIN ans.replies :
                  /\ ans.replies[n] = "ok"
                  /\ \A m \in 1..(n-1) : ans.replies[m] \in {"network", "5xx"}
            /\ \A c \in AzureCategories :
                 pl.request.Thresholds[c] >= 0 => ans.severity[c] < pl.request.Thresholds[c]
<1> DEFINE p == pl.request
           found == ExtractString(body.v)
           violates == \E c \in AzureValidCategories(p) : ans.severity[c] >= p.Thresholds[c]
           r == AzureOnRequestBody(pl, body, ans)
<1>1. p = AzureParseParams(rw.request) /\ p.ok
  BY DEF AzureGetPolicy, BuildPolicy, Flow
<1>2. p.Thresholds \in [AzureCategories -> -1..7]
  <2>1. p.Thresholds = [c \in AzureCategories |-> Number(rw.request.thresholds[c], AzureDefault[c])]
    BY <1>1 DEF AzureParseParams
  <2>2. \A c \in AzureCategories : rw.request.thresholds[c].is = "num" => rw.request.thresholds[c].v \in -1..7
    BY <1>1 DEF AzureParseParams
  <2>3. \A c \in AzureCategories : AzureDefault[c] \in -1..7
    BY DEF AzureDefault
  <2>4. \A c \in AzureCategories : Number(rw.request.thresholds[c], AzureDefault[c]) \in -1..7
    BY <2>2, <2>3 DEF Number
  <2> HIDE DEF p
  <2> QED BY <2>1, <2>4
<1>3. r = CASE AzureValidCategories(p) = {} \/ body.none -> Pass
            [] ~(AzureValidCategories(p) = {} \/ body.none)
                 /\ (~found.ok \/ ~callAzureContentSafetyAPI(ans.replies)) ->
                   OnServiceError(p, AzureError(p, FALSE))
            [] OTHER -> IF violates THEN AzureError(p, FALSE) ELSE Pass
  BY DEF AzureOnRequestBody, AzureValidatePayload, AzureCategoryMap
<1>4. AzureError(p, FALSE).act = "block"
  BY DEF AzureError, Block
<1>5. found.ok <=> body.v.j \in {"string", "number"}
  BY DEF ExtractString, Found, NotFound
<1>6. AzureValidCategories(p) = {c \in AzureCategories : p.Thresholds[c] \in 0..7}
  BY DEF AzureValidCategories, AzureCategoryMap
<1>7. r.act # "block"
  OBVIOUS
<1> HIDE DEF p, found, r
<1>8. CASE AzureValidCategories(p) = {}
  <2>1. \A c \in AzureCategories : p.Thresholds[c] = -1
    <3> SUFFICES ASSUME NEW c \in AzureCategories PROVE p.Thresholds[c] = -1
      OBVIOUS
    <3>1. p.Thresholds[c] \in -1..7 /\ ~(p.Thresholds[c] \in 0..7)
      BY <1>2, <1>6, <1>8
    <3> QED BY <3>1
  <2> QED BY <2>1 DEF p
<1>9. CASE /\ AzureValidCategories(p) # {} /\ ~body.none
           /\ ~found.ok \/ ~callAzureContentSafetyAPI(ans.replies)
  <2>1. r = OnServiceError(p, AzureError(p, FALSE))
    BY <1>3, <1>9, Zenon
  <2>2. p.Passthrough
    BY <1>4, <1>7, <2>1, Zenon DEF OnServiceError
  <2> QED BY <1>5, <1>9, <2>2 DEF p
<1>10. CASE /\ AzureValidCategories(p) # {} /\ ~body.none
            /\ found.ok /\ callAzureContentSafetyAPI(ans.replies)
  <2>1. r = IF violates THEN AzureError(p, FALSE) ELSE Pass
    BY <1>3, <1>10, Zenon
  <2>2. ~violates
    BY <1>4, <1>7, <2>1, Zenon
  <2>3. ASSUME NEW c \in AzureCategories, p.Thresholds[c] >= 0 PROVE ans.severity[c] < p.Thresholds[c]
    <3>1. p.Thresholds[c] \in 0..7 /\ ans.severity[c] \in Int
      BY <1>2, <2>3
    <3>2. ~(ans.severity[c] >= p.Thresholds[c])
      BY <1>6, <2>2, <3>1
    <3> QED BY <3>1, <3>2
  <2>4. \E n \in DOMAIN ans.replies :
           ans.replies[n] = "ok" /\ \A m \in 1..(n-1) : ans.replies[m] \in {"network", "5xx"}
    BY <1>10, AzureDecides
  <2> QED BY <1>5, <1>10, <2>3, <2>4 DEF p
<1> QED BY <1>8, <1>9, <1>10 DEF p

LEMMA SimilarityBounds ==
  ASSUME NEW e \in Quarters \cup {Unusable}, NEW phrases \in SUBSET (Quarters \cup {Unusable}),
         phrases # {}, maxSimilarity(e, phrases).ok
  PROVE  /\ \A d \in phrases : /\ Unusable \notin {d, e}
                               /\ 4 - Distance(d, e) <= maxSimilarity(e, phrases).sim
         /\ \E a \in phrases : maxSimilarity(e, phrases).sim = 4 - Distance(a, e)
         /\ maxSimilarity(e, phrases).sim \in Int
<1> DEFINE sims == {cosineSimilarity(e, p).sim : p \in phrases}
<1>1. maxSimilarity(e, phrases).sim = Max(sims) /\ \A p \in phrases : cosineSimilarity(e, p).ok
  BY DEF maxSimilarity
<1>2. \A p \in phrases : cosineSimilarity(e, p).sim = 4 - Distance(e, p)
  BY DEF cosineSimilarity
<1>3. \A p \in phrases : e # Unusable /\ p # Unusable
  BY <1>1 DEF cosineSimilarity
<1>4. \A p \in phrases : 4 - Distance(e, p) \in Int /\ 4 - Distance(e, p) <= 4 /\ Distance(e, p) = Distance(p, e)
  BY <1>3 DEF Distance, Quarters
<1>5. sims \subseteq Int /\ sims # {} /\ \A x \in sims : x <= 4
  BY <1>2, <1>4
<1>6. Max(sims) \in sims /\ \A y \in sims : Max(sims) >= y
  <2> HIDE DEF sims
  <2>1. 4 \in Int
    OBVIOUS
  <2> QED BY <1>5, <2>1, GreatestOf
<1>7. ASSUME NEW d \in phrases PROVE 4 - Distance(d, e) <= Max(sims)
  <2>1. 4 - Distance(d, e) \in sims
    BY <1>2, <1>4
  <2> QED BY <1>5, <1>6, <2>1
<1>8. \E a \in phrases : Max(sims) = 4 - Distance(a, e)
  BY <1>2, <1>4, <1>6
<1> HIDE DEF sims
<1> QED BY <1>1, <1>3, <1>5, <1>6, <1>7, <1>8

LEMMA SemanticRequest ==
  ASSUME NEW rw, NEW body, NEW ans,
         rw.allowed.v \cup rw.denied.v \subseteq Quarters \cup {Unusable},
         ans.embedding \in Quarters \cup {Unusable},
         SemanticGetPolicy(rw).ok,
         SemanticOnRequestBody(SemanticGetPolicy(rw), body, ans).act # "block"
  PROVE  LET p == SemanticGetPolicy(rw)
         IN  /\ body.v.j \in {"string", "number"} /\ body.v.s # <<>>
             /\ ~ans.fails
             /\ \A d \in p.Denied : /\ Unusable \notin {d, ans.embedding}
                                    /\ 4 - Distance(d, ans.embedding) < p.DenyThreshold
             /\ p.Allowed # {} =>
                  \E a \in p.Allowed : 4 - Distance(a, ans.embedding) >= p.AllowThreshold
<1> DEFINE p == SemanticGetPolicy(rw)
           e == ans.embedding
           found == ExtractString(body.v)
           denied == maxSimilarity(e, p.Denied)
           allowed == maxSimilarity(e, p.Allowed)
<1>1. /\ p.Allowed = rw.allowed.v /\ p.Denied = rw.denied.v
      /\ p.AllowThreshold \in Quarters /\ p.DenyThreshold \in Quarters
  BY DEF SemanticGetPolicy, SemanticParseParams
<1>2. /\ found.ok /\ found.text # <<>> /\ ~ans.fails
      /\ p.Denied # {} => denied.ok /\ denied.sim < p.DenyThreshold
      /\ p.Allowed # {} => allowed.ok /\ allowed.sim >= p.AllowThreshold
  BY Zenon DEF SemanticOnRequestBody, SemanticValidatePayload, SemanticError, Block
<1>3. found.ok => body.v.j \in {"string", "number"} /\ found.text = body.v.s
  BY DEF ExtractString, Found, NotFound
<1> HIDE DEF p, found
<1>4. p.Denied \subseteq Quarters \cup {Unusable} /\ p.Allowed \subseteq Quarters \cup {Unusable}
  BY <1>1
<1>5. \A d \in p.Denied : Unusable \notin {d, e} /\ 4 - Distance(d, e) < p.DenyThreshold
  <2> SUFFICES ASSUME NEW d \in p.Denied
               PROVE  Unusable \notin {d, e} /\ 4 - Distance(d, e) < p.DenyThreshold
    OBVIOUS
  <2>1. /\ Unusable \notin {d, e} /\ 4 - Distance(d, e) <= denied.sim
        /\ denied.sim \in Int /\ denied.sim < p.DenyThreshold
    BY <1>2, <1>4, SimilarityBounds
  <2>2. d \in 0..4 /\ e \in 0..4
    BY <1>4, <2>1 DEF Quarters
  <2>3. 4 - Distance(d, e) \in Int /\ p.DenyThreshold \in Int
    BY <1>1, <2>2 DEF Distance, Quarters
  <2> HIDE DEF denied
  <2> QED BY <2>1, <2>3
<1>6. p.Allowed # {} => \E a \in p.Allowed : 4 - Distance(a, e) >= p.AllowThreshold
  <2> SUFFICES ASSUME p.Allowed # {} PROVE \E a \in p.Allowed : 4 - Distance(a, e) >= p.AllowThreshold
    OBVIOUS
  <2>1. allowed.ok /\ allowed.sim >= p.AllowThreshold
    BY <1>2
  <2>2. \E a \in p.Allowed : allowed.sim = 4 - Distance(a, e)
    BY <1>4, <2>1, SimilarityBounds
  <2> HIDE DEF allowed
  <2> QED BY <2>1, <2>2
<1> HIDE DEF denied, allowed
<1> QED BY <1>2, <1>3, <1>5, <1>6 DEF p

LEMMA RequestStep ==
  ASSUME BuiltInv, NEW body, NEW ans \in AnswerOf[kind], Request(body, ans)
  PROVE  RequestFailsClosed'
<1>1. /\ kind' = kind /\ pol' = pol /\ asked' = body /\ answer' = ans
      /\ kind \in Kinds /\ raw \in RawOf[kind] /\ pol = GetPolicy(kind, raw) /\ pol.ok
  BY DEF Request, BuiltInv
<1>2. PICK out \in OnRequestBody(body, ans) :
         phase' = IF out.r.act = "block" THEN "blocked" ELSE "reply"
  BY DEF Request
<1>3. CASE out.r.act = "block"
  BY <1>2, <1>3 DEF RequestFailsClosed
<1>4. CASE out.r.act # "block" /\ kind = "pii"
  BY <1>1, <1>4 DEF RequestFailsClosed
<1>5. CASE out.r.act # "block" /\ kind = "semantic"
  <2>1. pol = SemanticGetPolicy(raw) /\ out.r = SemanticOnRequestBody(pol, body, ans)
    BY <1>1, <1>2, <1>5 DEF OnRequestBody, GetPolicy
  <2>2. /\ raw.allowed.v \cup raw.denied.v \subseteq Quarters \cup {Unusable}
        /\ ans.embedding \in Quarters \cup {Unusable}
    BY <1>1, <1>5, GuardAssumption DEF GuardAssumption
  <2>3. /\ body.v.j \in {"string", "number"} /\ body.v.s # <<>>
        /\ ~ans.fails
        /\ \A d \in pol.Denied : /\ Unusable \notin {d, ans.embedding}
                                 /\ 4 - Distance(d, ans.embedding) < pol.DenyThreshold
        /\ pol.Allowed # {} =>
             \E a \in pol.Allowed : 4 - Distance(a, ans.embedding) >= pol.AllowThreshold
    BY <1>1, <1>5, <2>1, <2>2, SemanticRequest, Zenon
  <2> QED BY <1>1, <1>5, <2>3, Zenon DEF RequestFailsClosed
<1>6. CASE /\ out.r.act # "block" /\ kind \notin {"pii", "semantic"}
           /\ ~(pol.hasRequest /\ (kind # "azure" => pol.request.Enabled))
  BY <1>1, <1>6 DEF RequestFailsClosed
<1>7. CASE /\ out.r.act # "block" /\ kind \notin {"pii", "semantic"}
           /\ pol.hasRequest /\ (kind # "azure" => pol.request.Enabled)
  <2>0. kind # "azure" => Active(pol.hasRequest, pol.request)
    BY <1>7 DEF Active
  <2>1. CASE kind = "word"
    <3>1. out.r = WordOnRequestBody(pol, body)
      BY <1>2, <2>1 DEF OnRequestBody
    <3>2. RequestRuleHolds(asked.v)'
      BY <1>1, <1>7, <2>0, <2>1, <3>1, WordRequest DEF RequestRuleHolds
    <3> QED BY <1>1, <1>7, <2>1, <3>2 DEF RequestFailsClosed
  <2>2. CASE kind = "sentence"
    <3>1. out.r = SentenceOnRequestBody(pol, body)
      BY <1>2, <2>2 DEF OnRequestBody
    <3>2. RequestRuleHolds(asked.v)'
      BY <1>1, <1>7, <2>0, <2>2, <3>1, SentenceRequest DEF RequestRuleHolds
    <3> QED BY <1>1, <1>7, <2>2, <3>2 DEF RequestFailsClosed
  <2>3. CASE kind = "length"
    <3>1. out.r = LengthOnRequestBody(pol, body)
      BY <1>2, <2>3 DEF OnRequestBody
    <3>2. RequestRuleHolds(asked.v)'
      BY <1>1, <1>7, <2>0, <2>3, <3>1, LengthRequest DEF RequestRuleHolds
    <3> QED BY <1>1, <1>7, <2>3, <3>2 DEF RequestFailsClosed
  <2>4. CASE kind = "url"
    <3>1. out.r = UrlOnRequestBody(pol, body)
      BY <1>2, <2>4 DEF OnRequestBody
    <3>2. RequestRuleHolds(asked.v)'
      BY <1>1, <1>7, <2>0, <2>4, <3>1, UrlRequest DEF RequestRuleHolds
    <3> QED BY <1>1, <1>7, <2>4, <3>2 DEF RequestFailsClosed
  <2>5. CASE kind = "regex"
    <3>1. out.r = RegexOnRequestBody(pol, body)
      BY <1>2, <2>5 DEF OnRequestBody
    <3>2. RequestRuleHolds(asked.v)' \/ MayPassUnjudged'
      BY <1>1, <1>7, <2>0, <2>5, <3>1, RegexRequest DEF RequestRuleHolds, MayPassUnjudged
    <3> QED BY <1>1, <1>7, <2>5, <3>2 DEF RequestFailsClosed
  <2>6. CASE kind = "schema"
    <3>1. out.r = SchemaOnRequestBody(pol, body)
      BY <1>2, <2>6 DEF OnRequestBody
    <3>2. Extractable(body.v) /\ pol.request.Schema = "ok" /\ ((body.v.j = "string") # pol.request.Invert)
      BY <1>7, <2>0, <2>6, <3>1, SchemaRequest
    <3>3. RequestRuleHolds(asked.v)'
      BY <1>1, <2>6, <3>2, Zenon DEF RequestRuleHolds
    <3> QED BY <1>1, <1>7, <2>6, <3>3 DEF RequestFailsClosed
  <2>7. CASE kind = "bedrock"
    <3>1. out.r = BedrockOnRequestBody(pol, meta, body, ans).r
      BY <1>2, <2>7 DEF OnRequestBody
    <3>2. ans.action \in {"none", "intervened", "odd"}
      BY <1>1, <2>7, GuardAssumption DEF GuardAssumption
    <3>3. \/ body.none
          \/ /\ pol.request.Passthrough
             /\ \/ body.v.j \notin {"string", "number"}
                \/ ans.fails \/ ans.action = "odd" \/ pol.credentials \in ans.refused
          \/ /\ body.v.j \in {"string", "number"}
             /\ ~ans.fails /\ pol.credentials \notin ans.refused
             /\ ans.action = "none" \/ (ans.action = "intervened" /\ ans.pii # <<>>)
      BY <1>7, <2>0, <2>7, <3>1, <3>2, BedrockRequest, ZenonT(40)
    <3>4. RequestRuleHolds(asked.v)' \/ MayPassUnjudged'
      BY <1>1, <2>7, <3>3 DEF RequestRuleHolds, MayPassUnjudged
    <3> QED BY <1>1, <1>7, <2>7, <3>4 DEF RequestFailsClosed
  <2>8. CASE kind = "azure"
    <3>1. pol = AzureGetPolicy(raw) /\ out.r = AzureOnRequestBody(pol, body, ans)
      BY <1>1, <1>2, <2>8 DEF OnRequestBody, GetPolicy
    <3>2. ans.replies \in Seq(AzureReplies) /\ ans.severity \in [AzureCategories -> Int]
      BY <1>1, <2>8, GuardAssumption DEF GuardAssumption
    <3>3. \/ body.none
          \/ \A c \in AzureCategories : pol.request.Thresholds[c] = -1
          \/ /\ pol.request.Passthrough
             /\ \/ body.v.j \notin {"string", "number"}
                \/ ~callAzureContentSafetyAPI(ans.replies)
          \/ /\ body.v.j \in {"string", "number"}
             /\ \E n \in DOMAIN ans.replies :
                   /\ ans.replies[n] = "ok"
                   /\ \A m \in 1..(n-1) : ans.replies[m] \in {"network", "5xx"}
             /\ \A c \in AzureCategories :
                  pol.request.Thresholds[c] >= 0 => ans.severity[c] < pol.request.Thresholds[c]
      <4>1. pol.ok /\ pol.hasRequest /\ AzureOnRequestBody(pol, body, ans).act # "block"
        BY <1>1, <1>7, <3>1
      <4> QED BY <3>1, <3>2, <4>1, AzureRequest
    <3>4. RequestRuleHolds(asked.v)' \/ MayPassUnjudged'
      BY <1>1, <2>8, <3>3 DEF RequestRuleHolds, MayPassUnjudged
    <3> QED BY <1>1, <1>7, <2>8, <3>4 DEF RequestFailsClosed
  <2>9. kind \in {"word", "sentence", "length", "url", "regex", "schema", "bedrock", "azure"}
    BY <1>1, <1>7, GuardAssumption DEF GuardAssumption, Streaming, Buffered, Services
  <2> QED BY <2>1, <2>2, <2>3, <2>4, <2>5, <2>6, <2>7, <2>8, <2>9
<1> QED BY <1>3, <1>4, <1>5, <1>6, <1>7

LEMMA GuardInit == Init => GuardInv
  BY DEF Init, GuardInv, BuiltInv, RequestFailsClosed

LEMMA GuardStep == GuardInv /\ [Next]_vars => GuardInv'
<1> SUFFICES ASSUME GuardInv, [Next]_vars PROVE GuardInv'
  OBVIOUS
<1>1. CASE Build
  BY <1>1, Zenon DEF Build, GuardInv, BuiltInv, RequestFailsClosed
<1>2. ASSUME NEW body \in BodyOf(kind, raw), NEW ans \in AnswerOf[kind], Request(body, ans)
      PROVE  GuardInv'
  <2>1. RequestFailsClosed'
    BY <1>2, RequestStep DEF GuardInv
  <2>2. BuiltInv'
    BY <1>2 DEF Request, GuardInv, BuiltInv
  <2> QED BY <2>1, <2>2 DEF GuardInv
<1>3. ASSUME requestVars' = requestVars, phase \in {"reply", "stream"}, phase' \in {"stream", "closed"}
      PROVE  GuardInv'
  BY <1>3 DEF GuardInv, BuiltInv, RequestFailsClosed, RequestRuleHolds, MayPassUnjudged, requestVars
<1>4. ASSUME NEW body, NEW ans, BufferedReply(body, ans) PROVE GuardInv'
  BY <1>3, <1>4 DEF BufferedReply
<1>5. ASSUME NEW lines, Arriving(lines), phase' \in {"stream", "closed"} PROVE GuardInv'
  BY <1>3, <1>5 DEF Arriving
<1>6. ASSUME NEW lines, Chunk(lines) PROVE GuardInv'
  BY <1>5, <1>6 DEF Chunk, Hold, Flush
<1>7. ASSUME NEW lines, EndOfStream(lines) PROVE GuardInv'
  BY <1>5, <1>7 DEF EndOfStream, Flush
<1>8. CASE UNCHANGED vars
  BY <1>8 DEF vars, GuardInv, BuiltInv, RequestFailsClosed, RequestRuleHolds, MayPassUnjudged
<1> QED BY <1>1, <1>2, <1>4, <1>6, <1>7, <1>8, Zenon DEF Next

\* A body goes upstream only past OnRequestBody of the policy the factory built: the rule was
\* evaluated on a text found at the path and holds of it, or the configuration lets what cannot
\* be judged pass; a missing value, refused credentials, a service that fails or answers
\* strangely, and an embedding that cannot be compared let nothing through on their own.
THEOREM RequestsFailClosed == Spec => []RequestFailsClosed
<1>1. Spec => []GuardInv
  BY GuardInit, GuardStep, PTL DEF Spec
<1>2. GuardInv => RequestFailsClosed
  BY DEF GuardInv
<1> QED BY <1>1, <1>2, PTL

-----------------------------------------------------------------------------
(***************************************************************************)
(* Texts: the URLs of a part                                               *)
(***************************************************************************)

\* The matches of the regular expression, in order.
FirstStarts(t) ==
  {s \in UrlStarts(t) : \A e \in UrlStarts(t) : e < s => UrlRunEnd(t, e) < s}
UrlAt(t, i) == SubSeq(t, i + 3, UrlRunEnd(t, i))

LEMMA StartsAt ==
  ASSUME NEW t \in Seq(STRING), NEW i \in UrlStarts(t)
  PROVE  /\ Len(t) \in Nat
         /\ i \in 1..Len(t) /\ i + 1 \in 1..Len(t) /\ i + 2 \in 1..Len(t) /\ i + 3 \in 1..Len(t)
         /\ t[i] = "ht" /\ t[i+1] = "tp" /\ t[i+2] = "://"
         /\ t[i] \notin UrlEnds /\ t[i+1] \notin UrlEnds /\ t[i+2] \notin UrlEnds /\ t[i+3] \notin UrlEnds
<1>1. /\ Len(t) \in Nat /\ i \in 1..(Len(t) - 3)
      /\ t[i] = "ht" /\ t[i+1] = "tp" /\ t[i+2] = "://" /\ t[i+3] \notin UrlEnds
  BY DEF UrlStarts, ProtocolAt
<1>2. i \in 1..Len(t) /\ i + 1 \in 1..Len(t) /\ i + 2 \in 1..Len(t) /\ i + 3 \in 1..Len(t)
  BY <1>1
<1>3. "ht" \notin UrlEnds /\ "tp" \notin UrlEnds /\ "://" \notin UrlEnds
  BY DEF UrlEnds, Space, Quote
<1> QED BY <1>1, <1>2, <1>3

LEMMA StartsIf ==
  ASSUME NEW t \in Seq(STRING), NEW i \in 1..Len(t), i + 3 <= Len(t),
         t[i] = "ht", t[i+1] = "tp", t[i+2] = "://", t[i+3] \notin UrlEnds
  PROVE  i \in UrlStarts(t)
<1>1. Len(t) \in Nat
  OBVIOUS
<1> QED BY <1>1 DEF UrlStarts, ProtocolAt

\* A run ends where the text or the run does.
LEMMA RunEndIs ==
  ASSUME NEW t \in Seq(STRING), NEW i \in 1..Len(t), t[i] \notin UrlEnds
  PROVE  /\ UrlRunEnd(t, i) \in i..Len(t)
         /\ \A j \in i..UrlRunEnd(t, i) : t[j] \notin UrlEnds
         /\ \A k \in i..Len(t) : (\A j \in i..k : t[j] \notin UrlEnds) => k <= UrlRunEnd(t, i)
<1> DEFINE runs == {k \in i..Len(t) : \A j \in i..k : t[j] \notin UrlEnds}
<1>1. Len(t) \in Nat /\ Len(t) \in Int /\ i \in runs /\ runs \subseteq Int /\ \A x \in runs : x <= Len(t)
  OBVIOUS
<1>2. Max(runs) \in runs /\ \A y \in runs : Max(runs) >= y
  <2> HIDE DEF runs
  <2> QED BY <1>1, GreatestOf
<1>3. UrlRunEnd(t, i) = Max(runs)
  BY DEF UrlRunEnd
<1>4. Max(runs) \in i..Len(t) /\ \A j \in i..Max(runs) : t[j] \notin UrlEnds
  BY <1>2
<1>5. ASSUME NEW k \in i..Len(t), \A j \in i..k : t[j] \notin UrlEnds PROVE k <= Max(runs)
  <2>1. k \in runs
    BY <1>5
  <2> QED BY <1>2, <1>4, <2>1
<1> HIDE DEF runs
<1> QED BY <1>3, <1>4, <1>5

LEMMA RunEndAt ==
  ASSUME NEW t \in Seq(STRING), NEW i \in 1..Len(t), NEW k \in i..Len(t),
         \A j \in i..k : t[j] \notin UrlEnds, k < Len(t) => t[k+1] \in UrlEnds
  PROVE  UrlRunEnd(t, i) = k
<1>1. Len(t) \in Nat /\ t[i] \notin UrlEnds
  OBVIOUS
<1>2. PICK n \in i..Len(t) : n = UrlRunEnd(t, i)
  BY <1>1, RunEndIs
<1>3. k <= n /\ \A j \in i..n : t[j] \notin UrlEnds
  BY <1>1, <1>2, RunEndIs
<1>4. ~(k < n)
  <2> SUFFICES ASSUME k < n PROVE FALSE
    OBVIOUS
  <2>1. k + 1 \in i..n /\ k < Len(t)
    BY <1>1, <1>2
  <2> QED BY <1>3, <2>1
<1> QED BY <1>2, <1>3, <1>4

\* A run that stops short of the end of the text stops at white space or a quote.
LEMMA RunEndStops ==
  ASSUME NEW t \in Seq(STRING), NEW i \in 1..Len(t), t[i] \notin UrlEnds, UrlRunEnd(t, i) < Len(t)
  PROVE  t[UrlRunEnd(t, i) + 1] \in UrlEnds
<1>1. Len(t) \in Nat
  OBVIOUS
<1>2. PICK n \in i..Len(t) : n = UrlRunEnd(t, i)
  BY RunEndIs
<1>3. /\ \A j \in i..n : t[j] \notin UrlEnds
      /\ \A k \in i..Len(t) : (\A j \in i..k : t[j] \notin UrlEnds) => k <= n
  BY <1>2, RunEndIs
<1> SUFFICES ASSUME t[n + 1] \notin UrlEnds PROVE FALSE
  BY <1>2
<1>4. n + 1 \in i..Len(t) /\ ~(n + 1 <= n)
  BY <1>1, <1>2
<1>5. \A j \in i..(n + 1) : t[j] \notin UrlEnds
  <2> SUFFICES ASSUME NEW j \in i..(n + 1) PROVE t[j] \notin UrlEnds
    OBVIOUS
  <2>1. j = n + 1 \/ j \in i..n
    BY <1>2
  <2> QED BY <1>3, <2>1
<1> QED BY <1>3, <1>4, <1>5

\* w is a part of v, after its first d tokens, that no URL of v crosses into or out of.
Part(w, v, d) ==
  /\ w \in Seq(STRING) /\ v \in Seq(STRING) /\ d \in Nat /\ d + Len(w) <= Len(v)
  /\ \A i \in 1..Len(w) : w[i] = v[i + d]
  /\ \A e \in UrlStarts(v) : e <= d => UrlRunEnd(v, e) <= d
  /\ \A e \in UrlStarts(v) : d < e /\ e <= d + Len(w) => UrlRunEnd(v, e) <= d + Len(w)

LEMMA PartStart ==
  ASSUME NEW w, NEW v, NEW d, Part(w, v, d), NEW i \in 1..Len(w)
  PROVE  i \in UrlStarts(w) <=> i + d \in UrlStarts(v)
<1>1. /\ w \in Seq(STRING) /\ v \in Seq(STRING) /\ d \in Nat /\ Len(w) \in Nat /\ Len(v) \in Nat
      /\ d + Len(w) <= Len(v) /\ \A k \in 1..Len(w) : w[k] = v[k + d]
  BY DEF Part
<1>2. ASSUME i \in UrlStarts(w) PROVE i + d \in UrlStarts(v)
  <2>1. /\ i \in 1..Len(w) /\ i + 1 \in 1..Len(w) /\ i + 2 \in 1..Len(w) /\ i + 3 \in 1..Len(w)
        /\ w[i] = "ht" /\ w[i+1] = "tp" /\ w[i+2] = "://" /\ w[i+3] \notin UrlEnds
    BY <1>1, <1>2, StartsAt
  <2>2. /\ (i + 1) + d = (i + d) + 1 /\ (i + 2) + d = (i + d) + 2 /\ (i + 3) + d = (i + d) + 3
        /\ i + d \in 1..Len(v) /\ (i + d) + 3 <= Len(v)
    BY <1>1, <2>1
  <2>3. v[i+d] = "ht" /\ v[(i+d)+1] = "tp" /\ v[(i+d)+2] = "://" /\ v[(i+d)+3] \notin UrlEnds
    BY <1>1, <2>1, <2>2
  <2> QED BY <1>1, <2>2, <2>3, StartsIf
<1>3. ASSUME i + d \in UrlStarts(v) PROVE i \in UrlStarts(w)
  <2>1. /\ i + d \in 1..Len(v) /\ (i + d) + 1 \in 1..Len(v) /\ (i + d) + 2 \in 1..Len(v)
        /\ (i + d) + 3 \in 1..Len(v)
        /\ v[i+d] = "ht" /\ v[(i+d)+1] = "tp" /\ v[(i+d)+2] = "://" /\ v[(i+d)+3] \notin UrlEnds
        /\ v[i+d] \notin UrlEnds /\ v[(i+d)+1] \notin UrlEnds /\ v[(i+d)+2] \notin UrlEnds
    BY <1>1, <1>3, StartsAt
  <2>2. PICK n \in (i+d)..Len(v) : n = UrlRunEnd(v, i + d)
    BY <1>1, <2>1, RunEndIs
  <2>3. n <= d + Len(w)
    <3>1. d < i + d /\ i + d <= d + Len(w)
      BY <1>1
    <3> QED BY <1>3, <2>2, <3>1 DEF Part
  <2>4. (i + d) + 3 <= n
    <3>1. \A j \in (i+d)..((i+d)+3) : v[j] \notin UrlEnds
      <4> SUFFICES ASSUME NEW j \in (i+d)..((i+d)+3) PROVE v[j] \notin UrlEnds
        OBVIOUS
      <4>1. j = i + d \/ j = (i + d) + 1 \/ j = (i + d) + 2 \/ j = (i + d) + 3
        BY <1>1
      <4> QED BY <2>1, <4>1
    <3>2. (i + d) + 3 \in (i+d)..Len(v)
      BY <1>1, <2>1
    <3> QED BY <1>1, <2>1, <2>2, <3>1, <3>2, RunEndIs
  <2>5. /\ i + 1 \in 1..Len(w) /\ i + 2 \in 1..Len(w) /\ i + 3 \in 1..Len(w) /\ i + 3 <= Len(w)
        /\ (i + 1) + d = (i + d) + 1 /\ (i + 2) + d = (i + d) + 2 /\ (i + 3) + d = (i + d) + 3
    <3>1. /\ i \in Int /\ d \in Int /\ n \in Int /\ Len(w) \in Int /\ 1 <= i
          /\ n <= d + Len(w) /\ (i + d) + 3 <= n
      BY <1>1, <2>2, <2>3, <2>4
    <3> QED BY <3>1
  <2>6. w[i] = "ht" /\ w[i+1] = "tp" /\ w[i+2] = "://" /\ w[i+3] \notin UrlEnds
    BY <1>1, <2>1, <2>5
  <2> QED BY <1>1, <2>5, <2>6, StartsIf
<1> QED BY <1>2, <1>3

LEMMA PartRun ==
  ASSUME NEW w, NEW v, NEW d, Part(w, v, d), NEW i \in UrlStarts(w)
  PROVE  UrlRunEnd(v, i + d) = UrlRunEnd(w, i) + d /\ UrlAt(v, i + d) = UrlAt(w, i)
<1>1. /\ w \in Seq(STRING) /\ v \in Seq(STRING) /\ d \in Nat /\ Len(w) \in Nat /\ Len(v) \in Nat
      /\ d + Len(w) <= Len(v) /\ \A k \in 1..Len(w) : w[k] = v[k + d]
  BY DEF Part
<1>2. /\ i \in 1..Len(w) /\ i + 1 \in 1..Len(w) /\ i + 2 \in 1..Len(w) /\ i + 3 \in 1..Len(w)
      /\ w[i] \notin UrlEnds /\ w[i+1] \notin UrlEnds /\ w[i+2] \notin UrlEnds /\ w[i+3] \notin UrlEnds
  BY <1>1, StartsAt
<1>3. i + d \in UrlStarts(v)
  BY <1>2, PartStart
<1>4. i + d \in 1..Len(v) /\ v[i+d] \notin UrlEnds
  BY <1>1, <1>3, StartsAt
<1>5. PICK n \in (i+d)..Len(v) : n = UrlRunEnd(v, i + d)
  BY <1>1, <1>4, RunEndIs
<1>6. n <= d + Len(w)
  <2>1. d < i + d /\ i + d <= d + Len(w)
    <3>1. i \in Int /\ d \in Int /\ Len(w) \in Int /\ 1 <= i /\ i <= Len(w)
      BY <1>1, <1>2
    <3> QED BY <3>1
  <2> QED BY <1>3, <1>5, <2>1 DEF Part
<1>7. PICK k \in i..Len(w) : n = k + d
  <2>1. n \in Int /\ i \in Int /\ i + d <= n /\ n <= d + Len(w) /\ d \in Int /\ Len(w) \in Int
    BY <1>1, <1>2, <1>5, <1>6
  <2>2. n - d \in i..Len(w) /\ n = (n - d) + d
    BY <2>1
  <2> QED BY <2>2
<1>8. \A j \in i..k : w[j] \notin UrlEnds
  <2> SUFFICES ASSUME NEW j \in i..k PROVE w[j] \notin UrlEnds
    OBVIOUS
  <2>1. j \in 1..Len(w) /\ j + d \in (i+d)..n
    <3>1. /\ j \in Int /\ i \in Int /\ k \in Int /\ d \in Int /\ Len(w) \in Int /\ n = k + d
          /\ 1 <= i /\ i <= j /\ j <= k /\ k <= Len(w)
      BY <1>1, <1>2, <1>7
    <3> QED BY <3>1
  <2>2. v[j + d] \notin UrlEnds
    BY <1>1, <1>4, <1>5, <2>1, RunEndIs
  <2> QED BY <1>1, <2>1, <2>2
<1>9. k < Len(w) => w[k+1] \in UrlEnds
  <2> SUFFICES ASSUME k < Len(w) PROVE w[k+1] \in UrlEnds
    OBVIOUS
  <2>0. /\ k \in Int /\ d \in Int /\ Len(w) \in Int /\ Len(v) \in Int /\ n = k + d
        /\ 1 <= i /\ i <= k /\ k < Len(w) /\ d + Len(w) <= Len(v) /\ i \in Int
    BY <1>1, <1>2, <1>7
  <2>1. n < Len(v) /\ k + 1 \in 1..Len(w) /\ (k + 1) + d = n + 1
    BY <2>0
  <2>2. v[n + 1] \in UrlEnds
    BY <1>1, <1>4, <1>5, <2>1, RunEndStops
  <2> QED BY <1>1, <2>1, <2>2
<1>10. UrlRunEnd(w, i) = k
  BY <1>1, <1>2, <1>8, <1>9, RunEndAt
<1>11. i + 3 <= k
  <2>1. \A j \in i..(i+3) : w[j] \notin UrlEnds
    <3> SUFFICES ASSUME NEW j \in i..(i+3) PROVE w[j] \notin UrlEnds
      OBVIOUS
    <3>1. j = i \/ j = i + 1 \/ j = i + 2 \/ j = i + 3
      BY <1>2
    <3> QED BY <1>2, <3>1
  <2>2. i + 3 \in i..Len(w)
    BY <1>1, <1>2
  <2> QED BY <1>1, <1>2, <1>10, <2>1, <2>2, RunEndIs
<1>12. SubSeq(v, (i + d) + 3, n) = SubSeq(w, i + 3, k)
  <2>1. PICK from \in Nat, lo \in Nat, len \in Nat :
          from = (i + d) + 3 /\ lo = i + 3 /\ from = lo + d /\ len = n - from + 1 /\ len = k - lo + 1
    <3>1. i \in Int /\ d \in Int /\ k \in Int /\ n = k + d /\ i + 3 <= k /\ 1 <= i /\ 0 <= d
      BY <1>1, <1>2, <1>7, <1>11
    <3>2. /\ (i + d) + 3 \in Nat /\ i + 3 \in Nat /\ (i + d) + 3 = (i + 3) + d
          /\ k - (i + 3) + 1 \in Nat /\ n - ((i + d) + 3) + 1 = k - (i + 3) + 1
      BY <3>1
    <3> QED BY <3>2
  <2>2. n \in Nat /\ k \in Nat /\ 1 <= from /\ 1 <= lo /\ n <= Len(v) /\ k <= Len(w)
        /\ from <= n + 1 /\ lo <= k + 1
    <3>1. i \in Int /\ 1 <= i /\ d \in Int /\ 0 <= d /\ k \in Int /\ n = k + d /\ i + 3 <= k
      BY <1>1, <1>2, <1>7, <1>11
    <3>2. n <= Len(v) /\ k <= Len(w)
      BY <1>1, <1>2, <1>5, <1>7
    <3> QED BY <2>1, <3>1, <3>2
  <2> DEFINE a == SubSeq(v, from, n)
             b == SubSeq(w, lo, k)
  <2>3. a \in Seq(STRING) /\ Len(a) = n - from + 1
        /\ \A j \in 1..(n - from + 1) : a[j] = v[j + from - 1]
    BY <1>1, <2>2, SubSeqFacts
  <2>4. b \in Seq(STRING) /\ Len(b) = k - lo + 1
        /\ \A j \in 1..(k - lo + 1) : b[j] = w[j + lo - 1]
    <3>1. w \in Seq(STRING) /\ 1 <= lo /\ k <= Len(w) /\ lo <= k + 1 /\ k \in Nat
      BY <1>1, <2>2
    <3> QED BY <3>1, SubSeqFacts
  <2>5. Len(a) = len /\ Len(b) = len
    BY <2>1, <2>3, <2>4
  <2>6. ASSUME NEW j \in 1..len PROVE a[j] = b[j]
    <3>1. PICK x \in 1..Len(w) : x = j + lo - 1 /\ x + d = j + from - 1
      <4>1. j + lo - 1 \in 1..Len(w) /\ (j + lo - 1) + d = j + from - 1
        <5>1. j \in Int /\ 1 <= j /\ j <= k - lo + 1 /\ 1 <= lo /\ k <= Len(w) /\ k \in Int /\ Len(w) \in Int
          BY <1>1, <2>1, <2>2, <2>6
        <5>2. lo \in Int /\ from \in Int /\ d \in Int /\ from = lo + d
          BY <1>1, <2>1
        <5> QED BY <5>1, <5>2
      <4> QED BY <4>1
    <3>2. a[j] = v[x + d] /\ b[j] = w[x]
      BY <2>1, <2>3, <2>4, <3>1
    <3> QED BY <1>1, <3>2
  <2> HIDE DEF a, b
  <2>7. a = b
    BY <2>3, <2>4, <2>5, <2>6, SameSeq
  <2> QED BY <2>1, <2>7 DEF a, b
<1> QED BY <1>5, <1>7, <1>10, <1>12 DEF UrlAt

LEMMA PartFirst ==
  ASSUME NEW w, NEW v, NEW d, Part(w, v, d), NEW i \in 1..Len(w)
  PROVE  i \in FirstStarts(w) <=> i + d \in FirstStarts(v)
<1>1. /\ w \in Seq(STRING) /\ v \in Seq(STRING) /\ d \in Nat /\ Len(w) \in Nat /\ Len(v) \in Nat
      /\ d + Len(w) <= Len(v)
  BY DEF Part
<1>2. ASSUME NEW x, x \in UrlStarts(w)
      PROVE x \in 1..Len(w) /\ x + d \in UrlStarts(v) /\ UrlRunEnd(v, x + d) = UrlRunEnd(w, x) + d
            /\ UrlRunEnd(w, x) \in Int
  <2>1. x \in 1..Len(w) /\ w[x] \notin UrlEnds
    BY <1>1, <1>2, StartsAt
  <2>2. UrlRunEnd(w, x) \in x..Len(w)
    BY <1>1, <2>1, RunEndIs
  <2> QED BY <1>2, <2>1, <2>2, PartStart, PartRun
<1>3. ASSUME i \in FirstStarts(w) PROVE i + d \in FirstStarts(v)
  <2>1. i \in UrlStarts(w) /\ i + d \in UrlStarts(v)
    BY <1>2, <1>3 DEF FirstStarts
  <2>2. ASSUME NEW e \in UrlStarts(v), e < i + d PROVE UrlRunEnd(v, e) < i + d
    <3>1. e \in 1..Len(v) /\ v[e] \notin UrlEnds
      BY <1>1, StartsAt
    <3>2. UrlRunEnd(v, e) \in Int
      BY <1>1, <3>1, RunEndIs
    <3>3. CASE e <= d
      <4>1. UrlRunEnd(v, e) <= d
        BY <3>3 DEF Part
      <4> QED BY <1>1, <3>2, <4>1
    <3>4. CASE ~(e <= d)
      <4>1. PICK x \in 1..Len(w) : e = x + d
        <5>1. e - d \in 1..Len(w) /\ e = (e - d) + d
          BY <1>1, <2>2, <3>1, <3>4
        <5> QED BY <5>1
      <4>2. x \in UrlStarts(w) /\ x < i
        BY <1>1, <2>2, <4>1, PartStart
      <4>3. UrlRunEnd(w, x) < i
        BY <1>3, <4>2 DEF FirstStarts
      <4>4. UrlRunEnd(v, e) = UrlRunEnd(w, x) + d /\ UrlRunEnd(w, x) \in Int
        BY <1>2, <4>1, <4>2
      <4> QED BY <1>1, <4>3, <4>4
    <3> QED BY <3>3, <3>4
  <2> QED BY <2>1, <2>2 DEF FirstStarts
<1>4. ASSUME i + d \in FirstStarts(v) PROVE i \in FirstStarts(w)
  <2>1. i \in UrlStarts(w)
    BY <1>4, PartStart DEF FirstStarts
  <2>2. ASSUME NEW x \in UrlStarts(w), x < i PROVE UrlRunEnd(w, x) < i
    <3>1. x \in 1..Len(w) /\ x + d \in UrlStarts(v) /\ UrlRunEnd(v, x + d) = UrlRunEnd(w, x) + d
          /\ UrlRunEnd(w, x) \in Int
      BY <1>2
    <3>2. UrlRunEnd(v, x + d) < i + d
      <4>1. x + d < i + d
        BY <1>1, <2>2, <3>1
      <4> QED BY <1>4, <3>1, <4>1 DEF FirstStarts
    <3> QED BY <1>1, <3>1, <3>2
  <2> QED BY <2>1, <2>2 DEF FirstStarts
<1> QED BY <1>3, <1>4

LEMMA UrlsAre ==
  ASSUME NEW t
  PROVE  Urls(t) = {UrlAt(t, i) : i \in FirstStarts(t)}
  BY Zenon DEF Urls, UrlAt, FirstStarts

LEMMA PartUrls ==
  ASSUME NEW w, NEW v, NEW d, Part(w, v, d), NEW i, i \in FirstStarts(w)
  PROVE  i + d \in FirstStarts(v) /\ UrlAt(v, i + d) = UrlAt(w, i)
<1>1. w \in Seq(STRING) /\ i \in UrlStarts(w)
  BY DEF Part, FirstStarts
<1>2. i \in 1..Len(w)
  BY <1>1, StartsAt
<1> QED BY <1>1, <1>2, PartFirst, PartRun

\* White space and quotes at the ends belong to no URL.
LEMMA UrlsWithin ==
  ASSUME NEW t \in Seq(STRING), NEW w, NEW d, NEW Out \in SUBSET UrlEnds, Within(w, t, d, Out)
  PROVE  Urls(w) = Urls(t)
<1>1. /\ d \in Nat /\ w \in Seq(STRING) /\ Len(w) \in Nat /\ Len(t) \in Nat /\ d + Len(w) <= Len(t)
      /\ \A i \in 1..Len(w) : w[i] = t[i + d]
      /\ \A i \in 1..Len(t) : i <= d \/ i > d + Len(w) => t[i] \in UrlEnds
  BY DEF Within
<1>2. ASSUME NEW e \in UrlStarts(t)
      PROVE  /\ e \in 1..Len(t) /\ d < e /\ e <= d + Len(w)
             /\ UrlRunEnd(t, e) <= d + Len(w)
  <2>1. e \in 1..Len(t) /\ t[e] \notin UrlEnds
    BY StartsAt
  <2>2. d < e /\ e <= d + Len(w)
    BY <1>1, <2>1
  <2>3. PICK n \in e..Len(t) : n = UrlRunEnd(t, e)
    BY <2>1, RunEndIs
  <2>4. n \in 1..Len(t) /\ t[n] \notin UrlEnds
    <3>1. n \in e..n /\ n \in 1..Len(t)
      BY <1>1, <2>1
    <3> QED BY <2>1, <2>3, <3>1, RunEndIs
  <2>5. n <= d + Len(w)
    BY <1>1, <2>4
  <2> QED BY <2>1, <2>2, <2>3, <2>5
<1>3. Part(w, t, d)
  <2>1. \A e \in UrlStarts(t) : e <= d => UrlRunEnd(t, e) <= d
    <3> SUFFICES ASSUME NEW e \in UrlStarts(t), e <= d PROVE FALSE
      OBVIOUS
    <3> QED BY <1>1, <1>2
  <2>2. \A e \in UrlStarts(t) : d < e /\ e <= d + Len(w) => UrlRunEnd(t, e) <= d + Len(w)
    BY <1>2
  <2> QED BY <1>1, <2>1, <2>2 DEF Part
<1>4. ASSUME NEW i \in FirstStarts(w) PROVE \E j \in FirstStarts(t) : UrlAt(t, j) = UrlAt(w, i)
  BY <1>3, PartUrls
<1>5. ASSUME NEW j \in FirstStarts(t) PROVE \E i \in FirstStarts(w) : UrlAt(t, j) = UrlAt(w, i)
  <2>1. j \in 1..Len(t) /\ d < j /\ j <= d + Len(w)
    BY <1>2 DEF FirstStarts
  <2>2. PICK i \in 1..Len(w) : j = i + d
    <3>1. j - d \in 1..Len(w) /\ j = (j - d) + d
      BY <1>1, <2>1
    <3> QED BY <3>1
  <2>3. i \in FirstStarts(w)
    BY <1>3, <2>2, PartFirst
  <2> QED BY <1>3, <2>2, <2>3, PartUrls
<1>6. {UrlAt(w, i) : i \in FirstStarts(w)} = {UrlAt(t, j) : j \in FirstStarts(t)}
  BY <1>4, <1>5
<1> QED BY <1>6, UrlsAre, Zenon

LEMMA InvalidIs ==
  ASSUME NEW t \in Seq(STRING), NEW p
  PROVE  InvalidUrls(t, p) = {u \in Urls(t) : ~UrlIsValid(u, p)}
<1>1. Clean(t) \in Seq(STRING)
  BY CleanIs
<1>2. Urls(Clean(t)) = Urls(t)
  <2>1. {Quote} \subseteq UrlEnds
    BY DEF UrlEnds
  <2> QED BY <2>1, CleanWithin, UrlsWithin
<1>3. Urls(TrimSpace(Clean(t))) = Urls(Clean(t))
  <2>1. {Space} \subseteq UrlEnds
    BY DEF UrlEnds
  <2>2. PICK d \in Nat : Within(TrimSpace(Clean(t)), Clean(t), d, {Space})
    BY <1>1, TrimWithin
  <2> QED BY <1>1, <2>1, <2>2, UrlsWithin
<1> QED BY <1>2, <1>3, Zenon DEF InvalidUrls

\* A text that does not end in the middle of a URL, and what follows it, hold the URLs of both.
LEMMA CrossesNot ==
  ASSUME NEW t \in Seq(STRING), NEW u \in Seq(STRING),
         ~IncompleteUrlAtEnd(t), ~Glued(t \o u), ~Halves(t, u),
         NEW i \in UrlStarts(t \o u), i <= Len(t)
  PROVE  UrlRunEnd(t \o u, i) <= Len(t)
<1> DEFINE v == t \o u
<1>1. /\ v \in Seq(STRING) /\ Len(t) \in Nat /\ Len(u) \in Nat /\ Len(v) = Len(t) + Len(u)
      /\ \A k \in 1..Len(t) : v[k] = t[k]
  BY Joined
<1>0. 1 <= Len(u) => v[Len(t) + 1] = u[1]
  <2> SUFFICES ASSUME 1 <= Len(u) PROVE v[Len(t) + 1] = u[1]
    OBVIOUS
  <2>1. Len(t) + 1 \in 1..(Len(t) + Len(u)) /\ ~(Len(t) + 1 <= Len(t)) /\ (Len(t) + 1) - Len(t) = 1
    BY <1>1
  <2>2. \A k \in 1..(Len(t) + Len(u)) : ~(k <= Len(t)) => v[k] = u[k - Len(t)]
    BY Joined
  <2> QED BY <2>1, <2>2
<1> HIDE DEF v
<1>2. /\ i \in 1..Len(v) /\ i + 1 \in 1..Len(v) /\ i + 2 \in 1..Len(v)
      /\ v[i] = "ht" /\ v[i+1] = "tp" /\ v[i+2] = "://"
      /\ v[i] \notin UrlEnds
  BY <1>1, StartsAt DEF v
<1>10. i < Len(t)
  <2> SUFFICES ASSUME ~(i < Len(t)) PROVE FALSE
    OBVIOUS
  <2>1. i = Len(t) /\ 1 <= Len(t) /\ 1 <= Len(u)
    BY <1>1, <1>2
  <2>2. t # <<>> /\ u # <<>> /\ Last(t) = t[Len(t)]
    BY <2>1 DEF Last
  <2>3. t[Len(t)] = "ht" /\ u[1] = "tp"
    BY <1>0, <1>1, <1>2, <2>1
  <2> QED BY <2>2, <2>3 DEF Halves
<1>3. i \in 1..(Len(t) - 1) /\ i \in 1..Len(t) /\ ProtocolAt(t, i)
  BY <1>1, <1>2, <1>10 DEF ProtocolAt
<1>4. i = 1 \/ t[i-1] \notin WordChars
  <2> SUFFICES ASSUME i # 1 PROVE t[i-1] \notin WordChars
    OBVIOUS
  <2>1. i \in 2..(Len(v) - 1) /\ i - 1 \in 1..Len(t)
    BY <1>1, <1>2, <1>3
  <2>2. v[i-1] \notin WordChars
    BY <1>2, <2>1 DEF Glued, ProtocolAt, v
  <2> QED BY <1>1, <2>1, <2>2
<1>5. ~(i + 1 < Len(t) => t[i+2] = "://" /\ \A j \in i..Len(t) : t[j] # Space)
  BY <1>3, <1>4 DEF IncompleteUrlAtEnd
<1>6. t[i+2] = "://"
  <2>1. i + 2 \in 1..Len(t)
    BY <1>1, <1>3, <1>5
  <2> QED BY <1>1, <1>2, <2>1
<1>7. PICK j \in i..Len(t) : t[j] = Space
  BY <1>5, <1>6
<1>8. PICK n \in i..Len(v) : n = UrlRunEnd(v, i)
  BY <1>1, <1>2, RunEndIs
<1>9. ~(j <= n)
  <2> SUFFICES ASSUME j <= n PROVE FALSE
    OBVIOUS
  <2>1. j \in i..n /\ j \in 1..Len(t)
    BY <1>1, <1>3
  <2>2. v[j] \notin UrlEnds
    BY <1>1, <1>2, <1>8, <2>1, RunEndIs
  <2> QED BY <1>1, <1>7, <2>1, <2>2 DEF UrlEnds
<1> QED BY <1>1, <1>8, <1>9 DEF v

LEMMA UrlsConcat ==
  ASSUME NEW t \in Seq(STRING), NEW u \in Seq(STRING),
         ~IncompleteUrlAtEnd(t), ~Glued(t \o u), ~Halves(t, u)
  PROVE  Urls(t \o u) = Urls(t) \cup Urls(u)
<1> DEFINE v == t \o u
<1>1. /\ v \in Seq(STRING) /\ Len(t) \in Nat /\ Len(u) \in Nat /\ Len(v) = Len(t) + Len(u)
      /\ \A k \in 1..Len(t) : v[k] = t[k]
      /\ \A k \in 1..(Len(t) + Len(u)) : ~(k <= Len(t)) => v[k] = u[k - Len(t)]
  <2>1. v \in Seq(STRING) /\ Len(t) \in Nat /\ Len(u) \in Nat /\ Len(v) = Len(t) + Len(u)
    BY Joined
  <2>2. \A k \in 1..Len(t) : v[k] = t[k]
    BY Joined
  <2>3. \A k \in 1..(Len(t) + Len(u)) : ~(k <= Len(t)) => v[k] = u[k - Len(t)]
    BY Joined
  <2> QED BY <2>1, <2>2, <2>3
<1>2. \A e \in UrlStarts(v) : e <= Len(t) => UrlRunEnd(v, e) <= Len(t)
  BY CrossesNot
<1> HIDE DEF v
<1>3. ASSUME NEW e \in UrlStarts(v) PROVE e \in 1..Len(v) /\ UrlRunEnd(v, e) \in Int /\ UrlRunEnd(v, e) <= Len(v)
  <2>1. e \in 1..Len(v) /\ v[e] \notin UrlEnds
    BY <1>1, StartsAt
  <2>2. UrlRunEnd(v, e) \in e..Len(v)
    BY <1>1, <2>1, RunEndIs
  <2> QED BY <2>1, <2>2
<1>4. Part(t, v, 0)
  <2>1. 0 \in Nat /\ 0 + Len(t) = Len(t) /\ Len(t) <= Len(v)
    BY <1>1
  <2>2. \A i \in 1..Len(t) : t[i] = v[i + 0]
    BY <1>1
  <2>3. \A e \in UrlStarts(v) : ~(e <= 0)
    BY <1>3
  <2> QED BY <1>1, <1>2, <2>1, <2>2, <2>3 DEF Part
<1>5. Part(u, v, Len(t))
  <2>1. \A i \in 1..Len(u) : u[i] = v[i + Len(t)]
    <3> SUFFICES ASSUME NEW i \in 1..Len(u) PROVE u[i] = v[i + Len(t)]
      OBVIOUS
    <3>1. PICK k \in 1..(Len(t) + Len(u)) : k = i + Len(t) /\ ~(k <= Len(t)) /\ k - Len(t) = i
      <4>1. i + Len(t) \in 1..(Len(t) + Len(u)) /\ ~(i + Len(t) <= Len(t)) /\ (i + Len(t)) - Len(t) = i
        BY <1>1
      <4> QED BY <4>1
    <3> QED BY <1>1, <3>1
  <2>2. \A e \in UrlStarts(v) : UrlRunEnd(v, e) <= Len(t) + Len(u)
    BY <1>1, <1>3
  <2>3. Len(t) + Len(u) <= Len(v)
    BY <1>1
  <2> QED BY <1>1, <1>2, <2>1, <2>2, <2>3 DEF Part
<1>6. ASSUME NEW i \in FirstStarts(t) PROVE \E j \in FirstStarts(v) : UrlAt(v, j) = UrlAt(t, i)
  BY <1>4, PartUrls
<1>7. ASSUME NEW i \in FirstStarts(u) PROVE \E j \in FirstStarts(v) : UrlAt(v, j) = UrlAt(u, i)
  BY <1>5, PartUrls
<1>8. ASSUME NEW j \in FirstStarts(v)
      PROVE  \/ \E i \in FirstStarts(t) : UrlAt(v, j) = UrlAt(t, i)
             \/ \E i \in FirstStarts(u) : UrlAt(v, j) = UrlAt(u, i)
  <2>1. j \in 1..Len(v)
    BY <1>3 DEF FirstStarts
  <2>2. CASE j <= Len(t)
    <3>1. j \in 1..Len(t) /\ j + 0 = j
      BY <1>1, <2>1, <2>2
    <3>2. j \in FirstStarts(t)
      BY <1>4, <3>1, PartFirst
    <3>3. UrlAt(v, j + 0) = UrlAt(t, j)
      BY <1>4, <3>2, PartUrls
    <3> QED BY <3>1, <3>2, <3>3
  <2>3. CASE ~(j <= Len(t))
    <3>1. PICK i \in 1..Len(u) : j = i + Len(t)
      <4>1. j - Len(t) \in 1..Len(u) /\ j = (j - Len(t)) + Len(t)
        BY <1>1, <2>1, <2>3
      <4> QED BY <4>1
    <3>2. i \in FirstStarts(u)
      BY <1>5, <3>1, PartFirst
    <3> QED BY <1>5, <3>1, <3>2, PartUrls
  <2> QED BY <2>2, <2>3
<1>9. {UrlAt(v, j) : j \in FirstStarts(v)}
      = {UrlAt(t, i) : i \in FirstStarts(t)} \cup {UrlAt(u, i) : i \in FirstStarts(u)}
  BY <1>6, <1>7, <1>8
<1>10. Urls(v) = Urls(t) \cup Urls(u)
  BY <1>9, UrlsAre, Zenon
<1> QED BY <1>10 DEF v

LEMMA InvalidConcat ==
  ASSUME NEW t \in Seq(STRING), NEW u \in Seq(STRING), NEW p,
         ~IncompleteUrlAtEnd(t), ~Glued(t \o u), ~Halves(t, u)
  PROVE  InvalidUrls(t \o u, p) = InvalidUrls(t, p) \cup InvalidUrls(u, p)
<1>1. t \o u \in Seq(STRING)
  OBVIOUS
<1>2. Urls(t \o u) = Urls(t) \cup Urls(u)
  BY UrlsConcat
<1>3. /\ InvalidUrls(t \o u, p) = {x \in Urls(t \o u) : ~UrlIsValid(x, p)}
      /\ InvalidUrls(t, p) = {x \in Urls(t) : ~UrlIsValid(x, p)}
      /\ InvalidUrls(u, p) = {x \in Urls(u) : ~UrlIsValid(x, p)}
  BY <1>1, InvalidIs
<1> QED BY <1>2, <1>3, Zenon

LEMMA GluedBegins ==
  ASSUME NEW t \in Seq(STRING), NEW u \in Seq(STRING), Glued(t)
  PROVE  Glued(t \o u)
<1> DEFINE v == t \o u
<1>1. /\ Len(t) \in Nat /\ Len(u) \in Nat /\ Len(v) = Len(t) + Len(u)
      /\ \A k \in 1..Len(t) : v[k] = t[k]
  BY Joined
<1>2. PICK i \in 2..(Len(t) - 1) : ProtocolAt(t, i) /\ t[i-1] \in WordChars
  BY DEF Glued
<1> HIDE DEF v
<1>3. i \in 2..(Len(v) - 1) /\ i \in 1..Len(t) /\ i + 1 \in 1..Len(t) /\ i - 1 \in 1..Len(t)
  BY <1>1
<1>4. ProtocolAt(v, i) /\ v[i-1] \in WordChars
  BY <1>1, <1>2, <1>3 DEF ProtocolAt
<1>5. Glued(v)
  BY <1>3, <1>4 DEF Glued
<1> QED BY <1>5 DEF v

LEMMA CompleteConcat ==
  ASSUME NEW t \in Seq(STRING), NEW u \in Seq(STRING),
         ~IncompleteUrlAtEnd(t), ~IncompleteUrlAtEnd(u), ~Halves(t, u)
  PROVE  ~IncompleteUrlAtEnd(t \o u)
<1> DEFINE v == t \o u
<1>1. /\ v \in Seq(STRING) /\ Len(t) \in Nat /\ Len(u) \in Nat /\ Len(v) = Len(t) + Len(u)
      /\ \A k \in 1..Len(t) : v[k] = t[k]
      /\ \A k \in 1..(Len(t) + Len(u)) : ~(k <= Len(t)) => v[k] = u[k - Len(t)]
  <2>1. v \in Seq(STRING) /\ Len(t) \in Nat /\ Len(u) \in Nat /\ Len(v) = Len(t) + Len(u)
    BY Joined
  <2>2. \A k \in 1..Len(t) : v[k] = t[k]
    BY Joined
  <2>3. \A k \in 1..(Len(t) + Len(u)) : ~(k <= Len(t)) => v[k] = u[k - Len(t)]
    BY Joined
  <2> QED BY <2>1, <2>2, <2>3
<1> HIDE DEF v
<1> SUFFICES ASSUME IncompleteUrlAtEnd(v) PROVE FALSE
  BY DEF v
<1>2. PICK i \in 1..(Len(v) - 1) :
        /\ v[i] = "ht" /\ v[i+1] = "tp"
        /\ i = 1 \/ v[i-1] \notin WordChars
        /\ i + 1 < Len(v) => v[i+2] = "://" /\ \A j \in i..Len(v) : v[j] # Space
  BY <1>1 DEF IncompleteUrlAtEnd, ProtocolAt
<1>3. CASE i <= Len(t)
  <2>0. i < Len(t)
    <3> SUFFICES ASSUME ~(i < Len(t)) PROVE FALSE
      OBVIOUS
    <3>1. i = Len(t) /\ 1 <= Len(t) /\ 1 <= Len(u)
      BY <1>1, <1>2, <1>3
    <3>2. t # <<>> /\ u # <<>> /\ Last(t) = t[Len(t)]
      BY <3>1 DEF Last
    <3>3. PICK k \in 1..(Len(t) + Len(u)) : k = Len(t) + 1 /\ ~(k <= Len(t)) /\ k - Len(t) = 1
      <4>1. Len(t) + 1 \in 1..(Len(t) + Len(u)) /\ ~(Len(t) + 1 <= Len(t)) /\ (Len(t) + 1) - Len(t) = 1
        BY <1>1, <3>1
      <4> QED BY <4>1
    <3>4. t[Len(t)] = "ht" /\ u[1] = "tp"
      BY <1>1, <1>2, <3>1, <3>3
    <3> QED BY <3>2, <3>4 DEF Halves
  <2>1. /\ i \in 1..(Len(t) - 1) /\ i \in 1..Len(t) /\ i + 1 \in 1..Len(t) /\ (i # 1 => i - 1 \in 1..Len(t))
        /\ i + 1 < Len(t) => i + 2 \in 1..Len(t) /\ i + 1 < Len(v)
    BY <1>1, <1>2, <2>0
  <2>2. ProtocolAt(t, i) /\ (i = 1 \/ t[i-1] \notin WordChars)
    BY <1>1, <1>2, <2>1 DEF ProtocolAt
  <2>3. i + 1 < Len(t) => t[i+2] = "://" /\ \A j \in i..Len(t) : t[j] # Space
    <3> SUFFICES ASSUME i + 1 < Len(t) PROVE t[i+2] = "://" /\ \A j \in i..Len(t) : t[j] # Space
      OBVIOUS
    <3>1. v[i+2] = "://" /\ \A j \in i..Len(v) : v[j] # Space
      BY <1>2, <2>1
    <3>2. \A j \in i..Len(t) : j \in i..Len(v) /\ j \in 1..Len(t)
      BY <1>1, <2>1
    <3> QED BY <1>1, <2>1, <3>1, <3>2
  <2> QED BY <2>1, <2>2, <2>3 DEF IncompleteUrlAtEnd
<1>4. CASE ~(i <= Len(t))
  <2>0. \A k \in 1..Len(u) : u[k] = v[k + Len(t)]
    <3> SUFFICES ASSUME NEW k \in 1..Len(u) PROVE u[k] = v[k + Len(t)]
      OBVIOUS
    <3>1. PICK m \in 1..(Len(t) + Len(u)) : m = k + Len(t) /\ ~(m <= Len(t)) /\ m - Len(t) = k
      <4>1. k + Len(t) \in 1..(Len(t) + Len(u)) /\ ~(k + Len(t) <= Len(t)) /\ (k + Len(t)) - Len(t) = k
        BY <1>1
      <4> QED BY <4>1
    <3> QED BY <1>1, <3>1
  <2>1. PICK k \in 1..(Len(u) - 1) : i = k + Len(t)
    <3>1. i - Len(t) \in 1..(Len(u) - 1) /\ i = (i - Len(t)) + Len(t)
      BY <1>1, <1>2, <1>4
    <3> QED BY <3>1
  <2>2. ProtocolAt(u, k)
    <3>1. k \in 1..Len(u) /\ k + 1 \in 1..Len(u) /\ (k + 1) + Len(t) = i + 1
      BY <1>1, <2>1
    <3> QED BY <1>2, <2>0, <2>1, <3>1 DEF ProtocolAt
  <2>3. k = 1 \/ u[k-1] \notin WordChars
    <3> SUFFICES ASSUME k # 1 PROVE u[k-1] \notin WordChars
      OBVIOUS
    <3>1. k - 1 \in 1..Len(u) /\ (k - 1) + Len(t) = i - 1 /\ i # 1
      BY <1>1, <2>1
    <3> QED BY <1>2, <2>0, <3>1
  <2>4. k + 1 < Len(u) => u[k+2] = "://" /\ \A j \in k..Len(u) : u[j] # Space
    <3> SUFFICES ASSUME k + 1 < Len(u) PROVE u[k+2] = "://" /\ \A j \in k..Len(u) : u[j] # Space
      OBVIOUS
    <3>1. k + 2 \in 1..Len(u) /\ (k + 2) + Len(t) = i + 2 /\ i + 1 < Len(v)
      BY <1>1, <2>1
    <3>2. v[i+2] = "://" /\ \A j \in i..Len(v) : v[j] # Space
      BY <1>2, <3>1
    <3>3. \A j \in k..Len(u) : j \in 1..Len(u) /\ j + Len(t) \in i..Len(v)
      BY <1>1, <2>1
    <3> QED BY <2>0, <3>1, <3>2, <3>3
  <2> QED BY <2>2, <2>3, <2>4 DEF IncompleteUrlAtEnd
<1> QED BY <1>3, <1>4

\* A protocol name that is divided between two batches, or was in the first of them, is
\* divided in their lines.
LEMMA HalvedJoins ==
  ASSUME NEW a \in Seq(Lines), NEW b \in Seq(Lines)
  PROVE  /\ Halves(TextOf(a), TextOf(b)) => Halved(a \o b)
         /\ Halved(a) => Halved(a \o b)
<1> DEFINE c == a \o b
<1>1. /\ c \in Seq(Lines) /\ Len(a) \in Nat /\ Len(b) \in Nat /\ Len(c) = Len(a) + Len(b)
      /\ \A i \in 1..Len(a) : c[i] = a[i]
  BY Joined
<1>2. \A i \in 1..(Len(a) + Len(b)) : ~(i <= Len(a)) => c[i] = b[i - Len(a)]
  BY Joined
<1> HIDE DEF c
<1>3. ASSUME NEW i \in 1..Len(a), i <= Len(c) - 1
      PROVE  /\ SubSeq(c, 1, i) = SubSeq(a, 1, i)
             /\ SubSeq(a, i + 1, Len(a)) \in Seq(Lines)
             /\ SubSeq(c, i + 1, Len(c)) = SubSeq(a, i + 1, Len(a)) \o b
  <2> DEFINE x == SubSeq(c, 1, i)
             y == SubSeq(a, 1, i)
             r == SubSeq(a, i + 1, Len(a))
             z == SubSeq(c, i + 1, Len(c))
  <2>1. /\ i \in Nat /\ 1 \in Nat /\ 1 <= 1 /\ i <= Len(a) /\ i <= Len(c) /\ 1 <= i + 1
        /\ i - 1 + 1 = i /\ i + 1 \in Nat /\ 1 <= i + 1 /\ i + 1 <= Len(a) + 1 /\ i + 1 <= Len(c) + 1
        /\ Len(c) \in Nat
    BY <1>1, <1>3
  <2>2. x \in Seq(Lines) /\ Len(x) = i /\ \A j \in 1..i : x[j] = c[j + 1 - 1]
    BY <1>1, <2>1, SubSeqFacts
  <2>3. y \in Seq(Lines) /\ Len(y) = i /\ \A j \in 1..i : y[j] = a[j + 1 - 1]
    BY <2>1, SubSeqFacts
  <2>4. /\ r \in Seq(Lines) /\ Len(r) = Len(a) - (i + 1) + 1
        /\ \A j \in 1..(Len(a) - (i + 1) + 1) : r[j] = a[j + (i + 1) - 1]
    BY <1>1, <2>1, SubSeqFacts
  <2>5. /\ z \in Seq(Lines) /\ Len(z) = Len(c) - (i + 1) + 1
        /\ \A j \in 1..(Len(c) - (i + 1) + 1) : z[j] = c[j + (i + 1) - 1]
    BY <1>1, <2>1, SubSeqFacts
  <2> HIDE DEF x, y, r, z
  <2>6. x = y
    <3>1. ASSUME NEW j \in 1..i PROVE x[j] = y[j]
      <4>1. j + 1 - 1 = j /\ j \in 1..Len(a)
        BY <1>1
      <4> QED BY <1>1, <2>2, <2>3, <4>1
    <3> QED BY <2>2, <2>3, <3>1, SameSeq
  <2>7. z = r \o b
    <3>1. /\ r \o b \in Seq(Lines) /\ Len(r \o b) = Len(r) + Len(b)
          /\ \A j \in 1..Len(r) : (r \o b)[j] = r[j]
      BY <2>4, Joined
    <3>2. \A j \in 1..(Len(r) + Len(b)) : ~(j <= Len(r)) => (r \o b)[j] = b[j - Len(r)]
      BY <2>4, Joined
    <3>3. Len(r) = Len(a) - i /\ Len(z) = Len(r) + Len(b) /\ Len(r) \in Nat /\ Len(z) = Len(c) - (i + 1) + 1
      BY <1>1, <2>4, <2>5
    <3>4. ASSUME NEW j \in 1..Len(z) PROVE z[j] = (r \o b)[j]
      <4>1. PICK k \in 1..Len(c) : k = j + (i + 1) - 1 /\ k = j + i
        <5>1. j + i \in 1..Len(c) /\ j + (i + 1) - 1 = j + i
          BY <1>1, <3>3
        <5> QED BY <5>1
      <4>2. z[j] = c[k]
        BY <2>5, <3>3, <4>1
      <4>3. CASE j <= Len(r)
        <5>1. j \in 1..Len(r) /\ k \in 1..Len(a) /\ j \in 1..(Len(a) - (i + 1) + 1)
          BY <1>1, <3>3, <4>1, <4>3
        <5>2. r[j] = a[k]
          BY <2>4, <4>1, <5>1
        <5> QED BY <1>1, <3>1, <4>2, <5>1, <5>2
      <4>4. CASE ~(j <= Len(r))
        <5>1. /\ j \in 1..(Len(r) + Len(b)) /\ k \in 1..(Len(a) + Len(b)) /\ ~(k <= Len(a))
              /\ k - Len(a) = j - Len(r)
          BY <1>1, <3>3, <4>1, <4>4
        <5>2. c[k] = b[k - Len(a)]
          BY <1>2, <5>1
        <5>3. (r \o b)[j] = b[j - Len(r)]
          BY <3>2, <4>4, <5>1
        <5> QED BY <4>2, <5>1, <5>2, <5>3
      <4> QED BY <4>3, <4>4
    <3> QED BY <2>5, <3>1, <3>3, <3>4, SameSeq
  <2> QED BY <2>4, <2>6, <2>7 DEF x, y, r, z
<1>4. ASSUME Halves(TextOf(a), TextOf(b)) PROVE Halved(c)
  <2>1. TextOf(a) # <<>> /\ TextOf(b) # <<>>
    BY <1>4 DEF Halves
  <2>2. a # <<>> /\ b # <<>>
    BY <2>1, EmptyText, Zenon
  <2>3. Len(a) \in 1..(Len(c) - 1) /\ Len(a) \in 1..Len(a) /\ Len(a) <= Len(c) - 1
    BY <1>1, <2>2
  <2>4. SubSeq(c, 1, Len(a)) = SubSeq(a, 1, Len(a)) /\ SubSeq(c, Len(a) + 1, Len(c)) = SubSeq(a, Len(a) + 1, Len(a)) \o b
    BY <1>3, <2>3
  <2>5. SubSeq(a, 1, Len(a)) = a /\ SubSeq(a, Len(a) + 1, Len(a)) = <<>>
    OBVIOUS
  <2>6. <<>> \o b = b
    OBVIOUS
  <2> QED BY <1>4, <2>3, <2>4, <2>5, <2>6 DEF Halved
<1>5. ASSUME Halved(a) PROVE Halved(c)
  <2>1. PICK i \in 1..(Len(a) - 1) :
          Halves(TextOf(SubSeq(a, 1, i)), TextOf(SubSeq(a, i + 1, Len(a))))
    BY <1>5 DEF Halved
  <2> DEFINE r == SubSeq(a, i + 1, Len(a))
  <2>2. i \in 1..Len(a) /\ i <= Len(c) - 1 /\ i \in 1..(Len(c) - 1)
    BY <1>1, <2>1
  <2>3. SubSeq(c, 1, i) = SubSeq(a, 1, i) /\ SubSeq(c, i + 1, Len(c)) = r \o b /\ r \in Seq(Lines)
    BY <1>3, <2>2
  <2>4. Halves(TextOf(SubSeq(a, 1, i)), TextOf(r))
    BY <2>1
  <2> HIDE DEF r
  <2>5. TextOf(r \o b) = TextOf(r) \o TextOf(b) /\ TextOf(r) \in Seq(STRING) /\ TextOf(b) \in Seq(STRING)
    BY <2>3, TextConcat, TextIs
  <2>6. TextOf(r) # <<>> => TextOf(r \o b) # <<>> /\ TextOf(r \o b)[1] = TextOf(r)[1]
    <3> SUFFICES ASSUME NEW s \in Seq(STRING), NEW q \in Seq(STRING), s # <<>>
                 PROVE  s \o q # <<>> /\ (s \o q)[1] = s[1]
      BY <2>5
    <3>1. 1 \in 1..Len(s) /\ Len(s \o q) = Len(s) + Len(q)
      OBVIOUS
    <3> QED BY <3>1
  <2>7. Halves(TextOf(SubSeq(a, 1, i)), TextOf(r \o b))
    BY <2>4, <2>6 DEF Halves
  <2> QED BY <2>2, <2>3, <2>7 DEF Halved
<1> QED BY <1>4, <1>5 DEF c

\* A text without a token says nothing.
LEMMA SaysNothing ==
  /\ ~IncompleteUrlAtEnd(<<>>)
  /\ \A p : InvalidUrls(<<>>, p) = {}
  /\ ~Matches(<<>>)
<1>1. <<>> \in Seq(STRING) /\ Len(<<>>) = 0 /\ DOMAIN <<>> = {} /\ 1..0 = {}
  OBVIOUS
<1>2. ~IncompleteUrlAtEnd(<<>>)
  BY <1>1 DEF IncompleteUrlAtEnd
<1>3. UrlStarts(<<>>) = {}
  BY <1>1, StartsAt
<1>4. Urls(<<>>) = {}
  BY <1>3 DEF Urls
<1>5. \A p : InvalidUrls(<<>>, p) = {}
  BY <1>1, <1>4, InvalidIs
<1>6. ~Matches(<<>>)
  BY <1>1 DEF Matches, Occurs
<1> QED BY <1>2, <1>5, <1>6

-----------------------------------------------------------------------------
(***************************************************************************)
(* What a policy does with a batch                                         *)
(***************************************************************************)

LEMMA TruthIs ==
  ASSUME NEW b
  PROVE  Truth(b, FALSE) \in BOOLEAN /\ (Truth(b, FALSE) => b # "no")
<1>1. CASE b = "absent"
  BY <1>1 DEF Truth
<1>2. CASE b # "absent"
  <2>1. Truth(b, FALSE) = (b = "yes")
    BY <1>2, Zenon DEF Truth
  <2> QED BY <2>1
<1> QED BY <1>1, <1>2

LEMMA RangeParsed ==
  ASSUME BuiltInv, phase \notin {"config", "rejected"}, kind \in Counting,
         Active(pol.hasResponse, pol.response)
  PROVE  /\ pol.response.Min \in Int /\ pol.response.Max \in Int /\ pol.response.Max > 0
         /\ pol.response.Min <= pol.response.Max /\ pol.response.Invert \in BOOLEAN
<1> DEFINE r == raw.response
<1>1. kind \in Kinds /\ raw \in RawOf[kind] /\ pol = GetPolicy(kind, raw) /\ pol.ok
  BY DEF BuiltInv
<1>2. pol.hasResponse /\ pol.response.Enabled
  BY DEF Active
<1>3. pol.response = ParseRange(r, FALSE) /\ pol.response.ok
  <2>1. CASE kind = "word"
    BY <1>1, <1>2, <2>1 DEF GetPolicy, WordNewPolicy, BuildPolicy, Flow, WordParseParams
  <2>2. CASE kind = "sentence"
    BY <1>1, <1>2, <2>2 DEF GetPolicy, SentenceGetPolicy, BuildPolicy, Flow, SentenceParseParams
  <2>3. CASE kind = "length"
    BY <1>1, <1>2, <2>3 DEF GetPolicy, LengthGetPolicy, BuildPolicy, Flow, LengthParseParams
  <2> QED BY <2>1, <2>2, <2>3 DEF Counting
<1>4. r.enabled # "no"
  <2>1. pol.response.Enabled = Truth(r.enabled, FALSE)
    BY <1>3 DEF ParseRange
  <2> QED BY <1>2, <2>1, TruthIs
<1>5. /\ pol.response.Min = r.min.v /\ pol.response.Max = r.max.v
      /\ r.min.is = "num" /\ r.max.is = "num" /\ r.max.v > 0 /\ r.min.v <= r.max.v
  BY <1>3, <1>4 DEF ParseRange, Number
<1>6. pol.response.Invert \in BOOLEAN
  <2>1. pol.response.Invert = Truth(r.invert, FALSE)
    BY <1>3 DEF ParseRange
  <2> QED BY <2>1, TruthIs
<1>7. r.min.v \in Int /\ r.max.v \in Int
  BY <1>1, <1>5, GuardAssumption DEF GuardAssumption
<1> QED BY <1>5, <1>6, <1>7

LEMMA RegexParsed ==
  ASSUME BuiltInv, phase \notin {"config", "rejected"}, kind = "regex",
         Active(pol.hasResponse, pol.response)
  PROVE  pol.response.Invert \in BOOLEAN
<1>1. pol = GetPolicy(kind, raw) /\ pol.ok
  BY DEF BuiltInv
<1>2. pol.response = RegexParseParams(raw.response, FALSE)
  BY <1>1 DEF GetPolicy, RegexGetPolicy, BuildPolicy, Flow, Active
<1>3. RegexParseParams(raw.response, FALSE).Invert = Truth(raw.response.invert, FALSE)
  BY DEF RegexParseParams
<1> QED BY <1>2, <1>3, TruthIs

LEMMA Wrapped ==
  ASSUME NEW S, NEW a \in S, NEW s \in Seq(S), NEW b \in S
  PROVE  <<a>> \o s \o <<b>> \in Seq(S)
  OBVIOUS

LEMMA Widen ==
  ASSUME NEW S, NEW T, S \subseteq T, NEW s \in Seq(S)
  PROVE  s \in Seq(T)
  OBVIOUS

LEMMA DeltaType ==
  ASSUME NEW a \in Seq(Lines), NEW path
  PROVE  DeltaContent(a, path) \in Seq(Tokens)
<1> DEFINE says(x) == IF x.l \notin SSELines \ {"done"} THEN <<>>
                      ELSE IF path = "" THEN WholePayload(x) ELSE JoinFragments(x)
<1>1. Len(a) \in Nat /\ DOMAIN a = 1..Len(a) /\ \A i \in 1..Len(a) : a[i] \in Lines
  OBVIOUS
<1>2. \A x \in Lines : says(x) \in Seq(Tokens)
  <2> SUFFICES ASSUME NEW x \in Lines PROVE says(x) \in Seq(Tokens)
    OBVIOUS
  <2>1. x.s \in Seq(STRING) /\ <<>> \in Seq(Tokens)
    BY DEF Lines
  <2>2. STRING \subseteq Tokens /\ "{" \in Tokens /\ "}" \in Tokens
    BY Zenon DEF Tokens
  <2>3. x.s \in Seq(Tokens)
    BY <2>1, <2>2, Widen, Zenon
  <2>4. <<"{">> \o x.s \o <<"}">> \in Seq(Tokens)
    BY <2>2, <2>3, Wrapped, Zenon
  <2> QED BY <2>1, <2>3, <2>4, Zenon DEF WholePayload, JoinFragments
<1>3. [i \in 1..Len(a) |-> says(a[i])] \in Seq(Seq(Tokens))
  <2> HIDE DEF says
  <2> QED BY <1>1, <1>2
<1>4. FlattenSeq([i \in 1..Len(a) |-> says(a[i])]) \in Seq(Tokens)
  <2> HIDE DEF says
  <2> QED BY <1>3, FlattenType
<1> QED BY <1>1, <1>4, Zenon DEF DeltaContent

\* The gate of a running count and the last verdict, against the rule on a whole text.
LEMMA LastVerdict ==
  ASSUME NEW p, p.Min \in Int, p.Max \in Int, p.Max > 0, p.Invert \in BOOLEAN, NEW n \in Int
  PROVE  /\ p.Invert => (BelowOrExcluded(n, p) <=> ~Admitted(n, p))
         /\ ~p.Invert => (Admitted(n, p) <=> p.Min <= n /\ n <= p.Max)
         /\ ~p.Invert => (BelowOrExcluded(n, p) <=> n < p.Min)
  BY DEF BelowOrExcluded, Admitted, InRange

LEMMA WordSSE ==
  ASSUME meta \in MetaType, meta.text \in Seq(STRING), Active(pol.hasResponse, pol.response),
         NEW batch \in Seq(Lines), NEW eos \in BOOLEAN, batch # <<>>, IsSSE(batch),
         NEW t, t = meta.text \o TextOf(batch)
  PROVE  /\ WordOnChunk(pol, meta, batch, eos).act =
              IF \/ ~pol.response.Invert /\ pol.response.Max > 0 /\ Segments(Clean(t), Space) > pol.response.Max
                 \/ eos /\ BelowOrExcluded(Segments(Clean(t), Space), pol.response)
              THEN "cut" ELSE "forward"
         /\ WordOnChunk(pol, meta, batch, eos).meta = [meta EXCEPT !.text = t]
<1> DEFINE p == pol.response
<1>1. TextOf(batch) \in Seq(STRING)
  BY TextIs
<1>2. t \in Seq(STRING)
  BY <1>1
<1>3. countWords(t) = Segments(Clean(t), Space)
  BY <1>2, CountIs
<1>4. [meta EXCEPT !.text = t].text = t
  BY DEF MetaType
<1>5. WordOnChunk(pol, meta, batch, eos) = WordOnSSEChunk(p, meta, batch, eos)
  BY Zenon DEF WordOnChunk, WordIsSSE
<1>6. WordOnSSEChunk(p, meta, batch, eos)
        = IF \/ ~p.Invert /\ p.Max > 0 /\ countWords(t) > p.Max
             \/ eos /\ BelowOrExcluded(countWords(t), p)
          THEN Cut(WordAssessment(TRUE, p.Show), [meta EXCEPT !.text = t])
          ELSE Forward([meta EXCEPT !.text = t])
  <2> HIDE DEF p
  <2> QED BY <1>4, Zenon DEF WordOnSSEChunk, WithText, WordDelta, TextOf, WordSSEError
<1> QED BY <1>3, <1>5, <1>6 DEF Cut, Forward

LEMMA SentenceSSE ==
  ASSUME meta \in MetaType, meta.text \in Seq(STRING), Active(pol.hasResponse, pol.response),
         NEW batch \in Seq(Lines), NEW eos \in BOOLEAN, batch # <<>>, IsSSE(batch),
         NEW t, t = meta.text \o TextOf(batch)
  PROVE  /\ SentenceOnChunk(pol, meta, batch, eos).act =
              IF \/ ~pol.response.Invert /\ pol.response.Max > 0 /\ SolidSegments(Clean(t), Stop) > pol.response.Max
                 \/ eos /\ BelowOrExcluded(SolidSegments(Clean(t), Stop), pol.response)
              THEN "cut" ELSE "forward"
         /\ SentenceOnChunk(pol, meta, batch, eos).meta = [meta EXCEPT !.text = t]
<1> DEFINE p == pol.response
<1>1. TextOf(batch) \in Seq(STRING)
  BY TextIs
<1>2. t \in Seq(STRING)
  BY <1>1
<1>3. countSentences(t) = SolidSegments(Clean(t), Stop)
  BY <1>2, CountIs
<1>4. [meta EXCEPT !.text = t].text = t
  BY DEF MetaType
<1>5. SentenceOnChunk(pol, meta, batch, eos) = SentenceOnSSEChunk(p, meta, batch, eos)
  BY Zenon DEF SentenceOnChunk, SentenceIsSSE
<1>6. SentenceOnSSEChunk(p, meta, batch, eos)
        = IF \/ ~p.Invert /\ p.Max > 0 /\ countSentences(t) > p.Max
             \/ eos /\ BelowOrExcluded(countSentences(t), p)
          THEN Cut(SentenceAssessment(TRUE, p.Show), [meta EXCEPT !.text = t])
          ELSE Forward([meta EXCEPT !.text = t])
  <2> HIDE DEF p
  <2> QED BY <1>4, Zenon DEF SentenceOnSSEChunk, WithText, SentenceDelta, TextOf, SentenceSSEError
<1> QED BY <1>3, <1>5, <1>6 DEF Cut, Forward

LEMMA LengthSSE ==
  ASSUME meta \in MetaType, Active(pol.hasResponse, pol.response),
         NEW batch \in Seq(Lines), NEW eos \in BOOLEAN, batch # <<>>, IsSSE(batch),
         NEW n, n = meta.running + Len(TextOf(batch)),
         NEW inRange, inRange = (n >= pol.response.Min /\ (pol.response.Max = 0 \/ n <= pol.response.Max))
  PROVE  /\ LengthOnChunk(pol, meta, batch, eos).act =
              IF \/ pol.response.Max > 0 /\ ~pol.response.Invert /\ n > pol.response.Max
                 \/ eos /\ (IF pol.response.Invert THEN inRange ELSE ~inRange)
              THEN "cut" ELSE "forward"
         /\ LengthOnChunk(pol, meta, batch, eos).meta = [meta EXCEPT !.running = n]
<1> DEFINE p == pol.response
<1>4. [meta EXCEPT !.running = n].running = n
  BY DEF MetaType
<1>5. LengthOnChunk(pol, meta, batch, eos) = LengthOnSSEChunk(p, meta, batch, eos)
  BY Zenon DEF LengthOnChunk, LengthIsSSE
<1>6. LengthOnSSEChunk(p, meta, batch, eos)
        = IF \/ p.Max > 0 /\ ~p.Invert /\ n > p.Max
             \/ eos /\ (IF p.Invert THEN inRange ELSE ~inRange)
          THEN Cut(LengthAssessment(TRUE, p.Show), [meta EXCEPT !.running = n])
          ELSE Forward([meta EXCEPT !.running = n])
  <2> HIDE DEF p
  <2> QED BY <1>4, Zenon DEF LengthOnSSEChunk, LengthDelta, TextOf, LengthSSEError, p
<1> QED BY <1>5, <1>6 DEF Cut, Forward

LEMMA UrlSSE ==
  ASSUME Active(pol.hasResponse, pol.response),
         NEW batch, NEW eos \in BOOLEAN, batch # <<>>, IsSSE(batch)
  PROVE  /\ UrlOnChunk(pol, meta, batch, eos).act =
              IF InvalidUrls(TextOf(batch), pol.response) = {} THEN "forward" ELSE "cut"
         /\ UrlOnChunk(pol, meta, batch, eos).meta = meta
<1>1. UrlOnChunk(pol, meta, batch, eos)
        = IF InvalidUrls(TextOf(batch), pol.response) = {} THEN Forward(meta)
          ELSE Cut(UrlAssessment(TRUE, pol.response.Show), meta)
  BY Zenon DEF UrlOnChunk, UrlIsSSE, UrlOnSSEChunk, UrlDelta, TextOf, UrlSSEError
<1> QED BY <1>1 DEF Cut, Forward

LEMMA RegexSSE ==
  ASSUME meta \in MetaType, Active(pol.hasResponse, pol.response),
         NEW batch \in Seq(Lines), NEW eos \in BOOLEAN, batch # <<>>, IsSSE(batch),
         NEW t, t = meta.text \o DeltaContent(batch, pol.response.Stream)
  PROVE  /\ RegexOnChunk(pol, meta, batch, eos).act =
              IF (IF pol.response.Invert THEN Matches(t) ELSE eos /\ t # <<>> /\ ~Matches(t))
              THEN "cut" ELSE "forward"
         /\ RegexOnChunk(pol, meta, batch, eos).meta = [meta EXCEPT !.text = t]
<1> DEFINE p == pol.response
<1>4. [meta EXCEPT !.text = t].text = t
  BY DEF MetaType
<1>5. RegexOnChunk(pol, meta, batch, eos) = RegexOnSSEChunk(p, meta, batch, eos)
  BY Zenon DEF RegexOnChunk, RegexIsSSE
<1>6. RegexOnSSEChunk(p, meta, batch, eos)
        = IF (IF p.Invert THEN Matches(t) ELSE eos /\ t # <<>> /\ ~Matches(t))
          THEN Cut(RegexAssessment(TRUE, p.Show), [meta EXCEPT !.text = t])
          ELSE Forward([meta EXCEPT !.text = t])
  <2> HIDE DEF p
  <2> QED BY <1>4, Zenon DEF RegexOnSSEChunk, RegexDelta, RegexSSEError, p
<1> QED BY <1>5, <1>6 DEF Cut, Forward

LEMMA ShowsSSE ==
  ASSUME NEW batch, IsSSE(batch)
  PROVE  batch # <<>> /\ IsEventStream(batch)
  BY DEF IsSSE, IsEventStream

LEMMA InactiveChunk ==
  ASSUME Gated, NEW batch, NEW eos, ~Active(pol.hasResponse, pol.response) \/ batch = <<>>
  PROVE  OnResponseBodyChunk(batch, eos).act = "forward" /\ OnResponseBodyChunk(batch, eos).meta = meta
<1>1. OnResponseBodyChunk(batch, eos) = Forward(meta)
  <2>1. CASE kind = "word"
    BY <2>1, Zenon DEF OnResponseBodyChunk, WordOnChunk
  <2>2. CASE kind = "sentence"
    BY <2>2 DEF OnResponseBodyChunk, SentenceOnChunk
  <2>3. CASE kind = "length"
    BY <2>3 DEF OnResponseBodyChunk, LengthOnChunk
  <2>4. CASE kind = "url"
    BY <2>4 DEF OnResponseBodyChunk, UrlOnChunk
  <2>5. CASE kind = "regex"
    BY <2>5 DEF OnResponseBodyChunk, RegexOnChunk
  <2> QED BY <2>1, <2>2, <2>3, <2>4, <2>5 DEF Gated, Streaming
<1> QED BY <1>1 DEF Forward

LEMMA PlainChunk ==
  ASSUME Gated, meta \in MetaType, Active(pol.hasResponse, pol.response),
         NEW batch \in Seq(Lines), NEW eos \in BOOLEAN, batch # <<>>, ~IsSSE(batch)
  PROVE  /\ OnResponseBodyChunk(batch, eos).act \in {"forward", "cut"}
         /\ OnResponseBodyChunk(batch, eos).meta = [meta EXCEPT !.json = @ \o batch]
         /\ ~eos => OnResponseBodyChunk(batch, eos).act = "forward"
         /\ eos /\ AllBlank(meta.json \o batch) =>
              /\ kind = "word" => OnResponseBodyChunk(batch, eos).act =
                   IF BelowOrExcluded(countWords(meta.text), pol.response) THEN "cut" ELSE "forward"
              /\ kind = "sentence" => OnResponseBodyChunk(batch, eos).act =
                   IF BelowOrExcluded(countSentences(meta.text), pol.response) THEN "cut" ELSE "forward"
<1> DEFINE m == [meta EXCEPT !.json = @ \o batch]
           p == pol.response
           out == OnResponseBodyChunk(batch, eos)
<1>1. m.json = meta.json \o batch /\ m.text = meta.text
  BY DEF MetaType
<1>2. \A a : /\ Forward(m).act = "forward" /\ Forward(m).meta = m
             /\ Cut(a, m).act = "cut" /\ Cut(a, m).meta = m
  BY DEF Forward, Cut
<1> HIDE DEF m, p
<1>3. CASE kind = "word"
  <2>1. out = WordOnPlainChunk(p, meta, batch, eos)
    BY <1>3 DEF OnResponseBodyChunk, WordOnChunk, WordIsSSE, p
  <2>2. ~eos => out = Forward(m)
    BY <2>1 DEF WordOnPlainChunk, WithJson, m
  <2>3. eos /\ AllBlank(m.json) =>
          out = IF BelowOrExcluded(countWords(m.text), p) THEN Cut(WordAssessment(TRUE, p.Show), m) ELSE Forward(m)
    BY <2>1, Zenon DEF WordOnPlainChunk, WithJson, WordSSEError, m
  <2>4. eos /\ ~AllBlank(m.json) => out = Forward(m) \/ \E a : out = Cut(a, m)
    BY <2>1, Zenon DEF WordOnPlainChunk, WithJson, m
  <2> QED BY <1>1, <1>2, <1>3, <2>2, <2>3, <2>4 DEF m, p
<1>4. CASE kind = "sentence"
  <2>1. out = SentenceOnPlainChunk(p, meta, batch, eos)
    BY <1>4 DEF OnResponseBodyChunk, SentenceOnChunk, SentenceIsSSE, p
  <2>2. ~eos => out = Forward(m)
    BY <2>1 DEF SentenceOnPlainChunk, WithJson, m
  <2>3. eos /\ AllBlank(m.json) =>
          out = IF BelowOrExcluded(countSentences(m.text), p) THEN Cut(SentenceAssessment(TRUE, p.Show), m) ELSE Forward(m)
    BY <2>1, Zenon DEF SentenceOnPlainChunk, WithJson, SentenceSSEError, m
  <2>4. eos /\ ~AllBlank(m.json) => out = Forward(m) \/ \E a : out = Cut(a, m)
    BY <2>1, Zenon DEF SentenceOnPlainChunk, WithJson, m
  <2> QED BY <1>1, <1>2, <1>4, <2>2, <2>3, <2>4 DEF m, p
<1>5. CASE kind = "length"
  <2>1. out = LengthOnPlainChunk(p, meta, batch, eos)
    BY <1>5 DEF OnResponseBodyChunk, LengthOnChunk, LengthIsSSE, p
  <2>2. ~eos => out = Forward(m)
    BY <2>1, Zenon DEF LengthOnPlainChunk, WithJson, m
  <2>3. out = Forward(m) \/ \E a : out = Cut(a, m)
    BY <2>1, Zenon DEF LengthOnPlainChunk, WithJson, m
  <2> QED BY <1>2, <1>5, <2>2, <2>3 DEF m
<1>6. CASE kind = "url"
  <2>1. out = JudgeAtEnd(UrlValidatePayload(JsonBodyValue(m.json), p, TRUE), m, eos)
    BY <1>6 DEF OnResponseBodyChunk, UrlOnChunk, UrlIsSSE, PatternJson, p, m
  <2>2. ~eos => out = Forward(m)
    BY <2>1, Zenon DEF JudgeAtEnd
  <2>3. out = Forward(m) \/ \E a : out = Cut(a, m)
    BY <2>1, Zenon DEF JudgeAtEnd
  <2> QED BY <1>2, <1>6, <2>2, <2>3 DEF m
<1>7. CASE kind = "regex"
  <2>1. out = JudgeAtEnd(RegexValidatePayload(FALSE, JsonBodyValue(m.json), p, TRUE), m, eos)
    BY <1>7 DEF OnResponseBodyChunk, RegexOnChunk, RegexIsSSE, PatternJson, p, m
  <2>2. ~eos => out = Forward(m)
    BY <2>1, Zenon DEF JudgeAtEnd
  <2>3. out = Forward(m) \/ \E a : out = Cut(a, m)
    BY <2>1, Zenon DEF JudgeAtEnd
  <2> QED BY <1>2, <1>7, <2>2, <2>3 DEF m
<1> QED BY <1>3, <1>4, <1>5, <1>6, <1>7 DEF Gated, Streaming

\* The text a client has once a batch is let go.
Then(batch) == TextOf(delivered) \o TextOf(batch)

LEMMA CountChunk ==
  ASSUME BuiltInv, phase \notin {"config", "rejected"}, kind \in Counting, Watched, meta \in MetaType,
         delivered \in Seq(Lines), Remembered(meta, delivered),
         NEW batch \in Seq(Lines), NEW eos \in BOOLEAN, IsSSE(batch)
  PROVE  LET p == pol.response
             n == CountOf(Then(batch))
             out == OnResponseBodyChunk(batch, eos)
         IN  /\ out.act = IF (~p.Invert /\ n > p.Max) \/ (eos /\ ~Admitted(n, p)) THEN "cut" ELSE "forward"
             /\ out.meta = [meta EXCEPT !.text = out.meta.text, !.running = out.meta.running]
             /\ out.meta \in MetaType /\ out.meta.json = meta.json
             /\ kind # "length" => out.meta.text = Then(batch)
             /\ kind = "length" => out.meta.running = Len(Then(batch))
<1> DEFINE p == pol.response
           t == Then(batch)
           out == OnResponseBodyChunk(batch, eos)
<1>1. /\ p.Min \in Int /\ p.Max \in Int /\ p.Max > 0 /\ p.Min <= p.Max /\ p.Invert \in BOOLEAN
      /\ Active(pol.hasResponse, p)
  BY RangeParsed DEF Watched
<1>2. /\ TextOf(delivered) \in Seq(STRING) /\ TextOf(batch) \in Seq(STRING) /\ t \in Seq(STRING)
      /\ Len(t) = Len(TextOf(delivered)) + Len(TextOf(batch)) /\ batch # <<>>
      /\ t \in Seq(Tokens) /\ Len(t) \in Nat
  <2>1. TextOf(delivered) \in Seq(STRING) /\ TextOf(batch) \in Seq(STRING)
    BY TextIs
  <2>2. t \in Seq(STRING) /\ Len(t) = Len(TextOf(delivered)) + Len(TextOf(batch)) /\ Len(t) \in Nat
    BY <2>1 DEF Then
  <2>3. t \in Seq(Tokens)
    <3>1. STRING \subseteq Tokens
      BY DEF Tokens
    <3> HIDE DEF t
    <3> QED BY <2>2, <3>1, Widen, Zenon
  <2> QED BY <2>1, <2>2, <2>3, ShowsSSE
<1>3. CountOf(t) \in Int
  <2>1. <<>> \in Seq(STRING)
    OBVIOUS
  <2>2. CountOf(t) \in Nat
    BY <1>2, <2>1, CountGrows
  <2> QED BY <2>2
<1>4. \/ ~p.Invert /\ p.Max > 0 /\ CountOf(t) > p.Max
      \/ eos /\ BelowOrExcluded(CountOf(t), p)
      <=> (~p.Invert /\ CountOf(t) > p.Max) \/ (eos /\ ~Admitted(CountOf(t), p))
  <2> HIDE DEF p, t
  <2> QED BY <1>1, <1>3, LastVerdict
<1>5. \A x \in Seq(Tokens) : /\ [meta EXCEPT !.text = x] \in MetaType
                             /\ [meta EXCEPT !.text = x].json = meta.json
                             /\ [meta EXCEPT !.text = x].text = x
                             /\ [meta EXCEPT !.text = x].running = meta.running
  BY DEF MetaType
<1>6. \A x \in Nat : /\ [meta EXCEPT !.running = x] \in MetaType
                     /\ [meta EXCEPT !.running = x].json = meta.json
                     /\ [meta EXCEPT !.running = x].running = x
                     /\ [meta EXCEPT !.running = x].text = meta.text
  BY DEF MetaType
<1>7. CASE kind = "word"
  <2>1. meta.text = TextOf(delivered)
    BY <1>7 DEF Remembered, Reads
  <2>2. out = WordOnChunk(pol, meta, batch, eos) /\ CountOf(t) = Segments(Clean(t), Space)
    BY <1>7 DEF OnResponseBodyChunk, CountOf
  <2>3. meta.text \in Seq(STRING) /\ t = meta.text \o TextOf(batch) /\ batch # <<>>
    BY <1>2, <2>1 DEF Then
  <2> HIDE DEF t
  <2>4. /\ WordOnChunk(pol, meta, batch, eos).act =
             IF \/ ~pol.response.Invert /\ pol.response.Max > 0 /\ Segments(Clean(t), Space) > pol.response.Max
                \/ eos /\ BelowOrExcluded(Segments(Clean(t), Space), pol.response)
             THEN "cut" ELSE "forward"
        /\ WordOnChunk(pol, meta, batch, eos).meta = [meta EXCEPT !.text = t]
    BY <1>1, <2>3, WordSSE
  <2>5. out.act = IF (~p.Invert /\ CountOf(t) > p.Max) \/ (eos /\ ~Admitted(CountOf(t), p))
                  THEN "cut" ELSE "forward"
    BY <1>4, <2>2, <2>4
  <2>6. out.meta = [meta EXCEPT !.text = t]
    BY <2>2, <2>4
  <2> HIDE DEF p, out
  <2>7. out.meta = [meta EXCEPT !.text = out.meta.text, !.running = out.meta.running]
    BY <1>2, <1>5, <2>6 DEF MetaType
  <2> QED BY <1>2, <1>5, <1>7, <2>5, <2>6, <2>7 DEF p, t, out
<1>8. CASE kind = "sentence"
  <2>1. meta.text = TextOf(delivered)
    BY <1>8 DEF Remembered, Reads
  <2>2. out = SentenceOnChunk(pol, meta, batch, eos) /\ CountOf(t) = SolidSegments(Clean(t), Stop)
    BY <1>8 DEF OnResponseBodyChunk, CountOf
  <2>3. meta.text \in Seq(STRING) /\ t = meta.text \o TextOf(batch) /\ batch # <<>>
    BY <1>2, <2>1 DEF Then
  <2> HIDE DEF t
  <2>4. /\ SentenceOnChunk(pol, meta, batch, eos).act =
             IF \/ ~pol.response.Invert /\ pol.response.Max > 0 /\ SolidSegments(Clean(t), Stop) > pol.response.Max
                \/ eos /\ BelowOrExcluded(SolidSegments(Clean(t), Stop), pol.response)
             THEN "cut" ELSE "forward"
        /\ SentenceOnChunk(pol, meta, batch, eos).meta = [meta EXCEPT !.text = t]
    BY <1>1, <2>3, SentenceSSE
  <2>5. out.act = IF (~p.Invert /\ CountOf(t) > p.Max) \/ (eos /\ ~Admitted(CountOf(t), p))
                  THEN "cut" ELSE "forward"
    BY <1>4, <2>2, <2>4
  <2>6. out.meta = [meta EXCEPT !.text = t]
    BY <2>2, <2>4
  <2> HIDE DEF p, out
  <2>7. out.meta = [meta EXCEPT !.text = out.meta.text, !.running = out.meta.running]
    BY <1>2, <1>5, <2>6 DEF MetaType
  <2> QED BY <1>2, <1>5, <1>8, <2>5, <2>6, <2>7 DEF p, t, out
<1>9. CASE kind = "length"
  <2>1. meta.running + Len(TextOf(batch)) = Len(t)
    BY <1>2, <1>9 DEF Remembered
  <2>2. out = LengthOnChunk(pol, meta, batch, eos) /\ CountOf(t) = Len(t)
    BY <1>9 DEF OnResponseBodyChunk, CountOf
  <2> DEFINE inRange == Len(t) >= p.Min /\ (p.Max = 0 \/ Len(t) <= p.Max)
  <2>3. /\ LengthOnChunk(pol, meta, batch, eos).act =
             IF \/ pol.response.Max > 0 /\ ~pol.response.Invert /\ Len(t) > pol.response.Max
                \/ eos /\ (IF pol.response.Invert THEN inRange ELSE ~inRange)
             THEN "cut" ELSE "forward"
        /\ LengthOnChunk(pol, meta, batch, eos).meta = [meta EXCEPT !.running = Len(t)]
    <3> HIDE DEF t
    <3>1. batch # <<>> /\ Len(t) = meta.running + Len(TextOf(batch))
      BY <1>2, <2>1
    <3> HIDE DEF inRange
    <3> QED BY <1>1, <3>1, LengthSSE DEF inRange
  <2>4. Admitted(Len(t), p) <=>
          IF p.Invert THEN ~(Len(t) >= p.Min /\ (p.Max = 0 \/ Len(t) <= p.Max))
          ELSE Len(t) >= p.Min /\ (p.Max = 0 \/ Len(t) <= p.Max)
    BY <1>1, <1>2 DEF Admitted, InRange
  <2> QED BY <1>1, <1>2, <1>6, <1>9, <2>2, <2>3, <2>4 DEF p, t, out
<1> QED BY <1>7, <1>8, <1>9 DEF Counting

\* A state in which a batch comes to a response flow that is at work.
Judging ==
  /\ BuiltInv /\ phase \notin {"config", "rejected"} /\ Gated /\ Watched
  /\ meta \in MetaType /\ delivered \in Seq(Lines) /\ Summed(meta, delivered)

LEMMA ThenIs ==
  ASSUME delivered \in Seq(Lines), NEW batch \in Seq(Lines)
  PROVE  /\ TextOf(delivered) \in Seq(STRING) /\ TextOf(batch) \in Seq(STRING)
         /\ Then(batch) \in Seq(STRING) /\ Then(batch) \in Seq(Tokens)
         /\ Then(batch) = TextOf(delivered \o batch)
         /\ Len(Then(batch)) = Len(TextOf(delivered)) + Len(TextOf(batch))
         /\ TextOf(batch) = <<>> => Then(batch) = TextOf(delivered)
         /\ TextOf(delivered) = <<>> => Then(batch) = TextOf(batch)
<1>1. TextOf(delivered) \in Seq(STRING) /\ TextOf(batch) \in Seq(STRING)
  BY TextIs
<1>2. /\ Then(batch) \in Seq(STRING)
      /\ Len(Then(batch)) = Len(TextOf(delivered)) + Len(TextOf(batch))
      /\ TextOf(batch) = <<>> => Then(batch) = TextOf(delivered)
      /\ TextOf(delivered) = <<>> => Then(batch) = TextOf(batch)
  BY <1>1 DEF Then
<1>3. Then(batch) = TextOf(delivered \o batch)
  BY TextConcat DEF Then
<1>4. STRING \subseteq Tokens
  BY Zenon DEF Tokens
<1>5. Then(batch) \in Seq(Tokens)
  BY <1>2, <1>4, Widen, Zenon
<1> QED BY <1>1, <1>2, <1>3, <1>5

LEMMA MetaWith ==
  ASSUME meta \in MetaType
  PROVE  /\ \A x \in Seq(Tokens) : /\ [meta EXCEPT !.text = x] \in MetaType
                                   /\ [meta EXCEPT !.text = x].text = x
                                   /\ [meta EXCEPT !.text = x].json = meta.json
         /\ \A x \in Seq(Lines) : /\ [meta EXCEPT !.json = @ \o x] \in MetaType
                                  /\ [meta EXCEPT !.json = @ \o x].text = meta.text
                                  /\ [meta EXCEPT !.json = @ \o x].running = meta.running
                                  /\ [meta EXCEPT !.json = @ \o x].json = meta.json \o x
<1>1. ASSUME NEW x \in Seq(Lines)
      PROVE  /\ [meta EXCEPT !.json = @ \o x] \in MetaType
             /\ [meta EXCEPT !.json = @ \o x].text = meta.text
             /\ [meta EXCEPT !.json = @ \o x].running = meta.running
             /\ [meta EXCEPT !.json = @ \o x].json = meta.json \o x
  <2>1. meta.json \o x \in Seq(Lines)
    BY DEF MetaType
  <2> QED BY <2>1 DEF MetaType
<1>2. ASSUME NEW x \in Seq(Tokens)
      PROVE  /\ [meta EXCEPT !.text = x] \in MetaType
             /\ [meta EXCEPT !.text = x].text = x
             /\ [meta EXCEPT !.text = x].json = meta.json
  BY DEF MetaType
<1> QED BY <1>1, <1>2

LEMMA UrlChunk ==
  ASSUME Judging, kind = "url", NEW batch \in Seq(Lines), NEW eos \in BOOLEAN, IsSSE(batch)
  PROVE  /\ OnResponseBodyChunk(batch, eos).act =
              IF InvalidUrls(TextOf(batch), pol.response) = {} THEN "forward" ELSE "cut"
         /\ OnResponseBodyChunk(batch, eos).meta = meta
<1>1. OnResponseBodyChunk(batch, eos) = UrlOnChunk(pol, meta, batch, eos)
  BY DEF OnResponseBodyChunk, Judging
<1>2. Active(pol.hasResponse, pol.response) /\ batch # <<>>
  BY ShowsSSE DEF Judging, Watched
<1> QED BY <1>1, <1>2, UrlSSE

LEMMA RegexChunk ==
  ASSUME Judging, kind = "regex", NEW batch \in Seq(Lines), NEW eos \in BOOLEAN, IsSSE(batch)
  PROVE  /\ OnResponseBodyChunk(batch, eos).act \in {"forward", "cut"}
         /\ OnResponseBodyChunk(batch, eos).meta \in MetaType
         /\ OnResponseBodyChunk(batch, eos).meta.json = meta.json
         /\ Reads =>
              /\ OnResponseBodyChunk(batch, eos).meta.text = Then(batch)
              /\ OnResponseBodyChunk(batch, eos).act =
                   IF (IF pol.response.Invert THEN Matches(Then(batch))
                       ELSE eos /\ Then(batch) # <<>> /\ ~Matches(Then(batch)))
                   THEN "cut" ELSE "forward"
<1> DEFINE out == OnResponseBodyChunk(batch, eos)
           t == meta.text \o DeltaContent(batch, pol.response.Stream)
<1>1. out = RegexOnChunk(pol, meta, batch, eos)
  BY DEF OnResponseBodyChunk, Judging
<1>2. Active(pol.hasResponse, pol.response) /\ batch # <<>> /\ meta \in MetaType
  BY ShowsSSE DEF Judging, Watched
<1>3. t \in Seq(Tokens)
  <2>1. DeltaContent(batch, pol.response.Stream) \in Seq(Tokens)
    BY DeltaType
  <2>2. meta.text \in Seq(Tokens)
    BY <1>2 DEF MetaType
  <2> QED BY <2>1, <2>2
<1>4. Reads => t = Then(batch)
  <2>1. Reads => meta.text = TextOf(delivered)
    BY DEF Judging, Summed, Remembered
  <2>2. Reads => DeltaContent(batch, pol.response.Stream) = TextOf(batch)
    BY DEF Judging, Reads, TextOf
  <2> QED BY <2>1, <2>2 DEF Then
<1> HIDE DEF t
<1>5. /\ RegexOnChunk(pol, meta, batch, eos).act =
           IF (IF pol.response.Invert THEN Matches(t) ELSE eos /\ t # <<>> /\ ~Matches(t))
           THEN "cut" ELSE "forward"
      /\ RegexOnChunk(pol, meta, batch, eos).meta = [meta EXCEPT !.text = t]
  BY <1>2, RegexSSE DEF t
<1>6. out.meta = [meta EXCEPT !.text = t] /\ out.act \in {"forward", "cut"}
  BY <1>1, <1>5
<1>7. out.meta \in MetaType /\ out.meta.json = meta.json /\ out.meta.text = t
  BY <1>2, <1>3, <1>6, MetaWith
<1> QED BY <1>1, <1>4, <1>5, <1>6, <1>7

\* What every policy leaves in the metadata, whether it lets the batch go or not.
LEMMA ChunkMeta ==
  ASSUME Judging, NEW batch \in Seq(Lines), NEW eos \in BOOLEAN, IsSSE(batch) <=> IsEventStream(batch)
  PROVE  /\ OnResponseBodyChunk(batch, eos).act \in {"forward", "cut"}
         /\ OnResponseBodyChunk(batch, eos).meta \in MetaType
         /\ OnResponseBodyChunk(batch, eos).meta.json =
              IF batch = <<>> \/ IsSSE(batch) THEN meta.json ELSE meta.json \o batch
         /\ Remembered(OnResponseBodyChunk(batch, eos).meta, delivered \o batch)
         /\ OnResponseBodyChunk(batch, eos).act = "cut" /\ ~eos => IsSSE(batch)
<1> DEFINE out == OnResponseBodyChunk(batch, eos)
<1>1. /\ BuiltInv /\ phase \notin {"config", "rejected"} /\ Gated /\ Watched /\ meta \in MetaType
      /\ delivered \in Seq(Lines) /\ Remembered(meta, delivered) /\ Active(pol.hasResponse, pol.response)
  BY DEF Judging, Summed, Watched
<1>2. Then(batch) = TextOf(delivered \o batch)
  BY <1>1, ThenIs
<1>3. ASSUME ~IsSSE(batch) PROVE Then(batch) = TextOf(delivered)
  <2>1. TextOf(batch) = <<>>
    BY <1>3, NoText
  <2> QED BY <1>1, <2>1, ThenIs
<1>4. CASE batch = <<>>
  <2>1. out.act = "forward" /\ out.meta = meta
    BY <1>1, <1>4, InactiveChunk
  <2>2. ~IsSSE(batch)
    BY <1>4, ShowsSSE
  <2> HIDE DEF out
  <2> QED BY <1>1, <1>2, <1>3, <1>4, <2>1, <2>2 DEF Remembered, out
<1>5. CASE batch # <<>> /\ ~IsSSE(batch)
  <2>1. out.act \in {"forward", "cut"} /\ out.meta = [meta EXCEPT !.json = @ \o batch]
        /\ (~eos => out.act = "forward")
    BY <1>1, <1>5, PlainChunk
  <2>2. out.meta \in MetaType /\ out.meta.text = meta.text /\ out.meta.running = meta.running
        /\ out.meta.json = meta.json \o batch
    BY <1>1, <2>1, MetaWith
  <2> HIDE DEF out
  <2> QED BY <1>1, <1>2, <1>3, <1>5, <2>1, <2>2 DEF Remembered, out
<1>6. CASE IsSSE(batch) /\ kind \in Counting
  <2>1. /\ out.act = IF \/ ~pol.response.Invert /\ CountOf(Then(batch)) > pol.response.Max
                        \/ eos /\ ~Admitted(CountOf(Then(batch)), pol.response)
                     THEN "cut" ELSE "forward"
        /\ out.meta \in MetaType /\ out.meta.json = meta.json
        /\ kind # "length" => out.meta.text = Then(batch)
        /\ kind = "length" => out.meta.running = Len(Then(batch))
    BY <1>1, <1>6, CountChunk
  <2> HIDE DEF out
  <2>2. out.act \in {"forward", "cut"}
    BY <2>1
  <2>3. Remembered(out.meta, delivered \o batch)
    BY <1>2, <1>6, <2>1 DEF Remembered, Reads, Counting
  <2> QED BY <1>6, <2>1, <2>2, <2>3 DEF out
<1>7. CASE IsSSE(batch) /\ kind = "url"
  <2>1. out.act \in {"forward", "cut"} /\ out.meta = meta
    BY <1>7, UrlChunk
  <2>2. Remembered(out.meta, delivered \o batch)
    BY <1>7 DEF Remembered, Reads
  <2> QED BY <1>1, <1>7, <2>1, <2>2
<1>8. CASE IsSSE(batch) /\ kind = "regex"
  <2>1. /\ out.act \in {"forward", "cut"} /\ out.meta \in MetaType /\ out.meta.json = meta.json
        /\ Reads => out.meta.text = Then(batch)
    BY <1>8, RegexChunk
  <2>2. Remembered(out.meta, delivered \o batch)
    BY <1>2, <1>8, <2>1 DEF Remembered
  <2> QED BY <1>8, <2>1, <2>2
<1> QED BY <1>1, <1>4, <1>5, <1>6, <1>7, <1>8 DEF Gated, Streaming, Counting

LEMMA NeedsMoreIs ==
  ASSUME Gated, NEW batch \in Seq(Lines), IsSSE(batch) <=> IsEventStream(batch),
         NeedsMoreResponseData(batch)
  PROVE  IsSSE(batch) /\ ~HasDone(batch)
<1>1. CASE kind = "word"
  BY <1>1 DEF NeedsMoreResponseData, WordNeedsMore, WordIsSSE
<1>2. CASE kind = "sentence"
  BY <1>2 DEF NeedsMoreResponseData, SentenceNeedsMore, SentenceIsSSE
<1>3. CASE kind = "length"
  BY <1>3 DEF NeedsMoreResponseData, LengthNeedsMore, LengthIsSSE
<1>4. CASE kind = "url"
  <2>1. ~HasDone(batch) /\ TextOf(batch) # <<>>
    BY <1>4, Zenon DEF NeedsMoreResponseData, UrlNeedsMore, UrlDelta, TextOf
  <2> QED BY <2>1, NoText
<1>5. CASE kind = "regex"
  BY <1>5 DEF NeedsMoreResponseData, RegexNeedsMore
<1> QED BY <1>1, <1>2, <1>3, <1>4, <1>5 DEF Gated, Streaming

LEMMA JoinLines ==
  ASSUME NEW a \in Seq(Lines), NEW b \in Seq(Lines)
  PROVE  /\ \A i \in DOMAIN a : i \in DOMAIN (a \o b) /\ (a \o b)[i] = a[i]
         /\ \A i \in DOMAIN b : Len(a) + i \in DOMAIN (a \o b) /\ (a \o b)[Len(a) + i] = b[i]
         /\ \A k \in DOMAIN (a \o b) : \/ k \in DOMAIN a /\ (a \o b)[k] = a[k]
                                       \/ k - Len(a) \in DOMAIN b /\ (a \o b)[k] = b[k - Len(a)]
  OBVIOUS

LEMMA DoneJoins ==
  ASSUME NEW a \in Seq(Lines), NEW b \in Seq(Lines)
  PROVE  HasDone(a \o b) <=> HasDone(a) \/ HasDone(b)
<1> DEFINE c == a \o b
<1>1. /\ \A i \in DOMAIN a : i \in DOMAIN c /\ c[i] = a[i]
      /\ \A i \in DOMAIN b : Len(a) + i \in DOMAIN c /\ c[Len(a) + i] = b[i]
      /\ \A k \in DOMAIN c : \/ k \in DOMAIN a /\ c[k] = a[k]
                             \/ k - Len(a) \in DOMAIN b /\ c[k] = b[k - Len(a)]
  BY JoinLines
<1> HIDE DEF c
<1>2. HasDone(a) => HasDone(c)
  BY <1>1 DEF HasDone
<1>3. HasDone(b) => HasDone(c)
  BY <1>1 DEF HasDone
<1>4. HasDone(c) => HasDone(a) \/ HasDone(b)
  BY <1>1 DEF HasDone
<1> QED BY <1>2, <1>3, <1>4 DEF c

\* The gate of a count opens when the batch has left the undecided range.
LEMMA CountEnough ==
  ASSUME Judging, kind \in Counting, NEW batch \in Seq(Lines), IsSSE(batch),
         ~NeedsMoreResponseData(batch)
  PROVE  \/ HasDone(batch)
         \/ IF pol.response.Invert THEN CountOf(TextOf(batch)) > pol.response.Max
            ELSE pol.response.Min <= CountOf(TextOf(batch))
<1> DEFINE p == pol.response
           c == CountOf(TextOf(batch))
<1>1. p.Min \in Int /\ p.Max \in Int /\ p.Invert \in BOOLEAN /\ Active(pol.hasResponse, p)
  BY RangeParsed DEF Judging, Watched
<1>2. TextOf(batch) \in Seq(STRING) /\ c \in Nat
  <2>1. TextOf(batch) \in Seq(STRING) /\ <<>> \in Seq(STRING)
    BY TextIs
  <2> QED BY <2>1, CountGrows
<1>3. HasDone(batch) \/ ~(IF p.Invert THEN c <= p.Max ELSE p.Min > 0 /\ c < p.Min)
  <2>1. CASE kind = "word"
    <3>1. countWords(WordDelta(batch)) = c
      BY <1>2, <2>1, CountIs, Zenon DEF WordDelta, TextOf, CountOf
    <3> HIDE DEF c
    <3> QED BY <1>1, <2>1, <3>1 DEF NeedsMoreResponseData, WordNeedsMore, WordIsSSE
  <2>2. CASE kind = "sentence"
    <3>1. countSentences(SentenceDelta(batch)) = c
      <4>1. countSentences(TextOf(batch)) = SolidSegments(Clean(TextOf(batch)), Stop)
        BY <1>2, CountIs
      <4>2. c = SolidSegments(Clean(TextOf(batch)), Stop)
        BY <2>2 DEF CountOf
      <4> QED BY <4>1, <4>2, Zenon DEF SentenceDelta, TextOf
    <3> HIDE DEF c
    <3> QED BY <1>1, <2>2, <3>1 DEF NeedsMoreResponseData, SentenceNeedsMore, SentenceIsSSE
  <2>3. CASE kind = "length"
    <3>1. Len(LengthDelta(batch)) = c
      BY <2>3 DEF LengthDelta, TextOf, CountOf
    <3> HIDE DEF c
    <3> QED BY <1>1, <2>3, <3>1 DEF NeedsMoreResponseData, LengthNeedsMore, LengthIsSSE
  <2> QED BY <2>1, <2>2, <2>3 DEF Counting
<1>4. CASE ~HasDone(batch) /\ p.Invert
  <2>1. ~(c <= p.Max)
    BY <1>3, <1>4
  <2> HIDE DEF c, p
  <2>2. c > p.Max
    BY <1>1, <1>2, <2>1
  <2> QED BY <1>4, <2>2 DEF c, p
<1>5. CASE ~HasDone(batch) /\ ~p.Invert
  <2>1. ~(p.Min > 0 /\ c < p.Min)
    BY <1>3, <1>5
  <2> HIDE DEF c, p
  <2>2. p.Min <= c
    BY <1>1, <1>2, <2>1
  <2> QED BY <1>5, <2>2 DEF c, p
<1> QED BY <1>1, <1>4, <1>5

\* What a counting policy lets go while the stream runs.
LEMMA CountLetGo ==
  ASSUME Judging, kind \in Counting, NEW batch \in Seq(Lines), IsSSE(batch),
         ~NeedsMoreResponseData(batch), OnResponseBodyChunk(batch, FALSE).act = "forward"
  PROVE  Bounded(delivered \o batch)
<1> DEFINE p == pol.response
           t == TextOf(delivered)
           u == TextOf(batch)
           v == TextOf(delivered \o batch)
<1>1. /\ BuiltInv /\ phase \notin {"config", "rejected"} /\ Watched /\ meta \in MetaType
      /\ delivered \in Seq(Lines) /\ Remembered(meta, delivered) /\ Bounded(delivered)
  BY DEF Judging, Summed
<1>2. p.Min \in Int /\ p.Max \in Int /\ p.Invert \in BOOLEAN
  BY <1>1, RangeParsed DEF Watched
<1>3. /\ t \in Seq(STRING) /\ u \in Seq(STRING) /\ v = t \o u /\ v = Then(batch)
      /\ t = <<>> => v = u
  BY <1>1, ThenIs DEF Then
<1> HIDE DEF t, u, v
<1>4. CountOf(t) \in Nat /\ CountOf(v) \in Nat /\ CountOf(t) <= CountOf(v)
  BY <1>3, CountGrows
<1>5. ~(~p.Invert /\ CountOf(v) > p.Max)
  <2>1. /\ OnResponseBodyChunk(batch, FALSE).act =
             IF \/ ~p.Invert /\ CountOf(Then(batch)) > p.Max
                \/ FALSE /\ ~Admitted(CountOf(Then(batch)), p)
             THEN "cut" ELSE "forward"
    BY <1>1, CountChunk
  <2> QED BY <1>3, <2>1
<1>6. ~p.Invert => CountOf(v) <= p.Max
  <2> HIDE DEF p
  <2> QED BY <1>2, <1>4, <1>5
<1>7. v = <<>> \/ HasDone(delivered \o batch) \/ IF p.Invert THEN CountOf(v) > p.Max ELSE p.Min <= CountOf(v)
  <2>1. CASE t = <<>>
    <3>1. HasDone(batch) \/ IF p.Invert THEN CountOf(u) > p.Max ELSE p.Min <= CountOf(u)
      BY CountEnough DEF u
    <3>2. HasDone(batch) => HasDone(delivered \o batch)
      BY <1>1, DoneJoins
    <3> QED BY <1>3, <2>1, <3>1, <3>2
  <2>2. CASE t # <<>>
    <3>1. HasDone(delivered) \/ IF p.Invert THEN CountOf(t) > p.Max ELSE p.Min <= CountOf(t)
      BY <1>1, <2>2 DEF Bounded, t
    <3>2. HasDone(delivered) => HasDone(delivered \o batch)
      BY <1>1, DoneJoins
    <3>3. (CountOf(t) > p.Max => CountOf(v) > p.Max) /\ (p.Min <= CountOf(t) => p.Min <= CountOf(v))
      <4> HIDE DEF p
      <4> QED BY <1>2, <1>4
    <3> QED BY <1>2, <3>1, <3>2, <3>3
  <2> QED BY <2>1, <2>2
<1> QED BY <1>6, <1>7 DEF Bounded, v

\* Nothing of an event stream follows [DONE].
LEMMA DoneEnds ==
  ASSUME NEW a \in Seq(Lines), NEW b \in Seq(Lines), WellFormed(a \o b), HasDone(a)
  PROVE  ~IsEventStream(b)
<1> DEFINE c == a \o b
<1>1. /\ \A i \in DOMAIN a : i \in DOMAIN c /\ c[i] = a[i]
      /\ \A i \in DOMAIN b : Len(a) + i \in DOMAIN c /\ c[Len(a) + i] = b[i]
  BY JoinLines
<1>2. Len(a) \in Nat /\ DOMAIN a = 1..Len(a) /\ DOMAIN b = 1..Len(b) /\ Len(b) \in Nat
  OBVIOUS
<1>3. \A i, j \in DOMAIN c : i < j /\ c[i].l \in {"done", "jsonend"} => c[j].l = "blank"
  BY DEF WellFormed
<1> HIDE DEF c
<1>4. PICK i \in DOMAIN a : a[i].l = "done"
  BY DEF HasDone
<1>5. ASSUME NEW j \in DOMAIN b PROVE b[j].l = "blank"
  <2>1. i \in DOMAIN c /\ Len(a) + j \in DOMAIN c /\ c[i].l = "done" /\ c[Len(a) + j] = b[j]
    BY <1>1, <1>4
  <2>2. i < Len(a) + j
    BY <1>2
  <2> QED BY <1>3, <2>1, <2>2
<1> QED BY <1>5 DEF IsEventStream, SSELines

\* The gate keeps a URL in one batch if its protocol name is not divided, and then the verdict
\* on the batch is the one on the text.
LEMMA UrlBatch ==
  ASSUME Judging, kind = "url", NEW batch \in Seq(Lines), IsSSE(batch), WellFormed(delivered \o batch)
  PROVE  /\ Visible(delivered \o batch) =>
              (InvalidUrls(Then(batch), pol.response) = {} <=> InvalidUrls(TextOf(batch), pol.response) = {})
         /\ ~NeedsMoreResponseData(batch) =>
              \/ Halved(delivered \o batch) \/ HasDone(delivered \o batch)
              \/ ~IncompleteUrlAtEnd(Then(batch))
<1> DEFINE t == TextOf(delivered)
           u == TextOf(batch)
           v == Then(batch)
           p == pol.response
           d == delivered \o batch
<1>1. delivered \in Seq(Lines) /\ UrlsWhole(delivered) /\ Active(pol.hasResponse, p)
  BY DEF Judging, Summed, Watched
<1>2. t \in Seq(STRING) /\ u \in Seq(STRING) /\ v = t \o u /\ (u = <<>> => v = t)
  BY <1>1, ThenIs DEF Then
<1>3. ~HasDone(delivered)
  <2>1. IsEventStream(batch)
    BY ShowsSSE
  <2> QED BY <1>1, <2>1, DoneEnds
<1>4. ~Halved(d) => /\ ~IncompleteUrlAtEnd(t) /\ (~Glued(t) => InvalidUrls(t, p) = {})
                    /\ ~Halves(t, u)
  <2>1. ~Halved(d) => ~Halved(delivered) /\ ~Halves(t, u)
    BY <1>1, HalvedJoins
  <2> QED BY <1>1, <1>3, <2>1 DEF UrlsWhole, Visible
<1>7. TextOf(d) = v
  BY <1>1, ThenIs
<1> HIDE DEF t, u, v, d
<1>5. ASSUME Visible(d) PROVE InvalidUrls(v, p) = {} <=> InvalidUrls(u, p) = {}
  <2>0. ~Glued(v) /\ ~Halved(d)
    BY <1>5, <1>7 DEF Visible
  <2>1. ~Glued(t)
    BY <1>2, <2>0, GluedBegins
  <2>2. InvalidUrls(v, p) = InvalidUrls(t, p) \cup InvalidUrls(u, p)
    BY <1>2, <1>4, <2>0, InvalidConcat
  <2> QED BY <1>4, <2>0, <2>1, <2>2
<1>6. ASSUME ~NeedsMoreResponseData(batch), ~Halved(d) PROVE HasDone(d) \/ ~IncompleteUrlAtEnd(v)
  <2>1. HasDone(batch) \/ u = <<>> \/ ~IncompleteUrlAtEnd(u)
    <3>1. ~UrlNeedsMore(pol, batch)
      BY <1>6 DEF NeedsMoreResponseData, Judging
    <3> QED BY <1>1, <3>1, Zenon DEF UrlNeedsMore, UrlDelta, TextOf, u, p
  <2>2. HasDone(batch) => HasDone(d)
    BY <1>1, DoneJoins DEF d
  <2>3. u = <<>> => ~IncompleteUrlAtEnd(v)
    BY <1>2, <1>4, <1>6
  <2>4. ~IncompleteUrlAtEnd(u) => ~IncompleteUrlAtEnd(v)
    BY <1>2, <1>4, <1>6, CompleteConcat
  <2> QED BY <2>1, <2>2, <2>3, <2>4
<1> QED BY <1>5, <1>6 DEF u, v, d

\* What the client has after a batch that was let go: the sums hold of it while the stream
\* runs, and at its end nothing forbidden is in it.
LEMMA LetGo ==
  ASSUME Judging, NEW batch \in Seq(Lines), IsSSE(batch) <=> IsEventStream(batch), NEW eos \in BOOLEAN,
         WellFormed(delivered \o batch), OnResponseBodyChunk(batch, eos).act = "forward",
         ~eos => ~NeedsMoreResponseData(batch)
  PROVE  /\ kind = "url" /\ Visible(delivered \o batch) =>
              InvalidUrls(TextOf(delivered \o batch), pol.response) = {}
         /\ Unmatched(delivered \o batch)
         /\ ~eos => Summed(OnResponseBodyChunk(batch, eos).meta, delivered \o batch)
<1> DEFINE d == delivered \o batch
<1>1. /\ delivered \in Seq(Lines) /\ Bounded(delivered) /\ UrlsWhole(delivered) /\ Unmatched(delivered)
      /\ Gated
  BY DEF Judging, Summed
<1>2. TextOf(d) = Then(batch) /\ (TextOf(batch) = <<>> => Then(batch) = TextOf(delivered))
  BY <1>1, ThenIs
<1>3. (HasDone(delivered) => HasDone(d)) /\ (Halved(delivered) => Halved(d))
  BY <1>1, DoneJoins, HalvedJoins
<1>4. Remembered(OnResponseBodyChunk(batch, eos).meta, d)
  BY ChunkMeta
<1> HIDE DEF d
<1>5. CASE ~IsSSE(batch)
  <2>1. TextOf(d) = TextOf(delivered)
    BY <1>2, <1>5, NoText
  <2>2. Bounded(d)
    BY <1>1, <1>3, <2>1 DEF Bounded
  <2>3. UrlsWhole(d)
    BY <1>1, <1>3, <2>1 DEF UrlsWhole, Visible
  <2>4. Unmatched(d)
    BY <1>1, <2>1 DEF Unmatched
  <2> QED BY <1>4, <2>2, <2>3, <2>4 DEF Summed, UrlsWhole, d
<1>6. CASE IsSSE(batch) /\ kind \in Counting
  <2>1. ~eos => Bounded(d)
    <3> SUFFICES ASSUME ~eos PROVE Bounded(d)
      OBVIOUS
    <3>1. eos = FALSE
      OBVIOUS
    <3> QED BY <1>6, <3>1, CountLetGo DEF d
  <2>2. UrlsWhole(d) /\ Unmatched(d) /\ kind # "url"
    BY <1>6 DEF UrlsWhole, Unmatched, Counting
  <2> QED BY <1>4, <2>1, <2>2 DEF Summed, d
<1>7. CASE IsSSE(batch) /\ kind = "url"
  <2>1. InvalidUrls(TextOf(batch), pol.response) = {}
    <3>1. OnResponseBodyChunk(batch, eos).act =
            IF InvalidUrls(TextOf(batch), pol.response) = {} THEN "forward" ELSE "cut"
      BY <1>7, UrlChunk
    <3> QED BY <3>1
  <2>2. /\ Visible(d) => InvalidUrls(Then(batch), pol.response) = {}
        /\ ~NeedsMoreResponseData(batch) =>
             Halved(d) \/ HasDone(d) \/ ~IncompleteUrlAtEnd(Then(batch))
    BY <1>7, <2>1, UrlBatch DEF d
  <2>3. ~eos => UrlsWhole(d)
    BY <1>2, <2>2 DEF UrlsWhole
  <2>4. Bounded(d) /\ Unmatched(d)
    BY <1>7 DEF Bounded, Unmatched, Counting
  <2> QED BY <1>2, <1>4, <2>2, <2>3, <2>4 DEF Summed, d
<1>8. CASE IsSSE(batch) /\ kind = "regex"
  <2>1. Unmatched(d)
    <3> SUFFICES ASSUME pol.response.Invert, Reads PROVE ~Matches(Then(batch))
      BY <1>2 DEF Unmatched
    <3>1. OnResponseBodyChunk(batch, eos).act =
            IF (IF pol.response.Invert THEN Matches(Then(batch))
                ELSE eos /\ Then(batch) # <<>> /\ ~Matches(Then(batch)))
            THEN "cut" ELSE "forward"
      BY <1>8, RegexChunk
    <3> QED BY <3>1
  <2>2. Bounded(d) /\ UrlsWhole(d)
    BY <1>8 DEF Bounded, UrlsWhole, Counting
  <2> QED BY <1>4, <1>8, <2>1, <2>2 DEF Summed, d
<1> QED BY <1>1, <1>5, <1>6, <1>7, <1>8 DEF Gated, Streaming, Counting

\* In an event stream what is not a line of it is white space.
LEMMA RestBlank ==
  ASSUME NEW c \in Seq(Lines), WellFormed(c), IsEventStream(c)
  PROVE  \A i \in DOMAIN c : c[i].l \notin SSELines => c[i].l = "blank"
<1>1. PICK i \in DOMAIN c : c[i].l \in SSELines
  BY DEF IsEventStream
<1>2. ~(\A j \in DOMAIN c : c[j].l \in {"json", "jsonend", "blank"})
  BY <1>1 DEF SSELines
<1>3. \A j \in DOMAIN c : c[j].l \in SSELines \cup {"blank"}
  BY <1>2 DEF WellFormed
<1> QED BY <1>3

\* The verdict on a batch of events against the rule on the whole text.
LEMMA EventVerdict ==
  ASSUME Judging, NEW batch \in Seq(Lines), IsSSE(batch), NEW eos \in BOOLEAN,
         WellFormed(delivered \o batch), Visible(delivered \o batch),
         kind = "regex" => Reads
  PROVE  /\ OnResponseBodyChunk(batch, eos).act = "cut" =>
              /\ ~Acceptable(Then(batch))
              /\ kind \in Counting /\ ~eos => ~pol.response.Invert
         /\ OnResponseBodyChunk(batch, eos).act = "forward" /\ eos
              /\ (kind = "regex" => Then(batch) # <<>>) => Acceptable(Then(batch))
<1> DEFINE p == pol.response
           v == Then(batch)
           out == OnResponseBodyChunk(batch, eos)
<1>1. /\ BuiltInv /\ phase \notin {"config", "rejected"} /\ Gated /\ Watched /\ meta \in MetaType
      /\ delivered \in Seq(Lines) /\ Remembered(meta, delivered) /\ Active(pol.hasResponse, pol.response)
  BY DEF Judging, Summed, Watched
<1>2. CASE kind \in Counting
  <2>1. p.Min \in Int /\ p.Max \in Int /\ p.Invert \in BOOLEAN
    BY <1>1, <1>2, RangeParsed
  <2>2. CountOf(v) \in Int
    <3>1. v \in Seq(STRING) /\ <<>> \in Seq(STRING)
      BY <1>1, ThenIs
    <3>2. CountOf(v) \in Nat
      BY <3>1, CountGrows
    <3> QED BY <3>2
  <2>3. out.act = IF \/ ~p.Invert /\ CountOf(v) > p.Max
                     \/ eos /\ ~Admitted(CountOf(v), p)
                  THEN "cut" ELSE "forward"
    BY <1>1, <1>2, CountChunk
  <2>4. Acceptable(v) <=> Admitted(CountOf(v), p)
    <3>1. CASE kind = "word"
      BY <3>1, Zenon DEF Acceptable, CountOf
    <3>2. CASE kind = "sentence"
      BY <3>2 DEF Acceptable, CountOf
    <3>3. CASE kind = "length"
      BY <3>3 DEF Acceptable, CountOf
    <3> QED BY <1>2, <3>1, <3>2, <3>3 DEF Counting
  <2> HIDE DEF p, v, out
  <2>5. ~p.Invert /\ CountOf(v) > p.Max => ~Admitted(CountOf(v), p)
    BY <2>1, <2>2 DEF Admitted, InRange
  <2> QED BY <1>2, <2>3, <2>4, <2>5 DEF p, v, out, Counting
<1>3. CASE kind = "url"
  <2>1. out.act = IF InvalidUrls(TextOf(batch), p) = {} THEN "forward" ELSE "cut"
    BY <1>3, UrlChunk
  <2>2. InvalidUrls(v, p) = {} <=> InvalidUrls(TextOf(batch), p) = {}
    BY <1>3, UrlBatch
  <2>3. Acceptable(v) <=> InvalidUrls(v, p) = {}
    BY <1>3 DEF Acceptable
  <2>4. kind \notin Counting
    BY <1>3 DEF Counting
  <2> QED BY <2>1, <2>2, <2>3, <2>4
<1>4. CASE kind = "regex"
  <2>1. out.act = IF (IF p.Invert THEN Matches(v) ELSE eos /\ v # <<>> /\ ~Matches(v))
                  THEN "cut" ELSE "forward"
    BY <1>4, RegexChunk
  <2>2. p.Invert \in BOOLEAN
    BY <1>1, <1>4, RegexParsed
  <2>3. Acceptable(v) <=> (Matches(v) # p.Invert)
    BY <1>4, Zenon DEF Acceptable
  <2>4. (Matches(v) # p.Invert) <=> (IF p.Invert THEN ~Matches(v) ELSE Matches(v))
    <3>1. Matches(v) \in BOOLEAN
      BY DEF Matches, Occurs
    <3> HIDE DEF p, v
    <3>2. CASE p.Invert
      BY <2>2, <3>1, <3>2
    <3>3. CASE ~p.Invert
      BY <2>2, <3>1, <3>3
    <3> QED BY <3>2, <3>3
  <2>5. kind \notin Counting
    BY <1>4 DEF Counting
  <2> HIDE DEF p, v, out
  <2>6. Acceptable(v) <=> (IF p.Invert THEN ~Matches(v) ELSE Matches(v))
    BY <2>3, <2>4
  <2> QED BY <1>4, <2>1, <2>5, <2>6 DEF p, v, out
<1> QED BY <1>1, <1>2, <1>3, <1>4 DEF Gated, Streaming, Counting

\* White space at the end of an event stream is judged by the counts of words and sentences
\* alone, and they count the text the client has.
LEMMA BlankVerdict ==
  ASSUME Judging, kind \in {"word", "sentence"}, NEW batch \in Seq(Lines), batch # <<>>, ~IsSSE(batch),
         AllBlank(meta.json \o batch)
  PROVE  /\ OnResponseBodyChunk(batch, TRUE).act = "cut" => ~Acceptable(TextOf(delivered))
         /\ OnResponseBodyChunk(batch, TRUE).act = "forward" => Acceptable(TextOf(delivered))
<1> DEFINE p == pol.response
           t == TextOf(delivered)
           out == OnResponseBodyChunk(batch, TRUE)
<1>1. /\ BuiltInv /\ phase \notin {"config", "rejected"} /\ Gated /\ Watched /\ meta \in MetaType
      /\ delivered \in Seq(Lines) /\ Active(pol.hasResponse, p) /\ kind \in Counting
      /\ Bounded(delivered)
  BY DEF Judging, Summed, Watched, Counting
<1>2. meta.text = t
  BY DEF Judging, Summed, Remembered, Reads
<1>3. p.Min \in Int /\ p.Max \in Int /\ p.Max > 0 /\ p.Invert \in BOOLEAN
  BY <1>1, RangeParsed
<1>4. t \in Seq(STRING) /\ CountOf(t) \in Int
  <2>1. t \in Seq(STRING) /\ <<>> \in Seq(STRING)
    BY <1>1, TextIs
  <2>2. CountOf(t) \in Nat
    BY <2>1, CountGrows
  <2> QED BY <2>1, <2>2
<1>5. ~p.Invert => CountOf(t) <= p.Max
  BY <1>1 DEF Bounded
<1>6. BelowOrExcluded(CountOf(t), p) <=> ~Admitted(CountOf(t), p)
  <2> HIDE DEF p, t
  <2>1. CASE p.Invert
    BY <1>3, <1>4, <2>1, LastVerdict
  <2>2. CASE ~p.Invert
    <3>1. BelowOrExcluded(CountOf(t), p) <=> CountOf(t) < p.Min
      BY <1>3, <1>4, <2>2, LastVerdict
    <3>2. Admitted(CountOf(t), p) <=> p.Min <= CountOf(t) /\ CountOf(t) <= p.Max
      BY <1>3, <1>4, <2>2, LastVerdict
    <3> QED BY <1>3, <1>4, <1>5, <2>2, <3>1, <3>2
  <2> QED BY <1>3, <2>1, <2>2
<1>7. out.act = IF BelowOrExcluded(CountOf(t), p) THEN "cut" ELSE "forward"
  <2>1. CASE kind = "word"
    <3>1. out.act = IF BelowOrExcluded(countWords(meta.text), p) THEN "cut" ELSE "forward"
      BY <1>1, <2>1, PlainChunk
    <3>2. countWords(t) = CountOf(t)
      BY <1>4, <2>1, CountIs DEF CountOf
    <3> QED BY <1>2, <3>1, <3>2
  <2>2. CASE kind = "sentence"
    <3>1. out.act = IF BelowOrExcluded(countSentences(meta.text), p) THEN "cut" ELSE "forward"
      BY <1>1, <2>2, PlainChunk
    <3>2. countSentences(t) = CountOf(t)
      BY <1>4, <2>2, CountIs DEF CountOf
    <3> QED BY <1>2, <3>1, <3>2
  <2> QED BY <2>1, <2>2
<1>8. Acceptable(t) <=> Admitted(CountOf(t), p)
  <2>1. CASE kind = "word"
    BY <2>1, Zenon DEF Acceptable, CountOf
  <2>2. CASE kind = "sentence"
    BY <2>2 DEF Acceptable, CountOf
  <2> QED BY <2>1, <2>2
<1> HIDE DEF p, t, out
<1> QED BY <1>6, <1>7, <1>8 DEF t, out

\* How a batch ends an exchange, against the rule on the whole text.
LEMMA CloseVerdict ==
  ASSUME Judging, NEW batch \in Seq(Lines), IsSSE(batch) <=> IsEventStream(batch), NEW eos \in BOOLEAN,
         WellFormed(delivered \o batch), IsEventStream(delivered \o batch),
         Visible(delivered \o batch),
         \A i \in DOMAIN meta.json :
            /\ meta.json[i].l \notin SSELines
            /\ \E j \in DOMAIN (delivered \o batch) : meta.json[i] = (delivered \o batch)[j],
         NEW e, e = IF eos THEN EndKind(batch) ELSE "none"
  PROVE  /\ OnResponseBodyChunk(batch, eos).act = "cut"
              /\ (e \in {"none", "lines"} \/ kind \in {"word", "sentence"}) =>
              /\ (kind = "regex" => Reads) => ~Acceptable(Then(batch))
              /\ kind \in Counting /\ e = "none" => ~pol.response.Invert
         /\ OnResponseBodyChunk(batch, eos).act = "forward" /\ eos
              /\ (e = "lines" \/ (e = "blank" /\ kind \in {"word", "sentence"}))
              /\ (kind = "regex" => Then(batch) # <<>> /\ Reads) => Acceptable(Then(batch))
<1> DEFINE out == OnResponseBodyChunk(batch, eos)
           c == delivered \o batch
<1>1. /\ Gated /\ delivered \in Seq(Lines) /\ meta \in MetaType /\ c \in Seq(Lines)
      /\ meta.json \in Seq(Lines)
  BY DEF Judging, MetaType
<1>2. e \in {"none", "bare", "blank", "lines"} /\ (e = "none" => ~eos)
  BY DEF EndKind
<1>3. CASE IsSSE(batch)
  <2>1. out.act = "cut" /\ (kind = "regex" => Reads) =>
          ~Acceptable(Then(batch)) /\ (kind \in Counting /\ ~eos => ~pol.response.Invert)
    BY <1>3, EventVerdict
  <2>2. kind \in Counting => kind # "regex"
    BY DEF Counting
  <2>3. out.act = "cut" /\ kind \in Counting /\ ~eos => ~pol.response.Invert
    BY <2>1, <2>2
  <2>4. out.act = "forward" /\ eos /\ (kind = "regex" => Then(batch) # <<>> /\ Reads) => Acceptable(Then(batch))
    BY <1>3, EventVerdict
  <2> QED BY <1>2, <2>1, <2>3, <2>4
<1>4. CASE batch = <<>>
  <2>1. out.act = "forward"
    BY <1>1, <1>4, InactiveChunk
  <2>2. eos => e = "bare"
    BY <1>4 DEF EndKind
  <2> QED BY <2>1, <2>2
<1>5. CASE batch # <<>> /\ ~IsSSE(batch)
  <2>1. out.act = "cut" => eos
    BY <1>5, ChunkMeta
  <2>2. \A i \in DOMAIN c : c[i].l \notin SSELines => c[i].l = "blank"
    BY <1>1, RestBlank
  <2>3. AllBlank(batch)
    <3> SUFFICES ASSUME NEW i \in DOMAIN batch PROVE batch[i].l = "blank"
      BY DEF AllBlank
    <3>1. batch[i].l \notin SSELines
      BY <1>5 DEF IsEventStream
    <3>2. Len(delivered) + i \in DOMAIN c /\ c[Len(delivered) + i] = batch[i]
      BY <1>1, JoinLines
    <3> HIDE DEF c
    <3> QED BY <2>2, <3>1, <3>2
  <2>4. AllBlank(meta.json \o batch)
    <3> DEFINE m == meta.json \o batch
    <3> SUFFICES ASSUME NEW k \in DOMAIN m PROVE m[k].l = "blank"
      BY DEF AllBlank
    <3>1. \/ k \in DOMAIN meta.json /\ m[k] = meta.json[k]
          \/ k - Len(meta.json) \in DOMAIN batch /\ m[k] = batch[k - Len(meta.json)]
      BY <1>1, JoinLines
    <3> HIDE DEF m
    <3>2. CASE k \in DOMAIN meta.json /\ m[k] = meta.json[k]
      <4>1. PICK j \in DOMAIN c : meta.json[k] = c[j]
        BY <3>2
      <4>2. meta.json[k].l \notin SSELines
        BY <3>2
      <4> HIDE DEF c
      <4> QED BY <2>2, <3>2, <4>1, <4>2
    <3>3. CASE k - Len(meta.json) \in DOMAIN batch /\ m[k] = batch[k - Len(meta.json)]
      BY <2>3, <3>3 DEF AllBlank
    <3> QED BY <3>1, <3>2, <3>3
  <2>5. eos => e = "blank"
    BY <1>5, <2>3 DEF EndKind
  <2>6. TextOf(delivered) = Then(batch)
    <3>1. TextOf(batch) = <<>>
      BY <1>5, NoText
    <3> QED BY <1>1, <3>1, ThenIs
  <2>7. ASSUME eos, kind \in {"word", "sentence"}
        PROVE  /\ out.act = "cut" => ~Acceptable(Then(batch))
               /\ out.act = "forward" => Acceptable(Then(batch))
    <3>1. eos = TRUE
      BY <2>7
    <3> QED BY <1>5, <2>4, <2>6, <2>7, <3>1, BlankVerdict
  <2> HIDE DEF out
  <2> QED BY <2>1, <2>5, <2>7 DEF out
<1> QED BY <1>3, <1>4, <1>5

-----------------------------------------------------------------------------
(***************************************************************************)
(* The steps of a stream                                                   *)
(***************************************************************************)

\* Before the first chunk the client has nothing, which no rule refuses early.
LEMMA FreshSums ==
  ASSUME BuiltInv, StreamTypes, Gated, Watched, phase = "reply"
  PROVE  StreamSums
<1>1. produced = <<>> /\ acc = <<>> /\ delivered = <<>> /\ meta = NoMeta
  BY DEF StreamTypes
<1>2. /\ TextOf(delivered) = <<>> /\ <<>> \in Seq(Lines) /\ Len(<<>>) = 0
      /\ ~HasDone(<<>>) /\ DOMAIN <<>> = {}
  BY <1>1, EmptyText DEF HasDone
<1>3. Carried
  <2>1. WellFormed(produced)
    BY <1>1, <1>2 DEF WellFormed
  <2>2. delivered \o acc = <<>> /\ meta.json = <<>>
    BY <1>1 DEF NoMeta
  <2> QED BY <1>1, <1>2, <2>1, <2>2 DEF Carried
<1>4. Remembered(meta, delivered)
  BY <1>1, <1>2 DEF Remembered, NoMeta
<1>5. Bounded(delivered)
  <2> SUFFICES ASSUME kind \in Counting PROVE Bounded(delivered)
    BY DEF Bounded
  <2>1. pol.response.Max \in Int /\ pol.response.Max > 0
    BY RangeParsed DEF Watched
  <2>2. CountOf(TextOf(delivered)) = 0
    BY <1>2, CountOfNone
  <2>3. CountOf(TextOf(delivered)) <= pol.response.Max
    BY <2>1, <2>2
  <2> QED BY <1>2, <2>3 DEF Bounded
<1>6. UrlsWhole(delivered) /\ Unmatched(delivered)
  BY <1>2, SaysNothing DEF UrlsWhole, Unmatched
<1> QED BY <1>3, <1>4, <1>5, <1>6 DEF StreamSums, Summed

LEMMA LinesType ==
  ASSUME BuiltInv, NEW lines \in ChunkOf(kind, raw) \cup {<<>>, <<BlankLine>>}
  PROVE  /\ lines \in Seq(Lines)
         /\ lines \notin ChunkOf(kind, raw) => ~IsEventStream(lines)
<1>1. kind \in Kinds /\ raw \in RawOf[kind]
  BY DEF BuiltInv
<1>2. ChunkOf(kind, raw) \subseteq Seq(Lines)
  BY <1>1, GuardAssumption DEF GuardAssumption
<1>3. BlankLine \in Lines
  <2>1. <<>> \in Seq(STRING)
    OBVIOUS
  <2> QED BY <2>1 DEF BlankLine, Lines
<1>4. ~IsEventStream(<<>>) /\ ~IsEventStream(<<BlankLine>>)
  <2>1. DOMAIN <<>> = {} /\ DOMAIN <<BlankLine>> = {1} /\ <<BlankLine>>[1] = BlankLine
    OBVIOUS
  <2>2. BlankLine.l \notin SSELines
    BY DEF BlankLine, SSELines
  <2> QED BY <2>1, <2>2 DEF IsEventStream
<1>5. <<>> \in Seq(Lines) /\ <<BlankLine>> \in Seq(Lines)
  BY <1>3
<1> QED BY <1>2, <1>4, <1>5, Zenon

\* Where isSSEChunk looks a batch shows that it is a part of an event stream.
LEMMA BatchShows ==
  ASSUME EventsShow, BuiltInv, StreamTypes, Carried,
         NEW lines \in ChunkOf(kind, raw) \cup {<<>>, <<BlankLine>>}, NEW batch, batch = acc \o lines
  PROVE  /\ batch \in Seq(Lines) /\ produced \o lines = delivered \o batch
         /\ IsSSE(batch) <=> IsEventStream(batch)
         /\ acc # <<>> => IsSSE(batch)
<1>1. /\ lines \in Seq(Lines) /\ acc \in Seq(Lines) /\ delivered \in Seq(Lines)
      /\ produced = delivered \o acc /\ (acc = <<>> \/ IsSSE(acc))
  BY LinesType DEF StreamTypes, Carried
<1>2. batch \in Seq(Lines) /\ produced \o lines = delivered \o batch
  BY <1>1
<1>3. ASSUME acc # <<>> PROVE IsSSE(batch)
  <2>1. PICK i \in DOMAIN acc : i <= 5 /\ acc[i].l \in SSELines
    BY <1>1, <1>3 DEF IsSSE
  <2>2. i \in DOMAIN batch /\ batch[i] = acc[i]
    BY <1>1, JoinLines
  <2> QED BY <2>1, <2>2 DEF IsSSE
<1>4. ASSUME acc = <<>>, IsEventStream(batch) PROVE IsSSE(batch)
  <2>1. batch = lines
    BY <1>1, <1>4
  <2>2. lines \in ChunkOf(kind, raw)
    BY <1>4, <2>1, LinesType
  <2>3. kind \in Kinds /\ raw \in RawOf[kind]
    BY DEF BuiltInv
  <2> QED BY <1>4, <2>1, <2>2, <2>3 DEF EventsShow
<1> QED BY <1>2, <1>3, <1>4, ShowsSSE

\* A held batch stays with the kernel: nothing the client has changes.
LEMMA HoldStep ==
  ASSUME EventsShow, BuiltInv, Gated, StreamTypes, Watched, StreamSums, phase \in {"reply", "stream"},
         NEW lines \in ChunkOf(kind, raw) \cup {<<>>, <<BlankLine>>},
         Arriving(lines), NeedsMoreResponseData(acc \o lines), Hold(lines)
  PROVE  StreamTypes' /\ StreamSums'
<1> DEFINE batch == acc \o lines
<1>1. /\ kind' = kind /\ pol' = pol /\ produced' = produced \o lines /\ acc' = batch
      /\ delivered' = delivered /\ meta' = meta /\ verdict' = verdict /\ phase' = "stream"
      /\ WellFormed(produced \o lines)
  BY DEF Arriving, Hold, requestVars
<1>2. Carried /\ Summed(meta, delivered)
  BY DEF StreamSums
<1>3. batch \in Seq(Lines) /\ produced \o lines = delivered \o batch /\ (IsSSE(batch) <=> IsEventStream(batch))
  BY <1>2, BatchShows
<1>4. IsSSE(batch) /\ ~HasDone(batch)
  BY <1>3, NeedsMoreIs
<1>5. /\ produced \in Seq(Lines) /\ lines \in Seq(Lines) /\ delivered \in Seq(Lines) /\ meta \in MetaType
      /\ verdict.is = "none" /\ produced \o lines \in Seq(Lines)
  <2>1. lines \in Seq(Lines)
    BY LinesType
  <2> QED BY <2>1 DEF StreamTypes, Open
<1> HIDE DEF batch
<1>6. StreamTypes'
  BY <1>1, <1>3, <1>5 DEF StreamTypes, Open
<1>7. Carried'
  <2>1. \A j \in DOMAIN produced : j \in DOMAIN (produced \o lines) /\ (produced \o lines)[j] = produced[j]
    BY <1>5, JoinLines
  <2>2. \A i \in DOMAIN meta.json : /\ meta.json[i].l \notin SSELines
                                    /\ \E j \in DOMAIN (produced \o lines) : meta.json[i] = (produced \o lines)[j]
    <3> SUFFICES ASSUME NEW i \in DOMAIN meta.json
                 PROVE  /\ meta.json[i].l \notin SSELines
                        /\ \E j \in DOMAIN (produced \o lines) : meta.json[i] = (produced \o lines)[j]
      OBVIOUS
    <3>1. meta.json[i].l \notin SSELines /\ \E j \in DOMAIN produced : meta.json[i] = produced[j]
      BY <1>2 DEF Carried
    <3> QED BY <2>1, <3>1, Zenon
  <2> QED BY <1>1, <1>3, <1>4, <2>2 DEF Carried
<1>8. Summed(meta, delivered)'
  <2>1. Remembered(meta, delivered)'
    BY <1>1, <1>2 DEF Summed, Remembered, Reads
  <2>2. Bounded(delivered)'
    BY <1>1, <1>2 DEF Summed, Bounded, CountOf
  <2>3. UrlsWhole(delivered)' /\ Unmatched(delivered)'
    BY <1>1, <1>2 DEF Summed, UrlsWhole, Visible, Unmatched, Reads
  <2> QED BY <2>1, <2>2, <2>3 DEF Summed
<1> QED BY <1>6, <1>7, <1>8 DEF StreamSums

\* A batch that goes to the policy: the client gets all of it, or the exchange ends.
LEMMA FlushStep ==
  ASSUME EventsShow, BuiltInv, Gated, StreamTypes, Watched, StreamSums, phase \in {"reply", "stream"},
         NEW lines \in ChunkOf(kind, raw) \cup {<<>>, <<BlankLine>>}, NEW eos \in BOOLEAN,
         Arriving(lines), ~eos => ~NeedsMoreResponseData(acc \o lines), Flush(lines, eos)
  PROVE  /\ StreamTypes'
         /\ phase' = "stream" => StreamSums'
         /\ phase' = "closed" => StreamVerdictExact' /\ NothingForbiddenReleased'
<1> DEFINE batch == acc \o lines
           out == OnResponseBodyChunk(batch, eos)
           d == delivered \o batch
<1>1. /\ kind' = kind /\ pol' = pol /\ produced' = produced \o lines /\ WellFormed(produced \o lines)
      /\ meta' = out.meta
      /\ ending' = (IF eos THEN EndKind(batch) ELSE "none")
      /\ phase' = IF eos \/ out.act = "cut" THEN "closed" ELSE "stream"
      /\ out.act = "cut" => verdict' = Intervention(out.why) /\ acc' = acc /\ delivered' = delivered
      /\ out.act # "cut" =>
           /\ verdict' = verdict /\ acc' = <<>>
           /\ delivered' = delivered \o (IF out.act = "replace" THEN out.body ELSE batch)
  BY DEF Arriving, Flush, requestVars
<1>2. Carried /\ Summed(meta, delivered)
  BY DEF StreamSums
<1>3. /\ batch \in Seq(Lines) /\ produced \o lines = d /\ (IsSSE(batch) <=> IsEventStream(batch))
      /\ acc # <<>> => IsSSE(batch)
  BY <1>2, BatchShows
<1>4. /\ produced \in Seq(Lines) /\ acc \in Seq(Lines) /\ delivered \in Seq(Lines) /\ meta \in MetaType
      /\ verdict.is = "none" /\ d \in Seq(Lines) /\ meta.json \in Seq(Lines)
  BY <1>3 DEF StreamTypes, Open, MetaType
<1>5. Judging
  BY <1>2, <1>4 DEF Judging
<1>6. /\ out.act \in {"forward", "cut"} /\ out.meta \in MetaType
      /\ out.meta.json = IF batch = <<>> \/ IsSSE(batch) THEN meta.json ELSE meta.json \o batch
      /\ Remembered(out.meta, d)
  BY <1>3, <1>5, ChunkMeta
<1>7. TextOf(d) = Then(batch)
  BY <1>3, <1>4, ThenIs
<1> HIDE DEF batch, out, d
<1>8. /\ out.act = "forward" => delivered' = d /\ acc' = <<>> /\ verdict' = verdict
      /\ out.act = "cut" => delivered' = delivered /\ acc' = acc /\ verdict'.is = "hit"
      /\ produced' = d
  BY <1>1, <1>3 DEF d, Intervention
<1>9. StreamTypes'
  <2>1. <<>> \in Seq(Lines)
    OBVIOUS
  <2>2. acc' \in Seq(Lines) /\ delivered' \in Seq(Lines) /\ produced' \in Seq(Lines) /\ meta' \in MetaType
    BY <1>1, <1>4, <1>6, <1>8, <2>1
  <2>3. phase' \in {"stream", "closed"} /\ (phase' = "stream" => verdict'.is = "none")
    BY <1>1, <1>4, <1>6, <1>8
  <2> QED BY <2>2, <2>3 DEF StreamTypes, Open
<1>10. ASSUME phase' = "stream" PROVE StreamSums'
  <2>1. ~eos /\ out.act = "forward"
    BY <1>1, <1>6, <1>10
  <2>2. Summed(out.meta, d)
    BY <1>1, <1>3, <1>5, <2>1, LetGo DEF out, d, batch
  <2>3. \A i \in DOMAIN out.meta.json : /\ out.meta.json[i].l \notin SSELines
                                        /\ \E j \in DOMAIN d : out.meta.json[i] = d[j]
    <3>1. \A j \in DOMAIN produced : j \in DOMAIN d /\ d[j] = produced[j]
      <4>1. lines \in Seq(Lines)
        BY LinesType
      <4> QED BY <1>3, <1>4, <4>1, JoinLines
    <3>2. ASSUME NEW i \in DOMAIN meta.json
          PROVE  meta.json[i].l \notin SSELines /\ \E j \in DOMAIN d : meta.json[i] = d[j]
      <4>1. meta.json[i].l \notin SSELines /\ \E j \in DOMAIN produced : meta.json[i] = produced[j]
        BY <1>2 DEF Carried
      <4> QED BY <3>1, <4>1, Zenon
    <3>3. ASSUME ~IsSSE(batch), NEW i \in DOMAIN batch
          PROVE  batch[i].l \notin SSELines /\ \E j \in DOMAIN d : batch[i] = d[j]
      <4>1. batch[i].l \notin SSELines
        BY <1>3, <3>3 DEF IsEventStream
      <4>2. Len(delivered) + i \in DOMAIN d /\ d[Len(delivered) + i] = batch[i]
        BY <1>3, <1>4, <3>3, JoinLines DEF d
      <4> QED BY <4>1, <4>2, Zenon
    <3>4. CASE batch = <<>> \/ IsSSE(batch)
      BY <1>6, <3>2, <3>4
    <3>5. CASE ~(batch = <<>> \/ IsSSE(batch))
      <4> SUFFICES ASSUME NEW k \in DOMAIN (meta.json \o batch)
                   PROVE  /\ (meta.json \o batch)[k].l \notin SSELines
                          /\ \E j \in DOMAIN d : (meta.json \o batch)[k] = d[j]
        BY <1>6, <3>5
      <4>1. \/ k \in DOMAIN meta.json /\ (meta.json \o batch)[k] = meta.json[k]
            \/ k - Len(meta.json) \in DOMAIN batch /\ (meta.json \o batch)[k] = batch[k - Len(meta.json)]
        BY <1>3, <1>4, JoinLines
      <4>2. CASE k \in DOMAIN meta.json /\ (meta.json \o batch)[k] = meta.json[k]
        BY <3>2, <4>2, Zenon
      <4>3. CASE k - Len(meta.json) \in DOMAIN batch /\ (meta.json \o batch)[k] = batch[k - Len(meta.json)]
        BY <3>3, <3>5, <4>3, Zenon
      <4> QED BY <4>1, <4>2, <4>3
    <3> QED BY <3>4, <3>5
  <2>4. Carried'
    <3>1. produced' = delivered' \o acc' /\ acc' = <<>>
      BY <1>4, <1>8, <2>1
    <3>2. ~HasDone(<<>>)
      BY DEF HasDone
    <3> QED BY <1>1, <1>3, <1>8, <2>3, <3>1, <3>2 DEF Carried
  <2>5. delivered' = d /\ meta' = out.meta /\ kind' = kind /\ pol' = pol
    BY <1>1, <1>8, <2>1
  <2>6. Summed(meta, delivered)'
    <3>1. Remembered(meta, delivered)'
      BY <2>2, <2>5 DEF Summed, Remembered, Reads
    <3>2. Bounded(delivered)'
      BY <2>2, <2>5 DEF Summed, Bounded, CountOf
    <3>3. UrlsWhole(delivered)' /\ Unmatched(delivered)'
      BY <2>2, <2>5 DEF Summed, UrlsWhole, Visible, Unmatched, Reads
    <3> QED BY <3>1, <3>2, <3>3 DEF Summed
  <2> QED BY <2>4, <2>6 DEF StreamSums
<1>11. ASSUME phase' = "closed" PROVE NothingForbiddenReleased'
  <2>1. /\ kind = "url" /\ Visible(delivered)' => InvalidUrls(TextOf(delivered'), pol.response) = {}
        /\ kind = "regex" /\ pol.response.Invert /\ Reads => ~Matches(TextOf(delivered'))
    <3>1. CASE out.act = "cut"
      <4>1. Visible(delivered)' <=> Visible(delivered)
        BY <1>1, <1>8, <3>1 DEF Visible
      <4> QED BY <1>2, <1>8, <3>1, <4>1 DEF Summed, UrlsWhole, Unmatched
    <3>2. CASE out.act = "forward"
      <4>1. /\ kind = "url" /\ Visible(d) => InvalidUrls(TextOf(d), pol.response) = {}
            /\ Unmatched(d)
        BY <1>1, <1>3, <1>5, <3>2, LetGo DEF out, d, batch
      <4>2. Visible(delivered)' <=> Visible(d)
        BY <1>1, <1>8, <3>2 DEF Visible
      <4> QED BY <1>8, <3>2, <4>1, <4>2 DEF Unmatched
    <3> QED BY <1>6, <3>1, <3>2
  <2> QED BY <1>1, <2>1 DEF NothingForbiddenReleased, Reads
<1>12. ASSUME phase' = "closed" PROVE StreamVerdictExact'
  <2>0. PICK v : v = Then(batch)
    OBVIOUS
  <2> SUFFICES ASSUME IsEventStream(d), Visible(d)
               PROVE  (/\ verdict.is = "hit" /\ (ending \in {"none", "lines"} \/ kind \in {"word", "sentence"}) =>
                            /\ (kind = "regex" => pol.response.Stream = "delta") => ~Acceptable(TextOf(produced))
                            /\ kind \in Counting /\ ending = "none" => ~pol.response.Invert
                       /\ Judged /\ verdict.is = "none" => Acceptable(TextOf(produced)))'
    <3>1. TextOf(produced)' = v /\ (IsEventStream(produced)' <=> IsEventStream(d))
      BY <1>7, <1>8, <2>0
    <3>2. Visible(produced)' <=> Visible(d)
      BY <1>1, <1>8 DEF Visible
    <3> QED BY <3>1, <3>2, Zenon DEF StreamVerdictExact, WatchedStream
  <2>1. \A i \in DOMAIN meta.json : /\ meta.json[i].l \notin SSELines
                                    /\ \E j \in DOMAIN d : meta.json[i] = d[j]
    <3> SUFFICES ASSUME NEW i \in DOMAIN meta.json
                 PROVE  meta.json[i].l \notin SSELines /\ \E j \in DOMAIN d : meta.json[i] = d[j]
      OBVIOUS
    <3>1. meta.json[i].l \notin SSELines /\ \E j \in DOMAIN produced : meta.json[i] = produced[j]
      BY <1>2 DEF Carried
    <3>2. \A j \in DOMAIN produced : j \in DOMAIN d /\ d[j] = produced[j]
      <4>1. lines \in Seq(Lines)
        BY LinesType
      <4> QED BY <1>3, <1>4, <4>1, JoinLines, ZenonT(40)
    <3> QED BY <3>1, <3>2, Zenon
  <2>2. kind = "regex" => (Reads <=> pol.response.Stream = "delta")
    BY DEF Reads
  <2>3. PICK e : e = IF eos THEN EndKind(batch) ELSE "none"
    OBVIOUS
  <2>4. /\ out.act = "cut" /\ (e \in {"none", "lines"} \/ kind \in {"word", "sentence"}) =>
             /\ (kind = "regex" => Reads) => ~Acceptable(v)
             /\ kind \in Counting /\ e = "none" => ~pol.response.Invert
        /\ out.act = "forward" /\ eos
             /\ (e = "lines" \/ (e = "blank" /\ kind \in {"word", "sentence"}))
             /\ (kind = "regex" => v # <<>> /\ Reads) => Acceptable(v)
    BY <1>1, <1>3, <1>5, <2>0, <2>1, <2>3, CloseVerdict DEF out, d
  <2>5. ending' = e
    BY <1>1, <2>3
  <2>6. (verdict'.is = "hit" <=> out.act = "cut") /\ (out.act = "forward" => eos)
    BY <1>1, <1>4, <1>6, <1>8, <1>12
  <2>7. verdict'.is = "none" => out.act = "forward"
    BY <1>6, <1>8
  <2>8. TextOf(produced') = v
    BY <1>7, <1>8, <2>0
  <2>9. Acceptable(TextOf(produced))' <=> Acceptable(v)
    BY <1>1, <2>8, Zenon DEF Acceptable
  <2>10. Judged' => /\ ending' = "lines" \/ (ending' = "blank" /\ kind \in {"word", "sentence"})
                    /\ kind = "regex" => v # <<>> /\ Reads
    BY <1>1, <2>2, <2>8 DEF Judged
  <2>11. verdict'.is = "hit" /\ (ending' \in {"none", "lines"} \/ kind' \in {"word", "sentence"}) =>
           /\ (kind' = "regex" => pol'.response.Stream = "delta") => ~Acceptable(TextOf(produced))'
           /\ kind' \in Counting /\ ending' = "none" => ~pol'.response.Invert
    BY <1>1, <2>2, <2>4, <2>5, <2>6, <2>9
  <2>12. Judged' /\ verdict'.is = "none" => Acceptable(TextOf(produced))'
    BY <2>4, <2>5, <2>6, <2>7, <2>9, <2>10
  <2> QED BY <2>11, <2>12
<1> QED BY <1>9, <1>10, <1>11, <1>12

\* A response flow that is off lets everything through and remembers nothing.
LEMMA IdleStep ==
  ASSUME BuiltInv, Gated, StreamTypes, ~Watched, phase \in {"reply", "stream"},
         NEW lines \in ChunkOf(kind, raw) \cup {<<>>, <<BlankLine>>}, NEW eos \in BOOLEAN,
         Arriving(lines), Hold(lines) \/ Flush(lines, eos)
  PROVE  StreamTypes'
<1> DEFINE batch == acc \o lines
           out == OnResponseBodyChunk(batch, eos)
<1>1. /\ lines \in Seq(Lines) /\ acc \in Seq(Lines) /\ produced \in Seq(Lines)
      /\ delivered \in Seq(Lines) /\ meta \in MetaType /\ verdict.is = "none"
  BY LinesType DEF StreamTypes, Open
<1>2. batch \in Seq(Lines) /\ produced \o lines \in Seq(Lines) /\ delivered \o batch \in Seq(Lines)
      /\ <<>> \in Seq(Lines)
  BY <1>1
<1>3. produced' = produced \o lines
  BY DEF Arriving
<1>4. CASE Hold(lines)
  BY <1>1, <1>2, <1>3, <1>4 DEF Hold, StreamTypes, Open
<1>5. CASE Flush(lines, eos)
  <2>1. ~Active(pol.hasResponse, pol.response)
    BY DEF Watched, Gated, BuiltInv
  <2>2. out.act = "forward" /\ out.meta = meta
    BY <2>1, InactiveChunk
  <2>3. /\ meta' = out.meta /\ phase' \in {"stream", "closed"}
        /\ out.act = "forward" => acc' = <<>> /\ delivered' = delivered \o batch /\ verdict' = verdict
    BY <1>5 DEF Flush
  <2> HIDE DEF batch, out
  <2> QED BY <1>1, <1>2, <1>3, <2>2, <2>3 DEF StreamTypes, Open
<1> QED BY <1>4, <1>5

LEMMA WatchInit == Init => WatchInv
<1> SUFFICES ASSUME Init PROVE WatchInv
  OBVIOUS
<1>1. GuardInv
  BY GuardInit
<1>2. phase = "config"
  BY DEF Init
<1>3. StreamTypes
  <2>1. NoMeta \in MetaType
    <3>1. <<>> \in Seq(Tokens) /\ <<>> \in Seq(Lines) /\ 0 \in Nat
      OBVIOUS
    <3> QED BY <3>1 DEF NoMeta, MetaType
  <2>2. <<>> \in Seq(Lines)
    OBVIOUS
  <2> HIDE DEF NoMeta
  <2> QED BY <2>1, <2>2 DEF Init, StreamTypes, Untouched
<1> QED BY <1>1, <1>2, <1>3 DEF WatchInv, StreamInv

LEMMA WatchStep ==
  ASSUME EventsShow, WatchInv, [Next]_vars
  PROVE  WatchInv'
<1>1. GuardInv'
  BY GuardStep DEF WatchInv
<1>2. BuiltInv /\ StreamInv /\ (phase = "closed" => StreamVerdictExact /\ NothingForbiddenReleased)
  BY DEF WatchInv, GuardInv
<1> DEFINE Rest == StreamInv /\ (phase = "closed" => StreamVerdictExact /\ NothingForbiddenReleased)
<1> SUFFICES Rest'
  BY <1>1 DEF WatchInv
<1>3. CASE Build
  <2>1. /\ phase = "config" /\ phase' \in {"request", "rejected"} /\ kind' = kind
        /\ UNCHANGED <<meta, acc, produced, delivered, verdict>>
    BY <1>3 DEF Build, streamVars
  <2>2. Gated => StreamTypes'
    BY <1>2, <2>1 DEF StreamInv, StreamTypes, Open
  <2> QED BY <2>1, <2>2 DEF StreamInv, Gated
<1>4. ASSUME NEW body \in BodyOf(kind, raw), NEW ans \in AnswerOf[kind], Request(body, ans)
      PROVE  Rest'
  <2>1. PICK out \in OnRequestBody(body, ans) :
          /\ meta' = out.meta
          /\ phase' = IF out.r.act = "block" THEN "blocked" ELSE "reply"
          /\ verdict' = IF out.r.act = "block" THEN Intervention(out.r.why) ELSE Untouched
    BY <1>4 DEF Request
  <2>2. phase = "request" /\ kind' = kind /\ UNCHANGED <<acc, produced, delivered>>
    BY <1>4 DEF Request, streamVars
  <2>3. Gated => out.meta = meta
    <3>1. kind = "word" => out.meta = meta
      BY <2>1 DEF OnRequestBody
    <3>2. kind = "sentence" => out.meta = meta
      BY <2>1 DEF OnRequestBody
    <3>3. kind = "length" => out.meta = meta
      BY <2>1 DEF OnRequestBody
    <3>4. kind = "url" => out.meta = meta
      BY <2>1 DEF OnRequestBody
    <3>5. kind = "regex" => out.meta = meta
      BY <2>1 DEF OnRequestBody
    <3> QED BY <3>1, <3>2, <3>3, <3>4, <3>5 DEF Gated, Streaming
  <2>4. phase' \in {"blocked", "reply"} /\ (phase' = "reply" => verdict'.is = "none")
    BY <2>1 DEF Untouched
  <2>5. Gated => StreamTypes'
    BY <1>2, <2>1, <2>2, <2>3, <2>4 DEF StreamInv, StreamTypes, Open
  <2> QED BY <2>2, <2>4, <2>5 DEF StreamInv, Gated
<1>5. ASSUME NEW body, NEW ans, BufferedReply(body, ans) PROVE Rest'
  <2>1. /\ phase = "reply" /\ phase' = "closed" /\ kind' = kind /\ meta' = OnResponseBody(body, ans).meta
        /\ UNCHANGED <<acc, produced, delivered>>
    BY <1>5 DEF BufferedReply, requestVars, streamVars
  <2>2. Gated => OnResponseBody(body, ans).meta = meta
    <3>1. kind = "word" => OnResponseBody(body, ans).meta = meta
      BY DEF OnResponseBody
    <3>2. kind = "sentence" => OnResponseBody(body, ans).meta = meta
      BY DEF OnResponseBody
    <3>3. kind = "length" => OnResponseBody(body, ans).meta = meta
      BY DEF OnResponseBody
    <3>4. kind = "url" => OnResponseBody(body, ans).meta = meta
      BY DEF OnResponseBody
    <3>5. kind = "regex" => OnResponseBody(body, ans).meta = meta
      BY DEF OnResponseBody
    <3> QED BY <3>1, <3>2, <3>3, <3>4, <3>5 DEF Gated, Streaming
  <2>3. Gated => StreamTypes'
    BY <1>2, <2>1, <2>2 DEF StreamInv, StreamTypes, Open
  <2>4. ~WatchedStream'
    <3>1. Gated => produced' = <<>>
      BY <1>2, <2>1 DEF StreamInv, StreamTypes
    <3>2. ~IsEventStream(<<>>)
      BY DEF IsEventStream
    <3> QED BY <2>1, <3>1, <3>2 DEF WatchedStream, Watched, Gated
  <2> QED BY <2>1, <2>3, <2>4 DEF StreamInv, Gated, StreamVerdictExact, NothingForbiddenReleased
<1>6. ASSUME NEW lines \in ChunkOf(kind, raw) \cup {<<>>, <<BlankLine>>}, NEW eos \in BOOLEAN,
             Arriving(lines),
             \/ NeedsMoreResponseData(acc \o lines) /\ Hold(lines)
             \/ (~eos => ~NeedsMoreResponseData(acc \o lines)) /\ Flush(lines, eos)
      PROVE  Rest'
  <2>1. phase \in {"reply", "stream"} /\ kind' = kind /\ pol' = pol
    BY <1>6 DEF Arriving, requestVars
  <2>2. phase' \in {"stream", "closed"}
    BY <1>6 DEF Hold, Flush
  <2>3. (Gated' <=> Gated) /\ (Watched' <=> Watched) /\ (Watched => Gated)
    BY <2>1 DEF Gated, Watched
  <2>4. CASE ~Gated
    BY <2>3, <2>4 DEF StreamInv, StreamVerdictExact, NothingForbiddenReleased, WatchedStream
  <2>5. CASE Gated /\ ~Watched
    <3>1. StreamTypes'
      BY <1>2, <1>6, <2>1, <2>5, IdleStep DEF StreamInv
    <3> QED BY <2>3, <2>5, <3>1 DEF StreamInv, StreamVerdictExact, NothingForbiddenReleased, WatchedStream
  <2>6. CASE Gated /\ Watched
    <3>1. StreamTypes /\ StreamSums
      BY <1>2, <2>1, <2>6, FreshSums DEF StreamInv
    <3>2. CASE NeedsMoreResponseData(acc \o lines) /\ Hold(lines)
      <4>1. phase' = "stream"
        BY <3>2 DEF Hold
      <4>2. StreamTypes' /\ StreamSums'
        BY <1>2, <1>6, <2>1, <2>6, <3>1, <3>2, HoldStep
      <4> QED BY <4>1, <4>2 DEF StreamInv
    <3>3. CASE (~eos => ~NeedsMoreResponseData(acc \o lines)) /\ Flush(lines, eos)
      <4>1. /\ StreamTypes' /\ (phase' = "stream" => StreamSums')
            /\ phase' = "closed" => StreamVerdictExact' /\ NothingForbiddenReleased'
        BY <1>2, <1>6, <2>1, <2>6, <3>1, <3>3, FlushStep
      <4> QED BY <4>1 DEF StreamInv
    <3> QED BY <1>6, <3>2, <3>3
  <2> QED BY <2>4, <2>5, <2>6
<1>7. ASSUME NEW lines \in ChunkOf(kind, raw), Chunk(lines) PROVE Rest'
  <2>1. Arriving(lines) /\ \/ NeedsMoreResponseData(acc \o lines) /\ Hold(lines)
                           \/ ~NeedsMoreResponseData(acc \o lines) /\ Flush(lines, FALSE)
    BY <1>7 DEF Chunk
  <2> HIDE DEF Rest
  <2> QED BY <1>6, <2>1
<1>8. ASSUME NEW lines \in ChunkOf(kind, raw) \cup {<<>>, <<BlankLine>>}, EndOfStream(lines) PROVE Rest'
  <2>1. Arriving(lines) /\ Flush(lines, TRUE)
    BY <1>8 DEF EndOfStream
  <2> HIDE DEF Rest
  <2> QED BY <1>6, <2>1
<1>9. CASE UNCHANGED vars
  <2>1. Gated' <=> Gated
    BY <1>9 DEF vars, Gated
  <2>2. StreamTypes' <=> StreamTypes
    BY <1>9 DEF vars, StreamTypes, Open
  <2>3. Watched' <=> Watched
    BY <1>9 DEF vars, Watched
  <2>4. StreamSums => StreamSums'
    <3>1. Carried => Carried'
      BY <1>9 DEF vars, Carried
    <3>2. Summed(meta, delivered) => Summed(meta, delivered)'
      BY <1>9 DEF vars, Summed, Remembered, Reads, Bounded, CountOf, UrlsWhole, Visible, Unmatched
    <3> QED BY <3>1, <3>2 DEF StreamSums
  <2>5. StreamVerdictExact => StreamVerdictExact'
    <3>1. Acceptable(TextOf(produced))' <=> Acceptable(TextOf(produced))
      BY <1>9, Zenon DEF vars, Acceptable
    <3> QED BY <1>9, <2>3, <3>1 DEF vars, StreamVerdictExact, Visible, WatchedStream, Judged
  <2>6. NothingForbiddenReleased => NothingForbiddenReleased'
    BY <1>9, <2>3 DEF vars, NothingForbiddenReleased, Visible, WatchedStream
  <2>7. phase' = phase
    BY <1>9 DEF vars
  <2> QED BY <1>2, <2>1, <2>2, <2>3, <2>4, <2>5, <2>6, <2>7 DEF StreamInv
<1> HIDE DEF Rest
<1> QED BY <1>3, <1>4, <1>5, <1>7, <1>8, <1>9 DEF Next

LEMMA WatchHolds ==
  ASSUME EventsShow PROVE Spec => []WatchInv
<1>1. WatchInv /\ [Next]_vars => WatchInv'
  BY WatchStep
<1> QED BY WatchInit, <1>1, PTL DEF Spec

\* NeedsMoreResponseData holds a counted event stream back, [DONE] apart, until its count is
\* between the bounds or above the excluded range, and OnResponseBodyChunk cuts it before it
\* leaves them again: whatever the chunks, the client never has a text outside.
THEOREM ClientInRange ==
    ASSUME EventsShow PROVE Spec => []StreamedInRange
<1>1. WatchInv => StreamedInRange
  <2> SUFFICES ASSUME WatchInv, phase = "stream", WatchedStream, kind \in Counting
               PROVE  LET p == pol.response
                          t == TextOf(delivered)
                      IN  \/ t = <<>>
                          \/ HasDone(delivered)
                          \/ IF p.Invert THEN CountOf(t) > p.Max
                             ELSE p.Min <= CountOf(t) /\ CountOf(t) <= p.Max
    BY Zenon DEF StreamedInRange, CountOf
  <2>1. Gated /\ Watched
    BY DEF WatchedStream, Watched, Gated
  <2>2. Bounded(delivered)
    BY <2>1 DEF WatchInv, StreamInv, StreamSums, Summed
  <2>3. pol.response.Invert \in BOOLEAN
    BY <2>1, RangeParsed DEF WatchInv, GuardInv, Watched
  <2> QED BY <2>2, <2>3 DEF Bounded
<1> QED BY WatchHolds, <1>1, PTL

\* OnResponseBody on the whole reply against the rule of the streaming path: where the two
\* count alike it lets through what the rule accepts.
LEMMA WholeVerdict ==
  ASSUME BuiltInv, phase \notin {"config", "rejected"}, Gated, Watched, NEW lines \in Seq(Lines),
         CountedAlike(lines)
  PROVE  OnResponseBody(InOnePiece(lines), answer).r = Pass <=> Acceptable(TextOf(lines))
<1> DEFINE p == pol.response
           t == TextOf(lines)
           r == OnResponseBody(InOnePiece(lines), answer).r
<1>1. Active(pol.hasResponse, pol.response)
  BY DEF Watched
<1>2. t \in Seq(STRING)
  BY TextIs
<1>3. \A a : Block(a) # Pass
  BY DEF Block, Pass
<1>4. CASE kind = "word"
  <2>1. r = WordOnResponseBody(pol, InOnePiece(lines)) /\ InOnePiece(lines).lines = lines /\ IsSSE(lines)
    BY <1>4 DEF OnResponseBody, InOnePiece, CountedAlike
  <2>2. r = validateWordCount(t, p)
    BY <1>1, <2>1, Zenon DEF WordOnResponseBody, WordIsSSE, WordDelta, TextOf
  <2>3. validateWordCount(t, p) = Pass <=> Admitted(countWords(t), p)
    BY <1>3, Zenon DEF validateWordCount, WordError, countWords
  <2>4. countWords(t) = Segments(Clean(t), Space)
    BY <1>2, CountIs
  <2>5. Acceptable(t) <=> Admitted(Segments(Clean(t), Space), p)
    BY <1>4, Zenon DEF Acceptable
  <2> QED BY <2>2, <2>3, <2>4, <2>5, Zenon
<1>5. CASE kind = "sentence"
  <2> DEFINE u == TrimSpace(Clean(t))
  <2>1. r = SentenceOnResponseBody(pol, InOnePiece(lines)) /\ InOnePiece(lines).lines = lines
        /\ IsSSE(lines) /\ Clean(u) = u
    BY <1>5 DEF OnResponseBody, InOnePiece, CountedAlike
  <2>2. r = validateSentenceCountInText(t, p)
    BY <1>1, <2>1, Zenon DEF SentenceOnResponseBody, SentenceIsSSE, SentenceDelta, TextOf
  <2>3. validateSentenceCountInText(t, p) = Pass <=> Admitted(countSentences(u), p)
    BY <1>3, Zenon DEF validateSentenceCountInText, SentenceError
  <2>4. countSentences(u) = SolidSegments(Clean(t), Stop)
    <3>1. u \in Seq(STRING)
      <4>1. Clean(t) \in Seq(STRING)
        BY <1>2, CleanIs
      <4> QED BY <4>1, TrimWithin DEF Within
    <3>2. countSentences(u) = SolidSegments(u, Stop)
      BY <2>1, <3>1, CountIs
    <3>3. countSentences(t) = SolidSegments(u, Stop)
      BY Zenon DEF countSentences
    <3>4. countSentences(t) = SolidSegments(Clean(t), Stop)
      BY <1>2, CountIs
    <3> QED BY <3>2, <3>3, <3>4
  <2>5. Acceptable(t) <=> Admitted(SolidSegments(Clean(t), Stop), p)
    BY <1>5, Zenon DEF Acceptable
  <2> QED BY <2>2, <2>3, <2>4, <2>5, Zenon
<1>6. CASE kind = "length"
  <2>1. r = LengthOnResponseBody(pol, InOnePiece(lines)) /\ InOnePiece(lines).v = JString(t)
        /\ TrimSpace(Clean(t)) = t
    BY <1>6 DEF OnResponseBody, InOnePiece, CountedAlike
  <2>2. r = LengthValidatePayload(JString(t), p, TRUE)
    BY <1>1, <2>1, Zenon DEF LengthOnResponseBody
  <2>3. ExtractString(JString(t)).ok /\ ExtractString(JString(t)).text = t
    BY DEF ExtractString, JString, Found
  <2>4. LengthValidatePayload(JString(t), p, TRUE) = Pass <=> Admitted(Len(t), p)
    BY <1>3, <2>1, <2>3, Zenon DEF LengthValidatePayload, LengthError
  <2>5. Acceptable(t) <=> Admitted(Len(t), p)
    BY <1>6, Zenon DEF Acceptable
  <2> QED BY <2>2, <2>4, <2>5, Zenon
<1>7. CASE kind = "url"
  <2>1. r = UrlOnResponseBody(pol, InOnePiece(lines)) /\ InOnePiece(lines).lines = lines /\ t # <<>>
    BY <1>7 DEF OnResponseBody, InOnePiece, CountedAlike
  <2>2. r = validateURLsInText(t, p, TRUE)
    BY <1>1, <2>1, Zenon DEF UrlOnResponseBody, UrlDelta, TextOf
  <2>3. validateURLsInText(t, p, TRUE) = Pass <=> InvalidUrls(t, p) = {}
    BY <1>3, Zenon DEF validateURLsInText, UrlError
  <2>4. Acceptable(t) <=> InvalidUrls(t, p) = {}
    BY <1>7, Zenon DEF Acceptable
  <2> QED BY <2>2, <2>3, <2>4, Zenon
<1>8. CASE kind = "regex"
  <2>1. r = RegexOnResponseBody(pol, InOnePiece(lines)) /\ InOnePiece(lines).v = JString(t)
        /\ InOnePiece(lines).none = FALSE
    BY <1>8 DEF OnResponseBody, InOnePiece, CountedAlike
  <2>2. r = RegexValidatePayload(FALSE, JString(t), p, TRUE)
    BY <1>1, <2>1, Zenon DEF RegexOnResponseBody
  <2>3. ExtractString(JString(t)).ok /\ ExtractString(JString(t)).text = t
    BY DEF ExtractString, JString, Found
  <2>4. RegexValidatePayload(FALSE, JString(t), p, TRUE) = Pass <=> Matches(t) # p.Invert
    BY <1>3, <2>3, Zenon DEF RegexValidatePayload, RegexError
  <2>5. Acceptable(t) <=> Matches(t) # p.Invert
    BY <1>8, Zenon DEF Acceptable
  <2> QED BY <2>2, <2>4, <2>5, Zenon
<1> QED BY <1>4, <1>5, <1>6, <1>7, <1>8 DEF Gated, Streaming

\* A watched event stream that ran to its end was cut by OnResponseBodyChunk exactly if its
\* whole text breaks the rule, into whatever chunks it came, and one that was cut earlier had
\* broken it; where the two paths count alike, exactly if OnResponseBody refuses the same
\* reply in one piece.
THEOREM StreamingDecidesLikeBuffering ==
    ASSUME EventsShow PROVE Spec => []OneVerdict
<1>1. WatchInv => StreamsLikeBuffered
  <2> DEFINE passes == OnResponseBody(InOnePiece(produced), answer).r = Pass
  <2> SUFFICES ASSUME WatchInv, phase = "closed", WatchedStream, CountedAlike(produced)
               PROVE  /\ verdict.is = "hit" /\ (ending \in {"none", "lines"} \/ kind \in {"word", "sentence"})
                           => ~passes
                      /\ Judged /\ verdict.is = "none" => passes
    BY Zenon DEF StreamsLikeBuffered
  <2>1. Gated /\ Watched
    BY DEF WatchedStream, Watched, Gated
  <2>2. BuiltInv /\ produced \in Seq(Lines) /\ StreamVerdictExact
    BY <2>1 DEF WatchInv, GuardInv, StreamInv, StreamTypes
  <2>3. passes <=> Acceptable(TextOf(produced))
    BY <2>1, <2>2, WholeVerdict
  <2>4. Visible(produced) /\ (kind = "regex" => pol.response.Stream = "delta")
    <3>1. kind = "url" => Visible(produced)
      BY DEF CountedAlike
    <3>2. kind = "regex" => pol.response.Stream = "delta"
      BY DEF CountedAlike
    <3>3. kind # "url" => Visible(produced)
      BY DEF Visible
    <3> QED BY <3>1, <3>2, <3>3
  <2> HIDE DEF passes
  <2> QED BY <2>2, <2>3, <2>4, Zenon DEF StreamVerdictExact
<1>2. WatchInv => StreamVerdictExact
  BY DEF WatchInv, StreamVerdictExact
<1>3. WatchInv => OneVerdict
  BY <1>1, <1>2 DEF OneVerdict
<1> QED BY WatchHolds, <1>3, PTL

\* The text of the events a client has received holds at no point a URL that does not answer
\* or a match of a blocked pattern, although url-guardrail looks at one batch at a time: the
\* gate keeps a URL in one batch from its whole protocol name on, and a URL that is glued to a
\* word or divided inside that name is excepted.
THEOREM NothingForbiddenInPieces ==
    ASSUME EventsShow PROVE Spec => []NothingForbiddenReleased
<1>1. WatchInv => NothingForbiddenReleased
  <2> SUFFICES ASSUME WatchInv, phase = "stream", Watched PROVE NothingForbiddenReleased
    BY DEF WatchInv, NothingForbiddenReleased, WatchedStream
  <2>1. Gated
    BY DEF Watched, Gated
  <2>2. UrlsWhole(delivered) /\ Unmatched(delivered)
    BY <2>1 DEF WatchInv, StreamInv, StreamSums, Summed
  <2> QED BY <2>2 DEF NothingForbiddenReleased, UrlsWhole, Unmatched, Reads
<1> QED BY WatchHolds, <1>1, PTL

-----------------------------------------------------------------------------
(***************************************************************************)
(* Exchanges without placeholders: the gate                                *)
(***************************************************************************)

\* Without placeholders there is nothing to restore.
LEMMA NothingToRestore ==
  ASSUME NEW t PROVE restore(t, invertStringMap({})) = t
<1>1. invertStringMap({}) = {}
  BY DEF invertStringMap
<1>2. SetToSeq({}) \in [1..0 -> {}]
  <2>1. Cardinality({}) = 0
    BY FS_EmptySet
  <2> DEFINE f == [i \in 1..0 |-> i]
  <2>2. f \in [1..0 -> {}] /\ IsInjective(f)
    BY DEF IsInjective
  <2> HIDE DEF f
  <2>3. \E g \in [1..0 -> {}] : IsInjective(g)
    BY <2>2
  <2> QED BY <2>1, <2>3, Zenon DEF SetToSeq
<1>3. DOMAIN SetToSeq({}) = {}
  BY <1>2
<1> DEFINE s == SetToSeq({})
           fix(f) == f = [x \in SUBSET DOMAIN s |->
                            IF x = {} THEN t
                            ELSE SubstituteAll(f[x \ {Max(x)}], s[Max(x)][1], s[Max(x)][2])]
<1>4. restore(t, {}) = (CHOOSE f : fix(f))[DOMAIN s]
  BY Zenon DEF restore, ReplaceEach, FoldLeft, MapThenFoldSet
<1>5. fix([x \in SUBSET DOMAIN s |-> t])
  BY <1>3
<1>6. fix(CHOOSE f : fix(f))
  BY <1>5, Zenon
<1> DEFINE h == CHOOSE f : fix(f)
<1>7. h[DOMAIN s] = t
  <2>1. fix(h)
    BY <1>6
  <2> HIDE DEF h
  <2> QED BY <1>3, <2>1
<1> QED BY <1>1, <1>4, <1>7

\* What a line adds to a plain body.
BodyPart(line) == IF line.l \in {"json", "jsonend"} THEN line.s ELSE <<>>
Parts(lines) == [i \in 1..Len(lines) |-> BodyPart(lines[i])]

LEMMA BodyIs ==
  ASSUME NEW a \in Seq(Lines)
  PROVE  /\ JsonBody(a) = FlattenSeq(Parts(a)) /\ JsonBody(a) \in Seq(STRING)
         /\ Parts(a) \in Seq(Seq(STRING)) /\ Len(Parts(a)) = Len(a)
         /\ \A i \in 1..Len(a) : Parts(a)[i] = BodyPart(a[i])
<1>1. Len(a) \in Nat /\ DOMAIN a = 1..Len(a) /\ \A i \in 1..Len(a) : a[i] \in Lines
  OBVIOUS
<1>2. \A i \in 1..Len(a) : BodyPart(a[i]) \in Seq(STRING)
  <2> SUFFICES ASSUME NEW i \in 1..Len(a) PROVE BodyPart(a[i]) \in Seq(STRING)
    OBVIOUS
  <2>1. a[i].s \in Seq(STRING)
    BY <1>1 DEF Lines
  <2>2. <<>> \in Seq(STRING)
    OBVIOUS
  <2> QED BY <2>1, <2>2 DEF BodyPart
<1>3. /\ Parts(a) \in Seq(Seq(STRING)) /\ Len(Parts(a)) = Len(a)
      /\ \A i \in 1..Len(a) : Parts(a)[i] = BodyPart(a[i])
  BY <1>1, <1>2 DEF Parts
<1>4. JsonBody(a) = FlattenSeq(Parts(a))
  <2>1. [i \in DOMAIN a |-> IF a[i].l \in {"json", "jsonend"} THEN a[i].s ELSE <<>>] = Parts(a)
    BY <1>1 DEF Parts, BodyPart
  <2> QED BY <2>1, Zenon DEF JsonBody
<1> QED BY <1>3, <1>4, FlattenType

LEMMA BodyConcat ==
  ASSUME NEW a \in Seq(Lines), NEW b \in Seq(Lines)
  PROVE  JsonBody(a \o b) = JsonBody(a) \o JsonBody(b)
<1> DEFINE c == a \o b
           u == Parts(a)
           v == Parts(b)
<1>1. /\ c \in Seq(Lines) /\ Len(a) \in Nat /\ Len(b) \in Nat /\ Len(c) = Len(a) + Len(b)
      /\ \A i \in 1..Len(a) : c[i] = a[i]
      /\ \A i \in 1..(Len(a) + Len(b)) : ~(i <= Len(a)) => c[i] = b[i - Len(a)]
  BY Joined
<1>2. /\ u \in Seq(Seq(STRING)) /\ Len(u) = Len(a) /\ \A i \in 1..Len(a) : u[i] = BodyPart(a[i])
      /\ v \in Seq(Seq(STRING)) /\ Len(v) = Len(b) /\ \A i \in 1..Len(b) : v[i] = BodyPart(b[i])
  BY BodyIs
<1>3. Parts(c) \in Seq(Seq(STRING)) /\ Len(Parts(c)) = Len(c) /\ \A i \in 1..Len(c) : Parts(c)[i] = BodyPart(c[i])
  BY <1>1, BodyIs
<1> HIDE DEF c, u, v
<1>4. /\ u \o v \in Seq(Seq(STRING)) /\ Len(u \o v) = Len(u) + Len(v)
      /\ \A i \in 1..Len(u) : (u \o v)[i] = u[i]
      /\ \A i \in 1..(Len(u) + Len(v)) : ~(i <= Len(u)) => (u \o v)[i] = v[i - Len(u)]
  BY <1>2, Joined, ZenonT(40)
<1>5. ASSUME NEW i \in 1..Len(c) PROVE Parts(c)[i] = (u \o v)[i]
  <2>1. CASE i <= Len(a)
    BY <1>1, <1>2, <1>3, <1>4, <2>1
  <2>2. CASE ~(i <= Len(a))
    <3>1. i - Len(a) \in 1..Len(b)
      BY <1>1, <2>2
    <3>2. c[i] = b[i - Len(a)] /\ v[i - Len(a)] = BodyPart(b[i - Len(a)])
      BY <1>1, <1>2, <2>2, <3>1
    <3>3. (u \o v)[i] = v[i - Len(a)]
      BY <1>1, <1>2, <1>4, <2>2
    <3> QED BY <1>3, <3>2, <3>3
  <2> QED BY <2>1, <2>2
<1>6. Parts(c) = u \o v
  <2>1. Len(Parts(c)) = Len(u \o v)
    BY <1>1, <1>2, <1>3, <1>4
  <2>2. \A i \in 1..Len(Parts(c)) : Parts(c)[i] = (u \o v)[i]
    BY <1>3, <1>5
  <2> QED BY <1>3, <1>4, <2>1, <2>2, SameSeq, Zenon
<1>7. FlattenSeq(u \o v) = FlattenSeq(u) \o FlattenSeq(v)
  BY <1>2, FlattenConcat, Zenon
<1>8. JsonBody(c) = FlattenSeq(Parts(c)) /\ JsonBody(a) = FlattenSeq(u) /\ JsonBody(b) = FlattenSeq(v)
  BY <1>1, BodyIs, Zenon DEF u, v
<1> QED BY <1>6, <1>7, <1>8, Zenon DEF c

LEMMA NoBodyText ==
  ASSUME NEW a \in Seq(Lines), \A i \in DOMAIN a : a[i].l \notin {"json", "jsonend"}
  PROVE  JsonBody(a) = <<>>
<1>1. \A i \in 1..Len(Parts(a)) : Parts(a)[i] = <<>>
  BY DEF Parts, BodyPart
<1> QED BY <1>1, BodyIs, FlattenEmpty, Zenon

\* A stream is of one kind, so that what follows extends what the client has.
LEMMA ContentGrows ==
  ASSUME NEW a \in Seq(Lines), NEW b \in Seq(Lines), WellFormed(a \o b)
  PROVE  IsPrefix(Content(a), Content(a \o b))
<1> DEFINE c == a \o b
<1>1. /\ c \in Seq(Lines)
      /\ \A i \in DOMAIN a : i \in DOMAIN c /\ c[i] = a[i]
      /\ \A i \in DOMAIN b : Len(a) + i \in DOMAIN c /\ c[Len(a) + i] = b[i]
  <2>1. c \in Seq(Lines)
    BY Joined
  <2> QED BY <2>1, JoinLines
<1>2. TextOf(c) = TextOf(a) \o TextOf(b) /\ JsonBody(c) = JsonBody(a) \o JsonBody(b)
  BY TextConcat, BodyConcat
<1>3. /\ TextOf(a) \in Seq(STRING) /\ TextOf(b) \in Seq(STRING)
      /\ JsonBody(a) \in Seq(STRING) /\ JsonBody(b) \in Seq(STRING)
  BY TextIs, BodyIs
<1> HIDE DEF c
<1>4. CASE \A i \in DOMAIN c : c[i].l \in SSELines \cup {"blank"}
  <2>1. /\ \A i \in DOMAIN a : a[i].l \notin {"json", "jsonend"}
        /\ \A i \in DOMAIN b : b[i].l \notin {"json", "jsonend"}
    <3>1. \A i \in DOMAIN c : c[i].l \notin {"json", "jsonend"}
      BY <1>4 DEF SSELines
    <3> QED BY <1>1, <3>1
  <2>2. JsonBody(a) = <<>> /\ JsonBody(b) = <<>>
    BY <2>1, NoBodyText
  <2>3. Content(a) = TextOf(a) /\ Content(c) = TextOf(a) \o TextOf(b)
    BY <1>2, <1>3, <2>2 DEF Content
  <2> QED BY <1>3, <2>3 DEF IsPrefix, c
<1>5. CASE \A i \in DOMAIN c : c[i].l \in {"json", "jsonend", "blank"}
  <2>1. ~IsEventStream(a) /\ ~IsEventStream(b)
    <3>1. \A i \in DOMAIN c : c[i].l \notin SSELines
      BY <1>5 DEF SSELines
    <3> QED BY <1>1, <3>1 DEF IsEventStream
  <2>2. TextOf(a) = <<>> /\ TextOf(b) = <<>>
    BY <2>1, NoText
  <2>3. Content(a) = JsonBody(a) /\ Content(c) = JsonBody(a) \o JsonBody(b)
    BY <1>2, <1>3, <2>2 DEF Content
  <2> QED BY <1>3, <2>3 DEF IsPrefix, c
<1> QED BY <1>4, <1>5 DEF WellFormed, c

\* A policy without placeholders forwards a batch as it came, or cuts the stream, and leaves
\* none in the metadata.
LEMMA PlainAction ==
  ASSUME kind \in Streaming, kind = "pii" => meta.masked = {}, NEW batch, NEW eos
  PROVE  /\ OnResponseBodyChunk(batch, eos).act \in {"forward", "cut"}
         /\ "masked" \in DOMAIN meta =>
              /\ "masked" \in DOMAIN OnResponseBodyChunk(batch, eos).meta
              /\ OnResponseBodyChunk(batch, eos).meta.masked = meta.masked
<1> DEFINE out == OnResponseBodyChunk(batch, eos)
           Keeps(m) == "masked" \in DOMAIN meta => "masked" \in DOMAIN m /\ m.masked = meta.masked
           Plain(o) == \E m : Keeps(m) /\ (o = Forward(m) \/ \E a : o = Cut(a, m))
<1>1. /\ \A x : Keeps([meta EXCEPT !.text = x])
      /\ \A x : Keeps([meta EXCEPT !.text = @ \o x])
      /\ \A x : Keeps([meta EXCEPT !.json = @ \o x])
      /\ \A x : Keeps([meta EXCEPT !.running = @ + x])
      /\ Keeps(meta)
  OBVIOUS
<1> HIDE DEF Keeps
<1>2. Plain(Forward(meta))
  BY <1>1, Zenon
<1> SUFFICES Plain(out)
  <2> SUFFICES ASSUME Plain(out)
               PROVE  /\ out.act \in {"forward", "cut"}
                      /\ "masked" \in DOMAIN meta => "masked" \in DOMAIN out.meta /\ out.meta.masked = meta.masked
    BY Zenon
  <2> HIDE DEF out
  <2>1. PICK m : Keeps(m) /\ (out = Forward(m) \/ \E a : out = Cut(a, m))
    BY Zenon
  <2>2. out.act \in {"forward", "cut"} /\ out.meta = m
    BY <2>1 DEF Forward, Cut
  <2> QED BY <2>1, <2>2 DEF Keeps
<1> HIDE DEF Plain, out
<1>3. CASE kind = "word"
  <2>1. out = WordOnChunk(pol, meta, batch, eos)
    BY <1>3 DEF OnResponseBodyChunk, out
  <2>2. Plain(WordOnSSEChunk(pol.response, meta, batch, eos))
    BY <1>1, Zenon DEF WordOnSSEChunk, WordSSEError, WithText, Plain
  <2>3. Plain(WordOnPlainChunk(pol.response, meta, batch, eos))
    BY <1>1, Zenon DEF WordOnPlainChunk, WordSSEError, WithJson, Plain
  <2> QED BY <1>2, <2>1, <2>2, <2>3, Zenon DEF WordOnChunk
<1>4. CASE kind = "sentence"
  <2>1. out = SentenceOnChunk(pol, meta, batch, eos)
    BY <1>4 DEF OnResponseBodyChunk, out
  <2>2. Plain(SentenceOnSSEChunk(pol.response, meta, batch, eos))
    BY <1>1, Zenon DEF SentenceOnSSEChunk, SentenceSSEError, WithText, Plain
  <2>3. Plain(SentenceOnPlainChunk(pol.response, meta, batch, eos))
    BY <1>1, Zenon DEF SentenceOnPlainChunk, SentenceSSEError, WithJson, Plain
  <2> QED BY <1>2, <2>1, <2>2, <2>3, Zenon DEF SentenceOnChunk
<1>5. CASE kind = "length"
  <2>1. out = LengthOnChunk(pol, meta, batch, eos)
    BY <1>5 DEF OnResponseBodyChunk, out
  <2>2. Plain(LengthOnSSEChunk(pol.response, meta, batch, eos))
    BY <1>1, Zenon DEF LengthOnSSEChunk, LengthSSEError, Plain
  <2>3. Plain(LengthOnPlainChunk(pol.response, meta, batch, eos))
    BY <1>1, Zenon DEF LengthOnPlainChunk, LengthSSEError, WithJson, Plain
  <2> QED BY <1>2, <2>1, <2>2, <2>3, Zenon DEF LengthOnChunk
<1>6. CASE kind = "url"
  <2>1. out = UrlOnChunk(pol, meta, batch, eos)
    BY <1>6 DEF OnResponseBodyChunk, out
  <2>2. Plain(UrlOnSSEChunk(pol.response, meta, batch))
    BY <1>1, Zenon DEF UrlOnSSEChunk, UrlSSEError, Plain
  <2>3. \A v : Plain(JudgeAtEnd(v, PatternJson(meta, batch), eos))
    BY <1>1, Zenon DEF JudgeAtEnd, PatternJson, Plain
  <2> QED BY <1>2, <2>1, <2>2, <2>3, Zenon DEF UrlOnChunk
<1>7. CASE kind = "regex"
  <2>1. out = RegexOnChunk(pol, meta, batch, eos)
    BY <1>7 DEF OnResponseBodyChunk, out
  <2>2. Plain(RegexOnSSEChunk(pol.response, meta, batch, eos))
    BY <1>1, Zenon DEF RegexOnSSEChunk, RegexSSEError, Plain
  <2>3. \A v : Plain(JudgeAtEnd(v, PatternJson(meta, batch), eos))
    BY <1>1, Zenon DEF JudgeAtEnd, PatternJson, Plain
  <2> QED BY <1>2, <2>1, <2>2, <2>3, Zenon DEF RegexOnChunk
<1>8. CASE kind = "pii"
  <2>1. invertStringMap(meta.masked) = {}
    BY <1>8 DEF invertStringMap
  <2>2. PiiOnChunk(pol, meta, batch, eos) = Forward(meta)
    BY <2>1, Zenon DEF PiiOnChunk
  <2>3. out = PiiOnChunk(pol, meta, batch, eos)
    BY <1>8 DEF OnResponseBodyChunk, out
  <2> QED BY <1>2, <2>2, <2>3
<1> QED BY <1>3, <1>4, <1>5, <1>6, <1>7, <1>8 DEF Streaming

\* Until a stream begins nothing is anywhere; while it runs the client has all but what the
\* accumulator has.
GateInv ==
  /\ acc \in Seq(Lines) /\ produced \in Seq(Lines) /\ delivered \in Seq(Lines)
  /\ Open => verdict.is = "none"
  /\ phase \notin {"stream", "closed"} => acc = <<>> /\ produced = <<>> /\ delivered = <<>>
  /\ phase = "stream" => produced = delivered \o acc

LEMMA ContentType ==
  ASSUME NEW a \in Seq(Lines)
  PROVE  Content(a) \in Seq(STRING) /\ IsPrefix(Content(a), Content(a))
<1>1. TextOf(a) \in Seq(STRING) /\ JsonBody(a) \in Seq(STRING)
  BY TextIs, BodyIs
<1>2. Content(a) \in Seq(STRING)
  BY <1>1 DEF Content
<1> QED BY <1>2 DEF IsPrefix

\* The abstract gate compares texts as the exchange does.
LEMMA SamePrefix ==
  ASSUME NEW a, NEW b, IsPrefix(a, b) PROVE Gate!IsPrefix(a, b)
  BY DEF Gate!IsPrefix, IsPrefix

\* Nothing new is let go.
LEMMA StaysOpen ==
  ASSUME GateInv, phase # "closed", phase' # "closed", delivered' = delivered
  PROVE  Gate!Arrive
<1>1. GateState = "open" /\ GateState' = "open"
  BY DEF GateState
<1>2. Content(delivered)' = Content(delivered) /\ Gate!IsPrefix(Content(delivered), Content(delivered))
  BY ContentType, SamePrefix DEF GateInv
<1> QED BY <1>1, <1>2 DEF Gate!Arrive

\* The accumulated batch and what just came go to the client, or neither.
LEMMA GateFlush ==
  ASSUME BuiltInv, GateInv, meta.masked = {}, meta'.masked = {}, phase \in {"reply", "stream"},
         NEW lines \in ChunkOf(kind, raw) \cup {<<>>, <<BlankLine>>}, NEW eos \in BOOLEAN,
         Arriving(lines), Flush(lines, eos)
  PROVE  GateInv' /\ Gate!Next
<1> DEFINE batch == acc \o lines
           out == OnResponseBodyChunk(batch, eos)
           d == delivered \o batch
<1>1. /\ kind \in Streaming /\ produced' = produced \o lines /\ WellFormed(produced \o lines)
      /\ phase' = IF eos \/ out.act = "cut" THEN "closed" ELSE "stream"
      /\ out.act = "cut" => verdict' = Intervention(out.why) /\ acc' = acc /\ delivered' = delivered
      /\ out.act = "forward" => verdict' = verdict /\ acc' = <<>> /\ delivered' = d
  BY DEF Arriving, Flush
<1>2. out.act \in {"forward", "cut"}
  BY <1>1, PlainAction
<1>3. /\ lines \in Seq(Lines) /\ acc \in Seq(Lines) /\ produced \in Seq(Lines) /\ delivered \in Seq(Lines)
      /\ produced = delivered \o acc /\ verdict.is = "none" /\ <<>> \in Seq(Lines)
  <2>1. lines \in Seq(Lines)
    BY LinesType
  <2> QED BY <2>1 DEF GateInv, Open
<1>4. batch \in Seq(Lines) /\ d \in Seq(Lines) /\ produced \o lines = d /\ d \o <<>> = d
  BY <1>3
<1> HIDE DEF batch, out, d
<1>5. GateState = "open"
  BY DEF GateState
<1>6. CASE out.act = "cut"
  <2>1. phase' = "closed" /\ delivered' = delivered /\ acc' = acc /\ verdict'.is = "hit"
    BY <1>1, <1>6 DEF Intervention
  <2>2. GateInv'
    BY <1>1, <1>3, <1>4, <2>1 DEF GateInv, Open
  <2>3. GateState' = "cut" /\ Content(delivered)' = Content(delivered)
    BY <2>1 DEF GateState
  <2>4. Gate!Cut
    BY <1>5, <2>3 DEF Gate!Cut
  <2> QED BY <2>2, <2>4 DEF Gate!Next
<1>7. CASE out.act = "forward"
  <2>1. /\ delivered' = d /\ acc' = <<>> /\ produced' = d /\ verdict' = verdict
        /\ phase' = IF eos THEN "closed" ELSE "stream"
    BY <1>1, <1>4, <1>7
  <2>2. GateInv'
    BY <1>3, <1>4, <2>1 DEF GateInv, Open
  <2>3. Image' = Content(d)
    <3>1. restore(Content(d), invertStringMap({})) = Content(d)
      BY NothingToRestore
    <3>2. Image' = IF kind' = "pii" /\ ~FitsWindow(produced') THEN Content(delivered' \o acc')
                   ELSE restore(Content(produced'), invertStringMap(meta'.masked))
      BY Zenon DEF Image
    <3> QED BY <1>4, <2>1, <3>1, <3>2
  <2>4. Content(delivered)' = Content(d)
    BY <2>1
  <2>5. Gate!IsPrefix(Content(delivered), Content(d))
    BY <1>1, <1>3, <1>4, ContentGrows, SamePrefix DEF d
  <2>6. CASE eos
    <3>1. GateState' = "ended"
      BY <1>3, <2>1, <2>6 DEF GateState
    <3>2. Gate!End
      BY <1>5, <2>3, <2>4, <2>5, <3>1 DEF Gate!End
    <3> QED BY <2>2, <3>2 DEF Gate!Next
  <2>7. CASE ~eos
    <3>1. GateState' = "open"
      BY <2>1, <2>7 DEF GateState
    <3>2. Gate!Arrive
      BY <1>5, <2>3, <2>4, <2>5, <3>1 DEF Gate!Arrive
    <3> QED BY <2>2, <3>2 DEF Gate!Next
  <2> QED BY <2>6, <2>7
<1> QED BY <1>2, <1>6, <1>7

LEMMA GateStep ==
  ASSUME BuiltInv, GateInv, meta.masked = {}, meta'.masked = {}, [Next]_vars
  PROVE  GateInv' /\ [Gate!Next]_(Gate!gateVars)
<1>1. CASE Build
  <2>1. /\ phase = "config" /\ phase' \in {"request", "rejected"}
        /\ UNCHANGED <<acc, produced, delivered, verdict>>
    BY <1>1 DEF Build, streamVars
  <2>2. GateInv'
    BY <2>1 DEF GateInv, Open
  <2> QED BY <2>1, <2>2, StaysOpen DEF Gate!Next
<1>2. ASSUME NEW body \in BodyOf(kind, raw), NEW ans \in AnswerOf[kind], Request(body, ans)
      PROVE  GateInv' /\ Gate!Next
  <2>1. /\ phase = "request" /\ UNCHANGED <<acc, produced, delivered>>
        /\ phase' \in {"blocked", "reply"} /\ (phase' = "reply" => verdict'.is = "none")
    BY <1>2 DEF Request, streamVars, Untouched
  <2>2. GateInv'
    BY <2>1 DEF GateInv, Open
  <2> QED BY <2>1, <2>2, StaysOpen DEF Gate!Next
<1>3. ASSUME NEW body, NEW ans, BufferedReply(body, ans)
      PROVE  GateInv' /\ Gate!Next
  <2>1. /\ phase = "reply" /\ phase' = "closed" /\ UNCHANGED <<acc, produced, delivered>>
        /\ \/ \E a : verdict' = Intervention(a)
           \/ verdict' = Untouched
    BY <1>3, Zenon DEF BufferedReply, streamVars
  <2>2. acc = <<>> /\ produced = <<>> /\ delivered = <<>> /\ <<>> \in Seq(Lines)
    BY <2>1 DEF GateInv
  <2>3. GateInv'
    BY <2>1, <2>2 DEF GateInv, Open
  <2>4. GateState = "open" /\ Content(delivered)' = Content(delivered)
    BY <2>1 DEF GateState
  <2>5. CASE \E a : verdict' = Intervention(a)
    <3>1. GateState' = "cut"
      BY <2>1, <2>5 DEF GateState, Intervention
    <3>2. Gate!Cut
      BY <2>4, <3>1 DEF Gate!Cut
    <3> QED BY <2>3, <3>2 DEF Gate!Next
  <2>6. CASE verdict' = Untouched
    <3>1. GateState' = "ended"
      BY <2>1, <2>6 DEF GateState, Untouched
    <3>2. Image' = Content(<<>>)
      <4>1. restore(Content(<<>>), invertStringMap({})) = Content(<<>>)
        BY NothingToRestore
      <4>2. Image' = IF kind' = "pii" /\ ~FitsWindow(produced') THEN Content(delivered' \o acc')
                     ELSE restore(Content(produced'), invertStringMap(meta'.masked))
        BY Zenon DEF Image
      <4>3. delivered' \o acc' = <<>> /\ produced' = <<>>
        BY <2>1, <2>2
      <4> QED BY <4>1, <4>2, <4>3
    <3>3. Gate!IsPrefix(Content(<<>>), Content(<<>>))
      BY <2>2, ContentType, SamePrefix
    <3>4. Gate!End
      BY <2>2, <2>4, <3>1, <3>2, <3>3 DEF Gate!End
    <3> QED BY <2>3, <3>4 DEF Gate!Next
  <2> QED BY <2>1, <2>5, <2>6
<1>4. ASSUME NEW lines \in ChunkOf(kind, raw) \cup {<<>>, <<BlankLine>>}, Arriving(lines), Hold(lines)
      PROVE  GateInv' /\ Gate!Next
  <2>1. /\ phase \in {"reply", "stream"} /\ phase' = "stream" /\ produced' = produced \o lines
        /\ acc' = acc \o lines /\ delivered' = delivered /\ verdict' = verdict
    BY <1>4 DEF Arriving, Hold
  <2>2. lines \in Seq(Lines)
    BY LinesType
  <2>3. GateInv'
    <3>1. /\ acc \in Seq(Lines) /\ produced \in Seq(Lines) /\ delivered \in Seq(Lines)
          /\ produced = delivered \o acc /\ verdict.is = "none"
      BY <2>1 DEF GateInv, Open
    <3>2. acc \o lines \in Seq(Lines) /\ produced \o lines \in Seq(Lines)
          /\ produced \o lines = delivered \o (acc \o lines)
      BY <2>2, <3>1
    <3> QED BY <2>1, <3>1, <3>2 DEF GateInv, Open
  <2> QED BY <2>1, <2>3, StaysOpen DEF Gate!Next
<1>5. ASSUME NEW lines \in ChunkOf(kind, raw), Chunk(lines) PROVE GateInv' /\ Gate!Next
  <2>1. Arriving(lines) /\ phase \in {"reply", "stream"} /\ (Hold(lines) \/ Flush(lines, FALSE))
    BY <1>5 DEF Chunk, Arriving
  <2> QED BY <1>4, <2>1, GateFlush
<1>6. ASSUME NEW lines \in ChunkOf(kind, raw) \cup {<<>>, <<BlankLine>>}, EndOfStream(lines)
      PROVE  GateInv' /\ Gate!Next
  <2>1. Arriving(lines) /\ phase \in {"reply", "stream"} /\ Flush(lines, TRUE)
    BY <1>6 DEF EndOfStream, Arriving
  <2> QED BY <2>1, GateFlush
<1>7. CASE UNCHANGED vars
  <2>1. GateInv'
    BY <1>7 DEF vars, GateInv, Open
  <2>2. Image' = Image
    BY <1>7, Zenon DEF vars, Image
  <2>3. Content(delivered)' = Content(delivered) /\ GateState' = GateState
    BY <1>7 DEF vars, GateState
  <2> QED BY <2>1, <2>2, <2>3 DEF Gate!gateVars
<1> QED BY <1>1, <1>2, <1>3, <1>5, <1>6, <1>7 DEF Next

LEMMA GateStarts == Init => GateInv /\ Gate!Init
<1> SUFFICES ASSUME Init PROVE GateInv /\ Gate!Init
  OBVIOUS
<1>1. /\ phase = "config" /\ acc = <<>> /\ produced = <<>> /\ delivered = <<>> /\ verdict = Untouched
      /\ meta.masked = {} /\ <<>> \in Seq(Lines)
  BY DEF Init, NoMeta
<1>2. GateInv
  BY <1>1 DEF GateInv, Untouched
<1>3. Content(<<>>) = <<>>
  <2>1. JsonBody(<<>>) = <<>>
    <3>1. DOMAIN <<>> = {}
      OBVIOUS
    <3> QED BY <1>1, <3>1, NoBodyText
  <2> QED BY <2>1, EmptyText DEF Content
<1>4. Image = <<>>
  <2>1. restore(Content(<<>>), invertStringMap({})) = Content(<<>>)
    BY NothingToRestore
  <2>2. delivered \o acc = <<>>
    BY <1>1
  <2> QED BY <1>1, <1>3, <2>1, <2>2, Zenon DEF Image
<1>5. GateState = "open"
  BY <1>1 DEF GateState
<1> QED BY <1>1, <1>2, <1>3, <1>4, <1>5 DEF Gate!Init

\* NeedsMoreResponseData and OnResponseBodyChunk of a policy that keeps no placeholders, because
\* it never masks or because there was nothing to mask, implement the abstract gate: all or
\* nothing of a batch goes to the client, nothing is taken back and nothing follows a cut.
THEOREM UnmaskedStreamsAreGates == Spec /\ [](meta.masked = {}) => ImplementsStreamGate
<1>1. Spec => []BuiltInv
  <2>1. GuardInv => BuiltInv
    BY DEF GuardInv
  <2> QED BY <2>1, GuardInit, GuardStep, PTL DEF Spec
<1>2. BuiltInv /\ GateInv /\ meta.masked = {} /\ meta'.masked = {} /\ [Next]_vars
        => GateInv' /\ [Gate!Next]_(Gate!gateVars)
  BY GateStep
<1>3. Init => GateInv /\ Gate!Init
  BY GateStarts
<1>4. (meta.masked = {})' <=> meta'.masked = {}
  OBVIOUS
<1> QED BY <1>1, <1>2, <1>3, <1>4, PTL DEF Spec, ImplementsStreamGate, Gate!Spec

\* Only pii-masking-regex and aws-bedrock-guardrail leave placeholders in the metadata.
MaskInv == kind \notin {"pii", "bedrock"} => "masked" \in DOMAIN meta /\ meta.masked = {}

LEMMA MaskStep ==
  ASSUME BuiltInv, MaskInv, [Next]_vars
  PROVE  MaskInv'
<1>1. kind \in {"word", "sentence", "length", "url", "regex", "schema", "pii", "bedrock", "azure", "semantic"}
  <2>1. kind \in Kinds
    BY DEF BuiltInv
  <2> QED BY <2>1, GuardAssumption DEF GuardAssumption, Streaming, Buffered, Services
<1> SUFFICES ASSUME kind \notin {"pii", "bedrock"}, kind' = kind
             PROVE  "masked" \in DOMAIN meta' /\ meta'.masked = {}
  <2>1. kind' = kind
    BY DEF Next, vars, Build, Request, BufferedReply, Chunk, EndOfStream, Arriving, requestVars
  <2> QED BY <2>1 DEF MaskInv
<1>2. "masked" \in DOMAIN meta /\ meta.masked = {}
  BY DEF MaskInv
<1>3. CASE Build \/ UNCHANGED vars
  BY <1>2, <1>3 DEF Build, vars
<1>4. ASSUME NEW body, NEW ans, Request(body, ans) PROVE meta' = meta
  <2>1. PICK out \in OnRequestBody(body, ans) : meta' = out.meta
    BY <1>4 DEF Request
  <2>2. /\ kind = "word" => out.meta = meta
        /\ kind = "sentence" => out.meta = meta
        /\ kind = "length" => out.meta = meta
        /\ kind = "url" => out.meta = meta
    BY <2>1 DEF OnRequestBody
  <2>3. /\ kind = "regex" => out.meta = meta
        /\ kind = "schema" => out.meta = meta
        /\ kind = "azure" => out.meta = meta
        /\ kind = "semantic" => out.meta = meta
    BY <2>1 DEF OnRequestBody
  <2> QED BY <1>1, <2>1, <2>2, <2>3
<1>5. ASSUME NEW body, NEW ans, BufferedReply(body, ans) PROVE meta' = meta
  <2>1. meta' = OnResponseBody(body, ans).meta
    BY <1>5 DEF BufferedReply
  <2>2. /\ kind = "word" => meta' = meta
        /\ kind = "sentence" => meta' = meta
        /\ kind = "length" => meta' = meta
        /\ kind = "url" => meta' = meta
    BY <2>1 DEF OnResponseBody
  <2>3. /\ kind = "regex" => meta' = meta
        /\ kind = "schema" => meta' = meta
        /\ kind = "azure" => meta' = meta
        /\ kind = "semantic" => meta' = meta
    BY <2>1 DEF OnResponseBody
  <2> QED BY <1>1, <2>2, <2>3
<1>6. ASSUME NEW lines, NEW eos, Arriving(lines), Hold(lines) \/ Flush(lines, eos)
      PROVE  "masked" \in DOMAIN meta' /\ meta'.masked = {}
  <2>1. kind \in Streaming
    BY <1>6 DEF Arriving
  <2>2. \/ meta' = meta
        \/ meta' = OnResponseBodyChunk(acc \o lines, eos).meta
    BY <1>6 DEF Hold, Flush
  <2> QED BY <1>2, <2>1, <2>2, PlainAction
<1>7. ASSUME NEW lines, Chunk(lines) \/ EndOfStream(lines)
      PROVE  "masked" \in DOMAIN meta' /\ meta'.masked = {}
  BY <1>6, <1>7 DEF Chunk, EndOfStream
<1> QED BY <1>2, <1>3, <1>4, <1>5, <1>7 DEF Next

\* A batch that is not replaced goes to the client whole or not at all, nothing is taken back
\* and nothing follows a cut: NeedsMoreResponseData and OnResponseBodyChunk of the policies that
\* keep no placeholders implement the abstract gate.
THEOREM PlainStreamsAreGates == Spec /\ kind \notin {"pii", "bedrock"} => ImplementsStreamGate
<1>1. Spec => []BuiltInv
  <2>1. GuardInv => BuiltInv
    BY DEF GuardInv
  <2> QED BY <2>1, GuardInit, GuardStep, PTL DEF Spec
<1>2. Init => MaskInv
  BY DEF Init, MaskInv, NoMeta
<1>3. BuiltInv /\ MaskInv /\ [Next]_vars => MaskInv'
  BY MaskStep
<1> DEFINE P == kind \notin {"pii", "bedrock"}
<1>4. P /\ [Next]_vars => P'
  BY DEF Next, vars, Build, Request, BufferedReply, Chunk, EndOfStream, Arriving, requestVars
<1>5. MaskInv /\ P => meta.masked = {}
  BY DEF MaskInv
<1> HIDE DEF P
<1>6. Spec /\ P => [](meta.masked = {})
  BY <1>1, <1>2, <1>3, <1>4, <1>5, PTL DEF Spec
<1> QED BY <1>6, UnmaskedStreamsAreGates, PTL DEF P

-----------------------------------------------------------------------------
(***************************************************************************)
(* Substitution                                                            *)
(***************************************************************************)

\* Does old stand at position i of t?
StandsAt(old, t, i) == i + Len(old) - 1 <= Len(t) /\ SubSeq(t, i, i + Len(old) - 1) = old

\* What becomes of the text from position i on, given what becomes of the rest.
Rewrite(f, t, old, new, i) ==
  IF i > Len(t) THEN <<>>
  ELSE IF StandsAt(old, t, i) THEN new \o f[i + Len(old)] ELSE <<t[i]>> \o f[i + 1]
Rewrites(f, t, old, new, lo) ==
  f = [i \in lo..(Len(t) + 1) |-> Rewrite(f, t, old, new, i)]

LEMMA RewriteExists ==
  ASSUME NEW t, Len(t) \in Nat, NEW old, Len(old) \in Nat \ {0}, NEW new
  PROVE  \E f : Rewrites(f, t, old, new, 1)
<1> DEFINE N == Len(t)
           T == {m \in Nat : m <= N /\ ~\E f : Rewrites(f, t, old, new, N + 1 - m)}
<1> SUFFICES ASSUME T # {} PROVE FALSE
  <2>1. N \in Nat /\ N <= N /\ N + 1 - N = 1
    OBVIOUS
  <2>2. T = {} => \E f : Rewrites(f, t, old, new, N + 1 - N)
    BY <2>1
  <2> QED BY <2>1, <2>2
<1>1. PICK m \in T : \A k \in T : m <= k
  BY NatLeast
<1>2. m \in Nat /\ m <= N /\ N \in Nat /\ ~\E f : Rewrites(f, t, old, new, N + 1 - m)
  OBVIOUS
<1>3. CASE m = 0
  <2> DEFINE g == [i \in (N + 1)..(N + 1) |-> <<>>]
  <2>1. ASSUME NEW i \in (N + 1)..(N + 1) PROVE g[i] = Rewrite(g, t, old, new, i)
    BY <1>2 DEF Rewrite
  <2>2. Rewrites(g, t, old, new, N + 1)
    BY <2>1 DEF Rewrites
  <2>3. N + 1 - m = N + 1
    BY <1>2, <1>3
  <2> QED BY <2>2, <2>3, <1>2
<1>4. CASE m # 0
  <2> DEFINE lo == N + 1 - m
  <2>1. m - 1 \in Nat /\ m - 1 \notin T /\ m - 1 <= N
    BY <1>1, <1>2, <1>4
  <2>2. PICK f : Rewrites(f, t, old, new, N + 1 - (m - 1))
    BY <2>1
  <2>3. lo \in 1..N /\ N + 1 - (m - 1) = lo + 1
    BY <1>2, <1>4
  <2> HIDE DEF lo
  <2>4. f = [i \in (lo + 1)..(N + 1) |-> Rewrite(f, t, old, new, i)]
    BY <2>2, <2>3 DEF Rewrites
  <2> DEFINE g == [i \in lo..(N + 1) |-> IF i = lo THEN Rewrite(f, t, old, new, lo) ELSE f[i]]
  <2>5. ASSUME NEW i \in (lo + 1)..(N + 1) PROVE g[i] = f[i]
    BY <2>3, <2>5
  <2>6. ASSUME NEW i \in lo..(N + 1) PROVE Rewrite(g, t, old, new, i) = Rewrite(f, t, old, new, i)
    <3>1. i <= N => i + 1 \in (lo + 1)..(N + 1)
      BY <1>2, <2>3
    <3>2. i <= N /\ StandsAt(old, t, i) => i + Len(old) \in (lo + 1)..(N + 1)
      BY <1>2, <2>3 DEF StandsAt
    <3>3. i \in Int /\ N \in Int
      BY <2>3
    <3> HIDE DEF g
    <3>4. CASE i > N
      BY <3>4 DEF Rewrite
    <3>5. CASE ~(i > N) /\ StandsAt(old, t, i)
      <4>1. i <= N
        BY <3>3, <3>5
      <4>2. g[i + Len(old)] = f[i + Len(old)]
        BY <2>5, <3>2, <3>5, <4>1
      <4> QED BY <3>5, <4>2 DEF Rewrite
    <3>6. CASE ~(i > N) /\ ~StandsAt(old, t, i)
      <4>1. i <= N
        BY <3>3, <3>6
      <4>2. g[i + 1] = f[i + 1]
        BY <2>5, <3>1, <4>1
      <4> QED BY <3>6, <4>2 DEF Rewrite
    <3> QED BY <3>4, <3>5, <3>6
  <2>7. ASSUME NEW i \in lo..(N + 1) PROVE g[i] = Rewrite(g, t, old, new, i)
    <3>1. CASE i = lo
      BY <2>6, <3>1
    <3>2. CASE i # lo
      <4>1. i \in (lo + 1)..(N + 1)
        BY <2>3, <3>2
      <4>2. f[i] = Rewrite(f, t, old, new, i)
        BY <2>4, <4>1
      <4> QED BY <2>5, <2>6, <4>1, <4>2
    <3> QED BY <3>1, <3>2
  <2>8. Rewrites(g, t, old, new, lo)
    BY <2>7 DEF Rewrites
  <2> QED BY <2>8, <1>2 DEF lo
<1> QED BY <1>3, <1>4

\* strings.ReplaceAll is what becomes of the text from its beginning on.
LEMMA SubstituteIs ==
  ASSUME NEW t, Len(t) \in Nat, NEW old, Len(old) \in Nat \ {0}, NEW new
  PROVE  \E f : /\ \A i \in 1..(Len(t) + 1) : f[i] = Rewrite(f, t, old, new, i)
                /\ SubstituteAll(t, old, new) = f[1]
<1> DEFINE n == Len(old)
           fix(f) == f = [i \in 1..(Len(t) + 1) |->
                            IF i > Len(t) THEN <<>>
                            ELSE IF i + n - 1 <= Len(t) /\ SubSeq(t, i, i + n - 1) = old
                                 THEN new \o f[i + n]
                                 ELSE <<t[i]>> \o f[i + 1]]
<1>1. PICK g : Rewrites(g, t, old, new, 1)
  BY RewriteExists
<1>2. fix(CHOOSE f : fix(f))
  BY <1>1, Zenon DEF Rewrites, Rewrite, StandsAt
<1>3. SubstituteAll(t, old, new) = IF n = 0 THEN t ELSE (CHOOSE f : fix(f))[1]
  BY Zenon DEF SubstituteAll
<1>4. n # 0
  OBVIOUS
<1> DEFINE h == CHOOSE f : fix(f)
<1>5. Rewrites(h, t, old, new, 1)
  BY <1>2, Zenon DEF Rewrites, Rewrite, StandsAt
<1> HIDE DEF h, fix, n
<1>6. SubstituteAll(t, old, new) = h[1]
  BY <1>3, <1>4 DEF h
<1>7. ASSUME NEW i \in 1..(Len(t) + 1) PROVE h[i] = Rewrite(h, t, old, new, i)
  <2> HIDE DEF Rewrite
  <2> QED BY <1>5 DEF Rewrites
<1> QED BY <1>6, <1>7

\* The result is made of A if new is, and every token that is kept: P holds the positions
\* that are looked at.
LEMMA SubstituteMade ==
  ASSUME NEW A, NEW t, Len(t) \in Nat, NEW old, Len(old) \in Nat \ {0}, NEW new \in Seq(A),
         NEW P \in SUBSET (1..(Len(t) + 1)), 1 \in P,
         \A i \in P : i <= Len(t) => IF StandsAt(old, t, i) THEN i + Len(old) \in P
                                     ELSE t[i] \in A /\ i + 1 \in P
  PROVE  SubstituteAll(t, old, new) \in Seq(A)
<1> DEFINE N == Len(t)
<1>1. PICK f : /\ \A i \in 1..(N + 1) : f[i] = Rewrite(f, t, old, new, i)
               /\ SubstituteAll(t, old, new) = f[1]
  BY SubstituteIs
<1> DEFINE T == {m \in Nat : N + 1 - m \in P /\ f[N + 1 - m] \notin Seq(A)}
<1> SUFFICES ASSUME T # {} PROVE FALSE
  <2>1. N \in Nat /\ N + 1 - N = 1
    OBVIOUS
  <2>2. T = {} => f[N + 1 - N] \in Seq(A)
    BY <2>1
  <2> QED BY <1>1, <2>1, <2>2
<1>2. PICK m \in T : \A k \in T : m <= k
  BY NatLeast
<1> DEFINE i == N + 1 - m
<1>3. i \in P /\ f[i] \notin Seq(A) /\ i \in 1..(N + 1) /\ m \in Nat
  OBVIOUS
<1>4. ASSUME NEW k \in P, k > i PROVE f[k] \in Seq(A)
  <2>1. N + 1 - k \in Nat /\ N + 1 - k < m /\ N + 1 - (N + 1 - k) = k
    BY <1>3, <1>4
  <2>2. N + 1 - k \notin T
    <3> HIDE DEF T, i
    <3> QED BY <1>2, <1>3, <2>1
  <2> HIDE DEF i
  <2> QED BY <2>1, <2>2
<1>5. f[i] = Rewrite(f, t, old, new, i)
  BY <1>1, <1>3
<1> HIDE DEF i, T
<1>6. CASE i > N
  BY <1>3, <1>5, <1>6 DEF Rewrite
<1>7. CASE ~(i > N) /\ StandsAt(old, t, i)
  <2>1. i + Len(old) \in P /\ i + Len(old) > i
    BY <1>3, <1>7
  <2>2. f[i + Len(old)] \in Seq(A) /\ f[i] = new \o f[i + Len(old)]
    BY <1>4, <1>5, <1>7, <2>1 DEF Rewrite
  <2> QED BY <1>3, <2>2
<1>8. CASE ~(i > N) /\ ~StandsAt(old, t, i)
  <2>1. t[i] \in A /\ i + 1 \in P /\ i + 1 > i
    BY <1>3, <1>8
  <2>2. f[i] = <<t[i]>> \o f[i + 1]
    BY <1>5, <1>8 DEF Rewrite
  <2>3. f[i + 1] \in Seq(A)
    BY <1>4, <2>1
  <2>4. <<t[i]>> \in Seq(A)
    BY <2>1
  <2> QED BY <1>3, <2>2, <2>3, <2>4
<1> QED BY <1>6, <1>7, <1>8

\* The provers do not know of a string that it is one.
Letters == STRING \cup {"x", "y", "[", "]", "p0", "p1", "*"}

LEMMA Words ==
  ASSUME NEW S
  PROVE  /\ \A a \in S : <<a>> \in Seq(S)
         /\ \A a, b \in S : <<a, b>> \in Seq(S)
         /\ \A a, b, c \in S : <<a, b, c>> \in Seq(S)
<1>1. \A a \in S : <<a>> \in Seq(S)
  OBVIOUS
<1>2. \A a, b \in S : <<a, b>> \in Seq(S)
  OBVIOUS
<1>3. \A a, b, c \in S : <<a, b, c>> \in Seq(S)
  OBVIOUS
<1> QED BY <1>1, <1>2, <1>3

LEMMA Entities ==
  /\ EmailEntity \in Seq(Letters) /\ Len(EmailEntity) = 1 /\ EmailEntity[1] = "x"
  /\ CustomEntity \in Seq(Letters) /\ Len(CustomEntity) = 2
  /\ CustomEntity[1] = "x" /\ CustomEntity[2] = "y"
<1>1. EmailEntity \in Seq(Letters) /\ CustomEntity \in Seq(Letters)
  <2>1. "x" \in Letters /\ "y" \in Letters
    BY DEF Letters
  <2> QED BY <2>1, Words, Zenon DEF EmailEntity, CustomEntity
<1>2. Len(EmailEntity) = 1 /\ Len(CustomEntity) = 2
  BY DEF EmailEntity, CustomEntity
<1>3. EmailEntity[1] = "x" /\ CustomEntity[1] = "x" /\ CustomEntity[2] = "y"
  BY DEF EmailEntity, CustomEntity
<1> QED BY <1>1, <1>2, <1>3

\* Where the literal detectors match.
LEMMA Stands ==
  ASSUME NEW t \in Seq(Letters), NEW i \in 1..Len(t)
  PROVE  /\ StandsAt(EmailEntity, t, i) <=> t[i] = "x"
         /\ StandsAt(CustomEntity, t, i) <=> i + 1 <= Len(t) /\ t[i] = "x" /\ t[i + 1] = "y"
<1>1. Len(EmailEntity) = 1 /\ Len(CustomEntity) = 2 /\ i \in Nat /\ Len(t) \in Nat
  BY Entities
<1>2. StandsAt(EmailEntity, t, i) <=> t[i] = "x"
  <2>1. SubSeq(t, i, i) \in Seq(Letters) /\ Len(SubSeq(t, i, i)) = 1 /\ SubSeq(t, i, i)[1] = t[i]
    OBVIOUS
  <2> DEFINE w == SubSeq(t, i, i)
  <2> HIDE DEF w
  <2>2. w = EmailEntity <=> t[i] = "x"
    <3>1. ASSUME w = EmailEntity PROVE t[i] = "x"
      BY <2>1, <3>1, Entities DEF w
    <3>2. ASSUME t[i] = "x" PROVE w = EmailEntity
      <4>1. /\ w \in Seq(Letters) /\ Len(w) = Len(EmailEntity)
            /\ \A k \in 1..Len(w) : w[k] = EmailEntity[k]
        BY <2>1, <3>2, Entities DEF w
      <4> QED BY <4>1, Entities, SameSeq
    <3> QED BY <3>1, <3>2
  <2> QED BY <1>1, <2>2 DEF StandsAt, w
<1>3. CASE i + 1 <= Len(t)
  <2>1. /\ SubSeq(t, i, i + 1) \in Seq(Letters) /\ Len(SubSeq(t, i, i + 1)) = 2
        /\ SubSeq(t, i, i + 1)[1] = t[i] /\ SubSeq(t, i, i + 1)[2] = t[i + 1]
    <3>1. i + 1 \in Nat /\ 1 <= i /\ i <= i + 1 + 1 /\ i + 1 - i + 1 = 2
      BY <1>1
    <3>2. /\ SubSeq(t, i, i + 1) \in Seq(Letters) /\ Len(SubSeq(t, i, i + 1)) = i + 1 - i + 1
          /\ \A k \in 1..(i + 1 - i + 1) : SubSeq(t, i, i + 1)[k] = t[k + i - 1]
      BY <1>1, <1>3, <3>1, SubSeqFacts
    <3>3. 1 \in 1..2 /\ 2 \in 1..2 /\ 1 + i - 1 = i /\ 2 + i - 1 = i + 1
      BY <1>1
    <3> QED BY <3>1, <3>2, <3>3
  <2> DEFINE w == SubSeq(t, i, i + 1)
  <2> HIDE DEF w
  <2>2. w = CustomEntity <=> t[i] = "x" /\ t[i + 1] = "y"
    <3>1. ASSUME w = CustomEntity PROVE t[i] = "x" /\ t[i + 1] = "y"
      BY <2>1, <3>1, Entities DEF w
    <3>2. ASSUME t[i] = "x" /\ t[i + 1] = "y" PROVE w = CustomEntity
      <4>1. /\ w \in Seq(Letters) /\ Len(w) = Len(CustomEntity)
            /\ \A k \in 1..Len(w) : w[k] = CustomEntity[k]
        BY <2>1, <3>2, Entities DEF w
      <4> QED BY <4>1, Entities, SameSeq
    <3> QED BY <3>1, <3>2
  <2> QED BY <1>1, <1>2, <1>3, <2>2 DEF StandsAt, w
<1>4. CASE ~(i + 1 <= Len(t))
  BY <1>1, <1>2, <1>4 DEF StandsAt
<1> QED BY <1>3, <1>4

LEMMA Absent ==
  ASSUME NEW w \in Seq(Letters), \A i \in 1..Len(w) : w[i] # "x"
  PROVE  ~Occurs(EmailEntity, w) /\ ~Occurs(CustomEntity, w)
<1>1. \A i \in 1..Len(w) : ~StandsAt(EmailEntity, w, i) /\ ~StandsAt(CustomEntity, w, i)
  BY Stands
<1> QED BY <1>1, Zenon DEF Occurs, StandsAt

LEMMA EmailGone ==
  ASSUME NEW B \in SUBSET Letters, NEW t \in Seq(Letters), NEW new \in Seq(B),
         \A i \in 1..Len(t) : t[i] # "x" => t[i] \in B
  PROVE  SubstituteAll(t, EmailEntity, new) \in Seq(B)
<1> DEFINE P == 1..(Len(t) + 1)
<1>1. Len(EmailEntity) = 1 /\ Len(t) \in Nat
  BY Entities
<1>2. ASSUME NEW i \in P, i <= Len(t)
      PROVE  IF StandsAt(EmailEntity, t, i) THEN i + Len(EmailEntity) \in P
             ELSE t[i] \in B /\ i + 1 \in P
  <2>1. i \in 1..Len(t) /\ i + 1 \in P
    BY <1>1, <1>2
  <2>2. StandsAt(EmailEntity, t, i) <=> t[i] = "x"
    BY <2>1, Stands
  <2> QED BY <1>1, <2>1, <2>2
<1>3. P \in SUBSET (1..(Len(t) + 1)) /\ 1 \in P /\ Len(EmailEntity) \in Nat \ {0}
  BY <1>1
<1> HIDE DEF P
<1> QED BY <1>1, <1>2, <1>3, SubstituteMade

LEMMA CustomKeeps ==
  ASSUME NEW B \in SUBSET Letters, NEW t \in Seq(B), NEW new \in Seq(B)
  PROVE  SubstituteAll(t, CustomEntity, new) \in Seq(B)
<1> DEFINE P == 1..(Len(t) + 1)
<1>1. Len(CustomEntity) = 2 /\ Len(t) \in Nat /\ t \in Seq(Letters)
  <2>1. \A i \in 1..Len(t) : t[i] \in B
    OBVIOUS
  <2>2. \A i \in 1..Len(t) : t[i] \in Letters
    BY <2>1
  <2> QED BY <2>2, Entities
<1>2. ASSUME NEW i \in P, i <= Len(t)
      PROVE  IF StandsAt(CustomEntity, t, i) THEN i + Len(CustomEntity) \in P
             ELSE t[i] \in B /\ i + 1 \in P
  <2>1. i \in 1..Len(t) /\ i + 1 \in P /\ t[i] \in B
    BY <1>1, <1>2
  <2>2. StandsAt(CustomEntity, t, i) => i + 1 <= Len(t)
    BY <1>1, <2>1, Stands
  <2> QED BY <1>1, <2>1, <2>2
<1>3. P \in SUBSET (1..(Len(t) + 1)) /\ 1 \in P /\ Len(CustomEntity) \in Nat \ {0}
  BY <1>1
<1> HIDE DEF P
<1> QED BY <1>1, <1>2, <1>3, SubstituteMade

\* Every second half of the custom entity follows a first one.
Paired(t) == \A i \in 1..Len(t) : t[i] = "y" => i > 1 /\ t[i - 1] = "x"

\* Nothing that is not taken out with the entity is left of it.
LEMMA CustomTail ==
  ASSUME NEW t \in Seq(Letters), Paired(t), NEW new \in Seq(Letters \ {"y"})
  PROVE  SubstituteAll(t, CustomEntity, new) \in Seq(Letters \ {"y"})
<1> DEFINE N == Len(t)
           P == {i \in 1..(N + 1) : i <= N => t[i] # "y"}
           B == Letters \ {"y"}
<1>1. Len(CustomEntity) = 2 /\ N \in Nat /\ \A i \in 1..N : t[i] \in Letters
  BY Entities
<1>2. ASSUME NEW i \in P, i <= N
      PROVE  IF StandsAt(CustomEntity, t, i) THEN i + Len(CustomEntity) \in P
             ELSE t[i] \in B /\ i + 1 \in P
  <2>1. i \in 1..N /\ t[i] \in B
    BY <1>1, <1>2
  <2>2. StandsAt(CustomEntity, t, i) <=> i + 1 <= N /\ t[i] = "x" /\ t[i + 1] = "y"
    BY <2>1, Stands
  <2>3. CASE StandsAt(CustomEntity, t, i)
    <3>1. i + 2 <= N => t[i + 2] # "y"
      <4>1. SUFFICES ASSUME i + 2 <= N, t[i + 2] = "y" PROVE FALSE
        OBVIOUS
      <4>2. i + 2 \in 1..N /\ i + 2 - 1 = i + 1
        BY <2>1, <4>1
      <4>3. t[i + 1] = "x"
        BY <4>1, <4>2 DEF Paired
      <4> QED BY <2>2, <2>3, <4>3
    <3>2. i + 2 \in 1..(N + 1)
      BY <1>1, <2>1, <2>2, <2>3
    <3> QED BY <1>1, <2>3, <3>1, <3>2
  <2>4. CASE ~StandsAt(CustomEntity, t, i)
    <3>1. i + 1 <= N => t[i + 1] # "y"
      <4>1. SUFFICES ASSUME i + 1 <= N, t[i + 1] = "y" PROVE FALSE
        OBVIOUS
      <4>2. i + 1 \in 1..N /\ i + 1 - 1 = i
        BY <2>1, <4>1
      <4>3. t[i] = "x"
        BY <4>1, <4>2 DEF Paired
      <4> QED BY <2>2, <2>4, <4>1, <4>3
    <3>2. i + 1 \in 1..(N + 1)
      BY <1>1, <2>1
    <3> QED BY <2>1, <2>4, <3>1, <3>2
  <2> QED BY <2>3, <2>4
<1>3. P \in SUBSET (1..(N + 1)) /\ 1 \in P /\ Len(CustomEntity) \in Nat \ {0}
  BY <1>1 DEF Paired
<1>4. \A i \in P : i <= N => IF StandsAt(CustomEntity, t, i) THEN i + Len(CustomEntity) \in P
                             ELSE t[i] \in B /\ i + 1 \in P
  BY <1>2
<1> HIDE DEF P
<1> QED BY <1>1, <1>3, <1>4, SubstituteMade

\* The custom entity itself does not come back where texts meet.
LEMMA CustomGone ==
  ASSUME NEW t \in Seq(Letters), NEW new \in Seq(Letters \ {"x", "y"}), new # <<>>
  PROVE  /\ SubstituteAll(t, CustomEntity, new) \in Seq(Letters)
         /\ ~Occurs(CustomEntity, SubstituteAll(t, CustomEntity, new))
<1> DEFINE N == Len(t)
           Clear(w) == /\ w \in Seq(Letters)
                       /\ \A k \in 1..Len(w) : k + 1 <= Len(w) => ~(w[k] = "x" /\ w[k + 1] = "y")
           Good(w, i) == Clear(w) /\ (w # <<>> /\ w[1] = "y" => i <= N /\ t[i] = "y")
<1>1. Len(CustomEntity) = 2 /\ N \in Nat /\ \A i \in 1..N : t[i] \in Letters
  BY Entities
<1>2. PICK f : /\ \A i \in 1..(N + 1) : f[i] = Rewrite(f, t, CustomEntity, new, i)
               /\ SubstituteAll(t, CustomEntity, new) = f[1]
  BY <1>1, SubstituteIs
<1> DEFINE T == {m \in Nat : m <= N /\ ~Good(f[N + 1 - m], N + 1 - m)}
<1>3. T = {}
  <2> SUFFICES ASSUME T # {} PROVE FALSE
    OBVIOUS
  <2>1. PICK m \in T : \A k \in T : m <= k
    BY NatLeast
  <2> DEFINE i == N + 1 - m
  <2>2. i \in 1..(N + 1) /\ ~Good(f[i], i) /\ m \in Nat /\ m <= N
    OBVIOUS
  <2>3. ASSUME NEW k \in 1..(N + 1), k > i PROVE Good(f[k], k)
    <3>1. N + 1 - k \in Nat /\ N + 1 - k < m /\ N + 1 - (N + 1 - k) = k /\ N + 1 - k <= N
      BY <2>2, <2>3
    <3>2. N + 1 - k \notin T
      <4> HIDE DEF T, i
      <4> QED BY <2>1, <2>2, <3>1
    <3> HIDE DEF i, Good
    <3> QED BY <3>1, <3>2
  <2>4. f[i] = Rewrite(f, t, CustomEntity, new, i)
    BY <1>2, <2>2
  <2> HIDE DEF i, T, Good
  <2>5. CASE i > N
    BY <2>2, <2>4, <2>5 DEF Rewrite, Good
  <2>6. CASE ~(i > N) /\ StandsAt(CustomEntity, t, i)
    <3>1. i \in 1..N /\ i + 2 \in 1..(N + 1)
      BY <1>1, <2>2, <2>6 DEF StandsAt
    <3> DEFINE r == f[i + 2]
    <3>2. Good(r, i + 2) /\ f[i] = new \o r
      BY <1>1, <2>3, <2>4, <2>6, <3>1 DEF Rewrite
    <3>3. Clear(r)
      BY <3>2, Zenon DEF Good
    <3> HIDE DEF r
    <3>4. /\ new \in Seq(Letters) /\ Len(new) \in Nat \ {0}
          /\ \A k \in 1..Len(new) : new[k] # "x" /\ new[k] # "y"
      OBVIOUS
    <3>5. /\ new \o r \in Seq(Letters) /\ Len(r) \in Nat /\ Len(new \o r) = Len(new) + Len(r)
          /\ \A k \in 1..Len(new) : (new \o r)[k] = new[k]
          /\ \A k \in 1..(Len(new) + Len(r)) : ~(k <= Len(new)) => (new \o r)[k] = r[k - Len(new)]
      BY <3>3, <3>4, Joined
    <3> DEFINE w == new \o r
    <3> HIDE DEF w
    <3>6. ASSUME NEW k \in 1..Len(w), k + 1 <= Len(w) PROVE ~(w[k] = "x" /\ w[k + 1] = "y")
      <4>1. CASE k <= Len(new)
        BY <3>4, <3>5, <4>1 DEF w
      <4>2. CASE ~(k <= Len(new))
        <5>1. /\ k - Len(new) \in 1..Len(r) /\ k - Len(new) + 1 <= Len(r)
              /\ k \in 1..(Len(new) + Len(r)) /\ k + 1 \in 1..(Len(new) + Len(r))
              /\ ~(k + 1 <= Len(new)) /\ k + 1 - Len(new) = k - Len(new) + 1
          BY <3>4, <3>5, <3>6, <4>2 DEF w
        <5>2. w[k] = r[k - Len(new)] /\ w[k + 1] = r[k - Len(new) + 1]
          BY <3>5, <4>2, <5>1 DEF w
        <5> QED BY <3>3, <5>1, <5>2
      <4> QED BY <4>1, <4>2
    <3>7. w[1] # "y"
      BY <3>4, <3>5 DEF w
    <3>8. Good(w, i)
      BY <3>5, <3>6, <3>7 DEF Good, w
    <3> QED BY <2>2, <3>2, <3>8 DEF w
  <2>7. CASE ~(i > N) /\ ~StandsAt(CustomEntity, t, i)
    <3>1. i \in 1..N /\ i + 1 \in 1..(N + 1)
      BY <1>1, <2>2, <2>7
    <3> DEFINE r == f[i + 1]
               a == <<t[i]>>
    <3>2. Good(r, i + 1)
      BY <1>1, <2>3, <3>1
    <3>3. f[i] = a \o r
      BY <2>4, <2>7 DEF Rewrite
    <3>4. Clear(r) /\ (r # <<>> /\ r[1] = "y" => i + 1 <= N /\ t[i + 1] = "y")
      BY <3>2, Zenon DEF Good
    <3>5. ~(i + 1 <= N /\ t[i] = "x" /\ t[i + 1] = "y")
      BY <2>7, <3>1, Stands
    <3>6. a \in Seq(Letters) /\ Len(a) = 1 /\ a[1] = t[i]
      BY <1>1, <3>1
    <3> HIDE DEF r, a
    <3>7. /\ a \o r \in Seq(Letters) /\ Len(r) \in Nat /\ Len(a \o r) = 1 + Len(r)
          /\ (a \o r)[1] = t[i]
          /\ \A k \in 1..(1 + Len(r)) : ~(k <= 1) => (a \o r)[k] = r[k - 1]
      <4>1. r \in Seq(Letters)
        BY <3>4
      <4>2. /\ a \o r \in Seq(Letters) /\ Len(r) \in Nat /\ Len(a \o r) = Len(a) + Len(r)
            /\ \A k \in 1..Len(a) : (a \o r)[k] = a[k]
            /\ \A k \in 1..(Len(a) + Len(r)) : ~(k <= Len(a)) => (a \o r)[k] = r[k - Len(a)]
        BY <3>6, <4>1, Joined
      <4> QED BY <3>6, <4>2
    <3> DEFINE w == a \o r
    <3> HIDE DEF w
    <3>8. ASSUME NEW k \in 1..Len(w), k + 1 <= Len(w) PROVE ~(w[k] = "x" /\ w[k + 1] = "y")
      <4>1. CASE k = 1
        <5>1. w[1] = t[i] /\ w[2] = r[1] /\ r # <<>>
          BY <3>7, <3>8, <4>1 DEF w
        <5> QED BY <3>4, <3>5, <4>1, <5>1
      <4>2. CASE k # 1
        <5>1. /\ k - 1 \in 1..Len(r) /\ k - 1 + 1 <= Len(r) /\ k - 1 + 1 = k
              /\ k \in 1..(1 + Len(r)) /\ k + 1 \in 1..(1 + Len(r)) /\ k + 1 - 1 = k
              /\ ~(k <= 1) /\ ~(k + 1 <= 1)
          BY <3>7, <3>8, <4>2 DEF w
        <5>2. w[k] = r[k - 1] /\ w[k + 1] = r[k]
          BY <3>7, <5>1 DEF w
        <5>3. ~(r[k - 1] = "x" /\ r[k - 1 + 1] = "y")
          BY <3>4, <5>1
        <5> QED BY <5>1, <5>2, <5>3
      <4> QED BY <4>1, <4>2
    <3>9. w[1] = "y" => i <= N /\ t[i] = "y"
      BY <3>1, <3>7 DEF w
    <3>10. Good(w, i)
      BY <3>7, <3>8, <3>9 DEF Good, w
    <3> QED BY <2>2, <3>3, <3>10 DEF w
  <2> QED BY <2>5, <2>6, <2>7
<1>4. Good(f[1], 1)
  <2>1. N \notin T /\ N \in Nat /\ N <= N /\ N + 1 - N = 1
    BY <1>1, <1>3
  <2> HIDE DEF Good
  <2> QED BY <2>1
<1>5. Clear(f[1])
  BY <1>4, Zenon
<1> HIDE DEF Good, T
<1>6. \A k \in 1..Len(f[1]) : ~StandsAt(CustomEntity, f[1], k)
  BY <1>5, Stands
<1>7. ~Occurs(CustomEntity, f[1])
  BY <1>6, Zenon DEF Occurs, StandsAt
<1> QED BY <1>2, <1>5, <1>7

-----------------------------------------------------------------------------
(***************************************************************************)
(* Masking and redaction                                                   *)
(***************************************************************************)

LEMMA MaxOf == Max({1}) = 1 /\ Max({2}) = 2 /\ Max({1, 2}) = 2
<1>1. ASSUME NEW S \in SUBSET {1, 2}, NEW n \in S, \A x \in S : x <= n PROVE Max(S) = n
  <2>1. S \in SUBSET Int /\ S # {} /\ \A x \in S : x <= 2
    BY <1>1
  <2>2. Max(S) \in S /\ \A y \in S : Max(S) >= y
    BY <2>1, GreatestOf
  <2>3. Max(S) \in Int /\ n \in Int /\ Max(S) <= n /\ Max(S) >= n
    BY <1>1, <2>1, <2>2
  <2> QED BY <2>3
<1>2. Max({1}) = 1
  BY <1>1
<1>3. Max({2}) = 2
  BY <1>1
<1>4. Max({1, 2}) = 2
  BY <1>1
<1> QED BY <1>2, <1>3, <1>4

\* What the fold of ReplaceEach goes through.
EachStep(f, t, s, x) ==
  IF x = {} THEN t ELSE SubstituteAll(f[x \ {Max(x)}], s[Max(x)][1], s[Max(x)][2])

EachSteps(f, t, s) == f = [x \in SUBSET DOMAIN s |-> EachStep(f, t, s, x)]

LEMMA EachIs ==
  ASSUME NEW t, NEW s, NEW g, EachSteps(g, t, s)
  PROVE  \E h : EachSteps(h, t, s) /\ ReplaceEach(t, s) = h[DOMAIN s]
<1> DEFINE fix(f) == f = [x \in SUBSET DOMAIN s |->
                            IF x = {} THEN t
                            ELSE SubstituteAll(f[x \ {Max(x)}], s[Max(x)][1], s[Max(x)][2])]
           h == CHOOSE f : fix(f)
<1>1. fix(h)
  BY Zenon DEF EachStep, EachSteps
<1>2. ReplaceEach(t, s) = h[DOMAIN s]
  BY Zenon DEF ReplaceEach, FoldLeft, MapThenFoldSet
<1>3. EachSteps(h, t, s)
  BY <1>1, Zenon DEF EachStep, EachSteps
<1> QED BY <1>2, <1>3, Zenon

LEMMA EachAt ==
  ASSUME NEW t, NEW s, NEW h, EachSteps(h, t, s), NEW x \in SUBSET DOMAIN s
  PROVE  h[x] = EachStep(h, t, s, x)
  BY DEF EachSteps

LEMMA EachOne ==
  ASSUME NEW t, NEW s, DOMAIN s = 1..1
  PROVE  ReplaceEach(t, s) = SubstituteAll(t, s[1][1], s[1][2])
<1> DEFINE a == SubstituteAll(t, s[1][1], s[1][2])
           g == [x \in SUBSET DOMAIN s |-> IF x = {} THEN t ELSE a]
<1>0. DOMAIN s = {1}
  OBVIOUS
<1>1. ASSUME NEW x \in SUBSET DOMAIN s PROVE g[x] = EachStep(g, t, s, x)
  <2>1. CASE x = {}
    BY <2>1 DEF EachStep
  <2>2. CASE x # {}
    <3>1. x = {1} /\ Max(x) = 1 /\ x \ {Max(x)} = {}
      BY <1>0, <2>2, MaxOf
    <3>2. g[{}] = t /\ g[x] = a
      BY <2>2
    <3> QED BY <2>2, <3>1, <3>2 DEF EachStep
  <2> QED BY <2>1, <2>2
<1>2. EachSteps(g, t, s)
  BY <1>1 DEF EachSteps
<1> HIDE DEF g, a
<1>3. PICK h : EachSteps(h, t, s) /\ ReplaceEach(t, s) = h[DOMAIN s]
  BY <1>2, EachIs
<1>4. h[{}] = t
  BY <1>3, EachAt DEF EachStep
<1>5. h[{1}] = EachStep(h, t, s, {1})
  BY <1>0, <1>3, EachAt
<1>6. {1} \ {1} = {} /\ {1} # {}
  OBVIOUS
<1>7. h[{1}] = a
  BY <1>4, <1>5, <1>6, MaxOf DEF EachStep, a
<1> QED BY <1>0, <1>3, <1>7 DEF a

LEMMA EachTwo ==
  ASSUME NEW t, NEW s, DOMAIN s = 1..2
  PROVE  ReplaceEach(t, s) = SubstituteAll(SubstituteAll(t, s[1][1], s[1][2]), s[2][1], s[2][2])
<1> DEFINE a == SubstituteAll(t, s[1][1], s[1][2])
           b == SubstituteAll(a, s[2][1], s[2][2])
           c == SubstituteAll(t, s[2][1], s[2][2])
           g == [x \in SUBSET DOMAIN s |->
                   IF x = {} THEN t ELSE IF x = {1} THEN a ELSE IF x = {2} THEN c ELSE b]
<1>0. DOMAIN s = {1, 2}
  OBVIOUS
<1>1. {1} # {} /\ {2} # {} /\ {1, 2} # {} /\ {1} # {2} /\ {1, 2} # {1} /\ {1, 2} # {2}
  OBVIOUS
<1>2. {1} \ {1} = {} /\ {2} \ {2} = {} /\ {1, 2} \ {2} = {1}
  OBVIOUS
<1> HIDE DEF a, b, c
<1>3. g[{}] = t /\ g[{1}] = a /\ g[{2}] = c /\ g[{1, 2}] = b
  <2>1. {} \in SUBSET DOMAIN s /\ {1} \in SUBSET DOMAIN s /\ {2} \in SUBSET DOMAIN s /\ {1, 2} \in SUBSET DOMAIN s
    BY <1>0
  <2> QED BY <1>1, <2>1, Zenon
<1> HIDE DEF g
<1>4. ASSUME NEW x \in SUBSET DOMAIN s PROVE g[x] = EachStep(g, t, s, x)
  <2>1. x = {} \/ x = {1} \/ x = {2} \/ x = {1, 2}
    BY <1>0
  <2>2. CASE x = {}
    BY <1>3, <2>2 DEF EachStep
  <2>3. CASE x = {1}
    BY <1>1, <1>2, <1>3, <2>3, MaxOf DEF EachStep, a
  <2>4. CASE x = {2}
    BY <1>1, <1>2, <1>3, <2>4, MaxOf DEF EachStep, c
  <2>5. CASE x = {1, 2}
    BY <1>1, <1>2, <1>3, <2>5, MaxOf DEF EachStep, b
  <2> QED BY <2>1, <2>2, <2>3, <2>4, <2>5
<1>5. EachSteps(g, t, s)
  BY <1>4 DEF g, EachSteps
<1>6. PICK h : EachSteps(h, t, s) /\ ReplaceEach(t, s) = h[DOMAIN s]
  BY <1>5, EachIs
<1>7. h[{}] = t
  BY <1>6, EachAt DEF EachStep
<1>8. h[{1}] = EachStep(h, t, s, {1}) /\ h[{1, 2}] = EachStep(h, t, s, {1, 2})
  BY <1>0, <1>6, EachAt
<1>9. h[{1}] = a
  BY <1>1, <1>2, <1>7, <1>8, MaxOf DEF EachStep, a
<1>10. h[{1, 2}] = b
  BY <1>1, <1>2, <1>8, <1>9, MaxOf DEF EachStep, b
<1> QED BY <1>0, <1>6, <1>10 DEF a, b

\* The order of one pair, and of two of which one is longer.
Longest(M) == CHOOSE s \in SetToSeqs(M) : LongestFirst(s)

LEMMA SeqsOf ==
  ASSUME NEW M
  PROVE  SetToSeqs(M) = {f \in [1..Cardinality(M) -> M] :
                           \A i, j \in 1..Cardinality(M) : i # j => f[i] # f[j]}
  BY Zenon DEF SetToSeqs

LEMMA LongestOne ==
  ASSUME NEW p
  PROVE  DOMAIN Longest({p}) = 1..1 /\ Longest({p})[1] = p
<1> DEFINE s == [i \in 1..1 |-> p]
<1>1. Cardinality({p}) = 1
  BY FS_Singleton
<1>2. s \in [1..1 -> {p}] /\ \A i, j \in 1..1 : i = j
  OBVIOUS
<1> HIDE DEF s
<1>3. SetToSeqs({p}) = {f \in [1..1 -> {p}] : \A i, j \in 1..1 : i # j => f[i] # f[j]}
  BY <1>1, SeqsOf
<1>4. s \in SetToSeqs({p})
  BY <1>2, <1>3
<1>5. LongestFirst(s)
  BY <1>2 DEF LongestFirst
<1>6. Longest({p}) \in SetToSeqs({p})
  BY <1>4, <1>5, Zenon DEF Longest
<1>7. Longest({p}) \in [1..1 -> {p}]
  BY <1>3, <1>6
<1> QED BY <1>7

LEMMA PairCard ==
  ASSUME NEW p, NEW q, p # q
  PROVE  Cardinality({p, q}) = 2
<1>1. IsFiniteSet({p}) /\ Cardinality({p}) = 1
  BY FS_Singleton
<1>2. Cardinality({p} \cup {q}) = Cardinality({p}) + 1
  BY <1>1, FS_AddElement
<1>3. {p} \cup {q} = {p, q}
  OBVIOUS
<1> QED BY <1>1, <1>2, <1>3

LEMMA LongestTwo ==
  ASSUME NEW p, NEW q, Len(p[1]) \in Nat, Len(q[1]) \in Nat, Len(p[1]) > Len(q[1])
  PROVE  DOMAIN Longest({p, q}) = 1..2 /\ Longest({p, q})[1] = p /\ Longest({p, q})[2] = q
<1> DEFINE s == [i \in 1..2 |-> IF i = 1 THEN p ELSE q]
<1>0. p # q
  OBVIOUS
<1>1. Cardinality({p, q}) = 2
  BY <1>0, PairCard
<1>2. s \in [1..2 -> {p, q}] /\ s[1] = p /\ s[2] = q /\ DOMAIN s = 1..2
  OBVIOUS
<1> HIDE DEF s
<1>3. s \in SetToSeqs({p, q})
  <2>1. \A i, j \in 1..2 : i # j => s[i] # s[j]
    <3>1. \A i \in 1..2 : i = 1 \/ i = 2
      OBVIOUS
    <3> QED BY <1>0, <1>2, <3>1
  <2> QED BY <1>1, <1>2, <2>1, SeqsOf
<1>4. LongestFirst(s)
  <2>1. \A i, j \in 1..2 : i < j => i = 1 /\ j = 2
    OBVIOUS
  <2> QED BY <1>2, <2>1 DEF LongestFirst
<1> DEFINE l == Longest({p, q})
<1>5. l \in SetToSeqs({p, q}) /\ LongestFirst(l)
  BY <1>3, <1>4, Zenon DEF Longest
<1> HIDE DEF l
<1>6. l \in [1..2 -> {p, q}] /\ l[1] # l[2]
  <2>1. l \in [1..2 -> {p, q}] /\ \A i, j \in 1..2 : i # j => l[i] # l[j]
    BY <1>1, <1>5, SeqsOf
  <2>2. 1 \in 1..2 /\ 2 \in 1..2 /\ 1 # 2
    OBVIOUS
  <2> QED BY <2>1, <2>2
<1>7. Len(l[1][1]) >= Len(l[2][1])
  <2>1. DOMAIN l = 1..2 /\ 1 \in 1..2 /\ 2 \in 1..2 /\ 1 < 2
    BY <1>6
  <2> QED BY <1>5, <2>1 DEF LongestFirst
<1>8. l[1] \in {p, q} /\ l[2] \in {p, q}
  BY <1>6
<1>9. l[1] = p /\ l[2] = q
  <2>1. CASE l[1] = q
    <3>1. l[2] = p
      BY <1>6, <1>8, <2>1
    <3> QED BY <1>7, <2>1, <3>1
  <2>2. CASE l[1] = p
    BY <1>6, <1>8, <2>2
  <2> QED BY <1>8, <2>1, <2>2
<1> QED BY <1>6, <1>9 DEF l

\* A placeholder holds nothing of an entity.
LEMMA Placeholders ==
  ASSUME NEW n \in 1..2
  PROVE  Placeholder(n) \in Seq(Letters \ {"x", "y"}) /\ Placeholder(n) # <<>>
<1>1. n = 1 \/ n = 2
  OBVIOUS
<1>2. PiiIds[n] \in Letters \ {"x", "y"}
  BY <1>1 DEF PiiIds, Letters
<1>3. "[" \in Letters \ {"x", "y"} /\ "]" \in Letters \ {"x", "y"}
  BY DEF Letters
<1>4. Placeholder(n) \in Seq(Letters \ {"x", "y"})
  BY <1>2, <1>3, Words, Zenon DEF Placeholder
<1>5. Len(Placeholder(n)) = 3
  BY DEF Placeholder
<1>6. Placeholder(n) # <<>>
  <2>1. Len(<<>>) = 0
    OBVIOUS
  <2> QED BY <1>5, <2>1
<1> QED BY <1>4, <1>6

LEMMA StarsAre == Stars \in Seq(Letters \ {"x", "y"}) /\ Stars # <<>>
<1>1. "*" \in Letters \ {"x", "y"}
  BY DEF Letters
<1>2. Stars \in Seq(Letters \ {"x", "y"})
  BY <1>1, Words, Zenon DEF Stars
<1> QED BY <1>2 DEF Stars

\* The detectors of a policy, in any order.
LEMMA EntitiesDiffer == EmailEntity # CustomEntity
  BY Entities

LEMMA OrdersAre ==
  ASSUME NEW p, p.Entities \subseteq {EmailEntity, CustomEntity}, p.Entities # {}, NEW o \in PiiOrders(p)
  PROVE  \/ \E e \in {EmailEntity, CustomEntity} : p.Entities = {e} /\ DOMAIN o = 1..1 /\ o[1] = e
         \/ /\ p.Entities = {EmailEntity, CustomEntity} /\ DOMAIN o = 1..2
            /\ \/ o[1] = EmailEntity /\ o[2] = CustomEntity
               \/ o[1] = CustomEntity /\ o[2] = EmailEntity
<1> DEFINE E == p.Entities
<1>1. o \in {f \in [1..Cardinality(E) -> E] :
               \A i, j \in 1..Cardinality(E) : i # j => f[i] # f[j]}
  BY SeqsOf DEF PiiOrders
<1> HIDE DEF E
<1>2. (\E e \in {EmailEntity, CustomEntity} : E = {e}) \/ E = {EmailEntity, CustomEntity}
  BY DEF E
<1>3. ASSUME NEW e \in {EmailEntity, CustomEntity}, E = {e} PROVE DOMAIN o = 1..1 /\ o[1] = e
  <2>1. Cardinality(E) = 1
    BY <1>3, FS_Singleton
  <2>2. o \in [1..1 -> {e}]
    BY <1>1, <1>3, <2>1
  <2> QED BY <2>2
<1>4. CASE E = {EmailEntity, CustomEntity}
  <2>1. Cardinality(E) = 2
    BY <1>4, EntitiesDiffer, PairCard
  <2>2. o \in [1..2 -> {EmailEntity, CustomEntity}] /\ \A i, j \in 1..2 : i # j => o[i] # o[j]
    BY <1>1, <1>4, <2>1
  <2>3. 1 \in 1..2 /\ 2 \in 1..2 /\ 1 # 2
    OBVIOUS
  <2>4. o[1] \in {EmailEntity, CustomEntity} /\ o[2] \in {EmailEntity, CustomEntity} /\ o[1] # o[2]
    BY <2>2, <2>3
  <2> QED BY <1>4, <2>2, <2>4 DEF E
<1> QED BY <1>2, <1>3, <1>4 DEF E

\* A text from which an email is absent holds no custom entity either; one with no custom
\* entity has no second half of one.
LEMMA CustomHasEmail ==
  ASSUME NEW t \in Seq(Letters), Occurs(CustomEntity, t) PROVE Occurs(EmailEntity, t)
<1>1. PICK i \in 1..Len(t) : t[i] = "x"
  BY Absent, Zenon
<1>2. StandsAt(EmailEntity, t, i)
  BY <1>1, Stands
<1> QED BY <1>2, Zenon DEF StandsAt, Occurs

LEMMA NoSecondHalf ==
  ASSUME NEW t \in Seq(Letters), Paired(t), ~Occurs(CustomEntity, t)
  PROVE  \A i \in 1..Len(t) : t[i] # "y"
<1> SUFFICES ASSUME NEW i \in 1..Len(t), t[i] = "y" PROVE FALSE
  OBVIOUS
<1>1. i > 1 /\ t[i - 1] = "x"
  BY DEF Paired
<1>2. i - 1 \in 1..Len(t) /\ i - 1 + 1 <= Len(t) /\ t[i - 1 + 1] = "y"
  BY <1>1
<1>3. StandsAt(CustomEntity, t, i - 1)
  BY <1>1, <1>2, Stands
<1> QED BY <1>2, <1>3, Zenon DEF StandsAt, Occurs

\* What may go upstream of the text t.
Harmless(w, t, E) ==
  /\ w \in Seq(Letters)
  /\ \A e \in E : ~Occurs(e, w)
Spotless(w, t, E) ==
  Harmless(w, t, E) /\ (CustomEntity \in E /\ Paired(t) => \A i \in 1..Len(w) : w[i] # "y")

LEMMA Shrink ==
  ASSUME NEW B \in SUBSET Letters, NEW w \in Seq(B)
  PROVE  w \in Seq(Letters) /\ \A i \in 1..Len(w) : w[i] \in B
<1>1. \A i \in 1..Len(w) : w[i] \in B
  OBVIOUS
<1>2. \A i \in 1..Len(w) : w[i] \in Letters
  BY <1>1
<1> QED BY <1>1, <1>2

\* Placeholders are numbered from the first detector that matches.
LEMMA MappingTwo ==
  ASSUME NEW t, NEW o, PiiMatches(t, o) = {1, 2}
  PROVE  PiiMapping(t, o) = {<<o[1], Placeholder(1)>>, <<o[2], Placeholder(2)>>}
<1>1. {m \in {1, 2} : m <= 1} = {1} /\ {m \in {1, 2} : m <= 2} = {1, 2}
  OBVIOUS
<1>2. Cardinality({1}) = 1 /\ Cardinality({1, 2}) = 2
  <2>1. Cardinality({1}) = 1
    BY FS_Singleton
  <2>2. 1 # 2
    OBVIOUS
  <2>3. Cardinality({1, 2}) = 2
    BY <2>2, PairCard
  <2> QED BY <2>1, <2>3
<1> DEFINE F(k) == <<o[k], Placeholder(Cardinality({m \in {1, 2} : m <= k}))>>
<1>3. PiiMapping(t, o) = {F(k) : k \in {1, 2}}
  BY Zenon DEF PiiMapping
<1>4. F(1) = <<o[1], Placeholder(1)>> /\ F(2) = <<o[2], Placeholder(2)>>
  BY <1>1, <1>2, Zenon
<1> HIDE DEF F
<1>5. PiiMapping(t, o) = {F(1), F(2)}
  BY <1>3
<1> QED BY <1>4, <1>5

\* One email placeholder, one custom placeholder, or the custom one first and then the other.
LEMMA EmailOut ==
  ASSUME NEW t \in Seq(Letters), NEW new \in Seq(Letters \ {"x", "y"})
  PROVE  LET w == SubstituteAll(t, EmailEntity, new)
         IN  /\ w \in Seq(Letters) /\ ~Occurs(EmailEntity, w) /\ ~Occurs(CustomEntity, w)
             /\ (\A i \in 1..Len(t) : t[i] # "y") => \A i \in 1..Len(w) : w[i] # "y"
<1> DEFINE w == SubstituteAll(t, EmailEntity, new)
           B == Letters \ {"x"}
           C == Letters \ {"x", "y"}
<1>1. \A i \in 1..Len(t) : t[i] \in Letters
  OBVIOUS
<1>2. B \in SUBSET Letters /\ C \in SUBSET Letters /\ C \in SUBSET B
  OBVIOUS
<1>3. new \in Seq(B)
  <2>1. \A i \in 1..Len(new) : new[i] \in B
    OBVIOUS
  <2> QED BY <2>1
<1>4. w \in Seq(B)
  <2>1. \A i \in 1..Len(t) : t[i] # "x" => t[i] \in B
    BY <1>1
  <2> HIDE DEF B
  <2> QED BY <1>2, <1>3, <2>1, EmailGone
<1>5. w \in Seq(Letters) /\ \A i \in 1..Len(w) : w[i] \in B
  <2> HIDE DEF B, w
  <2> QED BY <1>2, <1>4, Shrink
<1>6. ~Occurs(EmailEntity, w) /\ ~Occurs(CustomEntity, w)
  <2>1. \A i \in 1..Len(w) : w[i] # "x"
    BY <1>5
  <2> HIDE DEF w
  <2> QED BY <1>5, <2>1, Absent
<1>7. ASSUME \A i \in 1..Len(t) : t[i] # "y" PROVE \A i \in 1..Len(w) : w[i] # "y"
  <2>1. \A i \in 1..Len(t) : t[i] # "x" => t[i] \in C
    BY <1>1, <1>7
  <2>2. w \in Seq(C)
    <3> HIDE DEF C
    <3> QED BY <1>2, <2>1, EmailGone DEF C
  <2>3. \A i \in 1..Len(w) : w[i] \in C
    <3> HIDE DEF C, w
    <3> QED BY <1>2, <2>2, Shrink
  <2> QED BY <2>3
<1> QED BY <1>5, <1>6, <1>7

LEMMA CustomOut ==
  ASSUME NEW t \in Seq(Letters), NEW new \in Seq(Letters \ {"x", "y"})
  PROVE  LET w == SubstituteAll(t, CustomEntity, new)
         IN  /\ w \in Seq(Letters)
             /\ new # <<>> => ~Occurs(CustomEntity, w)
             /\ Paired(t) => \A i \in 1..Len(w) : w[i] # "y"
             /\ (\A i \in 1..Len(t) : t[i] # "x") => \A i \in 1..Len(w) : w[i] # "x"
<1> DEFINE w == SubstituteAll(t, CustomEntity, new)
           B == Letters \ {"y"}
           C == Letters \ {"x"}
<1>1. new \in Seq(Letters) /\ new \in Seq(B) /\ new \in Seq(C)
  <2>1. \A i \in 1..Len(new) : new[i] \in Letters \ {"x", "y"}
    OBVIOUS
  <2>2. \A i \in 1..Len(new) : new[i] \in B /\ new[i] \in C /\ new[i] \in Letters
    BY <2>1
  <2> QED BY <2>2
<1>2. B \in SUBSET Letters /\ C \in SUBSET Letters /\ Letters \in SUBSET Letters
  OBVIOUS
<1>3. w \in Seq(Letters)
  BY <1>1, <1>2, CustomKeeps
<1>4. new # <<>> => ~Occurs(CustomEntity, w)
  BY CustomGone
<1>5. Paired(t) => \A i \in 1..Len(w) : w[i] # "y"
  <2> SUFFICES ASSUME Paired(t) PROVE \A i \in 1..Len(w) : w[i] # "y"
    OBVIOUS
  <2>1. w \in Seq(B)
    BY <1>1, CustomTail
  <2>2. \A i \in 1..Len(w) : w[i] \in B
    <3> HIDE DEF B, w
    <3> QED BY <1>2, <2>1, Shrink
  <2> QED BY <2>2
<1>6. (\A i \in 1..Len(t) : t[i] # "x") => \A i \in 1..Len(w) : w[i] # "x"
  <2> SUFFICES ASSUME \A i \in 1..Len(t) : t[i] # "x" PROVE \A i \in 1..Len(w) : w[i] # "x"
    OBVIOUS
  <2>1. \A i \in 1..Len(t) : t[i] \in C
    OBVIOUS
  <2>2. t \in Seq(C)
    <3> HIDE DEF C
    <3> QED BY <2>1
  <2>3. w \in Seq(C)
    <3> HIDE DEF C
    <3> QED BY <1>1, <1>2, <2>2, CustomKeeps
  <2>4. \A i \in 1..Len(w) : w[i] \in C
    <3> HIDE DEF C, w
    <3> QED BY <1>2, <2>3, Shrink
  <2> QED BY <2>4
<1> QED BY <1>3, <1>4, <1>5, <1>6

\* What maskPIIFromContent makes of a text in which something was found.
LEMMA MaskingIs ==
  ASSUME NEW t \in Seq(Letters), NEW p, p.Entities \subseteq {EmailEntity, CustomEntity}, p.Entities # {},
         NEW o \in PiiOrders(p), PiiMatches(t, o) # {}
  PROVE  \/ /\ EmailEntity \in p.Entities /\ (CustomEntity \in p.Entities => ~Occurs(CustomEntity, t))
            /\ maskPIIFromContent(t, o) = SubstituteAll(t, EmailEntity, Placeholder(1))
         \/ /\ p.Entities = {CustomEntity}
            /\ maskPIIFromContent(t, o) = SubstituteAll(t, CustomEntity, Placeholder(1))
         \/ \E m, n \in 1..2 :
              /\ m # n /\ p.Entities = {EmailEntity, CustomEntity}
              /\ maskPIIFromContent(t, o) =
                   SubstituteAll(SubstituteAll(t, CustomEntity, Placeholder(m)), EmailEntity, Placeholder(n))
<1> HIDE DEF Placeholder
<1>1. maskPIIFromContent(t, o) = ReplaceEach(t, Longest(PiiMapping(t, o)))
  BY Zenon DEF maskPIIFromContent, Longest
<1>2. ASSUME NEW n \in 1..2, PiiMatches(t, o) = {n}
      PROVE  maskPIIFromContent(t, o) = SubstituteAll(t, o[n], Placeholder(1))
  <2> DEFINE q == <<o[n], Placeholder(1)>>
  <2>1. PiiMapping(t, o) = {q}
    <3>1. {m \in {n} : m <= n} = {n}
      BY <1>2
    <3>2. Cardinality({n}) = 1
      BY FS_Singleton
    <3>3. PiiMapping(t, o) = {<<o[k], Placeholder(Cardinality({m \in {n} : m <= k}))>> : k \in {n}}
      BY <1>2, Zenon DEF PiiMapping
    <3> QED BY <3>1, <3>2, <3>3
  <2> HIDE DEF q
  <2>2. DOMAIN Longest({q}) = 1..1 /\ Longest({q})[1] = q
    BY LongestOne
  <2> DEFINE s == Longest({q})
  <2> HIDE DEF s
  <2>3. ReplaceEach(t, s) = SubstituteAll(t, s[1][1], s[1][2])
    BY <2>2, EachOne DEF s
  <2>4. s[1] = q /\ q[1] = o[n] /\ q[2] = Placeholder(1)
    BY <2>2 DEF s, q
  <2> QED BY <1>1, <2>1, <2>3, <2>4 DEF s
<1>3. ASSUME NEW m \in 1..2, NEW n \in 1..2, o[m] = CustomEntity, o[n] = EmailEntity,
             PiiMatches(t, o) = {1, 2}, m # n
      PROVE  maskPIIFromContent(t, o) =
               SubstituteAll(SubstituteAll(t, CustomEntity, Placeholder(m)), EmailEntity, Placeholder(n))
  <2> DEFINE c == <<CustomEntity, Placeholder(m)>>
             e == <<EmailEntity, Placeholder(n)>>
  <2>1. PiiMapping(t, o) = {<<o[1], Placeholder(1)>>, <<o[2], Placeholder(2)>>}
    BY <1>3, MappingTwo
  <2>2. (m = 1 /\ n = 2) \/ (m = 2 /\ n = 1)
    BY <1>3
  <2>3. PiiMapping(t, o) = {c, e}
    BY <1>3, <2>1, <2>2
  <2>4. c[1] = CustomEntity /\ c[2] = Placeholder(m) /\ e[1] = EmailEntity /\ e[2] = Placeholder(n)
    OBVIOUS
  <2> HIDE DEF c, e
  <2>5. Len(c[1]) \in Nat /\ Len(e[1]) \in Nat /\ Len(c[1]) > Len(e[1])
    BY <2>4, Entities
  <2>6. DOMAIN Longest({c, e}) = 1..2 /\ Longest({c, e})[1] = c /\ Longest({c, e})[2] = e
    BY <2>5, LongestTwo
  <2> DEFINE s == Longest({c, e})
  <2> HIDE DEF s
  <2>7. ReplaceEach(t, s) = SubstituteAll(SubstituteAll(t, s[1][1], s[1][2]), s[2][1], s[2][2])
    BY <2>6, EachTwo DEF s
  <2>8. s[1] = c /\ s[2] = e
    BY <2>6 DEF s
  <2> QED BY <1>1, <2>3, <2>4, <2>7, <2>8 DEF s
<1>4. ASSUME NEW n PROVE n \in PiiMatches(t, o) <=> n \in DOMAIN o /\ Occurs(o[n], t)
  BY Zenon DEF PiiMatches
<1>5. CASE \E e \in {EmailEntity, CustomEntity} : p.Entities = {e} /\ DOMAIN o = 1..1 /\ o[1] = e
  <2>1. PICK e \in {EmailEntity, CustomEntity} : p.Entities = {e} /\ DOMAIN o = 1..1 /\ o[1] = e
    BY <1>5
  <2>2. PiiMatches(t, o) = {1}
    BY <1>4, <2>1
  <2>3. maskPIIFromContent(t, o) = SubstituteAll(t, e, Placeholder(1))
    BY <1>2, <2>1, <2>2
  <2>4. e = EmailEntity \/ e = CustomEntity
    OBVIOUS
  <2> QED BY <2>1, <2>3, <2>4, EntitiesDiffer
<1>6. CASE /\ p.Entities = {EmailEntity, CustomEntity} /\ DOMAIN o = 1..2
           /\ \/ o[1] = EmailEntity /\ o[2] = CustomEntity
              \/ o[1] = CustomEntity /\ o[2] = EmailEntity
  <2>1. PICK m \in 1..2, n \in 1..2 : m # n /\ o[m] = CustomEntity /\ o[n] = EmailEntity
    <3>1. 1 \in 1..2 /\ 2 \in 1..2 /\ 1 # 2
      OBVIOUS
    <3> QED BY <1>6, <3>1
  <2>2. 1..2 = {m, n} /\ {m, n} = {1, 2}
    BY <2>1
  <2>3. n \in PiiMatches(t, o)
    <3>1. n \in DOMAIN o /\ m \in DOMAIN o
      BY <1>6
    <3>2. Occurs(CustomEntity, t) => Occurs(EmailEntity, t)
      BY CustomHasEmail
    <3>3. \A k \in PiiMatches(t, o) : (k = m \/ k = n) /\ Occurs(o[k], t)
      BY <1>4, <1>6, <2>2
    <3>4. Occurs(EmailEntity, t)
      BY <2>1, <3>2, <3>3
    <3> QED BY <1>4, <2>1, <3>1, <3>4
  <2>4. CASE Occurs(CustomEntity, t)
    <3>1. PiiMatches(t, o) = {1, 2}
      BY <1>4, <1>6, <2>1, <2>2, <2>3, <2>4
    <3>2. maskPIIFromContent(t, o) =
            SubstituteAll(SubstituteAll(t, CustomEntity, Placeholder(m)), EmailEntity, Placeholder(n))
      BY <1>3, <2>1, <3>1
    <3> QED BY <1>6, <2>1, <3>2
  <2>5. CASE ~Occurs(CustomEntity, t)
    <3>1. PiiMatches(t, o) = {n}
      BY <1>4, <1>6, <2>1, <2>2, <2>3, <2>5
    <3>2. maskPIIFromContent(t, o) = SubstituteAll(t, EmailEntity, Placeholder(1))
      BY <1>2, <2>1, <3>1
    <3> QED BY <1>6, <2>5, <3>2
  <2> QED BY <2>4, <2>5
<1> QED BY <1>5, <1>6, OrdersAre, Zenon

LEMMA MaskedSpotless ==
  ASSUME NEW t \in Seq(Letters), NEW p, p.Entities \subseteq {EmailEntity, CustomEntity}, p.Entities # {},
         NEW o \in PiiOrders(p), PiiMatches(t, o) # {}
  PROVE  Spotless(maskPIIFromContent(t, o), t, p.Entities)
<1> DEFINE w == maskPIIFromContent(t, o)
           new(n) == Placeholder(n)
<1>1. \A n \in 1..2 : new(n) \in Seq(Letters \ {"x", "y"}) /\ new(n) # <<>>
  BY Placeholders
<1>2. 1 \in 1..2
  OBVIOUS
<1> HIDE DEF w, new
<1>3. CASE /\ EmailEntity \in p.Entities /\ (CustomEntity \in p.Entities => ~Occurs(CustomEntity, t))
           /\ w = SubstituteAll(t, EmailEntity, new(1))
  <2>1. /\ w \in Seq(Letters) /\ ~Occurs(EmailEntity, w) /\ ~Occurs(CustomEntity, w)
        /\ (\A i \in 1..Len(t) : t[i] # "y") => \A i \in 1..Len(w) : w[i] # "y"
    BY <1>1, <1>2, <1>3, EmailOut
  <2>2. CustomEntity \in p.Entities /\ Paired(t) => \A i \in 1..Len(t) : t[i] # "y"
    BY <1>3, NoSecondHalf
  <2>3. \A e \in p.Entities : e = EmailEntity \/ e = CustomEntity
    OBVIOUS
  <2>4. \A e \in p.Entities : ~Occurs(e, w)
    BY <2>1, <2>3
  <2> QED BY <2>1, <2>2, <2>4 DEF Spotless, Harmless, w
<1>4. CASE p.Entities = {CustomEntity} /\ w = SubstituteAll(t, CustomEntity, new(1))
  <2>1. /\ w \in Seq(Letters) /\ ~Occurs(CustomEntity, w)
        /\ Paired(t) => \A i \in 1..Len(w) : w[i] # "y"
    BY <1>1, <1>2, <1>4, CustomOut
  <2>2. \A e \in p.Entities : ~Occurs(e, w)
    BY <1>4, <2>1
  <2> QED BY <2>1, <2>2 DEF Spotless, Harmless, w
<1>5. ASSUME NEW m \in 1..2, NEW n \in 1..2, p.Entities = {EmailEntity, CustomEntity},
             w = SubstituteAll(SubstituteAll(t, CustomEntity, new(m)), EmailEntity, new(n))
      PROVE  Spotless(w, t, p.Entities)
  <2> DEFINE u == SubstituteAll(t, CustomEntity, new(m))
  <2>1. u \in Seq(Letters) /\ (Paired(t) => \A i \in 1..Len(u) : u[i] # "y")
    BY <1>1, CustomOut
  <2>2. w = SubstituteAll(u, EmailEntity, new(n))
    BY <1>5
  <2> HIDE DEF u
  <2>3. /\ w \in Seq(Letters) /\ ~Occurs(EmailEntity, w) /\ ~Occurs(CustomEntity, w)
        /\ (\A i \in 1..Len(u) : u[i] # "y") => \A i \in 1..Len(w) : w[i] # "y"
    BY <1>1, <2>1, <2>2, EmailOut
  <2>4. \A e \in p.Entities : ~Occurs(e, w)
    BY <1>5, <2>3
  <2> QED BY <2>1, <2>3, <2>4 DEF Spotless, Harmless
<1>6. \/ /\ EmailEntity \in p.Entities /\ (CustomEntity \in p.Entities => ~Occurs(CustomEntity, t))
         /\ w = SubstituteAll(t, EmailEntity, new(1))
      \/ p.Entities = {CustomEntity} /\ w = SubstituteAll(t, CustomEntity, new(1))
      \/ \E m, n \in 1..2 :
           /\ p.Entities = {EmailEntity, CustomEntity}
           /\ w = SubstituteAll(SubstituteAll(t, CustomEntity, new(m)), EmailEntity, new(n))
  BY MaskingIs DEF w, new
<1> QED BY <1>3, <1>4, <1>5, <1>6 DEF w

\* Redaction leaves no entity either, in whatever order the detectors run.
LEMMA RedactedHarmless ==
  ASSUME NEW t \in Seq(Letters), NEW p, p.Entities \subseteq {EmailEntity, CustomEntity}, p.Entities # {},
         NEW o \in PiiOrders(p)
  PROVE  Harmless(redactPIIFromContent(t, o), t, p.Entities)
<1> DEFINE w == redactPIIFromContent(t, o)
           s == [i \in DOMAIN o |-> <<o[i], Stars>>]
<1>1. Stars \in Seq(Letters \ {"x", "y"}) /\ Stars # <<>>
  BY StarsAre
<1>2. w = ReplaceEach(t, s)
  BY Zenon DEF redactPIIFromContent
<1>3. DOMAIN s = DOMAIN o /\ \A i \in DOMAIN o : s[i][1] = o[i] /\ s[i][2] = Stars
  OBVIOUS
<1> HIDE DEF w, s
<1>4. CASE \E e \in {EmailEntity, CustomEntity} : p.Entities = {e} /\ DOMAIN o = 1..1 /\ o[1] = e
  <2>1. PICK e \in {EmailEntity, CustomEntity} : p.Entities = {e} /\ DOMAIN o = 1..1 /\ o[1] = e
    BY <1>4
  <2>2. w = SubstituteAll(t, e, Stars)
    <3>1. 1 \in DOMAIN o /\ DOMAIN s = 1..1
      BY <1>3, <2>1
    <3>2. ReplaceEach(t, s) = SubstituteAll(t, s[1][1], s[1][2])
      BY <3>1, EachOne
    <3> QED BY <1>2, <1>3, <2>1, <3>1, <3>2
  <2>3. w \in Seq(Letters) /\ ~Occurs(e, w)
    <3>1. CASE e = EmailEntity
      BY <1>1, <2>2, <3>1, EmailOut
    <3>2. CASE e = CustomEntity
      BY <1>1, <2>2, <3>2, CustomOut
    <3> QED BY <3>1, <3>2
  <2>4. \A d \in p.Entities : ~Occurs(d, w)
    BY <2>1, <2>3
  <2> QED BY <2>3, <2>4 DEF Harmless, w
<1>5. CASE /\ p.Entities = {EmailEntity, CustomEntity} /\ DOMAIN o = 1..2
           /\ \/ o[1] = EmailEntity /\ o[2] = CustomEntity
              \/ o[1] = CustomEntity /\ o[2] = EmailEntity
  <2>1. w = SubstituteAll(SubstituteAll(t, o[1], Stars), o[2], Stars)
    <3>1. 1 \in DOMAIN o /\ 2 \in DOMAIN o /\ DOMAIN s = 1..2
      BY <1>3, <1>5
    <3>2. ReplaceEach(t, s) = SubstituteAll(SubstituteAll(t, s[1][1], s[1][2]), s[2][1], s[2][2])
      BY <3>1, EachTwo
    <3> QED BY <1>2, <1>3, <3>1, <3>2
  <2> DEFINE u == SubstituteAll(t, o[1], Stars)
  <2>2. w = SubstituteAll(u, o[2], Stars)
    BY <2>1
  <2>3. w \in Seq(Letters) /\ ~Occurs(EmailEntity, w) /\ ~Occurs(CustomEntity, w)
    <3>1. CASE o[1] = EmailEntity /\ o[2] = CustomEntity
      <4>1. u \in Seq(Letters) /\ ~Occurs(EmailEntity, u)
        BY <1>1, <3>1, EmailOut
      <4> HIDE DEF u
      <4>2. \A i \in 1..Len(u) : u[i] # "x"
        <5> SUFFICES ASSUME NEW i \in 1..Len(u), u[i] = "x" PROVE FALSE
          OBVIOUS
        <5>1. StandsAt(EmailEntity, u, i)
          BY <4>1, Stands
        <5> QED BY <4>1, <5>1, Zenon DEF StandsAt, Occurs
      <4>3. w \in Seq(Letters) /\ \A i \in 1..Len(w) : w[i] # "x"
        BY <1>1, <2>2, <3>1, <4>1, <4>2, CustomOut
      <4> QED BY <4>3, Absent
    <3>2. CASE o[1] = CustomEntity /\ o[2] = EmailEntity
      <4>1. u \in Seq(Letters)
        BY <1>1, <3>2, CustomOut
      <4> HIDE DEF u
      <4> QED BY <1>1, <2>2, <3>2, <4>1, EmailOut
    <3> QED BY <1>5, <3>1, <3>2
  <2>4. \A d \in p.Entities : ~Occurs(d, w)
    BY <1>5, <2>3
  <2> QED BY <2>3, <2>4 DEF Harmless, w
<1> QED BY <1>4, <1>5, OrdersAre, Zenon

-----------------------------------------------------------------------------
(***************************************************************************)
(* Personal data stays inside                                              *)
(***************************************************************************)

\* The policy the factory builds has one of the two detectors, or both.
LEMMA PiiDetectors ==
  ASSUME NEW r, PiiGetPolicy(r).ok
  PROVE  PiiGetPolicy(r).Entities \subseteq {EmailEntity, CustomEntity} /\ PiiGetPolicy(r).Entities # {}
  BY DEF PiiGetPolicy, PiiParseParams

\* What cleaning cuts off is nothing of an entity.
LEMMA CutHarmless ==
  ASSUME NEW t \in Seq(Letters), NEW w, NEW d, NEW Out, Within(w, t, d, Out),
         Out \subseteq {Quote, Space}, w \in Seq(Letters)
  PROVE  /\ \A e \in {EmailEntity, CustomEntity} : Occurs(e, t) => Occurs(e, w)
         /\ Paired(t) => Paired(w)
         /\ (\A i \in 1..Len(w) : w[i] # "y") => \A i \in 1..Len(t) : t[i] # "y"
<1>1. /\ d \in Nat /\ d + Len(w) <= Len(t) /\ Len(w) \in Nat /\ Len(t) \in Nat
      /\ \A i \in 1..Len(w) : w[i] = t[i + d]
      /\ \A i \in 1..Len(t) : i <= d \/ i > d + Len(w) => t[i] \in Out
  BY DEF Within
<1>2. \A i \in 1..Len(t) : t[i] = "x" \/ t[i] = "y" => d < i /\ i <= d + Len(w) /\ w[i - d] = t[i]
  <2> SUFFICES ASSUME NEW i \in 1..Len(t), t[i] = "x" \/ t[i] = "y"
               PROVE  d < i /\ i <= d + Len(w) /\ w[i - d] = t[i]
    OBVIOUS
  <2>1. t[i] \notin Out
    BY DEF Quote, Space
  <2>2. d < i /\ i <= d + Len(w)
    BY <1>1, <2>1
  <2>3. i - d \in 1..Len(w) /\ i - d + d = i
    BY <1>1, <2>2
  <2> QED BY <1>1, <2>2, <2>3
<1>3. ASSUME NEW e \in {EmailEntity, CustomEntity}, Occurs(e, t) PROVE Occurs(e, w)
  <2>1. PICK i \in 1..Len(t) : StandsAt(e, t, i)
    BY <1>3, Zenon DEF Occurs, StandsAt
  <2>2. t[i] = "x" /\ (e = CustomEntity => i + 1 <= Len(t) /\ t[i + 1] = "y")
    BY <2>1, Stands, EntitiesDiffer
  <2>3. i - d \in 1..Len(w) /\ w[i - d] = "x"
    BY <1>1, <1>2, <2>2
  <2>4. e = CustomEntity => i - d + 1 <= Len(w) /\ w[i - d + 1] = "y"
    <3> SUFFICES ASSUME e = CustomEntity PROVE i - d + 1 <= Len(w) /\ w[i - d + 1] = "y"
      OBVIOUS
    <3>1. i + 1 \in 1..Len(t) /\ t[i + 1] = "y" /\ i + 1 - d = i - d + 1
      BY <1>1, <2>2
    <3> QED BY <1>1, <1>2, <3>1
  <2>5. StandsAt(e, w, i - d)
    <3>1. /\ StandsAt(EmailEntity, w, i - d) <=> w[i - d] = "x"
          /\ StandsAt(CustomEntity, w, i - d) <=>
               i - d + 1 <= Len(w) /\ w[i - d] = "x" /\ w[i - d + 1] = "y"
      BY <2>3, Stands
    <3> QED BY <2>3, <2>4, <3>1
  <2> QED BY <2>3, <2>5, Zenon DEF StandsAt, Occurs
<1>4. ASSUME Paired(t), NEW i \in 1..Len(w), w[i] = "y" PROVE i > 1 /\ w[i - 1] = "x"
  <2>1. PICK k \in 1..Len(t) : k = i + d /\ t[k] = "y"
    BY <1>1, <1>4
  <2>2. k > 1 /\ t[k - 1] = "x"
    BY <1>4, <2>1 DEF Paired
  <2>3. k - 1 \in 1..Len(t) /\ k - 1 - d = i - 1
    BY <1>1, <2>1, <2>2
  <2>4. d < k - 1 /\ w[k - 1 - d] = "x"
    BY <1>2, <2>2, <2>3
  <2> QED BY <1>1, <2>1, <2>3, <2>4
<1>5. ASSUME \A i \in 1..Len(w) : w[i] # "y", NEW i \in 1..Len(t) PROVE t[i] # "y"
  <2>1. t[i] = "y" => i - d \in 1..Len(w) /\ w[i - d] = "y"
    BY <1>1, <1>2
  <2> QED BY <1>5, <2>1
<1> QED BY <1>3, <1>4, <1>5 DEF Paired

\* What goes upstream past processRequestBody, for every order of the detectors.
LEMMA PiiRequest ==
  ASSUME NEW p, p.Entities \subseteq {EmailEntity, CustomEntity}, p.Entities # {},
         NEW o \in PiiOrders(p), NEW m, NEW body,
         body = [none |-> body.none, v |-> body.v, lines |-> body.lines], ~body.none,
         body.v.j \in {"string", "number"}, body.v.s \in Seq(STRING)
  PROVE  LET r == PiiOnRequestBody(p, m, body, o).r
             up == IF r.act = "pass" THEN body.v.s ELSE r.body.v.s
         IN  /\ r.act \in {"pass", "mutate"}
             /\ Harmless(up, body.v.s, p.Entities)
             /\ ~p.RedactPII /\ CustomEntity \in p.Entities /\ Paired(body.v.s) =>
                  \A i \in 1..Len(up) : up[i] # "y"
<1> DEFINE s == body.v.s
           content == TrimSpace(Clean(s))
           modified == IF p.RedactPII THEN redactPIIFromContent(content, o)
                                      ELSE maskPIIFromContent(content, o)
           r == PiiOnRequestBody(p, m, body, o).r
<1>1. r = IF PiiMatches(content, o) = {} THEN Pass ELSE Mutate(PiiUpdatePayload(body, modified))
  <2>1. PiiExtract(body.v) = "scalar"
    BY DEF PiiExtract
  <2>2. ~(~body.none /\ PiiExtract(body.v) = "error") /\ ~(~body.none /\ PiiExtract(body.v) = "other")
    BY <2>1
  <2> QED BY <2>2 DEF PiiOnRequestBody
<1>2. Within(Clean(s), s, Opens(s), {Quote})
  BY CleanWithin
<1>3. Clean(s) \in Seq(STRING)
  BY CleanIs
<1>4. PICK d \in Nat : Within(content, Clean(s), d, {Space})
  BY <1>3, TrimWithin
<1>5. content \in Seq(STRING)
  BY <1>4 DEF Within
<1>6. s \in Seq(Letters) /\ Clean(s) \in Seq(Letters) /\ content \in Seq(Letters)
  <2>1. ASSUME NEW a \in Seq(STRING) PROVE a \in Seq(Letters)
    <3>1. \A i \in 1..Len(a) : a[i] \in STRING
      OBVIOUS
    <3>2. \A i \in 1..Len(a) : a[i] \in Letters
      BY <3>1 DEF Letters
    <3> QED BY <3>2
  <2> HIDE DEF s, content
  <2>2. s \in Seq(STRING)
    BY DEF s
  <2> QED BY <1>3, <1>5, <2>1, <2>2
<1> HIDE DEF s, content, r, modified
<1>7. /\ \A e \in {EmailEntity, CustomEntity} : Occurs(e, s) => Occurs(e, content)
      /\ Paired(s) => Paired(content)
      /\ (\A i \in 1..Len(content) : content[i] # "y") => \A i \in 1..Len(s) : s[i] # "y"
  <2>1. {Quote} \subseteq {Quote, Space} /\ {Space} \subseteq {Quote, Space}
    OBVIOUS
  <2>2. /\ \A e \in {EmailEntity, CustomEntity} : Occurs(e, s) => Occurs(e, Clean(s))
        /\ Paired(s) => Paired(Clean(s))
        /\ (\A i \in 1..Len(Clean(s)) : Clean(s)[i] # "y") => \A i \in 1..Len(s) : s[i] # "y"
    BY <1>2, <1>6, <2>1, CutHarmless
  <2>3. /\ \A e \in {EmailEntity, CustomEntity} : Occurs(e, Clean(s)) => Occurs(e, content)
        /\ Paired(Clean(s)) => Paired(content)
        /\ (\A i \in 1..Len(content) : content[i] # "y") => \A i \in 1..Len(Clean(s)) : Clean(s)[i] # "y"
    BY <1>4, <1>6, <2>1, CutHarmless
  <2> QED BY <2>2, <2>3
<1>8. CASE PiiMatches(content, o) = {}
  <2>1. r.act = "pass"
    BY <1>1, <1>8 DEF Pass
  <2>2. \A e \in p.Entities : ~Occurs(e, content)
    <3> SUFFICES ASSUME NEW e \in p.Entities PROVE ~Occurs(e, content)
      OBVIOUS
    <3>1. \E n \in DOMAIN o : o[n] = e
      <4>1. CASE \E f \in {EmailEntity, CustomEntity} : p.Entities = {f} /\ DOMAIN o = 1..1 /\ o[1] = f
        <5>1. 1 \in DOMAIN o /\ o[1] = e
          BY <4>1
        <5> QED BY <5>1
      <4>2. CASE /\ p.Entities = {EmailEntity, CustomEntity} /\ DOMAIN o = 1..2
                 /\ \/ o[1] = EmailEntity /\ o[2] = CustomEntity
                    \/ o[1] = CustomEntity /\ o[2] = EmailEntity
        <5>1. 1 \in DOMAIN o /\ 2 \in DOMAIN o /\ (e = EmailEntity \/ e = CustomEntity)
          BY <4>2
        <5> QED BY <4>2, <5>1
      <4> QED BY <4>1, <4>2, OrdersAre, Zenon
    <3> QED BY <1>8, <3>1, Zenon DEF PiiMatches
  <2>3. \A e \in p.Entities : ~Occurs(e, s)
    BY <1>7, <2>2
  <2>4. CustomEntity \in p.Entities /\ Paired(s) => \A i \in 1..Len(s) : s[i] # "y"
    BY <1>6, <1>7, <2>2, NoSecondHalf
  <2>5. Harmless(s, s, p.Entities)
    BY <1>6, <2>3 DEF Harmless
  <2> QED BY <2>1, <2>4, <2>5 DEF s, r
<1>9. CASE PiiMatches(content, o) # {}
  <2>1. r.act = "mutate" /\ r.body.v.s = modified
    <3>1. r.act = "mutate" /\ r.body = PiiUpdatePayload(body, modified)
      BY <1>1, <1>9 DEF Mutate
    <3>2. PiiUpdatePayload(body, modified).v = JString(modified)
      BY DEF PiiUpdatePayload
    <3> QED BY <3>1, <3>2 DEF JString
  <2>2. CASE p.RedactPII
    <3>1. modified = redactPIIFromContent(content, o)
      BY <2>2 DEF modified
    <3>2. Harmless(modified, content, p.Entities)
      BY <1>6, <3>1, RedactedHarmless
    <3>3. Harmless(modified, s, p.Entities)
      BY <3>2 DEF Harmless
    <3> QED BY <2>1, <2>2, <3>3 DEF s, r
  <2>3. CASE ~p.RedactPII
    <3>1. modified = maskPIIFromContent(content, o)
      BY <2>3 DEF modified
    <3>2. Spotless(modified, content, p.Entities)
      BY <1>6, <1>9, <3>1, MaskedSpotless
    <3>3. Harmless(modified, s, p.Entities)
      BY <3>2 DEF Spotless, Harmless
    <3>4. CustomEntity \in p.Entities /\ Paired(s) => \A i \in 1..Len(modified) : modified[i] # "y"
      BY <1>7, <3>2 DEF Spotless
    <3> QED BY <2>1, <3>3, <3>4 DEF s, r
  <2> QED BY <2>2, <2>3
<1> QED BY <1>8, <1>9

LEMMA PiiRequestStep ==
  ASSUME BuiltInv, NEW body \in BodyOf(kind, raw), NEW ans \in AnswerOf[kind], Request(body, ans)
  PROVE  NoPiiUpstream'
<1> SUFFICES ASSUME kind = "pii", ~body.none, body.v.j \in {"string", "number"},
                    phase' \in {"reply", "stream", "closed"}
             PROVE  /\ \A e \in pol.Entities : ~Occurs(e, sent'.v.s)
                    /\ /\ ~pol.RedactPII /\ CustomEntity \in pol.Entities
                       /\ \A i \in DOMAIN body.v.s : body.v.s[i] = "y" => i > 1 /\ body.v.s[i-1] = "x"
                       => ~Contains(sent'.v.s, "y")
  BY DEF Request, NoPiiUpstream
<1>1. /\ kind \in Kinds /\ raw \in RawOf[kind] /\ pol = PiiGetPolicy(raw) /\ pol.ok
  BY DEF Request, BuiltInv, GetPolicy
<1>2. PICK out \in OnRequestBody(body, ans) :
         /\ phase' = IF out.r.act = "block" THEN "blocked" ELSE "reply"
         /\ sent' = CASE out.r.act = "block" -> NoBody
                      [] out.r.act = "pass" -> body
                      [] out.r.act = "mutate" -> out.r.body
  BY DEF Request
<1>3. PICK o \in PiiOrders(pol) : out = PiiOnRequestBody(pol, meta, body, o)
  BY <1>2 DEF OnRequestBody
<1>4. /\ body = [none |-> body.none, v |-> body.v, lines |-> body.lines]
      /\ body.v.s \in Seq(STRING)
  BY <1>1, GuardAssumption DEF GuardAssumption
<1>5. pol.Entities \subseteq {EmailEntity, CustomEntity} /\ pol.Entities # {}
  BY <1>1, PiiDetectors
<1> DEFINE up == IF out.r.act = "pass" THEN body.v.s ELSE out.r.body.v.s
<1>6. /\ out.r.act \in {"pass", "mutate"}
      /\ Harmless(up, body.v.s, pol.Entities)
      /\ ~pol.RedactPII /\ CustomEntity \in pol.Entities /\ Paired(body.v.s) =>
           \A i \in 1..Len(up) : up[i] # "y"
  BY <1>3, <1>4, <1>5, PiiRequest
<1>7. sent'.v.s = up
  BY <1>2, <1>6
<1>8. Paired(body.v.s) <=> \A i \in DOMAIN body.v.s : body.v.s[i] = "y" => i > 1 /\ body.v.s[i-1] = "x"
  BY <1>4 DEF Paired
<1> HIDE DEF up
<1>9. Contains(up, "y") => \E i \in 1..Len(up) : up[i] = "y"
  BY DEF Contains
<1> QED BY <1>6, <1>7, <1>8, <1>9 DEF Harmless

MaskingInv == BuiltInv /\ NoPiiUpstream

LEMMA MaskingStep == MaskingInv /\ [Next]_vars => MaskingInv'
<1> SUFFICES ASSUME MaskingInv, [Next]_vars PROVE MaskingInv'
  OBVIOUS
<1>1. CASE Build
  BY <1>1, Zenon DEF Build, MaskingInv, BuiltInv, NoPiiUpstream
<1>2. ASSUME NEW body \in BodyOf(kind, raw), NEW ans \in AnswerOf[kind], Request(body, ans)
      PROVE  MaskingInv'
  <2>1. NoPiiUpstream'
    BY <1>2, PiiRequestStep DEF MaskingInv
  <2>2. BuiltInv'
    BY <1>2 DEF Request, MaskingInv, BuiltInv
  <2> QED BY <2>1, <2>2 DEF MaskingInv
<1>3. ASSUME requestVars' = requestVars, phase \in {"reply", "stream"}, phase' \in {"stream", "closed"}
      PROVE  MaskingInv'
  BY <1>3 DEF MaskingInv, BuiltInv, NoPiiUpstream, requestVars
<1>4. ASSUME NEW body, NEW ans, BufferedReply(body, ans) PROVE MaskingInv'
  BY <1>3, <1>4 DEF BufferedReply
<1>5. ASSUME NEW lines, Arriving(lines), phase' \in {"stream", "closed"} PROVE MaskingInv'
  BY <1>3, <1>5 DEF Arriving
<1>6. ASSUME NEW lines, Chunk(lines) PROVE MaskingInv'
  BY <1>5, <1>6 DEF Chunk, Hold, Flush
<1>7. ASSUME NEW lines, EndOfStream(lines) PROVE MaskingInv'
  BY <1>5, <1>7 DEF EndOfStream, Flush
<1>8. CASE UNCHANGED vars
  BY <1>8 DEF vars, MaskingInv, BuiltInv, NoPiiUpstream
<1> QED BY <1>1, <1>2, <1>4, <1>6, <1>7, <1>8, Zenon DEF Next

\* The masking guardrail: whatever text is found at the path and in whatever order Go ranges
\* over the detectors, maskPIIFromContent and redactPIIFromContent leave nothing in the body
\* that goes upstream that a detector would find, and masking leaves no half of an entity.
THEOREM PersonalDataStaysInside == Spec => []NoPiiUpstream
<1>1. Init => MaskingInv
  BY DEF Init, MaskingInv, BuiltInv, NoPiiUpstream
<1>2. MaskingInv => NoPiiUpstream
  BY DEF MaskingInv
<1> QED BY <1>1, <1>2, MaskingStep, PTL DEF Spec
=============================================================================
