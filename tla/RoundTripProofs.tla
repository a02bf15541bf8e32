--------------------------- MODULE RoundTripProofs ---------------------------
(***************************************************************************)
(* Both directions of the editor, for every line and every fragment: the   *)
(* pairing of emphasis nests its tags and loses no delimiter, and what the *)
(* walk does to the context it takes back.                                 *)
(***************************************************************************)
EXTENDS RoundTrip, SequenceLemmas

-----------------------------------------------------------------------------
(***************************************************************************)
(* The tags open behind each symbol.                                       *)
(***************************************************************************)
Names == TagNames \cup {"crossed"}

LEMMA FollowTyped ==
    ASSUME NEW open \in Seq(Names), NEW s \in Symbols
    PROVE  Follow(open, s) \in Seq(Names)
<1>1. CASE s.is \in {"open", "styled", "close"}
  <2>1. s.of \in Names
    BY <1>1 DEF Symbols, Names
  <2>2. Append(open, s.of) \in Seq(Names)
    BY <2>1
  <2>3. open # <<>> => Front(open) \in Seq(Names)
    BY DEF Front
  <2>4. <<"crossed">> \in Seq(Names)
    BY DEF Names
  <2>5. QED BY <1>1, <2>2, <2>3, <2>4 DEF Follow
<1>2. CASE s.is \notin {"open", "styled", "close"}
    BY <1>2 DEF Follow
<1>3. QED BY <1>1, <1>2

LEMMA TagsFacts ==
    ASSUME NEW s \in Seq(Symbols)
    PROVE  /\ OpenTags(s) \in [0..Len(s) -> Seq(Names)]
           /\ OpenTags(s)[0] = <<>>
           /\ \A k \in 1..Len(s) : OpenTags(s)[k] = Follow(OpenTags(s)[k - 1], s[k])
<1> DEFINE n == Len(s)
           T == Seq(Names)
           base == <<>>
           step == [k \in 1..n |-> [open \in T |-> Follow(open, s[k])]]
           P(f) == f = [k \in 0..n |-> IF k = 0 THEN <<>> ELSE Follow(f[k - 1], s[k])]
           h == CHOOSE f : P(f)
<1>1. n \in Nat /\ base \in T /\ \A k \in 1..n : s[k] \in Symbols
    OBVIOUS
<1>2. step \in [1..n -> [T -> T]]
    BY <1>1, FollowTyped
<1>3. base = <<>> /\ \A k \in 1..n : \A open \in T : step[k][open] = Follow(open, s[k])
    OBVIOUS
<1> HIDE DEF step, base, n, T
<1>4. PICK g \in [0..n -> T] : Recurs(g, n, base, step)
    BY <1>1, <1>2, Recursion
<1>5. \A k \in 1..n : k - 1 \in 0..n /\ k # 0
    BY <1>1
<1>6. g[0] = <<>> /\ \A k \in 1..n : g[k] = Follow(g[k - 1], s[k])
    BY <1>3, <1>4, <1>5 DEF Recurs
<1>7. P(g)
  <2>1. \A k \in 0..n : k = 0 \/ k \in 1..n
    BY <1>1
  <2>2. \A k \in 0..n : g[k] = IF k = 0 THEN <<>> ELSE Follow(g[k - 1], s[k])
    BY <1>6, <2>1
  <2>3. QED BY <1>4, <2>2
<1>8. P(h)
    BY <1>7
<1>9. OpenTags(s) = h
    BY DEF OpenTags, n
<1> HIDE DEF h
<1>10. h[0] = <<>> /\ \A k \in 1..n : h[k] = Follow(h[k - 1], s[k])
    BY <1>1, <1>5, <1>8
<1> DEFINE S == {k \in 0..n : h[k] = g[k]}
<1>11. \A k \in 0..n : k \in S
  <2>1. 0 \in S
    BY <1>1, <1>6, <1>10
  <2>2. \A k \in 1..n : k - 1 \in S => k \in S
    BY <1>1, <1>6, <1>10
  <2> HIDE DEF S
  <2>3. QED BY <1>1, <2>1, <2>2, Induction
<1>12. h = g
  <2>1. \A k \in 0..n : h[k] = g[k]
    BY <1>11
  <2>2. DOMAIN h = 0..n
    BY <1>8
  <2>3. h = [k \in 0..n |-> h[k]]
    BY <1>8
  <2>4. g = [k \in 0..n |-> g[k]]
    BY <1>4
  <2>5. QED BY <2>1, <2>3, <2>4
<1>13. h \in [0..n -> T]
    BY <1>4, <1>12
<1>14. QED BY <1>9, <1>10, <1>13 DEF n, T

\* From the same tags, the same symbols lead to the same tags.
Alike(s, t, i, j, m) ==
    i + m <= Len(s) /\ j + m <= Len(t) /\ \A k \in 1..m : t[j + k] = s[i + k]

TagsAlike(s, t, i, j, m) == \A k \in 0..m : OpenTags(s)[i + k] = OpenTags(t)[j + k]

LEMMA SameTags ==
    ASSUME NEW s \in Seq(Symbols), NEW t \in Seq(Symbols), NEW i \in Nat, NEW j \in Nat, NEW m \in Nat,
           Alike(s, t, i, j, m), OpenTags(s)[i] = OpenTags(t)[j]
    PROVE  TagsAlike(s, t, i, j, m)
<1> DEFINE a == OpenTags(s)
           b == OpenTags(t)
           S == {k \in 0..m : a[i + k] = b[j + k]}
<1>1. /\ \A k \in 1..Len(s) : a[k] = Follow(a[k - 1], s[k])
      /\ \A k \in 1..Len(t) : b[k] = Follow(b[k - 1], t[k])
    BY TagsFacts
<1>a. i + m <= Len(s) /\ j + m <= Len(t) /\ \A k \in 1..m : t[j + k] = s[i + k]
    BY DEF Alike
<1>2. 0 \in S
    OBVIOUS
<1> HIDE DEF a, b
<1>3. ASSUME NEW k \in 1..m, a[i + (k - 1)] = b[j + (k - 1)] PROVE a[i + k] = b[j + k]
  <2>1. i + k \in 1..Len(s) /\ j + k \in 1..Len(t) /\ i + (k - 1) = (i + k) - 1 /\ j + (k - 1) = (j + k) - 1
    BY <1>a
  <2>2. QED BY <1>1, <1>3, <1>a, <2>1
<1>4. \A k \in 1..m : k - 1 \in S => k \in S
    BY <1>3
<1> HIDE DEF S
<1>5. \A k \in 0..m : k \in S
    BY <1>2, <1>4, Induction
<1>6. QED BY <1>5 DEF S, a, b, TagsAlike

Crossed(open) == open # <<>> /\ open[1] = "crossed"

\* What was crossed is never nested again.
LEMMA CrossedStays ==
    ASSUME NEW open \in Seq(Names), NEW s \in Symbols, Crossed(open)
    PROVE  Crossed(Follow(open, s))
<1>1. CASE s.is \in {"open", "styled"}
    BY <1>1 DEF Follow, Crossed
<1>2. CASE s.is = "close" /\ open # <<>> /\ Last(open) = s.of
  <2>1. s.of # "crossed"
    BY <1>2 DEF Symbols, TagNames
  <2>2. Len(open) > 1
    BY <1>2, <2>1 DEF Last, Crossed
  <2> DEFINE m == Len(open) - 1
  <2>a. m \in Nat /\ m >= 1 /\ m <= Len(open)
    BY <2>2
  <2>b. SubSeq(open, 1, m) \in Seq(Names) /\ Len(SubSeq(open, 1, m)) = m /\ SubSeq(open, 1, m)[1] = open[1]
    <3> HIDE DEF m
    <3> QED BY <2>a
  <2>c. Front(open) = SubSeq(open, 1, m)
    BY DEF Front
  <2> DEFINE f == Front(open)
  <2>d. f \in Seq(Names) /\ Len(f) = m /\ f[1] = open[1]
    BY <2>b, <2>c
  <2> HIDE DEF f, m
  <2>e. f # <<>> /\ f[1] = open[1]
    BY <2>a, <2>d
  <2>3. Front(open) # <<>> /\ Front(open)[1] = open[1]
    BY <2>e DEF f
  <2>4. Follow(open, s) = Front(open)
    BY <1>2 DEF Follow
  <2>5. QED BY <2>3, <2>4 DEF Crossed
<1>3. CASE s.is = "close" /\ ~(open # <<>> /\ Last(open) = s.of)
  <2>1. Follow(open, s) = <<"crossed">>
    BY <1>3 DEF Follow
  <2>2. QED BY <2>1 DEF Crossed
<1>4. CASE s.is \notin {"open", "styled", "close"}
    BY <1>4 DEF Follow
<1>5. QED BY <1>1, <1>2, <1>3, <1>4

\* Inside a tag, what does not cross one does the same.
LEMMA FollowInside ==
    ASSUME NEW open \in Seq(Names), NEW s \in Symbols, NEW tag \in TagNames, ~Crossed(Follow(open, s))
    PROVE  Follow(<<tag>> \o open, s) = <<tag>> \o Follow(open, s)
<1> DEFINE in == <<tag>> \o open
<1>1. in \in Seq(Names) /\ Len(in) = Len(open) + 1 /\ in[1] = tag /\ \A k \in 1..Len(open) : in[k + 1] = open[k]
  <2>1. tag \in Names
    BY DEF Names
  <2>2. QED BY <2>1, Leading
<1>2. CASE s.is \in {"open", "styled"}
    BY <1>2 DEF Follow
<1>3. CASE s.is = "close"
  <2>1. open # <<>> /\ Last(open) = s.of
    BY <1>3 DEF Follow, Crossed
  <2>2. in # <<>> /\ Last(in) = Last(open)
    BY <1>1, <2>1 DEF Last
  <2>3. Front(in) = <<tag>> \o Front(open)
    BY <2>1 DEF Front
  <2>4. Follow(open, s) = Front(open)
    BY <1>3, <2>1 DEF Follow
  <2>5. Follow(in, s) = Front(in)
    BY <1>3, <2>1, <2>2 DEF Follow
  <2>6. QED BY <2>3, <2>4, <2>5
<1>4. CASE s.is \notin {"open", "styled", "close"}
    BY <1>4 DEF Follow
<1>5. QED BY <1>2, <1>3, <1>4

\* What is nested by itself is nested inside a tag.
LEMMA InsideTags ==
    ASSUME NEW s \in Seq(Symbols), NEW t \in Seq(Symbols), NEW i \in Nat, NEW j \in Nat, NEW m \in Nat,
           Alike(s, t, i, j, m), NEW u, u = i + m, OpenTags(s)[i] = <<>>, OpenTags(s)[u] = <<>>,
           NEW tag \in TagNames, OpenTags(t)[j] = <<tag>>, NEW v, v = j + m
    PROVE  OpenTags(t)[v] = <<tag>>
<1> DEFINE a == OpenTags(s)
           b == OpenTags(t)
<1>a. i + m <= Len(s) /\ j + m <= Len(t) /\ \A k \in 1..m : t[j + k] = s[i + k]
    BY DEF Alike
<1>1. /\ \A k \in 1..Len(s) : a[k] = Follow(a[k - 1], s[k])
      /\ \A k \in 1..Len(t) : b[k] = Follow(b[k - 1], t[k])
      /\ \A k \in 0..Len(s) : a[k] \in Seq(Names)
    BY TagsFacts
<1>2. a[i] = <<>> /\ a[i + m] = <<>> /\ b[j] = <<tag>>
    OBVIOUS
<1> HIDE DEF a, b
<1>3. \A k \in 1..m : /\ i + k \in 1..Len(s) /\ j + k \in 1..Len(t)
                      /\ i + (k - 1) = (i + k) - 1 /\ j + (k - 1) = (j + k) - 1
    BY <1>a
<1>4. ASSUME NEW k \in 0..m PROVE ~Crossed(a[i + k])
  <2> DEFINE l == m - k
             S == {n \in 0..l : Crossed(a[(i + k) + n])}
  <2>1. SUFFICES ASSUME Crossed(a[i + k]) PROVE FALSE
    OBVIOUS
  <2>2. l \in Nat /\ (i + k) + l = i + m /\ (i + k) + 0 = i + k
    OBVIOUS
  <2>3. ASSUME NEW n \in 1..l, n - 1 \in S PROVE n \in S
    <3>1. (i + k) + n \in 1..Len(s) /\ (i + k) + (n - 1) = ((i + k) + n) - 1 /\ (i + k) + (n - 1) \in 0..Len(s)
        BY <1>a
    <3>2. Crossed(a[(i + k) + (n - 1)])
        BY <2>3
    <3>3. a[(i + k) + n] = Follow(a[(i + k) + (n - 1)], s[(i + k) + n])
        BY <1>1, <3>1
    <3>4. a[(i + k) + (n - 1)] \in Seq(Names) /\ s[(i + k) + n] \in Symbols
        BY <1>1, <3>1
    <3>5. Crossed(a[(i + k) + n])
        BY <3>2, <3>3, <3>4, CrossedStays
    <3>6. QED BY <3>5
  <2>4. 0 \in S
    BY <2>1, <2>2
  <2> HIDE DEF S, l
  <2>5. l \in S
    <3>1. \A n \in 0..l : n \in S
        BY <2>2, <2>3, <2>4, Induction
    <3>2. QED BY <2>2, <3>1
  <2>6. Crossed(<<>>)
    BY <1>2, <2>2, <2>5 DEF S
  <2>7. QED BY <2>6 DEF Crossed
<1> DEFINE In(k) == <<tag>> \o a[i + k]
           S == {k \in 0..m : b[j + k] = In(k)}
<1>5. 0 \in S
  <2>1. <<tag>> \o <<>> = <<tag>>
    OBVIOUS
  <2>2. a[i + 0] = <<>> /\ b[j + 0] = <<tag>>
    BY <1>2
  <2>3. b[j + 0] = In(0)
    BY <2>1, <2>2
  <2>4. QED BY <2>3
<1>6. ASSUME NEW k \in 1..m, b[j + (k - 1)] = <<tag>> \o a[i + (k - 1)]
      PROVE  b[j + k] = <<tag>> \o a[i + k]
  <2>1. b[j + k] = Follow(b[j + (k - 1)], s[i + k])
    BY <1>1, <1>3, <1>a
  <2>2. a[i + k] = Follow(a[i + (k - 1)], s[i + k])
    BY <1>1, <1>3
  <2>3. a[i + (k - 1)] \in Seq(Names) /\ s[i + k] \in Symbols
    <3>1. (i + k) - 1 \in 0..Len(s) /\ i + (k - 1) = (i + k) - 1
        BY <1>a
    <3>2. i + k \in 1..Len(s)
        BY <1>3
    <3>3. s[i + k] \in Symbols
        BY <3>2
    <3>4. a[i + (k - 1)] \in Seq(Names)
        BY <1>1, <3>1
    <3>5. QED BY <3>3, <3>4
  <2>4. ~Crossed(a[i + k])
    <3>1. k \in 0..m
        OBVIOUS
    <3>2. QED BY <1>4, <3>1, Zenon
  <2>5. Follow(<<tag>> \o a[i + (k - 1)], s[i + k]) = <<tag>> \o Follow(a[i + (k - 1)], s[i + k])
    BY <2>2, <2>3, <2>4, FollowInside
  <2>6. QED BY <1>6, <2>1, <2>2, <2>5
<1>7. \A k \in 1..m : k - 1 \in S => k \in S
  <2>1. \A k \in 1..m : b[j + (k - 1)] = In(k - 1) => b[j + k] = In(k)
    BY <1>6
  <2> HIDE DEF In
  <2>2. QED BY <2>1, SMTT(30)
<1> HIDE DEF S
<1>8. m \in S
  <2>1. \A k \in 0..m : k \in S
    BY <1>5, <1>7, Induction
  <2>2. QED BY <2>1
<1>9. b[j + m] = <<tag>> \o <<>>
  <2>1. b[j + m] = In(m)
    BY <1>8 DEF S
  <2>2. QED BY <1>2, <2>1
<1>10. b[j + m] = <<tag>>
    BY <1>9
<1>11. QED BY <1>10 DEF b

-----------------------------------------------------------------------------
(***************************************************************************)
(* What a line is cut into.                                                *)
(***************************************************************************)
EmTags == {"em", "strong", "del"}

\* The symbols that a line that was typed, and what comes of it, is made of.
Inline == Text \cup [is : {"open", "close"}, of : EmTags]

TokensOf(S) ==
    {t \in Tokens :
        /\ t.val \in S
        /\ t.type = "tag" <=> t.val.is \in {"open", "close"}
        /\ t.type = "delim" => IsDelimiter(t.val)}

Begins(line, k) == IsDelimiter(line[k]) => line[k] # Before(line, k)

LEMMA InlineFacts ==
    /\ Inline \subseteq Symbols
    /\ \A s \in Inline : s.is \in {"char", "escaped", "open", "close"}
    /\ \A s \in Inline : s.is \in {"char", "escaped"} => s \in Text
BY DEF Inline, Text, Symbols, EmTags, TagNames

\* A run goes on as long as the symbols are the same.
LEMMA RunFacts ==
    ASSUME NEW line \in Seq(Inline), NEW k \in 1..Len(line)
    PROVE  \E r \in Nat : /\ RunLength(line, k) = r /\ r >= 1 /\ k + (r - 1) <= Len(line)
                          /\ \A m \in k..(k + (r - 1)) : line[m] = line[k]
                          /\ k + r <= Len(line) => line[k + r] # line[k]
<1> DEFINE n == Len(line)
           R == {m \in k..n : \A j \in k..m : line[j] = line[k]}
<1>1. n \in Nat /\ k \in Nat /\ k <= n
    OBVIOUS
<1>2. R \in SUBSET (0..n) /\ k \in R
    BY <1>1
<1>3. PICK e \in R : \A m \in R : m <= e
  <2> HIDE DEF R, n
  <2>1. R # {}
    BY <1>2
  <2>2. Max(R) \in R /\ \A m \in R : m <= Max(R)
    BY <1>1, <1>2, <2>1, MaxIsGreatest
  <2>3. QED BY <2>2
<1>4. R = k..e
  <2>1. \A m \in k..e : m \in R
    BY <1>1, <1>3
  <2>2. QED BY <1>3, <2>1
<1>5. e \in Int /\ k <= e /\ e <= n
    BY <1>1, <1>3
<1>6. Cardinality(R) = (e - k) + 1
  <2>1. Cardinality(k..e) = IF k > e THEN 0 ELSE e - k + 1
    BY <1>1, <1>5, FS_Interval
  <2> HIDE DEF R
  <2>2. QED BY <1>1, <1>4, <1>5, <2>1
<1>7. RunLength(line, k) = (e - k) + 1
    BY <1>6 DEF RunLength
<1>8. e + 1 <= n => line[e + 1] # line[k]
  <2>1. SUFFICES ASSUME e + 1 <= n, line[e + 1] = line[k] PROVE FALSE
    OBVIOUS
  <2>2. \A j \in k..(e + 1) : j \in k..e \/ j = e + 1
    BY <1>1, <1>5
  <2>3. e + 1 \in R
    BY <1>1, <1>3, <1>5, <2>1, <2>2
  <2>4. QED BY <1>3, <1>5, <2>3
<1>9. \A m \in k..e : line[m] = line[k]
    BY <1>1, <1>3
<1> HIDE DEF R
<1> DEFINE r == (e - k) + 1
<1>10. r \in Nat /\ r >= 1 /\ k + (r - 1) = e /\ k + r = e + 1
    BY <1>1, <1>5
<1> HIDE DEF r
<1>11. QED BY <1>5, <1>7, <1>8, <1>9, <1>10 DEF r

LEMMA TokenTyped ==
    ASSUME NEW A \in SUBSET Inline, NEW line \in Seq(A), NEW k \in 1..Len(line)
    PROVE  TokenAt(line, k) \in TokensOf(A)
<1>1. line[k] \in A /\ line[k] \in Inline
    OBVIOUS
<1>2. line[k] \in Symbols /\ line[k].is \in {"char", "escaped", "open", "close"}
    BY <1>1, InlineFacts
<1>3. RunLength(line, k) \in Nat
  <2>1. line \in Seq(Inline)
    OBVIOUS
  <2>2. QED BY <2>1, RunFacts
<1>4. CASE IsDelimiter(line[k])
  <2>1. line[k].is = "char"
    BY <1>4 DEF IsDelimiter
  <2> DEFINE d == Delimiter(line, k, RunLength(line, k))
  <2>2. TokenAt(line, k) = d
    BY <1>4, <2>1 DEF TokenAt
  <2>3. d.type = "delim" /\ d.val = line[k]
    BY DEF Delimiter
  <2>4. d \in Tokens
    BY <1>2, <1>3 DEF Delimiter, Tokens, is_left_flanking, is_right_flanking, is_unicode_ws,
                      is_unicode_punct
  <2> HIDE DEF d
  <2>5. QED BY <1>1, <1>4, <2>1, <2>2, <2>3, <2>4 DEF TokensOf
<1>5. CASE ~IsDelimiter(line[k]) /\ line[k].is \in {"open", "close"}
  <2>1. TokenAt(line, k) = Token("tag", line[k])
    BY <1>5 DEF TokenAt
  <2>2. Token("tag", line[k]) \in Tokens
    BY <1>2 DEF Token, Tokens
  <2>3. QED BY <1>1, <1>5, <2>1, <2>2 DEF TokensOf, Token
<1>6. CASE ~IsDelimiter(line[k]) /\ line[k].is \in {"char", "escaped"}
  <2>1. TokenAt(line, k) = Token("text", line[k])
    BY <1>6 DEF TokenAt
  <2>2. Token("text", line[k]) \in Tokens
    BY <1>2 DEF Token, Tokens
  <2>3. QED BY <1>1, <1>6, <2>1, <2>2 DEF TokensOf, Token
<1>7. QED BY <1>2, <1>4, <1>5, <1>6

\* A line is cut symbol by symbol.
LEMMA TokenFacts ==
    ASSUME NEW A \in SUBSET Inline, NEW line \in Seq(A)
    PROVE  \E f \in [0..Len(line) -> Seq(TokensOf(A))] :
               /\ f[0] = <<>> /\ f[Len(line)] = tokenize_inline(line)
               /\ \A k \in 1..Len(line) :
                     f[k] = IF Begins(line, k) THEN Append(f[k - 1], TokenAt(line, k)) ELSE f[k - 1]
<1> DEFINE n == Len(line)
           T == Seq(TokensOf(A))
           base == <<>>
           Then(k, s) == IF Begins(line, k) THEN Append(s, TokenAt(line, k)) ELSE s
           step == [k \in 1..n |-> [s \in T |-> Then(k, s)]]
           P(f) == f = [k \in 0..n |-> IF k = 0 THEN <<>> ELSE Then(k, f[k - 1])]
           h == CHOOSE f : P(f)
<1>1. n \in Nat /\ base \in T
    OBVIOUS
<1>2. \A k \in 1..n : \A s \in T : Then(k, s) \in T
    BY TokenTyped
<1>3. base = <<>> /\ \A k \in 1..n : \A s \in T : step[k][s] = Then(k, s)
    OBVIOUS
<1>4. step \in [1..n -> [T -> T]]
  <2> HIDE DEF Then, T, n
  <2>1. QED BY <1>2
<1>5. tokenize_inline(line) = h[n]
    BY DEF tokenize_inline, Begins
<1> HIDE DEF step, base, n, T, Then
<1>6. PICK g \in [0..n -> T] : Recurs(g, n, base, step)
    BY <1>1, <1>4, Recursion
<1>7. \A k \in 1..n : k - 1 \in 0..n /\ k # 0
    BY <1>1
<1>8. g[0] = <<>> /\ \A k \in 1..n : g[k] = Then(k, g[k - 1])
    BY <1>3, <1>6, <1>7 DEF Recurs
<1>9. P(g)
  <2>1. \A k \in 0..n : k = 0 \/ k \in 1..n
    BY <1>1
  <2>2. \A k \in 0..n : g[k] = IF k = 0 THEN <<>> ELSE Then(k, g[k - 1])
    BY <1>8, <2>1
  <2>3. QED BY <1>6, <2>2
<1>10. P(h)
    BY <1>9
<1> HIDE DEF h
<1>11. h[0] = <<>> /\ \A k \in 1..n : h[k] = Then(k, h[k - 1])
    BY <1>1, <1>7, <1>10
<1> DEFINE S == {k \in 0..n : h[k] = g[k]}
<1>12. \A k \in 0..n : k \in S
  <2>1. 0 \in S
    BY <1>1, <1>8, <1>11
  <2>2. \A k \in 1..n : k - 1 \in S => k \in S
    BY <1>1, <1>8, <1>11
  <2> HIDE DEF S
  <2>3. QED BY <1>1, <2>1, <2>2, Induction
<1>13. g[n] = tokenize_inline(line)
    BY <1>1, <1>5, <1>12
<1>14. QED BY <1>6, <1>8, <1>13 DEF n, T, Then

-----------------------------------------------------------------------------
(***************************************************************************)
(* The delimiters that symbols and tokens stand for.                       *)
(***************************************************************************)
LEMMA SumsFacts ==
    ASSUME NEW v \in Seq(Int)
    PROVE  /\ \A k \in 0..Len(v) : Sums(v)[k] \in Int
           /\ Sums(v)[0] = 0
           /\ \A k \in 1..Len(v) : Sums(v)[k] = Sums(v)[k - 1] + v[k]
<1> DEFINE n == Len(v)
           base == 0
           step == [k \in 1..n |-> [s \in Int |-> s + v[k]]]
           P(f) == f = [k \in 0..n |-> IF k = 0 THEN 0 ELSE f[k - 1] + v[k]]
           h == CHOOSE f : P(f)
<1>1. n \in Nat /\ base \in Int /\ \A k \in 1..n : v[k] \in Int
    OBVIOUS
<1>2. step \in [1..n -> [Int -> Int]]
    BY <1>1
<1>3. base = 0 /\ \A k \in 1..n : \A s \in Int : step[k][s] = s + v[k]
    OBVIOUS
<1> HIDE DEF step, base, n
<1>4. PICK g \in [0..n -> Int] : Recurs(g, n, base, step)
    BY <1>1, <1>2, Recursion
<1>5. \A k \in 1..n : k - 1 \in 0..n /\ k # 0
    BY <1>1
<1>6. g[0] = 0 /\ \A k \in 1..n : g[k] = g[k - 1] + v[k]
    BY <1>3, <1>4, <1>5 DEF Recurs
<1>7. P(g)
  <2>1. \A k \in 0..n : k = 0 \/ k \in 1..n
    BY <1>1
  <2>2. \A k \in 0..n : g[k] = IF k = 0 THEN 0 ELSE g[k - 1] + v[k]
    BY <1>6, <2>1
  <2>3. QED BY <1>4, <2>2
<1>8. P(h)
    BY <1>7
<1>9. Sums(v) = h
    BY DEF Sums, n
<1> HIDE DEF h
<1>10. h[0] = 0 /\ \A k \in 1..n : h[k] = h[k - 1] + v[k]
    BY <1>1, <1>5, <1>8
<1> DEFINE S == {k \in 0..n : h[k] = g[k]}
<1>11. \A k \in 0..n : k \in S
  <2>1. 0 \in S
    BY <1>1, <1>6, <1>10
  <2>2. \A k \in 1..n : k - 1 \in S => k \in S
    BY <1>1, <1>6, <1>10
  <2> HIDE DEF S
  <2>3. QED BY <1>1, <2>1, <2>2, Induction
<1>12. \A k \in 0..n : h[k] \in Int
    BY <1>4, <1>11
<1>13. QED BY <1>9, <1>10, <1>12 DEF n

\* The same numbers add the same.
LEMMA SameSums ==
    ASSUME NEW v \in Seq(Int), NEW w \in Seq(Int), NEW i \in Nat, NEW j \in Nat, NEW m \in Nat,
           Alike(v, w, i, j, m), NEW g, g = i + m, NEW h, h = j + m
    PROVE  Sums(w)[h] - Sums(w)[j] = Sums(v)[g] - Sums(v)[i]
<1> DEFINE a == Sums(v)
           b == Sums(w)
           S == {k \in 0..m : b[j + k] - b[j] = a[i + k] - a[i]}
<1>1. /\ \A k \in 1..Len(v) : a[k] = a[k - 1] + v[k]
      /\ \A k \in 1..Len(w) : b[k] = b[k - 1] + w[k]
      /\ \A k \in 0..Len(v) : a[k] \in Int
      /\ \A k \in 0..Len(w) : b[k] \in Int
    BY SumsFacts
<1>b. i + m <= Len(v) /\ j + m <= Len(w) /\ \A k \in 1..m : w[j + k] = v[i + k]
    BY DEF Alike
<1> HIDE DEF a, b
<1>a. a[i] \in Int /\ b[j] \in Int
  <2>1. i \in 0..Len(v) /\ j \in 0..Len(w)
    BY <1>b
  <2>2. QED BY <1>1, <2>1
<1>2. 0 \in S
  <2>1. b[j + 0] - b[j] = a[i + 0] - a[i]
    BY <1>a
  <2>2. QED BY <2>1
<1>3. ASSUME NEW k \in 1..m, b[j + (k - 1)] - b[j] = a[i + (k - 1)] - a[i]
      PROVE  b[j + k] - b[j] = a[i + k] - a[i]
  <2>1. i + k \in 1..Len(v) /\ j + k \in 1..Len(w) /\ i + (k - 1) = (i + k) - 1 /\ j + (k - 1) = (j + k) - 1
    BY <1>b
  <2>2. /\ a[i + k] = a[i + (k - 1)] + v[i + k]
        /\ b[j + k] = b[j + (k - 1)] + v[i + k]
    BY <1>1, <1>b, <2>1
  <2>3. i + (k - 1) \in 0..Len(v) /\ j + (k - 1) \in 0..Len(w)
    BY <1>b
  <2>4. a[i + (k - 1)] \in Int /\ v[i + k] \in Int /\ b[j + (k - 1)] \in Int
    BY <1>1, <2>1, <2>3, SMTT(30)
  <2> DEFINE p == a[i + (k - 1)]
             q == b[j + (k - 1)]
             x == v[i + k]
             c == a[i]
             d == b[j]
  <2>5. a[i + k] = p + x /\ b[j + k] = q + x /\ q - d = p - c
    BY <1>3, <2>2
  <2>6. p \in Int /\ q \in Int /\ x \in Int /\ c \in Int /\ d \in Int
    BY <1>a, <2>4
  <2> HIDE DEF p, q, x, c, d
  <2>7. (q + x) - d = (p + x) - c
    BY <2>5, <2>6
  <2>8. b[j + k] - d = a[i + k] - c
    BY <2>5, <2>7
  <2>9. QED BY <2>8 DEF c, d
<1>4. \A k \in 1..m : k - 1 \in S => k \in S
    BY <1>3
<1> HIDE DEF S
<1>5. m \in S
  <2>1. \A k \in 0..m : k \in S
    BY <1>2, <1>4, Induction
  <2>2. QED BY <2>1
<1>6. QED BY <1>5 DEF S, a, b

LEMMA PrefixSums ==
    ASSUME NEW v \in Seq(Int), NEW w \in Seq(Int), NEW m \in Nat, m <= Len(v), m <= Len(w),
           \A k \in 1..m : w[k] = v[k]
    PROVE  Sums(w)[m] = Sums(v)[m]
<1> DEFINE a == Sums(v)
           b == Sums(w)
           S == {k \in 0..m : b[k] = a[k]}
<1>1. /\ a[0] = 0 /\ \A k \in 1..Len(v) : a[k] = a[k - 1] + v[k]
      /\ b[0] = 0 /\ \A k \in 1..Len(w) : b[k] = b[k - 1] + w[k]
    BY SumsFacts
<1> HIDE DEF a, b
<1>2. 0 \in S
    BY <1>1
<1>a. ASSUME NEW k \in 1..m, b[k - 1] = a[k - 1] PROVE b[k] = a[k]
  <2>2. k \in 1..Len(v) /\ k \in 1..Len(w)
    OBVIOUS
  <2>3. b[k] = b[k - 1] + w[k] /\ a[k] = a[k - 1] + v[k] /\ w[k] = v[k]
    BY <1>1, <2>2
  <2>4. QED BY <1>a, <2>3
<1>3. \A k \in 1..m : k - 1 \in S => k \in S
  <2>1. \A k \in 1..m : k \in 0..m
    OBVIOUS
  <2>2. \A k \in 1..m : b[k - 1] = a[k - 1] => b[k] = a[k]
    BY <1>a
  <2>3. QED BY <2>1, <2>2, Zenon
<1> HIDE DEF S
<1>4. m \in S
  <2>1. \A k \in 0..m : k \in S
    BY <1>2, <1>3, Induction
  <2>2. QED BY <2>1
<1>5. QED BY <1>4 DEF S, a, b

\* So do as many equal ones, of which none counts or each counts for one.
Times(n, w) == IF w = 0 THEN 0 ELSE n

LEMMA RunSums ==
    ASSUME NEW v \in Seq(Int), NEW i \in Nat, NEW m \in Nat, NEW w \in {0, 1},
           i + m <= Len(v), \A k \in 1..m : v[i + k] = w
    PROVE  Sums(v)[i + m] = Sums(v)[i] + Times(m, w)
<1> DEFINE a == Sums(v)
           S == {k \in 0..m : a[i + k] = a[i] + Times(k, w)}
<1>1. /\ \A k \in 1..Len(v) : a[k] = a[k - 1] + v[k]
      /\ \A k \in 0..Len(v) : a[k] \in Int
    BY SumsFacts
<1> HIDE DEF a
<1>2. 0 \in S
    BY <1>1, SMTT(30) DEF Times
<1>3. ASSUME NEW k \in 1..m, a[i + (k - 1)] = a[i] + Times(k - 1, w)
      PROVE  a[i + k] = a[i] + Times(k, w)
  <2>1. i + k \in 1..Len(v) /\ i + (k - 1) = (i + k) - 1
    OBVIOUS
  <2>2. a[i + k] = a[i + (k - 1)] + w
    BY <1>1, <2>1
  <2>3. a[i + (k - 1)] \in Int /\ a[i] \in Int
    BY <1>1, <2>1
  <2> DEFINE e == a[i]
             f == a[i + (k - 1)]
             g == a[i + k]
  <2>4. e \in Int /\ f = e + Times(k - 1, w) /\ g = f + w
    BY <1>3, <2>2, <2>3
  <2> HIDE DEF e, f, g
  <2>5. g = e + Times(k, w)
    <3>1. CASE w = 0
        BY <2>4, <3>1 DEF Times
    <3>2. CASE w = 1
      <4>1. Times(k - 1, w) = k - 1 /\ Times(k, w) = k
        BY <3>2 DEF Times
      <4>2. QED BY <2>4, <3>2, <4>1
    <3>3. QED BY <3>1, <3>2
  <2>6. QED BY <2>5 DEF e, g
<1>4. \A k \in 1..m : k - 1 \in S => k \in S
    BY <1>3
<1> HIDE DEF S
<1>5. m \in S
  <2>1. \A k \in 0..m : k \in S
    BY <1>2, <1>4, Induction
  <2>2. QED BY <2>1
<1>6. QED BY <1>5 DEF S, a

\* The worth of a symbol and of a token.
Values(line) == [k \in DOMAIN line |-> Weight(line[k])]

Worth(t) == IF t.type = "delim" THEN Times(t.len, Weight(t.val)) ELSE Weight(t.val)

Worths(ts) == [k \in DOMAIN ts |-> Worth(ts[k])]

LEMMA WeightFacts ==
    /\ \A s \in Symbols : Weight(s) \in Nat
    /\ \A s : IsDelimiter(s) => Weight(s) \in {0, 1} /\ (Weight(s) = 0 <=> s.of = "~")
<1> DEFINE Ones == {"*", "_"}
<1>1. "~" \notin Ones
    BY Zenon
<1>2. \A s : IsDelimiter(s) => s.is = "char" /\ (s.of \notin Ones <=> s.of = "~")
  <2>1. \A c \in Delimiters : c \notin Ones <=> c = "~"
    BY <1>1, Zenon DEF Delimiters
  <2>2. QED BY <2>1, Zenon DEF IsDelimiter
<1>3. \A s : s.is = "char" => Weight(s) = IF s.of \in Ones THEN 1 ELSE 0
    BY Zenon DEF Weight
<1>4. \A s : Weight(s) \in {0, 1, 2}
    BY Zenon DEF Weight
<1> HIDE DEF Ones
<1>5. QED BY <1>2, <1>3, <1>4

LEMMA WorthTyped ==
    ASSUME NEW ts \in Seq(TokensOf(Inline))
    PROVE  /\ Worths(ts) \in Seq(Int) /\ Len(Worths(ts)) = Len(ts)
           /\ \A k \in 1..Len(ts) : Worths(ts)[k] = Worth(ts[k])
<1>1. \A t \in TokensOf(Inline) : Worth(t) \in Int
    BY WeightFacts, InlineFacts DEF TokensOf, Tokens, Worth, Times
<1>2. DOMAIN ts = 1..Len(ts) /\ Len(ts) \in Nat /\ \A k \in 1..Len(ts) : Worth(ts[k]) \in Int
    BY <1>1
<1> HIDE DEF Worth
<1>3. QED BY <1>2 DEF Worths

LEMMA ValuesTyped ==
    ASSUME NEW line \in Seq(Symbols)
    PROVE  /\ Values(line) \in Seq(Int) /\ Len(Values(line)) = Len(line)
           /\ \A k \in 1..Len(line) : Values(line)[k] = Weight(line[k])
<1>1. DOMAIN line = 1..Len(line) /\ Len(line) \in Nat /\ \A k \in 1..Len(line) : Weight(line[k]) \in Int
    BY WeightFacts
<1>2. QED BY <1>1 DEF Values

Total(ts) == Sums(Worths(ts))[Len(ts)]

LEMMA TotalAppend ==
    ASSUME NEW ts \in Seq(TokensOf(Inline)), NEW t \in TokensOf(Inline)
    PROVE  Total(Append(ts, t)) = Total(ts) + Worth(t)
<1> DEFINE n == Len(ts)
           us == Append(ts, t)
           v == Worths(ts)
           w == Worths(us)
<1>1. n \in Nat /\ us \in Seq(TokensOf(Inline)) /\ Len(us) = n + 1
    BY Appending
<1>2. us[n + 1] = t /\ \A k \in 1..n : us[k] = ts[k]
    BY Appending
<1>3. v \in Seq(Int) /\ Len(v) = n /\ \A k \in 1..n : v[k] = Worth(ts[k])
    BY WorthTyped
<1> HIDE DEF us, v
<1>4. w \in Seq(Int) /\ Len(w) = n + 1 /\ \A k \in 1..(n + 1) : w[k] = Worth(us[k])
    BY <1>1, WorthTyped
<1> HIDE DEF w, n
<1>5. n <= Len(v) /\ n <= Len(w) /\ \A k \in 1..n : w[k] = v[k]
    BY <1>1, <1>2, <1>3, <1>4
<1>7. Sums(w)[0] = 0 /\ Sums(v)[0] = 0 /\ Sums(w)[n] \in Int /\ Sums(v)[n] \in Int
    BY <1>1, <1>3, <1>4, SumsFacts
<1>8. Sums(w)[n + 1] = Sums(w)[n] + w[n + 1]
  <2>1. n + 1 \in 1..Len(w) /\ (n + 1) - 1 = n
    BY <1>1, <1>4
  <2>2. Sums(w)[n + 1] = Sums(w)[(n + 1) - 1] + w[n + 1]
    BY <1>4, <2>1, SumsFacts
  <2>3. QED BY <2>1, <2>2
<1>9. w[n + 1] = Worth(t)
  <2>1. n + 1 \in 1..(n + 1)
    BY <1>1
  <2>2. QED BY <1>2, <1>4, <2>1
<1>10. Sums(w)[n] = Sums(v)[n]
    BY <1>1, <1>3, <1>4, <1>5, PrefixSums
<1>11. Total(ts) = Sums(v)[n] /\ Total(us) = Sums(w)[n + 1]
    BY <1>1 DEF Total, n, v, w
<1>12. QED BY <1>8, <1>9, <1>10, <1>11 DEF us

\* Cutting a line into tokens keeps its delimiters: behind a symbol, those of its
\* whole run are taken.
LEMMA TotalCut ==
    ASSUME NEW line \in Seq(Inline)
    PROVE  Total(tokenize_inline(line)) = Delimiting(line)
<1> DEFINE n == Len(line)
           v == Values(line)
           Behinds(k, e) ==
               IF IsDelimiter(line[k])
               THEN (\A m \in k..e : line[m] = line[k]) /\ (e < n => line[e + 1] # line[k])
               ELSE e = k
           Taken(k, e, ts) == Total(ts) = Sums(v)[e] /\ IF k = 0 THEN e = 0 ELSE Behinds(k, e)
<1>1. n \in Nat /\ line \in Seq(Symbols) /\ \A k \in 1..n : line[k] \in Inline
    BY InlineFacts
<1>2. v \in Seq(Int) /\ Len(v) = n /\ \A k \in 1..n : v[k] = Weight(line[k])
    BY <1>1, ValuesTyped
<1>a. Inline \in SUBSET Inline /\ line \in Seq(Inline)
    OBVIOUS
<1>3. PICK f \in [0..n -> Seq(TokensOf(Inline))] :
          /\ f[0] = <<>> /\ f[n] = tokenize_inline(line)
          /\ \A k \in 1..n :
                f[k] = IF Begins(line, k) THEN Append(f[k - 1], TokenAt(line, k)) ELSE f[k - 1]
    BY <1>a, TokenFacts
<1> HIDE DEF v
<1>4. Taken(0, 0, f[0])
  <2>1. <<>> \in Seq(TokensOf(Inline)) /\ Len(<<>>) = 0
    OBVIOUS
  <2>2. Worths(<<>>) \in Seq(Int)
    BY <2>1, WorthTyped
  <2>3. Sums(Worths(<<>>))[0] = 0 /\ Sums(v)[0] = 0
    BY <1>2, <2>2, SumsFacts
  <2>4. QED BY <1>3, <2>1, <2>3 DEF Total
<1>5. ASSUME NEW k \in 1..n, NEW e \in (k - 1)..n, Taken(k - 1, e, f[k - 1])
      PROVE  \E d \in k..n : Taken(k, d, f[k])
  <2>1. /\ f[k] = IF Begins(line, k) THEN Append(f[k - 1], TokenAt(line, k)) ELSE f[k - 1]
        /\ f[k - 1] \in Seq(TokensOf(Inline)) /\ TokenAt(line, k) \in TokensOf(Inline)
    <3>1. k - 1 \in 0..n
        OBVIOUS
    <3>2. QED BY <1>3, <1>a, <3>1, TokenTyped
  <2>2. k - 1 = 0 => e = 0
    BY <1>5
  <2>3. k - 1 # 0 => Behinds(k - 1, e) /\ k - 1 \in 1..n
    BY <1>5
  <2>4. CASE Begins(line, k)
    <3>1. Total(f[k]) = Sums(v)[e] + Worth(TokenAt(line, k))
        BY <1>5, <2>1, <2>4, TotalAppend
    <3>2. e = k - 1
      <4>1. CASE k - 1 = 0
        BY <2>2, <4>1
      <4>2. CASE k - 1 # 0 /\ ~IsDelimiter(line[k - 1])
        BY <2>3, <4>2
      <4>3. CASE k - 1 # 0 /\ IsDelimiter(line[k - 1])
        <5>1. SUFFICES ASSUME e # k - 1 PROVE FALSE
            OBVIOUS
        <5>2. k \in (k - 1)..e
            BY <5>1
        <5>3. line[k] = line[k - 1]
            BY <2>3, <4>3, <5>2
        <5>4. Before(line, k) = line[k - 1]
            BY <4>3 DEF Before
        <5>5. QED BY <2>4, <4>3, <5>3, <5>4 DEF Begins
      <4>4. QED BY <4>1, <4>2, <4>3
    <3>3. CASE IsDelimiter(line[k])
      <4>1. PICK r \in Nat : /\ RunLength(line, k) = r /\ r >= 1 /\ k + (r - 1) <= n
                             /\ \A m \in k..(k + (r - 1)) : line[m] = line[k]
                             /\ k + r <= n => line[k + r] # line[k]
        BY RunFacts
      <4>2. line[k].is = "char"
        BY <3>3 DEF IsDelimiter
      <4>3. TokenAt(line, k) = Delimiter(line, k, r)
        BY <3>3, <4>1, <4>2 DEF TokenAt
      <4>4. Worth(TokenAt(line, k)) = Times(r, Weight(line[k]))
      <5> DEFINE t == Delimiter(line, k, r)
      <5>1. t.type = "delim" /\ t.val = line[k] /\ t.len = r
        BY DEF Delimiter
      <5> HIDE DEF t
      <5>2. Worth(t) = Times(r, Weight(line[k]))
        BY <5>1 DEF Worth
      <5>3. QED BY <4>3, <5>2 DEF t
      <4>5. /\ v \in Seq(Int) /\ k - 1 \in Nat /\ r \in Nat /\ Weight(line[k]) \in {0, 1}
            /\ (k - 1) + r <= Len(v) /\ \A m \in 1..r : v[(k - 1) + m] = Weight(line[k])
        <5>1. \A m \in 1..r : (k - 1) + m \in k..(k + (r - 1)) /\ (k - 1) + m \in 1..n
            BY <4>1
        <5>2. \A m \in 1..r : v[(k - 1) + m] = Weight(line[k])
            BY <1>2, <4>1, <5>1
        <5>3. QED BY <1>2, <3>3, <4>1, <5>2, WeightFacts
      <4>6. Sums(v)[(k - 1) + r] = Sums(v)[k - 1] + Times(r, Weight(line[k]))
        BY <4>5, RunSums, Zenon
      <4> DEFINE d == (k - 1) + r
      <4>7. d \in k..n /\ d = k + (r - 1) /\ d + 1 = k + r
        BY <4>1
      <4>8. Total(f[k]) = Sums(v)[d]
        BY <3>1, <3>2, <4>4, <4>6
      <4> HIDE DEF d
      <4>9. Behinds(k, d)
        BY <3>3, <4>1, <4>7
      <4>10. k # 0
        OBVIOUS
      <4>11. Taken(k, d, f[k])
        BY <4>8, <4>9, <4>10
      <4>12. QED BY <4>7, <4>11
    <3>4. CASE ~IsDelimiter(line[k])
      <4>1. /\ TokenAt(line, k).type # "delim" /\ TokenAt(line, k).val = line[k]
        BY <3>4 DEF TokenAt, Token
      <4>2. Worth(TokenAt(line, k)) = v[k]
        BY <1>2, <4>1 DEF Worth
      <4>3. Sums(v)[k] = Sums(v)[k - 1] + v[k]
        BY <1>2, SumsFacts
      <4>4. Total(f[k]) = Sums(v)[k]
        BY <3>1, <3>2, <4>2, <4>3
      <4>5. Taken(k, k, f[k])
        BY <3>4, <4>4
      <4>6. QED BY <4>5
    <3>5. QED BY <3>3, <3>4
  <2>5. CASE ~Begins(line, k)
    <3>1. IsDelimiter(line[k]) /\ line[k] = Before(line, k) /\ f[k] = f[k - 1]
        BY <2>1, <2>5 DEF Begins
    <3>2. k - 1 # 0
      <4>1. " " \notin Delimiters
        BY Zenon DEF Delimiters
      <4>2. ~IsDelimiter(Char(" "))
        BY <4>1, Zenon DEF IsDelimiter, Char
      <4>3. SUFFICES ASSUME k = 1 PROVE FALSE
        OBVIOUS
      <4>4. QED BY <3>1, <4>2, <4>3 DEF Before
    <3>3. line[k] = line[k - 1]
        BY <3>1, <3>2 DEF Before
    <3>4. /\ \A m \in (k - 1)..e : line[m] = line[k]
          /\ e < n => line[e + 1] # line[k]
        BY <2>3, <3>1, <3>2, <3>3
    <3>5. e \in k..n
      <4>1. SUFFICES ASSUME e = k - 1 PROVE FALSE
        BY <1>5
      <4>2. e < n /\ e + 1 = k
        BY <4>1
      <4>3. QED BY <3>4, <4>2
    <3>6. Behinds(k, e)
      <4>1. \A m \in k..e : m \in (k - 1)..e
        OBVIOUS
      <4>2. QED BY <3>1, <3>4, <4>1
    <3>7. Total(f[k]) = Sums(v)[e] /\ k # 0
        BY <1>5, <3>1
    <3>8. Taken(k, e, f[k])
        BY <3>6, <3>7
    <3>9. QED BY <3>5, <3>8
  <2>6. QED BY <2>4, <2>5
<1> HIDE DEF Behinds
<1> DEFINE S == {k \in 0..n : \E e \in k..n : Taken(k, e, f[k])}
<1>6. 0 \in S
    BY <1>1, <1>4
<1>7. \A k \in 1..n : k - 1 \in S => k \in S
    BY <1>5
<1> HIDE DEF S
<1>8. n \in S
  <2>1. \A k \in 0..n : k \in S
    BY <1>1, <1>6, <1>7, Induction
  <2>2. QED BY <1>1, <2>1
<1>9. PICK e \in n..n : Taken(n, e, f[n])
    BY <1>8 DEF S
<1>10. Total(f[n]) = Sums(v)[n]
    BY <1>1, <1>9
<1>11. Delimiting(line) = Sums(v)[n]
    BY DEF Delimiting, Values, v
<1>12. QED BY <1>3, <1>10, <1>11

Marked(ts) == [k \in DOMAIN ts |-> ts[k].val]

\* A line that is typed has no tags yet.
LEMMA NoTagsCut ==
    ASSUME NEW line \in Seq(Text)
    PROVE  LET ts == tokenize_inline(line)
           IN  \A k \in 0..Len(ts) : OpenTags(Marked(ts))[k] = <<>>
<1> DEFINE ts == tokenize_inline(line)
           n == Len(ts)
           s == Marked(ts)
<1>1. Text \in SUBSET Inline
    BY DEF Inline
<1>2. ts \in Seq(TokensOf(Text))
  <2>1. PICK f \in [0..Len(line) -> Seq(TokensOf(Text))] : f[Len(line)] = ts
    BY <1>1, TokenFacts
  <2>2. Len(line) \in 0..Len(line)
    OBVIOUS
  <2>3. QED BY <2>1, <2>2
<1> HIDE DEF ts
<1>3. n \in Nat /\ DOMAIN ts = 1..n /\ \A k \in 1..n : ts[k].val \in Text
    BY <1>2 DEF TokensOf
<1>4. s \in Seq(Text) /\ Len(s) = n
    BY <1>3 DEF Marked
<1>5. s \in Seq(Symbols)
    BY <1>1, <1>4, InlineFacts
<1> HIDE DEF s, n
<1>6. /\ OpenTags(s)[0] = <<>>
      /\ \A k \in 1..n : OpenTags(s)[k] = Follow(OpenTags(s)[k - 1], s[k])
    BY <1>4, <1>5, TagsFacts
<1>7. \A k \in 1..n : s[k] \in Text
    BY <1>4
<1>8. ASSUME NEW k \in 1..n, OpenTags(s)[k - 1] = <<>> PROVE OpenTags(s)[k] = <<>>
  <2>1. s[k].is \in {"char", "escaped"}
    BY <1>7 DEF Text
  <2>2. QED BY <1>6, <1>8, <2>1 DEF Follow
<1> DEFINE S == {k \in 0..n : OpenTags(s)[k] = <<>>}
<1>9. 0 \in S
    BY <1>3, <1>6 DEF n
<1>10. \A k \in 1..n : k - 1 \in S => k \in S
    BY <1>8
<1> HIDE DEF S
<1>11. \A k \in 0..n : k \in S
  <2>1. n \in Nat
    BY <1>3 DEF n
  <2>2. QED BY <1>9, <1>10, <2>1, Induction
<1>12. \A k \in 0..n : OpenTags(s)[k] = <<>>
    BY <1>11 DEF S
<1>13. QED BY <1>12 DEF s, n, ts

-----------------------------------------------------------------------------
(***************************************************************************)
(* The pairing.                                                            *)
(***************************************************************************)
EmphasisInv ==
    /\ source \in Seq(Inline)
    /\ tokens \in Seq(TokensOf(Inline))
    /\ closer \in 1..(Len(tokens) + 1)

Rest(t, num) == [t EXCEPT !.len = @ - num]

\* Where the tokens ts stand in us when an opener o and the closer c have been paired,
\* whose place is d then; p and q of them are in their places.
Paired(ts, c, us, d, o, num, tag, p, q) ==
    LET n == Len(ts)
    IN  /\ o \in 1..(c - 1) /\ c \in 1..n
        /\ Opens(ts[o], ts[c]) /\ CanClose(ts[c])
        /\ num = Used(ts[o], ts[c]) /\ tag = TagOf(ts[c], num)
        /\ p = (IF ts[o].len > num THEN 2 ELSE 1)
        /\ q = (IF ts[c].len > num THEN 2 ELSE 1)
        /\ us \in Seq(TokensOf(Inline)) /\ Len(us) = (n + p + q) - 2
        /\ d = (c + p + q) - 2
        /\ \A k \in 1..(o - 1) : us[k] = ts[k]
        /\ p = 2 => us[o] = Rest(ts[o], num)
        /\ us[(o - 1) + p] = Token("tag", Open(tag))
        /\ \A k \in 1..(c - o - 1) : us[((o - 1) + p) + k] = Deactivated(ts[o + k])
        /\ us[(c - 1) + p] = Token("tag", Close(tag))
        /\ q = 2 => us[c + p] = Rest(ts[c], num)
        /\ \A k \in 1..(n - c) : us[((c + p + q) - 2) + k] = ts[c + k]

LEMMA UsedFacts ==
    ASSUME NEW o \in TokensOf(Inline), NEW c \in TokensOf(Inline), Opens(o, c), CanClose(c)
    PROVE  /\ Used(o, c) \in {1, 2} /\ Used(o, c) <= o.len /\ Used(o, c) <= c.len
           /\ TagOf(c, Used(o, c)) \in EmTags
<1>1. o.len \in Nat /\ c.len \in Nat /\ o.len > 0 /\ c.len > 0
    BY DEF TokensOf, Tokens, Opens, CanClose
<1>2. QED BY <1>1 DEF Used, TagOf, EmTags

LEMMA RestTyped ==
    ASSUME NEW t \in TokensOf(Inline), NEW num \in Nat, num <= t.len
    PROVE  /\ Rest(t, num) \in TokensOf(Inline)
           /\ Rest(t, num) = [type |-> t.type, val |-> t.val, len |-> t.len - num,
                              can_open |-> t.can_open, can_close |-> t.can_close]
<1>1. t \in Tokens /\ t.len \in Nat
    BY DEF TokensOf, Tokens
<1>2. Rest(t, num) = [type |-> t.type, val |-> t.val, len |-> t.len - num,
                      can_open |-> t.can_open, can_close |-> t.can_close]
    BY <1>1 DEF Rest, Tokens
<1> DEFINE r == [type |-> t.type, val |-> t.val, len |-> t.len - num,
                 can_open |-> t.can_open, can_close |-> t.can_close]
<1>3. r \in Tokens
    BY <1>1 DEF Tokens
<1>4. r.type = t.type /\ r.val = t.val
    OBVIOUS
<1> HIDE DEF r
<1>5. r \in TokensOf(Inline)
    BY <1>3, <1>4 DEF TokensOf
<1>6. QED BY <1>2, <1>5 DEF r

LEMMA DeactivatedTyped ==
    ASSUME NEW t \in TokensOf(Inline)
    PROVE  /\ Deactivated(t) \in TokensOf(Inline)
           /\ Deactivated(t).type = t.type /\ Deactivated(t).val = t.val /\ Deactivated(t).len = t.len
           /\ t.type = "delim" => ~Deactivated(t).can_open
<1>1. t \in Tokens
    BY DEF TokensOf
<1>2. CASE t.type = "delim"
  <2> DEFINE r == [type |-> t.type, val |-> t.val, len |-> t.len, can_open |-> FALSE, can_close |-> FALSE]
  <2>1. Deactivated(t) = r
    BY <1>1, <1>2 DEF Deactivated, Tokens
  <2>2. r \in Tokens
    BY <1>1 DEF Tokens
  <2>3. r.type = t.type /\ r.val = t.val /\ r.len = t.len /\ ~r.can_open
    OBVIOUS
  <2> HIDE DEF r
  <2>4. r \in TokensOf(Inline)
    BY <2>2, <2>3 DEF TokensOf
  <2>5. QED BY <2>1, <2>3, <2>4
<1>3. CASE t.type # "delim"
    BY <1>3 DEF Deactivated
<1>4. QED BY <1>2, <1>3

LEMMA TagTyped ==
    ASSUME NEW tag \in EmTags
    PROVE  Token("tag", Open(tag)) \in TokensOf(Inline) /\ Token("tag", Close(tag)) \in TokensOf(Inline)
<1>1. \A is \in {"open", "close"} : [is |-> is, of |-> tag] \in Inline
    BY DEF Inline
<1>2. \A s \in Inline : s \in Symbols
    BY InlineFacts
<1>3. \A s \in Inline : s.is \in {"open", "close"} => Token("tag", s) \in TokensOf(Inline)
    BY <1>2 DEF Token, Tokens, TokensOf
<1>4. QED BY <1>1, <1>3 DEF Open, Close

\* One token or two.
LEMMA OneOrTwo ==
    ASSUME NEW T, NEW a \in T, NEW b \in T
    PROVE  /\ Append(<<>>, b) \in Seq(T) /\ Len(Append(<<>>, b)) = 1 /\ Append(<<>>, b)[1] = b
           /\ Append(<<a>>, b) \in Seq(T) /\ Len(Append(<<a>>, b)) = 2
           /\ Append(<<a>>, b)[1] = a /\ Append(<<a>>, b)[2] = b
           /\ <<a>> \o <<>> \in Seq(T) /\ Len(<<a>> \o <<>>) = 1 /\ (<<a>> \o <<>>)[1] = a
           /\ <<a>> \o <<b>> \in Seq(T) /\ Len(<<a>> \o <<b>>) = 2
           /\ (<<a>> \o <<b>>)[1] = a /\ (<<a>> \o <<b>>)[2] = b
OBVIOUS

\* What takes the place of an opener, and of a closer.
LEMMA PiecesFacts ==
    ASSUME NEW x \in TokensOf(Inline), NEW num \in {1, 2}, num <= x.len, NEW tag \in EmTags
    PROVE  LET T == TokensOf(Inline)
               r == IF x.len > num THEN 2 ELSE 1
               opening == Append(Shortened(x, num), Token("tag", Open(tag)))
               closing == <<Token("tag", Close(tag))>> \o Shortened(x, num)
           IN  /\ opening \in Seq(T) /\ Len(opening) = r /\ opening[r] = Token("tag", Open(tag))
               /\ r = 2 => opening[1] = Rest(x, num)
               /\ closing \in Seq(T) /\ Len(closing) = r /\ closing[1] = Token("tag", Close(tag))
               /\ r = 2 => closing[2] = Rest(x, num)
<1> DEFINE T == TokensOf(Inline)
           a == Token("tag", Open(tag))
           b == Token("tag", Close(tag))
           d == Rest(x, num)
           s == Shortened(x, num)
<1>1. a \in T /\ b \in T
    BY TagTyped
<1>2. d \in T
    BY RestTyped
<1>3. CASE x.len > num
  <2>1. s = <<d>>
    BY <1>3 DEF Shortened, Rest
  <2> HIDE DEF T, a, b, d, s
  <2>2. /\ Append(<<d>>, a) \in Seq(T) /\ Len(Append(<<d>>, a)) = 2
        /\ Append(<<d>>, a)[1] = d /\ Append(<<d>>, a)[2] = a
    BY <1>1, <1>2, OneOrTwo
  <2>3. /\ <<b>> \o <<d>> \in Seq(T) /\ Len(<<b>> \o <<d>>) = 2
        /\ (<<b>> \o <<d>>)[1] = b /\ (<<b>> \o <<d>>)[2] = d
    BY <1>1, <1>2, OneOrTwo
  <2>4. /\ Append(s, a) \in Seq(T) /\ Len(Append(s, a)) = 2
        /\ Append(s, a)[1] = d /\ Append(s, a)[2] = a
        /\ <<b>> \o s \in Seq(T) /\ Len(<<b>> \o s) = 2
        /\ (<<b>> \o s)[1] = b /\ (<<b>> \o s)[2] = d
    BY <2>1, <2>2, <2>3
  <2> QED BY <1>3, <2>4 DEF T, a, b, d, s
<1>4. CASE ~(x.len > num)
  <2>1. s = <<>>
    BY <1>4 DEF Shortened
  <2> HIDE DEF T, a, b, d, s
  <2>2. Append(<<>>, a) \in Seq(T) /\ Len(Append(<<>>, a)) = 1 /\ Append(<<>>, a)[1] = a
    BY <1>1, OneOrTwo
  <2>3. <<b>> \o <<>> \in Seq(T) /\ Len(<<b>> \o <<>>) = 1 /\ (<<b>> \o <<>>)[1] = b
    BY <1>1, OneOrTwo
  <2>4. /\ Append(s, a) \in Seq(T) /\ Len(Append(s, a)) = 1 /\ Append(s, a)[1] = a
        /\ <<b>> \o s \in Seq(T) /\ Len(<<b>> \o s) = 1 /\ (<<b>> \o s)[1] = b
    BY <2>1, <2>2, <2>3
  <2> QED BY <1>4, <2>4 DEF T, a, b, d, s
<1>5. QED BY <1>3, <1>4

LEMMA PairFacts ==
    ASSUME EmphasisInv, Pair
    PROVE  \E o, num, tag, p, q : Paired(tokens, closer, tokens', closer', o, num, tag, p, q)
<1> DEFINE T == TokensOf(Inline)
           n == Len(tokens)
           c == closer
           o == Max(Openers)
           x == tokens[o]
           y == tokens[c]
           num == Used(x, y)
           tag == TagOf(y, num)
           opening == Append(Shortened(x, num), Token("tag", Open(tag)))
           closing == <<Token("tag", Close(tag))>> \o Shortened(y, num)
           between == SubSeq(tokens, o + 1, c - 1)
           off == [k \in DOMAIN between |-> Deactivated(between[k])]
           before == SubSeq(tokens, 1, o - 1)
           behind == SubSeq(tokens, c + 1, n)
           p == IF x.len > num THEN 2 ELSE 1
           q == IF y.len > num THEN 2 ELSE 1
<1>1. /\ tokens' = before \o opening \o off \o closing \o behind
      /\ closer' = c + Len(opening) + Len(closing) - 2
      /\ c <= n /\ CanClose(y) /\ Openers # {}
    BY DEF Pair, Scanning
<1>2. tokens \in Seq(T) /\ n \in Nat /\ c \in 1..n /\ \A k \in 1..n : tokens[k] \in T
  <2>1. tokens \in Seq(T) /\ c \in 1..(n + 1)
    BY DEF EmphasisInv
  <2>2. c <= n
    BY <1>1
  <2> HIDE DEF T
  <2>3. n \in Nat /\ \A k \in 1..n : tokens[k] \in T
    BY <2>1
  <2> HIDE DEF n, c
  <2>4. c \in 1..n
    BY <2>1, <2>2, <2>3
  <2>5. QED BY <2>1, <2>3, <2>4
<1>3. o \in 1..(c - 1) /\ Opens(x, y)
  <2>1. Openers \in SUBSET (0..c)
    BY <1>2 DEF Openers
  <2>2. o \in Openers
    <3>1. c \in Nat
        BY <1>2
    <3>2. QED BY <1>1, <2>1, <3>1, MaxIsGreatest
  <2> HIDE DEF o
  <2>3. QED BY <2>2 DEF Openers
<1> HIDE DEF T, n, o
<1>4. x \in T /\ y \in T /\ o \in 1..n
    BY <1>2, <1>3
<1>5. num \in {1, 2} /\ num <= x.len /\ num <= y.len /\ tag \in EmTags
    BY <1>1, <1>3, <1>4, UsedFacts DEF T
<1> HIDE DEF x, y
<1> HIDE DEF num, tag
<1>6. /\ Rest(x, num) \in T /\ Rest(y, num) \in T
      /\ Token("tag", Open(tag)) \in T /\ Token("tag", Close(tag)) \in T
    BY <1>4, <1>5, RestTyped, TagTyped DEF T
<1>7. p \in {1, 2} /\ q \in {1, 2}
    OBVIOUS
<1>8. /\ opening \in Seq(T) /\ Len(opening) = p /\ opening[p] = Token("tag", Open(tag))
      /\ p = 2 => opening[1] = Rest(x, num)
    BY <1>4, <1>5, PiecesFacts DEF T
<1>9. /\ closing \in Seq(T) /\ Len(closing) = q /\ closing[1] = Token("tag", Close(tag))
      /\ q = 2 => closing[2] = Rest(y, num)
    BY <1>4, <1>5, PiecesFacts DEF T
<1> HIDE DEF opening, closing
<1>10. /\ before \in Seq(T) /\ Len(before) = o - 1 /\ \A k \in 1..(o - 1) : before[k] = tokens[k]
    BY <1>2, <1>3, <1>4
<1>11. /\ between \in Seq(T) /\ Len(between) = c - o - 1
       /\ \A k \in 1..(c - o - 1) : between[k] = tokens[o + k]
    BY <1>2, <1>3, <1>4
<1>12. /\ behind \in Seq(T) /\ Len(behind) = n - c /\ \A k \in 1..(n - c) : behind[k] = tokens[c + k]
    BY <1>2, <1>3, <1>4
<1> HIDE DEF before, behind, between
<1>13. /\ off \in Seq(T) /\ Len(off) = c - o - 1
       /\ \A k \in 1..(c - o - 1) : off[k] = Deactivated(tokens[o + k])
  <2> DEFINE m == c - o - 1
  <2>1. m \in Nat /\ DOMAIN between = 1..m
    BY <1>2, <1>3, <1>11
  <2>2. \A k \in 1..m : Deactivated(between[k]) \in T
    <3>1. \A k \in 1..m : between[k] \in T
        BY <1>11
    <3>2. QED BY <3>1, DeactivatedTyped DEF T
  <2>3. \A k \in 1..m : between[k] = tokens[o + k]
    BY <1>11
  <2> HIDE DEF m
  <2>4. off \in Seq(T) /\ Len(off) = m /\ \A k \in 1..m : off[k] = Deactivated(tokens[o + k])
    BY <2>1, <2>2, <2>3
  <2>5. QED BY <2>4 DEF m
<1> HIDE DEF off
<1>a. /\ before \in Seq(T) /\ opening \in Seq(T) /\ off \in Seq(T) /\ closing \in Seq(T)
      /\ behind \in Seq(T)
    BY <1>8, <1>9, <1>10, <1>12, <1>13
<1> DEFINE t == before \o opening \o off \o closing \o behind
           i == Len(before) + Len(opening)
           j == i + Len(off)
           l == j + Len(closing)
<1>14. /\ t \in Seq(T) /\ Len(t) = l + Len(behind)
       /\ \A k \in 1..Len(before) : t[k] = before[k]
       /\ \A k \in 1..Len(opening) : t[Len(before) + k] = opening[k]
       /\ \A k \in 1..Len(off) : t[i + k] = off[k]
       /\ \A k \in 1..Len(closing) : t[j + k] = closing[k]
       /\ \A k \in 1..Len(behind) : t[l + k] = behind[k]
  <2>1. Five(t, T, before, opening, off, closing, behind)
    BY <1>a, JoiningFive
  <2>2. QED BY <2>1 DEF Five
<1> HIDE DEF t
<1>15. /\ Len(before) = o - 1 /\ i = (o - 1) + p /\ j = (c - 2) + p /\ l = (c + p + q) - 2
       /\ l + Len(behind) = (n + p + q) - 2
    BY <1>2, <1>3, <1>7, <1>8, <1>9, <1>10, <1>12, <1>13
<1> HIDE DEF i, j, l, p, q
<1>16. tokens' = t /\ closer' = (c + p + q) - 2
    BY <1>1, <1>2, <1>7, <1>8, <1>9 DEF t
<1>17. t \in Seq(T) /\ Len(t) = (n + p + q) - 2
    BY <1>14, <1>15
<1>18. \A k \in 1..(o - 1) : t[k] = tokens[k]
    BY <1>10, <1>14
<1>19. t[(o - 1) + p] = Token("tag", Open(tag))
  <2>1. p \in 1..Len(opening)
    BY <1>7, <1>8
  <2>2. QED BY <1>8, <1>14, <1>15, <2>1
<1>20. p = 2 => t[o] = Rest(x, num)
  <2>1. 1 \in 1..Len(opening) /\ (o - 1) + 1 = o
    BY <1>3, <1>7, <1>8
  <2>2. t[(o - 1) + 1] = opening[1]
    BY <1>14, <1>15, <2>1
  <2>3. QED BY <1>8, <2>1, <2>2
<1>21. \A k \in 1..(c - o - 1) : t[((o - 1) + p) + k] = Deactivated(tokens[o + k])
    BY <1>13, <1>14, <1>15
<1>22. t[(c - 1) + p] = Token("tag", Close(tag))
  <2>1. 1 \in 1..Len(closing) /\ j + 1 = (c - 1) + p
    BY <1>2, <1>7, <1>9, <1>15
  <2>2. t[j + 1] = closing[1]
    BY <1>14, <2>1
  <2>3. QED BY <1>9, <2>1, <2>2
<1>23. q = 2 => t[c + p] = Rest(y, num)
  <2>1. SUFFICES ASSUME q = 2 PROVE t[c + p] = Rest(y, num)
    OBVIOUS
  <2>2. 2 \in 1..Len(closing) /\ j + 2 = c + p
    BY <1>2, <1>7, <1>9, <1>15, <2>1
  <2>3. t[j + 2] = closing[2]
    BY <1>14, <2>2
  <2>4. QED BY <1>9, <2>1, <2>2, <2>3
<1>24. \A k \in 1..(n - c) : t[((c + p + q) - 2) + k] = tokens[c + k]
    BY <1>12, <1>14, <1>15
<1>25. /\ num = Used(tokens[o], tokens[c]) /\ tag = TagOf(tokens[c], num)
       /\ p = (IF tokens[o].len > num THEN 2 ELSE 1)
       /\ q = (IF tokens[c].len > num THEN 2 ELSE 1)
       /\ x = tokens[o] /\ y = tokens[c]
    BY DEF num, tag, p, q, x, y
<1>26. Paired(tokens, closer, tokens', closer', o, num, tag, p, q)
    BY <1>1, <1>2, <1>3, <1>16, <1>17, <1>18, <1>19, <1>20, <1>21, <1>22, <1>23, <1>24, <1>25
       DEF Paired, n, T
<1>27. QED BY <1>26

\* What a pairing starts from and puts in place.
LEMMA PairedFacts ==
    ASSUME NEW ts \in Seq(TokensOf(Inline)), NEW c, NEW us, NEW d, NEW o, NEW num, NEW tag, NEW p, NEW q,
           Paired(ts, c, us, d, o, num, tag, p, q)
    PROVE  /\ us \in Seq(TokensOf(Inline)) /\ ts[o] \in TokensOf(Inline) /\ ts[c] \in TokensOf(Inline)
           /\ p \in {1, 2} /\ q \in {1, 2} /\ Len(ts) \in Nat /\ c \in 1..Len(ts) /\ o \in 1..(c - 1)
           /\ Len(us) = (Len(ts) + p + q) - 2 /\ d = (c + p + q) - 2
           /\ num \in {1, 2} /\ num <= ts[o].len /\ num <= ts[c].len /\ tag \in EmTags
           /\ \A k \in {o, c} : /\ Rest(ts[k], num) \in TokensOf(Inline) /\ Rest(ts[k], num).type = "delim"
                             /\ ts[k].type = "delim" /\ Rest(ts[k], num).val = ts[k].val
                             /\ Rest(ts[k], num).len = ts[k].len - num
<1>1. /\ us \in Seq(TokensOf(Inline)) /\ o \in 1..(c - 1) /\ c \in 1..Len(ts)
      /\ Opens(ts[o], ts[c]) /\ CanClose(ts[c])
      /\ num = Used(ts[o], ts[c]) /\ tag = TagOf(ts[c], num)
      /\ p = (IF ts[o].len > num THEN 2 ELSE 1)
      /\ q = (IF ts[c].len > num THEN 2 ELSE 1)
      /\ Len(us) = (Len(ts) + p + q) - 2 /\ d = (c + p + q) - 2
    BY DEF Paired
<1>2. Len(ts) \in Nat /\ \A k \in 1..Len(ts) : ts[k] \in TokensOf(Inline)
    BY SeqFacts
<1>3. ts[o] \in TokensOf(Inline) /\ ts[c] \in TokensOf(Inline)
  <2>1. o \in 1..Len(ts)
    BY <1>1, <1>2
  <2>2. QED BY <1>1, <1>2, <2>1
<1> DEFINE x == ts[o]
           y == ts[c]
<1> HIDE DEF x, y
<1>4. /\ x \in TokensOf(Inline) /\ y \in TokensOf(Inline) /\ Opens(x, y) /\ CanClose(y)
      /\ num = Used(x, y) /\ tag = TagOf(y, num)
    BY <1>1, <1>3 DEF x, y
<1>5. num \in {1, 2} /\ num <= x.len /\ num <= y.len /\ tag \in EmTags
    BY <1>4, UsedFacts
<1>a. x.type = "delim" /\ y.type = "delim"
    BY <1>4 DEF Opens, CanClose
<1>6. \A z \in {x, y} : /\ Rest(z, num) \in TokensOf(Inline) /\ Rest(z, num).type = "delim"
                       /\ z.type = "delim" /\ Rest(z, num).val = z.val /\ Rest(z, num).len = z.len - num
    BY <1>4, <1>5, <1>a, RestTyped
<1>7. p \in {1, 2} /\ q \in {1, 2}
    BY <1>1
<1>8. QED BY <1>1, <1>2, <1>3, <1>5, <1>6, <1>7 DEF x, y

\* The tags open behind each token; a run of delimiters changes nothing.
LEMMA MarkedFacts ==
    ASSUME NEW ts \in Seq(TokensOf(Inline))
    PROVE  /\ Marked(ts) \in Seq(Symbols) /\ Len(Marked(ts)) = Len(ts)
           /\ \A k \in 1..Len(ts) : Marked(ts)[k] = ts[k].val
           /\ OpenTags(Marked(ts))[0] = <<>>
           /\ \A k \in 1..Len(ts) : OpenTags(Marked(ts))[k] = Follow(OpenTags(Marked(ts))[k - 1], ts[k].val)
           /\ \A k \in 1..Len(ts) :
                 ts[k].type = "delim" => OpenTags(Marked(ts))[k] = OpenTags(Marked(ts))[k - 1]
<1> DEFINE s == Marked(ts)
           n == Len(ts)
<1>1. n \in Nat /\ DOMAIN ts = 1..n /\ \A k \in 1..n : ts[k] \in TokensOf(Inline)
    BY SeqFacts
<1>2. \A k \in 1..n : ts[k].val \in Symbols /\ (ts[k].type = "delim" => ts[k].val.is = "char")
  <2>1. \A t \in TokensOf(Inline) : t.val \in Symbols /\ (t.type = "delim" => t.val.is = "char")
    BY InlineFacts DEF TokensOf, IsDelimiter
  <2>2. QED BY <1>1, <2>1
<1>3. s = [k \in 1..n |-> ts[k].val]
    BY <1>1 DEF Marked
<1>4. s \in Seq(Symbols) /\ Len(s) = n /\ \A k \in 1..n : s[k] = ts[k].val
    BY <1>1, <1>2, <1>3
<1> HIDE DEF s, n
<1>5. /\ OpenTags(s)[0] = <<>>
      /\ \A k \in 1..n : OpenTags(s)[k] = Follow(OpenTags(s)[k - 1], s[k])
    BY <1>4, TagsFacts
<1>6. \A k \in 1..n : OpenTags(s)[k] = Follow(OpenTags(s)[k - 1], ts[k].val)
    BY <1>4, <1>5
<1>7. ASSUME NEW k \in 1..n, ts[k].type = "delim" PROVE OpenTags(s)[k] = OpenTags(s)[k - 1]
  <2>1. ts[k].val.is = "char"
    BY <1>2, <1>7
  <2>2. QED BY <1>6, <2>1 DEF Follow
<1>8. QED BY <1>4, <1>5, <1>6, <1>7 DEF s, n

\* No tag is open behind an opener, nor from the closer on.
Nested(ts, c) ==
    LET a == OpenTags(Marked(ts))
    IN  \A k \in 0..Len(ts) :
            k >= c \/ k = Len(ts) \/ (k > 0 /\ ts[k].type = "delim" /\ ts[k].can_open) => a[k] = <<>>

\* A pairing keeps this: what stands between the two is nested by itself, and may not
\* be paired with anything outside.
LEMMA PairNests ==
    ASSUME NEW ts \in Seq(TokensOf(Inline)), NEW c, NEW us, NEW d, NEW o, NEW num, NEW tag, NEW p, NEW q,
           Paired(ts, c, us, d, o, num, tag, p, q), Nested(ts, c)
    PROVE  Nested(us, d)
<1> DEFINE n == Len(ts)
           m == Len(us)
           s == Marked(ts)
           t == Marked(us)
           a == OpenTags(s)
           b == OpenTags(t)
           i == (o - 1) + p
<1>1. /\ us \in Seq(TokensOf(Inline)) /\ ts[o] \in TokensOf(Inline) /\ ts[c] \in TokensOf(Inline)
      /\ p \in {1, 2} /\ q \in {1, 2} /\ n \in Nat /\ c \in 1..n /\ o \in 1..(c - 1)
      /\ m = (n + p + q) - 2 /\ d = (c + p + q) - 2
      /\ tag \in EmTags /\ Rest(ts[o], num).type = "delim" /\ Rest(ts[c], num).type = "delim"
    BY PairedFacts
<1>2. /\ Opens(ts[o], ts[c]) /\ CanClose(ts[c])
      /\ \A k \in 1..(o - 1) : us[k] = ts[k]
      /\ us[i] = Token("tag", Open(tag))
      /\ \A k \in 1..(c - o - 1) : us[i + k] = Deactivated(ts[o + k])
      /\ us[(c - 1) + p] = Token("tag", Close(tag))
      /\ \A k \in 1..(n - c) : us[((c + p + q) - 2) + k] = ts[c + k]
    BY DEF Paired
<1>a. p = 2 => us[o] = Rest(ts[o], num)
    BY DEF Paired
<1>b. q = 2 => us[c + p] = Rest(ts[c], num)
    BY DEF Paired
<1>3. /\ s \in Seq(Symbols) /\ Len(s) = n /\ \A k \in 1..n : s[k] = ts[k].val
      /\ a[0] = <<>> /\ \A k \in 1..n : ts[k].type = "delim" => a[k] = a[k - 1]
    BY MarkedFacts
<1>4. /\ t \in Seq(Symbols) /\ Len(t) = m /\ \A k \in 1..m : t[k] = us[k].val
      /\ b[0] = <<>> /\ \A k \in 1..m : b[k] = Follow(b[k - 1], us[k].val)
      /\ \A k \in 1..m : us[k].type = "delim" => b[k] = b[k - 1]
    BY <1>1, MarkedFacts
<1>5. \A k \in 0..n : k >= c \/ k = n \/ (k > 0 /\ ts[k].type = "delim" /\ ts[k].can_open) => a[k] = <<>>
    BY DEF Nested
<1>c. ts[o].type = "delim" /\ ts[o].can_open /\ ts[c].type = "delim"
    BY <1>2 DEF Opens, CanClose
<1>d. \A k \in 1..(c - o - 1) : ts[o + k] \in TokensOf(Inline)
    BY <1>1
<1>e. \A k \in 1..(c - o - 1) : us[i + k].val = ts[o + k].val /\ ~(us[i + k].type = "delim" /\ us[i + k].can_open)
  <2>1. ASSUME NEW k \in 1..(c - o - 1)
        PROVE us[i + k].val = ts[o + k].val /\ ~(us[i + k].type = "delim" /\ us[i + k].can_open)
    <3> DEFINE x == ts[o + k]
    <3>1. x \in TokensOf(Inline)
        BY <1>d
    <3> HIDE DEF x
    <3>2. Deactivated(x).val = x.val /\ ~(Deactivated(x).type = "delim" /\ Deactivated(x).can_open)
        BY <3>1, DeactivatedTyped
    <3>3. us[i + k] = Deactivated(x)
        BY <1>2 DEF x
    <3>4. QED BY <3>2, <3>3 DEF x
  <2>2. QED BY <2>1
<1> HIDE DEF s, t, a, b, n, m
<1>6. a[o] = <<>> /\ a[o - 1] = <<>> /\ a[c] = <<>> /\ a[c - 1] = <<>>
  <2>1. o \in 0..n /\ c \in 0..n /\ o \in 1..n /\ c \in 1..n /\ o > 0 /\ c >= c
    BY <1>1
  <2>2. a[o] = <<>> /\ a[c] = <<>>
    BY <1>5, <1>c, <2>1
  <2>3. a[o] = a[o - 1] /\ a[c] = a[c - 1]
    BY <1>3, <1>c, <2>1
  <2>4. QED BY <2>2, <2>3
<1>7. /\ i \in Nat /\ i \in 1..m /\ i + (c - o - 1) = (c - 2) + p /\ (c - 1) + p \in 1..m /\ ((c - 1) + p) - 1 = (c - 2) + p
      /\ (c + p + q) - 2 \in 0..m /\ ((c + p + q) - 2) + (n - c) = m /\ c + (n - c) = n
      /\ o + (c - o - 1) = c - 1 /\ o - 1 \in Nat /\ o \in Nat /\ c \in Nat /\ c - o - 1 \in Nat /\ n - c \in Nat /\ d \in Nat
    BY <1>1
\* Before the opener.
<1>8. \A k \in 0..(o - 1) : b[k] = a[k]
  <2>1. /\ 0 \in Nat /\ 0 + (o - 1) <= Len(s) /\ 0 + (o - 1) <= Len(t)
    BY <1>1, <1>3, <1>4
  <2>2. \A k \in 1..(o - 1) : t[0 + k] = s[0 + k]
    <3>1. \A k \in 1..(o - 1) : k \in 1..n /\ k \in 1..m /\ 0 + k = k
        BY <1>1
    <3>2. QED BY <1>2, <1>3, <1>4, <3>1, SMTT(30)
  <2>3. OpenTags(s)[0] = OpenTags(t)[0]
    BY <1>3, <1>4 DEF a, b
  <2>4. \A k \in 0..(o - 1) : OpenTags(s)[0 + k] = OpenTags(t)[0 + k]
    <3> DEFINE g == o - 1
    <3>1. s \in Seq(Symbols) /\ t \in Seq(Symbols) /\ 0 \in Nat /\ g \in Nat
        BY <1>3, <1>4, <1>7
    <3>2. Alike(s, t, 0, 0, g)
        BY <2>1, <2>2 DEF Alike
    <3> HIDE DEF g
    <3>3. TagsAlike(s, t, 0, 0, g)
        BY <2>3, <3>1, <3>2, SameTags
    <3>4. QED BY <3>3, Zenon DEF TagsAlike, g
  <2>5. \A k \in 0..(o - 1) : 0 + k = k
    BY <1>1
  <2>6. QED BY <2>4, <2>5 DEF a, b
<1>9. b[i - 1] = <<>> /\ (p = 2 => b[o] = <<>>)
  <2>1. b[o - 1] = <<>>
    BY <1>6, <1>7, <1>8, SMTT(30)
  <2>2. CASE p = 2
    <3>1. us[o].type = "delim"
        BY <1>1, <1>a, <2>2
    <3>2. o \in 1..m /\ i - 1 = o
        BY <1>1, <2>2
    <3>3. b[o] = b[o - 1]
        BY <1>4, <3>1, <3>2
    <3>4. QED BY <2>1, <3>2, <3>3
  <2>3. CASE p = 1
    <3>1. i - 1 = o - 1
        BY <1>1, <2>3
    <3>2. QED BY <2>1, <2>3, <3>1
  <2>4. QED BY <1>1, <2>2, <2>3
\* Inside the tag.
<1>10. b[i] = <<tag>>
  <2>1. us[i].val = Open(tag)
    BY <1>2 DEF Token
  <2>2. b[i] = Follow(<<>>, Open(tag))
    BY <1>4, <1>7, <1>9, <2>1
  <2>3. Follow(<<>>, Open(tag)) = Append(<<>>, tag)
    BY DEF Follow, Open
  <2>4. QED BY <2>2, <2>3
<1>11. b[(c - 2) + p] = <<tag>>
  <2> DEFINE g == c - o - 1
  <2>1. /\ g \in Nat /\ o + g <= Len(s) /\ i + g <= Len(t) /\ o + g = c - 1 /\ i + g = (c - 2) + p
    BY <1>1, <1>3, <1>4
  <2>2. \A k \in 1..g : t[i + k] = s[o + k]
    <3>1. \A k \in 1..g : i + k \in 1..m /\ o + k \in 1..n
        BY <1>1
    <3>2. QED BY <1>3, <1>4, <1>e, <3>1
  <2> HIDE DEF g
  <2>3. OpenTags(s)[o] = <<>> /\ OpenTags(s)[o + g] = <<>> /\ OpenTags(t)[i] = <<tag>>
    BY <1>6, <1>10, <2>1 DEF a, b
  <2>4. tag \in TagNames
    BY <1>1 DEF EmTags, TagNames
  <2>5. s \in Seq(Symbols) /\ t \in Seq(Symbols)
    BY <1>3, <1>4
  <2> HIDE DEF i
  <2>6. Alike(s, t, o, i, g)
    BY <2>1, <2>2 DEF Alike
  <2> DEFINE u == o + g
             v == i + g
  <2>7. u = o + g /\ v = i + g /\ OpenTags(s)[u] = <<>>
    BY <2>3
  <2> HIDE DEF u, v
  <2>8. OpenTags(t)[v] = <<tag>>
    <3>1. o \in Nat /\ i \in Nat /\ g \in Nat
        BY <1>7, <2>1
    <3>2. OpenTags(s)[o] = <<>> /\ OpenTags(t)[i] = <<tag>>
        BY <2>3
    <3>3. QED BY <2>4, <2>5, <2>6, <2>7, <3>1, <3>2, InsideTags
  <2>9. QED BY <2>1, <2>7, <2>8 DEF b
\* Behind it.
<1>12. b[(c - 1) + p] = <<>>
  <2>1. us[(c - 1) + p].val = Close(tag)
    BY <1>2 DEF Token
  <2>2. b[(c - 1) + p] = Follow(<<tag>>, Close(tag))
    BY <1>4, <1>7, <1>11, <2>1
  <2>3. <<tag>> # <<>> /\ Last(<<tag>>) = tag /\ Front(<<tag>>) = <<>>
    BY DEF Last, Front
  <2>4. Follow(<<tag>>, Close(tag)) = Front(<<tag>>)
    <3> DEFINE w == <<tag>>
    <3>1. w # <<>> /\ Last(w) = tag
        BY <2>3
    <3> HIDE DEF w
    <3>2. Follow(w, Close(tag)) = Front(w)
        BY <3>1 DEF Follow, Close
    <3>3. QED BY <3>2 DEF w
  <2>5. QED BY <2>2, <2>3, <2>4
<1>13. b[(c + p + q) - 2] = <<>>
  <2>1. CASE q = 2
    <3>1. us[c + p].type = "delim"
        BY <1>1, <1>b, <2>1
    <3>2. c + p \in 1..m /\ (c + p) - 1 = (c - 1) + p /\ (c + p + q) - 2 = c + p
        BY <1>1, <2>1
    <3>3. b[c + p] = b[(c + p) - 1]
        BY <1>4, <3>1, <3>2
    <3>4. QED BY <1>12, <3>2, <3>3
  <2>2. CASE q = 1
    <3>1. (c + p + q) - 2 = (c - 1) + p
        BY <1>1, <2>2
    <3>2. QED BY <1>12, <3>1
  <2>3. QED BY <1>1, <2>1, <2>2
<1>14. \A k \in 0..(n - c) : b[d + k] = <<>>
  <2> DEFINE g == n - c
  <2>1. d \in Nat /\ g \in Nat /\ c + g <= Len(s) /\ d + g <= Len(t)
    BY <1>1, <1>3, <1>4
  <2>2. \A k \in 1..g : t[d + k] = s[c + k]
    <3>1. \A k \in 1..g : d + k \in 1..m /\ c + k \in 1..n /\ us[d + k] = ts[c + k]
      <4>1. \A k \in 1..g : d + k \in 1..m /\ c + k \in 1..n
        BY <1>1
      <4>2. \A k \in 1..g : us[d + k] = ts[c + k]
        <5>1. d = (c + p + q) - 2
            BY <1>1
        <5>2. \A k \in 1..g : us[((c + p + q) - 2) + k] = ts[c + k]
            BY <1>2
        <5> HIDE DEF g
        <5>3. QED BY <5>1, <5>2, Zenon
      <4>3. QED BY <4>1, <4>2
    <3>2. QED BY <1>3, <1>4, <3>1
  <2>3. OpenTags(s)[c] = OpenTags(t)[d]
    BY <1>1, <1>6, <1>13 DEF a, b
  <2>4. s \in Seq(Symbols) /\ t \in Seq(Symbols)
    BY <1>3, <1>4
  <2> HIDE DEF g
  <2>5. \A k \in 0..g : OpenTags(s)[c + k] = OpenTags(t)[d + k]
    <3>1. Alike(s, t, c, d, g)
        BY <2>1, <2>2 DEF Alike
    <3>2. TagsAlike(s, t, c, d, g)
        BY <1>7, <2>1, <2>3, <2>4, <3>1, SameTags
    <3>3. QED BY <3>2, Zenon DEF TagsAlike
  <2>6. \A k \in 0..g : c + k \in 0..n /\ c + k >= c
    BY <1>1 DEF g
  <2>7. \A k \in 0..g : a[c + k] = <<>>
    BY <1>5, <2>6
  <2>8. QED BY <2>5, <2>7 DEF a, b, g
<1>15. ASSUME NEW k \in 0..m, k >= d \/ k = m \/ (k > 0 /\ us[k].type = "delim" /\ us[k].can_open)
       PROVE  b[k] = <<>>
  <2>1. CASE k >= d
    <3>1. k - d \in 0..(n - c) /\ d + (k - d) = k
        BY <1>1, <2>1
    <3>2. QED BY <1>14, <3>1
  <2>2. CASE k < d
    <3>1. k > 0 /\ us[k].type = "delim" /\ us[k].can_open
      <4>1. ~(k >= d) /\ k # m
        BY <1>1, <2>2
      <4>2. QED BY <1>15, <4>1, Zenon
    <3>2. CASE k <= o - 1
        <4>1. k \in 0..(o - 1) /\ k \in 1..(o - 1) /\ k \in 0..n
            BY <1>1, <3>1, <3>2
        <4>2. a[k] = <<>>
            BY <1>2, <1>5, <3>1, <4>1
        <4>3. QED BY <1>8, <4>1, <4>2
    <3>3. CASE p = 2 /\ k = o
        BY <1>9, <3>3
    <3>4. CASE k = i
        BY <1>2, <3>1, <3>4 DEF Token
    <3>5. CASE k > i /\ k <= i + (c - o - 1)
        <4>1. k - i \in 1..(c - o - 1) /\ i + (k - i) = k
            BY <1>1, <3>5
        <4>2. QED BY <1>e, <3>1, <4>1
    <3>6. CASE k = (c - 1) + p
        BY <1>12, <3>6
    <3>7. k <= o - 1 \/ (p = 2 /\ k = o) \/ k = i \/ (k > i /\ k <= i + (c - o - 1)) \/ k = (c - 1) + p
        BY <1>1, <2>2
    <3>8. QED BY <3>2, <3>3, <3>4, <3>5, <3>6, <3>7, Zenon
  <2>3. QED BY <1>1, <2>1, <2>2
<1>16. QED BY <1>15 DEF Nested, b, t, m

\* A tag is worth the delimiters it takes.
LEMMA TagWorth ==
    ASSUME NEW x \in TokensOf(Inline), NEW y \in TokensOf(Inline), Opens(x, y), CanClose(y),
           NEW num, num = Used(x, y), NEW tag, tag = TagOf(y, num)
    PROVE  /\ Weight(x.val) \in {0, 1} /\ x.val = y.val
           /\ Weight(Open(tag)) = Times(num, Weight(x.val)) /\ Weight(Close(tag)) = Times(num, Weight(x.val))
<1>1. IsDelimiter(x.val) /\ x.val = y.val
    BY DEF Opens, TokensOf
<1>2. num \in {1, 2}
    BY UsedFacts
<1>3. Weight(x.val) \in {0, 1} /\ (Weight(x.val) = 0 <=> y.val.of = "~")
    BY <1>1, WeightFacts
<1>4. \A s : s.is \in {"open", "close"} => Weight(s) = IF s.of = "strong" THEN 2 ELSE IF s.of = "em" THEN 1 ELSE 0
  <2>1. "open" # "char" /\ "close" # "char"
    OBVIOUS
  <2>2. QED BY <2>1, Zenon DEF Weight
<1>5. \A s \in {Open(tag), Close(tag)} : s.is \in {"open", "close"} /\ s.of = tag
    BY DEF Open, Close
<1>6. \A s \in {Open(tag), Close(tag)} : Weight(s) = IF tag = "strong" THEN 2 ELSE IF tag = "em" THEN 1 ELSE 0
    BY <1>4, <1>5
<1>7. (IF tag = "strong" THEN 2 ELSE IF tag = "em" THEN 1 ELSE 0) = Times(num, Weight(x.val))
    BY <1>2, <1>3 DEF TagOf, Times
<1>8. QED BY <1>1, <1>3, <1>6, <1>7

\* What is left of a run and the tag are worth what the run was.
LEMMA PieceWorth ==
    ASSUME NEW x \in TokensOf(Inline), NEW num \in {1, 2}, num <= x.len, x.type = "delim",
           Weight(x.val) \in {0, 1}, NEW r, r = (IF x.len > num THEN 2 ELSE 1),
           NEW t, t.type = "delim", t.val = x.val, t.len = x.len - num
    PROVE  /\ Worth(x) \in Int
           /\ r = 2 => Worth(t) \in Int /\ Worth(t) + Times(num, Weight(x.val)) = Worth(x)
           /\ r = 1 => Times(num, Weight(x.val)) = Worth(x)
<1>1. x.len \in Nat
    BY DEF TokensOf, Tokens
<1>2. Worth(x) = Times(x.len, Weight(x.val)) /\ Worth(t) = Times(x.len - num, Weight(x.val))
    BY DEF Worth
<1> DEFINE w == Weight(x.val)
           l == x.len
<1> HIDE DEF w, l
<1>3. w \in {0, 1} /\ l \in Nat /\ num <= l /\ r = IF l > num THEN 2 ELSE 1
    BY <1>1 DEF w, l
<1>4. /\ Times(l, w) \in Int
      /\ r = 2 => Times(l - num, w) \in Int /\ Times(l - num, w) + Times(num, w) = Times(l, w)
      /\ r = 1 => Times(num, w) = Times(l, w)
    BY <1>3 DEF Times
<1>5. QED BY <1>2, <1>4 DEF w, l

\* A pairing keeps what the tokens are worth.
LEMMA PairKeeps ==
    ASSUME NEW ts \in Seq(TokensOf(Inline)), NEW c, NEW us, NEW d, NEW o, NEW num, NEW tag, NEW p, NEW q,
           Paired(ts, c, us, d, o, num, tag, p, q)
    PROVE  Total(us) = Total(ts)
<1> DEFINE n == Len(ts)
           m == Len(us)
           v == Worths(ts)
           w == Worths(us)
           a == Sums(v)
           b == Sums(w)
           i == (o - 1) + p
           x == ts[o]
           y == ts[c]
           z == Weight(x.val)
<1>1. /\ us \in Seq(TokensOf(Inline)) /\ x \in TokensOf(Inline) /\ y \in TokensOf(Inline)
      /\ p \in {1, 2} /\ q \in {1, 2} /\ n \in Nat /\ c \in 1..n /\ o \in 1..(c - 1)
      /\ m = (n + p + q) - 2 /\ d = (c + p + q) - 2
      /\ num \in {1, 2} /\ num <= x.len /\ num <= y.len
    BY PairedFacts
<1>2. \A k \in {o, c} : /\ Rest(ts[k], num) \in TokensOf(Inline) /\ Rest(ts[k], num).type = "delim"
                        /\ ts[k].type = "delim" /\ Rest(ts[k], num).val = ts[k].val
                        /\ Rest(ts[k], num).len = ts[k].len - num
    BY PairedFacts
<1>3. /\ Opens(x, y) /\ CanClose(y) /\ num = Used(x, y) /\ tag = TagOf(y, num)
      /\ p = (IF x.len > num THEN 2 ELSE 1)
      /\ q = (IF y.len > num THEN 2 ELSE 1)
    BY DEF Paired
<1>4. /\ \A k \in 1..(o - 1) : us[k] = ts[k]
      /\ us[i] = Token("tag", Open(tag))
      /\ \A k \in 1..(c - o - 1) : us[i + k] = Deactivated(ts[o + k])
      /\ us[(c - 1) + p] = Token("tag", Close(tag))
      /\ \A k \in 1..(n - c) : us[((c + p + q) - 2) + k] = ts[c + k]
    BY DEF Paired
<1>5. p = 2 => us[o] = Rest(x, num)
    BY DEF Paired
<1>6. q = 2 => us[c + p] = Rest(y, num)
    BY DEF Paired
<1>7. v \in Seq(Int) /\ Len(v) = n /\ \A k \in 1..n : v[k] = Worth(ts[k])
    BY WorthTyped
<1>8. w \in Seq(Int) /\ Len(w) = m /\ \A k \in 1..m : w[k] = Worth(us[k])
    BY <1>1, WorthTyped
<1>9. z \in {0, 1} /\ z = Weight(y.val) /\ Weight(Open(tag)) = Times(num, z) /\ Weight(Close(tag)) = Times(num, z)
  <2> HIDE DEF x, y
  <2>1. QED BY <1>1, <1>3, TagWorth
<1> DEFINE rx == Rest(x, num)
           ry == Rest(y, num)
<1>10. rx.type = "delim" /\ rx.val = x.val /\ rx.len = x.len - num /\ x.type = "delim"
    BY <1>2
<1>11. ry.type = "delim" /\ ry.val = y.val /\ ry.len = y.len - num /\ y.type = "delim"
    BY <1>2
<1> HIDE DEF v, w, a, b, n, m, x, y, z, rx, ry
<1>12. /\ Worth(x) \in Int
       /\ p = 2 => Worth(rx) \in Int /\ Worth(rx) + Times(num, z) = Worth(x)
       /\ p = 1 => Times(num, z) = Worth(x)
  <2>1. Weight(x.val) \in {0, 1}
    BY <1>9 DEF z
  <2>2. QED BY <1>1, <1>3, <1>10, <2>1, PieceWorth DEF z
<1>13. /\ Worth(y) \in Int
       /\ q = 2 => Worth(ry) \in Int /\ Worth(ry) + Times(num, z) = Worth(y)
       /\ q = 1 => Times(num, z) = Worth(y)
  <2>1. Weight(y.val) \in {0, 1}
    BY <1>9
  <2>2. /\ Worth(y) \in Int
        /\ q = 2 => Worth(ry) \in Int /\ Worth(ry) + Times(num, Weight(y.val)) = Worth(y)
        /\ q = 1 => Times(num, Weight(y.val)) = Worth(y)
    BY <1>1, <1>3, <1>11, <2>1, PieceWorth
  <2>3. QED BY <1>9, <2>2
<1>14. Worth(Token("tag", Open(tag))) = Times(num, z) /\ Worth(Token("tag", Close(tag))) = Times(num, z)
    BY <1>9 DEF Worth, Token
<1>15. /\ \A k \in 0..n : a[k] \in Int
       /\ \A k \in 1..n : a[k] = a[k - 1] + v[k]
    BY <1>7, SumsFacts DEF a
<1>16. /\ \A k \in 0..m : b[k] \in Int
       /\ \A k \in 1..m : b[k] = b[k - 1] + w[k]
    BY <1>8, SumsFacts DEF b
<1>17. /\ i \in Nat /\ i \in 1..m /\ i + (c - o - 1) = (c - 2) + p /\ (c - 1) + p \in 1..m /\ ((c - 1) + p) - 1 = (c - 2) + p
       /\ d \in 0..m /\ d + (n - c) = m /\ c + (n - c) = n /\ o - 1 \in 0..n /\ c - 1 \in 0..n /\ (c - 2) + p \in 0..m
       /\ o + (c - o - 1) = c - 1 /\ o - 1 \in Nat /\ o \in Nat /\ c \in Nat /\ c - o - 1 \in Nat /\ n - c \in Nat
       /\ o \in 1..n /\ c \in 1..n
    BY <1>1
<1>18. b[o - 1] = a[o - 1]
  <2> DEFINE g == o - 1
  <2>1. g \in Nat /\ g <= Len(v) /\ g <= Len(w) /\ v \in Seq(Int) /\ w \in Seq(Int)
    <3>1. g \in Nat /\ g <= n /\ g <= m
        BY <1>1
    <3> HIDE DEF g
    <3>2. QED BY <1>7, <1>8, <3>1
  <2>2. \A k \in 1..g : w[k] = v[k]
    <3>1. \A k \in 1..g : k \in 1..n /\ k \in 1..m
        BY <1>1
    <3>2. QED BY <1>4, <1>7, <1>8, <3>1
  <2> HIDE DEF g
  <2>3. Sums(w)[g] = Sums(v)[g]
    BY <2>1, <2>2, PrefixSums
  <2>4. QED BY <2>3 DEF a, b, g
<1>19. b[i] = a[o]
  <2>1. a[o] = a[o - 1] + Worth(x)
    BY <1>7, <1>15, <1>17 DEF x
  <2>2. b[i] = b[i - 1] + Times(num, z)
    <3>1. us[i] = Token("tag", Open(tag)) /\ i \in 1..m
        BY <1>4, <1>17
    <3> HIDE DEF i
    <3>2. w[i] = Times(num, z) /\ b[i] = b[i - 1] + w[i]
        BY <1>8, <1>14, <1>16, <3>1
    <3>3. QED BY <3>2
  <2>3. CASE p = 2
    <3>1. i - 1 = o /\ o \in 1..m
        BY <1>1, <2>3
    <3>2. b[o] = b[o - 1] + Worth(rx)
        BY <1>5, <1>8, <1>16, <2>3, <3>1 DEF rx
    <3>3. a[o - 1] \in Int /\ Times(num, z) \in Int
        BY <1>1, <1>9, <1>15, <1>17 DEF Times
    <3>4. QED BY <1>12, <1>18, <2>1, <2>2, <2>3, <3>1, <3>2, <3>3
  <2>4. CASE p = 1
    <3>1. i - 1 = o - 1
        BY <1>1, <2>4
    <3>2. QED BY <1>12, <1>18, <2>1, <2>2, <2>4, <3>1
  <2>5. QED BY <1>1, <2>3, <2>4
<1>20. b[(c - 2) + p] = a[c - 1]
  <2> DEFINE g == c - o - 1
  <2>1. g \in Nat /\ o + g <= Len(v) /\ i + g <= Len(w) /\ v \in Seq(Int) /\ w \in Seq(Int)
    BY <1>1, <1>7, <1>8
  <2>2. \A k \in 1..g : w[i + k] = v[o + k]
    <3>1. ASSUME NEW k \in 1..g PROVE w[i + k] = v[o + k]
        <4>1. i + k \in 1..m /\ o + k \in 1..n
            BY <1>1
        <4> DEFINE e == ts[o + k]
        <4>2. e \in TokensOf(Inline)
            BY <4>1, SeqFacts DEF n
        <4>3. us[i + k] = Deactivated(e)
            BY <1>4
        <4> HIDE DEF e
        <4>4. Worth(Deactivated(e)) = Worth(e)
            BY <4>2, DeactivatedTyped DEF Worth
        <4>5. w[i + k] = Worth(us[i + k]) /\ v[o + k] = Worth(ts[o + k])
            BY <1>7, <1>8, <4>1
        <4>6. QED BY <4>3, <4>4, <4>5 DEF e
    <3>2. QED BY <3>1
  <2>3. o + g = c - 1 /\ i + g = (c - 2) + p
    BY <1>17
  <2> HIDE DEF g, i
  <2>4. v \in Seq(Int) /\ w \in Seq(Int) /\ o \in Nat /\ i \in Nat /\ g \in Nat
    BY <1>17, <2>1
  <2>5. Alike(v, w, o, i, g)
    BY <2>1, <2>2 DEF Alike
  <2> DEFINE e == o + g
             h == i + g
  <2>6. e = o + g /\ h = i + g
    OBVIOUS
  <2> HIDE DEF e, h
  <2>7. Sums(w)[h] - Sums(w)[i] = Sums(v)[e] - Sums(v)[o]
    BY <2>4, <2>5, <2>6, SameSums
  <2>8. b[(c - 2) + p] - b[i] = a[c - 1] - a[o]
    BY <2>3, <2>6, <2>7 DEF a, b
  <2>9. b[(c - 2) + p] \in Int /\ a[c - 1] \in Int /\ a[o] \in Int
    BY <1>15, <1>16, <1>17
  <2>10. QED BY <1>19, <2>8, <2>9
<1>21. b[d] = a[c]
  <2>1. a[c] = a[c - 1] + Worth(y)
    BY <1>7, <1>15, <1>17 DEF y
  <2>2. b[(c - 1) + p] = b[(c - 2) + p] + Times(num, z)
    BY <1>4, <1>8, <1>14, <1>16, <1>17, ZenonT(60)
  <2>3. CASE q = 2
    <3>1. d = c + p /\ c + p \in 1..m /\ (c + p) - 1 = (c - 1) + p
        BY <1>1, <2>3
    <3>2. b[c + p] = b[(c - 1) + p] + Worth(ry)
        BY <1>6, <1>8, <1>16, <2>3, <3>1 DEF ry
    <3>3. a[c - 1] \in Int /\ Times(num, z) \in Int
        BY <1>1, <1>9, <1>15, <1>17 DEF Times
    <3>4. QED BY <1>13, <1>20, <2>1, <2>2, <2>3, <3>1, <3>2, <3>3
  <2>4. CASE q = 1
    <3>1. d = (c - 1) + p
        BY <1>1, <2>4
    <3>2. QED BY <1>13, <1>20, <2>1, <2>2, <2>4, <3>1
  <2>5. QED BY <1>1, <2>3, <2>4
<1>22. b[m] = a[n]
  <2> DEFINE g == n - c
  <2>1. g \in Nat /\ c + g <= Len(v) /\ d + g <= Len(w) /\ v \in Seq(Int) /\ w \in Seq(Int) /\ d \in Nat /\ c \in Nat
    BY <1>1, <1>7, <1>8, SMTT(30)
  <2>2. \A k \in 1..g : w[d + k] = v[c + k]
    <3>1. \A k \in 1..g : d + k \in 1..m /\ c + k \in 1..n
        BY <1>1
    <3>2. \A k \in 1..g : us[d + k] = ts[c + k]
        <4>1. d = (c + p + q) - 2
            BY <1>1
        <4>2. \A k \in 1..g : us[((c + p + q) - 2) + k] = ts[c + k]
            BY <1>4
        <4> HIDE DEF g
        <4>3. QED BY <4>1, <4>2, Zenon
    <3>3. QED BY <1>7, <1>8, <3>1, <3>2
  <2>3. c + g = n /\ d + g = m
    BY <1>17
  <2> HIDE DEF g
  <2>4. Alike(v, w, c, d, g)
    BY <2>1, <2>2 DEF Alike
  <2>5. b[m] - b[d] = a[n] - a[c]
    <3>1. v \in Seq(Int) /\ w \in Seq(Int) /\ d \in Nat /\ g \in Nat /\ c \in Nat
        BY <2>1
    <3>2. n = c + g /\ m = d + g
        BY <2>3
    <3>3. Sums(w)[m] - Sums(w)[d] = Sums(v)[n] - Sums(v)[c]
        BY <2>4, <3>1, <3>2, SameSums
    <3>4. QED BY <3>3 DEF a, b
  <2>6. b[m] \in Int /\ a[n] \in Int /\ a[c] \in Int
    <3>1. m \in 0..m /\ n \in 0..n /\ c \in 0..n
        BY <1>1
    <3>2. QED BY <1>15, <1>16, <3>1
  <2>7. QED BY <1>21, <2>5, <2>6
<1>23. QED BY <1>22 DEF Total, a, b, v, w, n, m

-----------------------------------------------------------------------------
(***************************************************************************)
(* What the tokens are put together to.                                    *)
(***************************************************************************)
LEMMA HtmlFacts ==
    ASSUME NEW t \in TokensOf(Inline)
    PROVE  /\ t.type \in {"tag", "text", "delim"} /\ t.val \in Symbols /\ HtmlOf(t) \in Seq(Symbols)
           /\ t.type = "tag" => HtmlOf(t) = <<t.val>>
           /\ t.type # "tag" => /\ t.val.is \in {"char", "escaped"}
                                /\ \A k \in 1..Len(HtmlOf(t)) : HtmlOf(t)[k].is = "char"
           /\ t.type = "delim" => /\ t.len \in Nat /\ Len(HtmlOf(t)) = t.len
                                  /\ IsDelimiter(t.val)
                                  /\ \A k \in 1..t.len : HtmlOf(t)[k] = t.val
<1>1. t.type \in {"tag", "text", "delim"} /\ t.val \in Inline /\ t.len \in Nat
    BY DEF TokensOf, Tokens
<1>2. t.val \in Symbols /\ t.val.is \in {"char", "escaped", "open", "close"}
    BY <1>1, InlineFacts
<1>3. (t.type = "tag" <=> t.val.is \in {"open", "close"}) /\ (t.type = "delim" => IsDelimiter(t.val))
    BY DEF TokensOf
<1> DEFINE z == t.val
           n == t.len
           h == HtmlOf(t)
<1>4. CASE t.type = "tag"
  <2>1. h = <<z>>
    BY <1>4 DEF HtmlOf
  <2>2. z \in Symbols
    BY <1>2
  <2> HIDE DEF z, h
  <2>3. h \in Seq(Symbols)
    BY <2>1, <2>2
  <2>4. QED BY <1>1, <1>2, <1>3, <1>4, <2>1, <2>3 DEF h, z
<1>5. CASE t.type = "text"
  <2> DEFINE x == Char(z.of)
  <2>1. h = <<x>>
    BY <1>5 DEF HtmlOf
  <2>2. x \in Symbols /\ x.is = "char"
    <3>1. z \in Text
        BY <1>1, <1>3, <1>5, <1>2, InlineFacts
    <3>2. QED BY <3>1 DEF Text, Char, Symbols
  <2> HIDE DEF x, h
  <2>3. h \in Seq(Symbols) /\ \A k \in 1..Len(h) : h[k].is = "char"
    BY <2>1, <2>2
  <2>4. QED BY <1>1, <1>2, <1>3, <1>5, <2>3 DEF h
<1>6. CASE t.type = "delim"
  <2>1. h = [k \in 1..n |-> z]
    BY <1>6 DEF HtmlOf
  <2>2. z \in Symbols /\ z.is = "char" /\ n \in Nat
    BY <1>1, <1>2, <1>3, <1>6 DEF IsDelimiter
  <2> HIDE DEF z, h, n
  <2>3. h \in Seq(Symbols) /\ Len(h) = n /\ \A k \in 1..n : h[k] = z
    BY <2>1, <2>2
  <2>4. \A k \in 1..Len(h) : h[k].is = "char"
    BY <2>2, <2>3
  <2>5. QED BY <1>1, <1>2, <1>3, <1>6, <2>3, <2>4 DEF h, n, z
<1>7. QED BY <1>1, <1>4, <1>5, <1>6

\* The tags open at the end.
Ends(s) == OpenTags(s)[Len(s)]

\* Characters change no tag, and one tag follows what is open.
LEMMA EndsJoined ==
    ASSUME NEW s \in Seq(Symbols), NEW t \in Seq(Symbols)
    PROVE  /\ s \o t \in Seq(Symbols)
           /\ (\A k \in 1..Len(t) : t[k].is = "char") => Ends(s \o t) = Ends(s)
           /\ \A x : t = <<x>> => Ends(s \o t) = Follow(Ends(s), x)
<1> DEFINE u == s \o t
           n == Len(s)
           m == Len(t)
           a == OpenTags(s)
           b == OpenTags(u)
<1>1. /\ u \in Seq(Symbols) /\ Len(u) = n + m /\ n \in Nat /\ m \in Nat
      /\ \A k \in 1..n : u[k] = s[k]
      /\ \A k \in 1..m : u[n + k] = t[k]
    BY Joining
<1>2. a[0] = <<>>
    BY TagsFacts
<1>3. b[0] = <<>> /\ \A k \in 1..Len(u) : b[k] = Follow(b[k - 1], u[k])
  <2> HIDE DEF u
  <2>1. QED BY <1>1, TagsFacts
<1> HIDE DEF u, n, m
<1>4. b[n] = a[n]
  <2>1. 0 + n <= Len(s) /\ 0 + n <= Len(u) /\ \A k \in 1..n : u[0 + k] = s[0 + k]
    BY <1>1 DEF n
  <2>2. Alike(s, u, 0, 0, n)
    BY <2>1 DEF Alike
  <2>3. TagsAlike(s, u, 0, 0, n)
    <3>1. s \in Seq(Symbols) /\ u \in Seq(Symbols) /\ 0 \in Nat /\ n \in Nat
        BY <1>1
    <3>2. OpenTags(s)[0] = OpenTags(u)[0]
        BY <1>2, <1>3
    <3>3. QED BY <2>2, <3>1, <3>2, SameTags
  <2>4. OpenTags(s)[0 + n] = OpenTags(u)[0 + n]
    BY <1>1, <2>3 DEF TagsAlike
  <2>5. QED BY <1>1, <2>4
<1>5. Ends(s) = a[n] /\ Ends(u) = b[n + m]
    BY <1>1 DEF Ends, n
<1> HIDE DEF a, b
<1>6. ASSUME \A k \in 1..m : t[k].is = "char" PROVE b[n + m] = a[n]
  <2> DEFINE S == {k \in 0..m : b[n + k] = a[n]}
  <2>1. 0 \in S
    BY <1>1, <1>4
  <2>2. ASSUME NEW k \in 1..m, b[n + (k - 1)] = a[n] PROVE b[n + k] = a[n]
    <3>1. n + k \in 1..Len(u) /\ n + (k - 1) = (n + k) - 1
        BY <1>1
    <3>2. b[n + k] = Follow(b[n + (k - 1)], t[k])
        BY <1>1, <1>3, <3>1
    <3>3. t[k].is = "char"
        BY <1>6
    <3>4. QED BY <2>2, <3>2, <3>3 DEF Follow
  <2>3. \A k \in 1..m : k - 1 \in S => k \in S
    BY <2>2
  <2> HIDE DEF S
  <2>4. \A k \in 0..m : k \in S
    BY <1>1, <2>1, <2>3, Induction
  <2>5. m \in S
    <3>1. m \in 0..m
        BY <1>1
    <3>2. QED BY <2>4, <3>1
  <2>6. QED BY <2>5 DEF S
<1>7. ASSUME NEW x, t = <<x>> PROVE b[n + m] = Follow(a[n], x)
  <2>1. m = 1 /\ t[1] = x
    BY <1>7 DEF m
  <2>2. 1 \in 1..m /\ n + 1 \in 1..Len(u) /\ (n + 1) - 1 = n
    BY <1>1, <2>1
  <2>3. u[n + 1] = x
    BY <1>1, <2>1, <2>2
  <2>4. b[n + 1] = Follow(b[n], u[n + 1])
    BY <1>3, <2>2
  <2>5. QED BY <1>4, <2>1, <2>3, <2>4
<1>8. QED BY <1>1, <1>5, <1>6, <1>7 DEF u, m

\* What is rendered has the tags that the tokens have.
LEMMA RenderedTags ==
    ASSUME tokens \in Seq(TokensOf(Inline))
    PROVE  /\ Rendered \in Seq(Symbols)
           /\ OpenTags(Rendered)[Len(Rendered)] = OpenTags(Marked(tokens))[Len(tokens)]
<1> DEFINE n == Len(tokens)
           ss == [k \in DOMAIN tokens |-> HtmlOf(tokens[k])]
           a == OpenTags(Marked(tokens))
<1>1. n \in Nat /\ DOMAIN tokens = 1..n /\ \A k \in 1..n : tokens[k] \in TokensOf(Inline)
    BY SeqFacts
<1>2. ss \in Seq(Seq(Symbols)) /\ Len(ss) = n /\ \A k \in 1..n : ss[k] = HtmlOf(tokens[k])
  <2>1. \A k \in 1..n : HtmlOf(tokens[k]) \in Seq(Symbols)
    BY <1>1, HtmlFacts
  <2>2. ss = [k \in 1..n |-> HtmlOf(tokens[k])]
    BY <1>1
  <2> HIDE DEF ss, n
  <2>3. QED BY <1>1, <2>1, <2>2
<1>3. a[0] = <<>> /\ \A k \in 1..n : a[k] = Follow(a[k - 1], tokens[k].val)
    BY MarkedFacts
<1>4. Rendered = FlattenSeq(ss)
    BY DEF Rendered
<1> HIDE DEF n, ss, a
<1>5. PICK f \in [0..n -> Seq(Symbols)] :
          f[0] = <<>> /\ f[n] = FlattenSeq(ss) /\ \A k \in 1..n : f[k] = f[k - 1] \o ss[k]
    BY <1>2, Flattening
<1>6. Ends(<<>>) = <<>>
  <2>1. <<>> \in Seq(Symbols) /\ Len(<<>>) = 0
    OBVIOUS
  <2>2. QED BY <2>1, TagsFacts DEF Ends
<1> DEFINE S == {k \in 0..n : Ends(f[k]) = a[k]}
<1>7. 0 \in S
    BY <1>1, <1>3, <1>5, <1>6
<1>8. ASSUME NEW k \in 1..n, Ends(f[k - 1]) = a[k - 1] PROVE Ends(f[k]) = a[k]
  <2> DEFINE t == tokens[k]
             s == f[k - 1]
  <2>1. t \in TokensOf(Inline)
    BY <1>1
  <2>2. s \in Seq(Symbols)
    <3>1. k - 1 \in 0..n
        BY <1>1
    <3>2. QED BY <1>5, <3>1
  <2>3. f[k] = s \o HtmlOf(t) /\ a[k] = Follow(a[k - 1], t.val) /\ Ends(s) = a[k - 1]
    BY <1>2, <1>3, <1>5, <1>8
  <2> HIDE DEF t, s
  <2>4. HtmlOf(t) \in Seq(Symbols)
    BY <2>1, HtmlFacts
  <2>5. CASE t.type = "tag"
    <3>1. HtmlOf(t) = <<t.val>>
        BY <2>1, <2>5, HtmlFacts
    <3>2. Ends(s \o HtmlOf(t)) = Follow(Ends(s), t.val)
        BY <2>2, <2>4, <3>1, EndsJoined, ZenonT(60)
    <3>3. QED BY <2>3, <3>2
  <2>6. CASE t.type # "tag"
    <3>1. t.val.is \in {"char", "escaped"} /\ \A j \in 1..Len(HtmlOf(t)) : HtmlOf(t)[j].is = "char"
        BY <2>1, <2>6, HtmlFacts
    <3>2. Ends(s \o HtmlOf(t)) = Ends(s)
        BY <2>2, <2>4, <3>1, EndsJoined
    <3>3. Follow(a[k - 1], t.val) = a[k - 1]
        BY <3>1 DEF Follow
    <3>4. QED BY <2>3, <3>2, <3>3
  <2>7. QED BY <2>5, <2>6
<1>9. \A k \in 1..n : k - 1 \in S => k \in S
    BY <1>8
<1> HIDE DEF S
<1>10. n \in S
  <2>1. \A k \in 0..n : k \in S
    BY <1>1, <1>7, <1>9, Induction
  <2>2. QED BY <1>1, <2>1
<1>11. Ends(FlattenSeq(ss)) = a[n] /\ FlattenSeq(ss) \in Seq(Symbols)
  <2>1. n \in 0..n
    BY <1>1
  <2>2. QED BY <1>5, <1>10, <2>1 DEF S
<1>12. QED BY <1>4, <1>11 DEF Ends, a, n

\* The delimiters of a text and of a token behind it.
LEMMA DelimitingJoined ==
    ASSUME NEW s \in Seq(Symbols), NEW t \in TokensOf(Inline), NEW h,
           t.type = "delim" => h = HtmlOf(t), t.type # "delim" => h = <<t.val>>
    PROVE  /\ h \in Seq(Symbols) /\ s \o h \in Seq(Symbols)
           /\ Delimiting(s \o h) = Delimiting(s) + Worth(t)
<1> DEFINE u == s \o h
           n == Len(s)
           m == Len(h)
           v == Values(s)
           w == Values(u)
<1>1. t.val \in Symbols /\ (t.type = "delim" => t.len \in Nat /\ IsDelimiter(t.val))
    BY HtmlFacts
<1>2. /\ h \in Seq(Symbols)
      /\ t.type = "delim" => m = t.len /\ \A k \in 1..t.len : h[k] = t.val
      /\ t.type # "delim" => m = 1 /\ h[1] = t.val
  <2>1. CASE t.type = "delim"
    <3>1. h = HtmlOf(t)
        BY <2>1
    <3> HIDE DEF m
    <3>2. HtmlOf(t) \in Seq(Symbols) /\ Len(HtmlOf(t)) = t.len /\ \A k \in 1..t.len : HtmlOf(t)[k] = t.val
        BY <2>1, HtmlFacts
    <3>3. QED BY <2>1, <3>1, <3>2 DEF m
  <2>2. CASE t.type # "delim"
    <3> DEFINE z == t.val
    <3>1. h = <<z>> /\ z \in Symbols
        BY <1>1, <2>2
    <3> HIDE DEF z
    <3>2. h \in Seq(Symbols) /\ Len(h) = 1 /\ h[1] = z
        BY <3>1
    <3>3. QED BY <2>2, <3>2 DEF z
  <2>3. QED BY <2>1, <2>2
<1>3. /\ u \in Seq(Symbols) /\ Len(u) = n + m /\ n \in Nat /\ m \in Nat
      /\ \A k \in 1..n : u[k] = s[k]
      /\ \A k \in 1..m : u[n + k] = h[k]
    BY <1>2, Joining
<1>4. v \in Seq(Int) /\ Len(v) = n /\ \A k \in 1..n : v[k] = Weight(s[k])
    BY ValuesTyped
<1> HIDE DEF u, m
<1>5. w \in Seq(Int) /\ Len(w) = n + m /\ \A k \in 1..(n + m) : w[k] = Weight(u[k])
    BY <1>3, ValuesTyped
<1> HIDE DEF v, w, n
<1>6. Sums(w)[n] = Sums(v)[n]
  <2>1. n <= Len(v) /\ n <= Len(w) /\ \A k \in 1..n : k \in 1..(n + m)
    BY <1>3, <1>4, <1>5
  <2>2. \A k \in 1..n : w[k] = v[k]
    BY <1>3, <1>4, <1>5, <2>1
  <2>3. v \in Seq(Int) /\ w \in Seq(Int) /\ n \in Nat
    BY <1>3, <1>4, <1>5
  <2>4. QED BY <2>1, <2>2, <2>3, PrefixSums
<1>7. Delimiting(s) = Sums(v)[n] /\ Delimiting(u) = Sums(w)[n + m]
    BY <1>3 DEF Delimiting, Values, v, w, n
<1>8. Sums(w)[n + m] = Sums(w)[n] + Worth(t)
  <2>1. CASE t.type = "delim"
    <3> DEFINE z == Weight(t.val)
    <3>1. m = t.len /\ z \in {0, 1}
        BY <1>1, <1>2, <2>1, WeightFacts
    <3>2. \A k \in 1..m : w[n + k] = z
        <4>1. \A k \in 1..m : n + k \in 1..(n + m)
            BY <1>3
        <4>2. \A k \in 1..m : h[k] = t.val
            BY <1>2, <2>1, <3>1
        <4>3. QED BY <1>3, <1>5, <4>1, <4>2, ZenonT(60)
    <3> HIDE DEF z
    <3>3. w \in Seq(Int) /\ n \in Nat /\ m \in Nat /\ n + m <= Len(w)
        BY <1>3, <1>5
    <3>4. Sums(w)[n + m] = Sums(w)[n] + Times(m, z)
        BY <3>1, <3>2, <3>3, RunSums, ZenonT(60)
    <3>5. Worth(t) = Times(m, z)
        BY <2>1, <3>1 DEF Worth, z
    <3>6. QED BY <3>4, <3>5
  <2>2. CASE t.type # "delim"
    <3>1. m = 1 /\ h[1] = t.val
        BY <1>2, <2>2
    <3>2. n + 1 \in 1..(n + m) /\ 1 \in 1..m /\ (n + 1) - 1 = n
        BY <1>3, <3>1
    <3>3. w[n + 1] = Weight(t.val)
        BY <1>3, <1>5, <3>1, <3>2
    <3>4. Sums(w)[n + 1] = Sums(w)[n] + w[n + 1]
        <4>1. \A k \in 1..Len(w) : Sums(w)[k] = Sums(w)[k - 1] + w[k]
            BY <1>5, SumsFacts
        <4>2. QED BY <1>5, <3>2, <4>1
    <3>5. Worth(t) = Weight(t.val)
        BY <2>2 DEF Worth
    <3>6. QED BY <3>1, <3>3, <3>4, <3>5
  <2>3. QED BY <2>1, <2>2
<1>9. QED BY <1>2, <1>3, <1>6, <1>7, <1>8 DEF u

\* The line with its tags put in has the delimiters that the tokens are worth.
LEMMA UnrenderedTotal ==
    ASSUME tokens \in Seq(TokensOf(Inline))
    PROVE  Delimiting(Unrendered) = Total(tokens)
<1> DEFINE n == Len(tokens)
           piece(k) == IF tokens[k].type = "text" THEN <<tokens[k].val>> ELSE HtmlOf(tokens[k])
           ss == [k \in DOMAIN tokens |-> piece(k)]
           v == Worths(tokens)
<1>1. n \in Nat /\ DOMAIN tokens = 1..n /\ \A k \in 1..n : tokens[k] \in TokensOf(Inline)
    BY SeqFacts
<1>2. ASSUME NEW k \in 1..n
      PROVE  /\ tokens[k].type = "delim" => piece(k) = HtmlOf(tokens[k])
             /\ tokens[k].type # "delim" => piece(k) = <<tokens[k].val>>
  <2>1. tokens[k] \in TokensOf(Inline)
    BY <1>1
  <2>2. QED BY <2>1, HtmlFacts
<1> HIDE DEF piece
<1>3. ASSUME NEW k \in 1..n, NEW s \in Seq(Symbols)
      PROVE  /\ piece(k) \in Seq(Symbols) /\ Delimiting(s \o piece(k)) = Delimiting(s) + Worth(tokens[k])
  <2> DEFINE t == tokens[k]
             h == piece(k)
  <2>1. t \in TokensOf(Inline) /\ (t.type = "delim" => h = HtmlOf(t)) /\ (t.type # "delim" => h = <<t.val>>)
    BY <1>1, <1>2
  <2> HIDE DEF t, h
  <2>2. h \in Seq(Symbols) /\ Delimiting(s \o h) = Delimiting(s) + Worth(t)
    BY <2>1, DelimitingJoined
  <2>3. QED BY <2>2 DEF t, h
<1>4. ss \in Seq(Seq(Symbols)) /\ Len(ss) = n /\ \A k \in 1..n : ss[k] = piece(k)
  <2>1. \A k \in 1..n : piece(k) \in Seq(Symbols)
    <3>1. <<>> \in Seq(Symbols)
        OBVIOUS
    <3>2. QED BY <1>3, <3>1
  <2>2. ss = [k \in 1..n |-> piece(k)]
    BY <1>1
  <2> HIDE DEF ss, n
  <2>3. QED BY <1>1, <2>1, <2>2
<1>5. v \in Seq(Int) /\ Len(v) = n /\ \A k \in 1..n : v[k] = Worth(tokens[k])
    BY WorthTyped
<1>6. Unrendered = FlattenSeq(ss)
    BY DEF Unrendered, piece
<1> HIDE DEF n, ss, v
<1>7. PICK f \in [0..n -> Seq(Symbols)] :
          f[0] = <<>> /\ f[n] = FlattenSeq(ss) /\ \A k \in 1..n : f[k] = f[k - 1] \o ss[k]
    BY <1>4, Flattening
<1>8. Sums(v)[0] = 0 /\ \A k \in 1..n : Sums(v)[k] = Sums(v)[k - 1] + v[k]
    BY <1>5, SumsFacts
<1>9. Delimiting(<<>>) = 0
  <2>1. Values(<<>>) = <<>>
    BY DEF Values
  <2>2. <<>> \in Seq(Int) /\ Len(<<>>) = 0
    OBVIOUS
  <2>3. Sums(<<>>)[0] = 0
    BY <2>2, SumsFacts
  <2>4. QED BY <2>1, <2>2, <2>3 DEF Delimiting, Values
<1> DEFINE S == {k \in 0..n : Delimiting(f[k]) = Sums(v)[k]}
<1>10. 0 \in S
    BY <1>1, <1>7, <1>8, <1>9
<1>11. ASSUME NEW k \in 1..n, Delimiting(f[k - 1]) = Sums(v)[k - 1]
       PROVE  Delimiting(f[k]) = Sums(v)[k]
  <2> DEFINE s == f[k - 1]
  <2>1. s \in Seq(Symbols)
    <3>1. k - 1 \in 0..n
        BY <1>1
    <3>2. QED BY <1>7, <3>1
  <2>2. f[k] = s \o piece(k) /\ Sums(v)[k] = Delimiting(s) + Worth(tokens[k])
    BY <1>4, <1>5, <1>7, <1>8, <1>11
  <2> HIDE DEF s
  <2>3. Delimiting(s \o piece(k)) = Delimiting(s) + Worth(tokens[k])
    BY <1>3, <2>1
  <2>4. QED BY <2>2, <2>3
<1>12. \A k \in 1..n : k - 1 \in S => k \in S
    BY <1>11
<1> HIDE DEF S
<1>13. n \in S
  <2>1. \A k \in 0..n : k \in S
    BY <1>1, <1>10, <1>12, Induction
  <2>2. QED BY <1>1, <2>1
<1>14. Delimiting(FlattenSeq(ss)) = Sums(v)[n]
    BY <1>7, <1>13 DEF S
<1>15. QED BY <1>6, <1>14 DEF Total, v, n

-----------------------------------------------------------------------------
(***************************************************************************)
(* The first rendering.                                                    *)
(***************************************************************************)
\* A token that may no longer close anything.
LEMMA ShutTyped ==
    ASSUME NEW t \in TokensOf(Inline)
    PROVE  LET r == [t EXCEPT !.can_close = FALSE]
           IN  /\ r \in TokensOf(Inline) /\ r.type = t.type /\ r.val = t.val /\ r.len = t.len
               /\ r.can_open = t.can_open
<1> DEFINE r == [t EXCEPT !.can_close = FALSE]
<1>1. t \in Tokens
    BY DEF TokensOf
<1>2. r.type = t.type /\ r.val = t.val /\ r.len = t.len /\ r.can_open = t.can_open
    BY <1>1, Zenon DEF Tokens
<1>3. r \in Tokens
    BY <1>1 DEF Tokens
<1> HIDE DEF r
<1>4. r \in TokensOf(Inline)
    BY <1>2, <1>3 DEF TokensOf
<1>5. QED BY <1>2, <1>4 DEF r

\* Going past a token changes none of what it is or may open.
LEMMA SkipFacts ==
    ASSUME EmphasisInv, Skip
    PROVE  /\ closer <= Len(tokens) /\ closer' = closer + 1
           /\ tokens' \in Seq(TokensOf(Inline)) /\ Len(tokens') = Len(tokens)
           /\ \A k \in 1..Len(tokens) : /\ tokens'[k].type = tokens[k].type /\ tokens'[k].val = tokens[k].val
                                        /\ tokens'[k].len = tokens[k].len
                                        /\ tokens'[k].can_open = tokens[k].can_open
<1> DEFINE T == TokensOf(Inline)
           n == Len(tokens)
           t == tokens[closer]
           r == [t EXCEPT !.can_close = FALSE]
<1>1. /\ closer <= n /\ closer' = closer + 1
      /\ tokens' = IF CanClose(t) /\ ~t.can_open THEN [tokens EXCEPT ![closer].can_close = FALSE] ELSE tokens
    BY DEF Skip, Scanning
<1>2. tokens \in Seq(T) /\ closer \in 1..(n + 1)
    BY DEF EmphasisInv
<1>3. n \in Nat /\ (\A k \in 1..n : tokens[k] \in T) /\ closer \in 1..n
  <2> HIDE DEF T
  <2>1. n \in Nat /\ \A k \in 1..n : tokens[k] \in T
    BY <1>2
  <2> HIDE DEF n
  <2>2. QED BY <1>1, <1>2, <2>1
<1>4. t \in T
    BY <1>3
<1>5. r \in T
  <2> HIDE DEF t
  <2>1. QED BY <1>4, ShutTyped
<1>6. r.type = t.type /\ r.val = t.val /\ r.len = t.len /\ r.can_open = t.can_open
  <2> HIDE DEF t
  <2>1. QED BY <1>4, ShutTyped
<1>7. CASE CanClose(t) /\ ~t.can_open
  <2>1. tokens' = [tokens EXCEPT ![closer] = r]
    BY <1>1, <1>5, <1>7
  <2> HIDE DEF T, n, r
  <2>2. tokens' \in Seq(T) /\ Len(tokens') = n
    BY <1>2, <1>3, <1>5, <2>1 DEF n
  <2>3. \A k \in 1..n : tokens'[k] = IF k = closer THEN r ELSE tokens[k]
    BY <1>2, <1>3, <2>1 DEF n
  <2>4. QED BY <1>1, <1>6, <2>2, <2>3 DEF T, n
<1>8. CASE ~(CanClose(t) /\ ~t.can_open)
    BY <1>1, <1>2, <1>8
<1>9. QED BY <1>7, <1>8

LEMMA SkipKeeps ==
    ASSUME NEW ts \in Seq(TokensOf(Inline)), NEW us \in Seq(TokensOf(Inline)), Len(us) = Len(ts),
           \A k \in 1..Len(ts) : /\ us[k].type = ts[k].type /\ us[k].val = ts[k].val
                                 /\ us[k].len = ts[k].len /\ us[k].can_open = ts[k].can_open,
           NEW c \in Nat, NEW d, d = c + 1, Nested(ts, c)
    PROVE  Nested(us, d) /\ Total(us) = Total(ts)
<1> DEFINE n == Len(ts)
<1>1. n \in Nat /\ DOMAIN ts = 1..n /\ DOMAIN us = 1..n
    OBVIOUS
<1>2. Marked(us) = Marked(ts) /\ Worths(us) = Worths(ts)
    BY <1>1 DEF Marked, Worths, Worth
<1> DEFINE a == OpenTags(Marked(ts))
<1>3. a = OpenTags(Marked(us))
    BY <1>2
<1> HIDE DEF a
<1>4. \A k \in 0..n : k >= d => k >= c
    BY <1>1
<1>5. \A k \in 0..n : k > 0 => k \in 1..n
    BY <1>1
<1>6. Nested(us, d)
    BY <1>3, <1>4, <1>5 DEF Nested, a
<1>7. QED BY <1>2, <1>6 DEF Total

\* How the tokens stand while a line that was typed is rendered for the first time.
FirstInv ==
    /\ phase = "render" => trip = <<source>> \/ Len(trip) = 2
    /\ phase = "serialize" => trip = <<>> \/ Len(trip) = 2
    /\ FirstRendering => /\ EmphasisInv
                         /\ Nested(tokens, closer)
                         /\ Total(tokens) = Delimiting(source)

LEMMA CutFirst ==
    ASSUME NEW line \in Seq(Text)
    PROVE  /\ line \in Seq(Inline) /\ tokenize_inline(line) \in Seq(TokensOf(Inline))
           /\ Nested(tokenize_inline(line), 1)
           /\ Total(tokenize_inline(line)) = Delimiting(line)
<1>1. Text \subseteq Inline
    BY DEF Inline
<1>2. line \in Seq(Inline)
    BY <1>1
<1>3. tokenize_inline(line) \in Seq(TokensOf(Inline))
  <2>1. PICK f \in [0..Len(line) -> Seq(TokensOf(Inline))] : f[Len(line)] = tokenize_inline(line)
    BY <1>2, TokenFacts
  <2>2. Len(line) \in 0..Len(line)
    OBVIOUS
  <2>3. QED BY <2>1, <2>2
<1>4. Nested(tokenize_inline(line), 1)
    BY NoTagsCut DEF Nested
<1>5. QED BY <1>2, <1>3, <1>4, TotalCut

LEMMA FirstInit == Init => FirstInv
<1>1. SUFFICES ASSUME Init PROVE FirstInv
    OBVIOUS
<1>2. closer = 1
    BY <1>1 DEF Init
<1>3. CASE Typed
  <2>1. /\ source \in Seq(Text) /\ tokens = tokenize_inline(source) /\ phase = "render"
        /\ trip = <<source>>
    BY <1>3, InputsAssumption DEF Typed
  <2> DEFINE line == source
  <2>2. line \in Seq(Text)
    BY <2>1
  <2> HIDE DEF line
  <2>3. /\ line \in Seq(Inline) /\ tokenize_inline(line) \in Seq(TokensOf(Inline))
        /\ Nested(tokenize_inline(line), 1)
        /\ Total(tokenize_inline(line)) = Delimiting(line)
    BY <2>2, CutFirst
  <2>4. EmphasisInv
    BY <1>2, <2>1, <2>3 DEF EmphasisInv, line
  <2>5. QED BY <1>2, <2>1, <2>3, <2>4 DEF FirstInv, line
<1>4. CASE Edited
    BY <1>4 DEF Edited, FirstInv, FirstRendering
<1>5. QED BY <1>1, <1>3, <1>4 DEF Init

LEMMA FirstStep == FirstInv /\ [Next]_vars => FirstInv'
<1>1. SUFFICES ASSUME FirstInv, [Next]_vars PROVE FirstInv'
    OBVIOUS
<1>2. CASE Render
  <2>1. phase = "render" /\ UNCHANGED <<phase, trip>> /\ (Pair \/ Skip)
    BY <1>2 DEF Render
  <2>2. CASE FirstRendering
    <3>1. EmphasisInv /\ Nested(tokens, closer) /\ Total(tokens) = Delimiting(source) /\ source' = source
        BY <1>1, <2>1, <2>2 DEF FirstInv, Pair, Skip
    <3> DEFINE ts == tokens
               us == tokens'
               c == closer
               d == closer'
    <3>2. ts \in Seq(TokensOf(Inline)) /\ c \in 1..(Len(ts) + 1)
        BY <3>1 DEF EmphasisInv
    <3>3. /\ us \in Seq(TokensOf(Inline)) /\ d \in 1..(Len(us) + 1)
          /\ Nested(us, d) /\ Total(us) = Total(ts)
      <4>1. CASE Pair
        <5>1. PICK o, num, tag, p, q : Paired(ts, c, us, d, o, num, tag, p, q)
            BY <3>1, <4>1, PairFacts
        <5>2. Nested(ts, c)
            BY <3>1
        <5> HIDE DEF ts, us, c, d
        <5>3. /\ us \in Seq(TokensOf(Inline)) /\ p \in {1, 2} /\ q \in {1, 2} /\ Len(ts) \in Nat /\ c \in 1..Len(ts)
              /\ Len(us) = (Len(ts) + p + q) - 2 /\ d = (c + p + q) - 2
            BY <3>2, <5>1, PairedFacts
        <5>4. Nested(us, d) /\ Total(us) = Total(ts)
            BY <3>2, <5>1, <5>2, PairNests, PairKeeps
        <5>5. d \in 1..(Len(us) + 1)
            BY <5>3
        <5>6. QED BY <5>3, <5>4, <5>5
      <4>2. CASE Skip
        <5>1. /\ c <= Len(ts) /\ d = c + 1
              /\ us \in Seq(TokensOf(Inline)) /\ Len(us) = Len(ts)
              /\ \A k \in 1..Len(ts) : /\ us[k].type = ts[k].type /\ us[k].val = ts[k].val
                                       /\ us[k].len = ts[k].len /\ us[k].can_open = ts[k].can_open
            BY <3>1, <4>2, SkipFacts
        <5>2. Nested(ts, c)
            BY <3>1
        <5> HIDE DEF ts, us, c, d
        <5>3. c \in Nat /\ d \in 1..(Len(us) + 1)
            BY <3>2, <5>1
        <5>4. Nested(us, d) /\ Total(us) = Total(ts)
            BY <3>2, <5>1, <5>2, <5>3, SkipKeeps
        <5>5. QED BY <5>1, <5>3, <5>4
      <4>3. QED BY <2>1, <4>1, <4>2
    <3>4. EmphasisInv'
        BY <3>1, <3>3 DEF EmphasisInv
    <3>5. Nested(tokens, closer)' /\ Total(tokens)' = Delimiting(source)'
      <4>1. Nested(tokens', closer') /\ Total(tokens') = Delimiting(source')
        BY <3>1, <3>3
      <4>2. QED BY <4>1
    <3>6. (phase = "render" => trip = <<source>> \/ Len(trip) = 2)'
        BY <1>1, <2>1, <3>1 DEF FirstInv
    <3>7. (phase = "serialize" => trip = <<>> \/ Len(trip) = 2)'
        BY <2>1
    <3>8. QED BY <3>4, <3>5, <3>6, <3>7 DEF FirstInv
  <2>3. CASE ~FirstRendering
    <3>1. Len(trip) = 2
      <4>1. trip = <<source>> => Len(trip) = 1
        OBVIOUS
      <4>2. QED BY <1>1, <2>1, <2>3, <4>1 DEF FirstInv, FirstRendering
    <3>2. QED BY <2>1, <3>1 DEF FirstInv, FirstRendering
  <2>4. QED BY <2>2, <2>3
<1>3. CASE ShowPreview
  <2>1. phase = "render" /\ trip' = Append(trip, Rendered)
    BY <1>3 DEF ShowPreview
  <2>2. CASE FirstRendering
    <3>1. phase' = "serialize"
        BY <1>3, <2>2 DEF ShowPreview, html_to_md
    <3>2. trip = <<source>>
        BY <1>1, <2>1, <2>2 DEF FirstInv, FirstRendering
    <3>3. Len(trip') = 2
      <4> DEFINE x == source
                 y == Rendered
      <4>1. trip' = Append(<<x>>, y)
        BY <2>1, <3>2
      <4> HIDE DEF x, y
      <4>2. QED BY <4>1
    <3>4. QED BY <3>1, <3>3 DEF FirstInv, FirstRendering
  <2>3. CASE ~FirstRendering
    <3>1. phase' = "end"
        BY <1>3, <2>3 DEF ShowPreview
    <3>2. QED BY <3>1 DEF FirstInv, FirstRendering
  <2>4. QED BY <2>2, <2>3
<1>4. CASE Serialize
    BY <1>1, <1>4 DEF Serialize, FirstInv, FirstRendering
<1>5. CASE ShowSource
  <2>1. phase = "serialize" /\ trip' = trip
    BY <1>5 DEF ShowSource
  <2>2. CASE trip = <<>>
    <3>1. phase' = "end"
        BY <1>5, <2>2 DEF ShowSource
    <3>2. QED BY <3>1 DEF FirstInv, FirstRendering
  <2>3. CASE trip # <<>>
    <3>1. phase' = "render" /\ Len(trip) = 2
        BY <1>1, <1>5, <2>1, <2>3 DEF FirstInv, ShowSource, md_to_html
    <3>2. QED BY <2>1, <3>1 DEF FirstInv, FirstRendering
  <2>4. QED BY <2>2, <2>3
<1>6. CASE UNCHANGED vars
    BY <1>1, <1>6 DEF FirstInv, FirstRendering, EmphasisInv, vars, emphasis
<1>7. QED BY <1>1, <1>2, <1>3, <1>4, <1>5, <1>6 DEF Next, Step, Ended

\* For every line that is typed, at every moment of the first rendering, the tags
\* that process_emphasis_tokens has put in are nested.
THEOREM TagsNest == Spec => []PairsNest
<1>1. FirstInv => PairsNest
  <2>1. SUFFICES ASSUME FirstInv, FirstRendering PROVE WellNested
    BY DEF PairsNest
  <2>2. tokens \in Seq(TokensOf(Inline)) /\ Nested(tokens, closer)
    BY <2>1 DEF FirstInv, EmphasisInv
  <2>3. OpenTags(Marked(tokens))[Len(tokens)] = <<>>
    BY <2>2, SeqFacts DEF Nested
  <2>4. QED BY <2>2, <2>3, RenderedTags DEF WellNested
<1>2. QED BY <1>1, FirstInit, FirstStep, PTL DEF Spec

\* For every line that is typed, splitting runs and pairing them neither loses nor
\* doubles a "*" or a "_".
THEOREM NoDelimiterLost == Spec => []DelimitersKept
<1>1. FirstInv => DelimitersKept
  <2>1. SUFFICES ASSUME FirstInv, FirstRendering PROVE Delimiting(Unrendered) = Delimiting(source)
    BY DEF DelimitersKept
  <2>2. tokens \in Seq(TokensOf(Inline)) /\ Total(tokens) = Delimiting(source)
    BY <2>1 DEF FirstInv, EmphasisInv
  <2>3. QED BY <2>2, UnrenderedTotal
<1>2. QED BY <1>1, FirstInit, FirstStep, PTL DEF Spec

-----------------------------------------------------------------------------
(***************************************************************************)
(* The walk: what it writes, and the context it takes back.                *)
(***************************************************************************)
Alphabets == {Symbols, Inline}

\* The nodes of a fragment over an alphabet, and the elements entered.
NodesIn(A) == {n \in Nodes : n.val \in A /\ n.val.is \in {"char", "open", "styled"}}

FramesOver(A, ns) ==
    {f \in Frames :
        /\ f.out \in Seq(A)
        /\ f.form # "root" => /\ f.node \in DOMAIN ns /\ ns[f.node].val.is # "char"
                              /\ f.form = "emphasis" => ns[f.node].val.of \in EmTags
                              /\ f.form \in {"item", "quote", "pre"} => ns[f.node].val.of \notin EmTags}

\* The context inside an element, which is the one that each inner one saves.
Around(ns, f) == Inside(f.saved, f.form, ns[f.node].val.of)

Walks(A, ns, w, c) ==
    /\ w \in Seq(FramesOver(A, ns)) /\ w # <<>>
    /\ \A k \in 1..Len(w) : w[k].form = "root" <=> k = 1
    /\ \A k \in 2..Len(w) : w[k].saved = Around(ns, w[k - 1])
    /\ c = Around(ns, w[Len(w)])

LEMMA InsideTyped ==
    ASSUME NEW c \in Contexts, NEW form, NEW tag
    PROVE  /\ Inside(c, form, tag) \in Contexts
           /\ Inside(c, form, tag) =
                 [p_level      |-> c.p_level + (IF form = "p" THEN 1 ELSE 0),
                  list_level   |-> c.list_level + (IF form = "item" THEN 1 ELSE 0),
                  em_level     |-> c.em_level + (IF form = "emphasis" /\ tag = "em" THEN 1 ELSE 0),
                  strong_level |-> c.strong_level + (IF form = "emphasis" /\ tag = "strong" THEN 1 ELSE 0),
                  in_code      |-> (c.in_code \/ form \in {"code", "pre"}),
                  in_pre       |-> (c.in_pre \/ form = "pre")]
<1> DEFINE p == IF form = "p" THEN 1 ELSE 0
           l == IF form = "item" THEN 1 ELSE 0
           e == IF form = "emphasis" /\ tag = "em" THEN 1 ELSE 0
           s == IF form = "emphasis" /\ tag = "strong" THEN 1 ELSE 0
           i == form \in {"code", "pre"}
           j == form = "pre"
<1>1. p \in Nat /\ l \in Nat /\ e \in Nat /\ s \in Nat
    OBVIOUS
<1>2. i \in BOOLEAN /\ j \in BOOLEAN
    OBVIOUS
<1>3. Inside(c, form, tag) =
        [c EXCEPT !.p_level = @ + p, !.list_level = @ + l, !.em_level = @ + e,
                  !.strong_level = @ + s, !.in_code = @ \/ i, !.in_pre = @ \/ j]
    BY DEF Inside
<1> HIDE DEF p, l, e, s, i, j
<1> DEFINE r == [p_level |-> c.p_level + p, list_level |-> c.list_level + l, em_level |-> c.em_level + e,
                 strong_level |-> c.strong_level + s, in_code |-> (c.in_code \/ i),
                 in_pre |-> (c.in_pre \/ j)]
<1>4. Inside(c, form, tag) = r
    BY <1>3, Zenon DEF Contexts
<1>5. r \in Contexts
    BY <1>1, <1>2 DEF Contexts
<1>6. QED BY <1>4, <1>5 DEF p, l, e, s, i, j

\* The root changes nothing.
LEMMA RootWalks ==
    ASSUME NEW A \in Alphabets, NEW ns
    PROVE  Walks(A, ns, <<Root>>, NoContext) /\ Root \in FramesOver(A, ns) /\ NoContext \in Contexts
<1> DEFINE r == Root
<1>1. NoContext \in Contexts
    BY DEF NoContext, Contexts
<1>2. r.form = "root" /\ r.saved = NoContext /\ r.out = <<>>
    BY DEF Root
<1>3. r \in Frames
    BY <1>1 DEF Root, Frames, Forms
<1>4. r \in FramesOver(A, ns)
  <2> HIDE DEF r
  <2>1. <<>> \in Seq(A)
    OBVIOUS
  <2>2. QED BY <1>2, <1>3, <2>1 DEF FramesOver
<1>5. Around(ns, r) = NoContext
  <2> HIDE DEF r
  <2> DEFINE tag == ns[r.node].val.of
  <2>1. Around(ns, r) = Inside(NoContext, "root", tag)
    BY <1>2 DEF Around
  <2> HIDE DEF tag
  <2> DEFINE c == NoContext
  <2>2. c.p_level = 0 /\ c.list_level = 0 /\ c.em_level = 0 /\ c.strong_level = 0 /\ c.in_code = FALSE /\ c.in_pre = FALSE
    BY DEF NoContext
  <2>3. c = [p_level |-> 0, list_level |-> 0, em_level |-> 0, strong_level |-> 0, in_code |-> FALSE, in_pre |-> FALSE]
    BY DEF NoContext
  <2> HIDE DEF c
  <2>4. Inside(c, "root", tag) =
                 [p_level      |-> c.p_level + (IF "root" = "p" THEN 1 ELSE 0),
                  list_level   |-> c.list_level + (IF "root" = "item" THEN 1 ELSE 0),
                  em_level     |-> c.em_level + (IF "root" = "emphasis" /\ tag = "em" THEN 1 ELSE 0),
                  strong_level |-> c.strong_level + (IF "root" = "emphasis" /\ tag = "strong" THEN 1 ELSE 0),
                  in_code      |-> (c.in_code \/ "root" \in {"code", "pre"}),
                  in_pre       |-> (c.in_pre \/ "root" = "pre")]
    BY <1>1, InsideTyped DEF c
  <2>5. Inside(c, "root", tag) = c
    <3>1. /\ c.p_level + (IF "root" = "p" THEN 1 ELSE 0) = 0
          /\ c.list_level + (IF "root" = "item" THEN 1 ELSE 0) = 0
          /\ c.em_level + (IF "root" = "emphasis" /\ tag = "em" THEN 1 ELSE 0) = 0
          /\ c.strong_level + (IF "root" = "emphasis" /\ tag = "strong" THEN 1 ELSE 0) = 0
        BY <2>2
    <3>2. (c.in_code \/ "root" \in {"code", "pre"}) = FALSE /\ (c.in_pre \/ "root" = "pre") = FALSE
        BY <2>2
    <3>3. QED BY <2>3, <2>4, <3>1, <3>2, Zenon
  <2>6. QED BY <2>1, <2>5 DEF c
<1> HIDE DEF r
<1>6. Walks(A, ns, <<r>>, NoContext)
  <2> DEFINE w == <<r>>
             F == FramesOver(A, ns)
  <2>1. w \in Seq(F) /\ w # <<>> /\ Len(w) = 1 /\ w[1] = r
    <3>1. r \in F
        BY <1>4
    <3> HIDE DEF F
    <3>2. QED BY <3>1
  <2> HIDE DEF w
  <2>2. QED BY <1>2, <1>5, <2>1 DEF Walks
<1>7. QED BY <1>1, <1>4, <1>6 DEF r

\* Frames may change but for what they are of and what they saved.
LEMMA SameWalks ==
    ASSUME NEW A, NEW ns, NEW w, NEW c, Walks(A, ns, w, c), NEW v \in Seq(FramesOver(A, ns)), Len(v) = Len(w),
           \A k \in 1..Len(w) : v[k].form = w[k].form /\ v[k].node = w[k].node /\ v[k].saved = w[k].saved
    PROVE  Walks(A, ns, v, c)
<1> DEFINE n == Len(w)
<1>1. /\ w \in Seq(FramesOver(A, ns)) /\ w # <<>>
      /\ \A k \in 1..n : w[k].form = "root" <=> k = 1
      /\ \A k \in 2..n : w[k].saved = Around(ns, w[k - 1])
      /\ c = Around(ns, w[n])
    BY DEF Walks
<1>2. n \in Nat /\ n >= 1
    BY <1>1
<1>3. \A k \in 1..n : Around(ns, v[k]) = Around(ns, w[k])
    BY DEF Around
<1> HIDE DEF n
<1>4. v # <<>> /\ Len(v) = n
    BY <1>2 DEF n
<1>5. \A k \in 1..n : v[k].form = "root" <=> k = 1
    BY <1>1 DEF n
<1>6. \A k \in 2..n : v[k].saved = Around(ns, v[k - 1])
  <2>1. \A k \in 2..n : k - 1 \in 1..n /\ k \in 1..n
    BY <1>2
  <2>2. \A k \in 1..n : v[k].saved = w[k].saved
    BY DEF n
  <2>3. QED BY <1>1, <1>3, <2>1, <2>2
<1>7. c = Around(ns, v[n])
    BY <1>1, <1>2, <1>3
<1>8. QED BY <1>4, <1>5, <1>6, <1>7 DEF Walks

\* An element is entered.
LEMMA EnterWalks ==
    ASSUME NEW A, NEW ns, NEW w, NEW c, Walks(A, ns, w, c), NEW f \in FramesOver(A, ns), f.form # "root",
           f.saved = c
    PROVE  Walks(A, ns, Append(w, f), Around(ns, f))
<1> DEFINE n == Len(w)
           F == FramesOver(A, ns)
           v == Append(w, f)
<1>1. /\ w \in Seq(F) /\ w # <<>>
      /\ \A k \in 1..n : w[k].form = "root" <=> k = 1
      /\ \A k \in 2..n : w[k].saved = Around(ns, w[k - 1])
      /\ c = Around(ns, w[n])
    BY DEF Walks
<1>2. n \in Nat /\ n >= 1
    BY <1>1
<1>3. v \in Seq(F) /\ Len(v) = n + 1 /\ v[n + 1] = f /\ \A k \in 1..n : v[k] = w[k]
  <2>1. w \in Seq(F) /\ f \in F
    BY <1>1
  <2> HIDE DEF F
  <2>2. QED BY <2>1, Appending
<1> HIDE DEF n, v
<1>4. \A k \in 1..(n + 1) : k \in 1..n \/ k = n + 1
    BY <1>2
<1>5. v # <<>>
    BY <1>2, <1>3
<1>6. \A k \in 1..(n + 1) : v[k].form = "root" <=> k = 1
    BY <1>1, <1>2, <1>3, <1>4
<1>7. ASSUME NEW k \in 2..(n + 1) PROVE v[k].saved = Around(ns, v[k - 1])
  <2>1. CASE k = n + 1
    <3>1. k - 1 = n /\ n \in 1..n
        BY <1>2, <2>1
    <3>2. QED BY <1>1, <1>3, <2>1, <3>1
  <2>2. CASE k # n + 1
    <3>1. k - 1 \in 1..n /\ k \in 2..n /\ k \in 1..n
        BY <1>2, <2>2
    <3>2. QED BY <1>1, <1>3, <3>1
  <2>3. QED BY <2>1, <2>2
<1>8. QED BY <1>3, <1>5, <1>6, <1>7 DEF Walks, v

\* An element is left.
LEMMA LeaveWalks ==
    ASSUME NEW A, NEW ns, NEW w, NEW c, Walks(A, ns, w, c), Len(w) > 1
    PROVE  Walks(A, ns, SubSeq(w, 1, Len(w) - 1), w[Len(w)].saved)
<1> DEFINE n == Len(w)
           F == FramesOver(A, ns)
           m == n - 1
           v == SubSeq(w, 1, m)
<1>1. /\ w \in Seq(F) /\ w # <<>>
      /\ \A k \in 1..n : w[k].form = "root" <=> k = 1
      /\ \A k \in 2..n : w[k].saved = Around(ns, w[k - 1])
    BY DEF Walks
<1>2. n \in Nat /\ m \in Nat /\ m >= 1 /\ m < n /\ n \in 2..n /\ n - 1 = m
    BY <1>1
<1>3. v \in Seq(F) /\ Len(v) = m /\ \A k \in 1..m : v[k] = w[k]
  <2>1. w \in Seq(F) /\ m <= Len(w)
    BY <1>1, <1>2
  <2> HIDE DEF F, m
  <2>2. QED BY <1>2, <2>1
<1>4. w[n].saved = Around(ns, w[m])
    BY <1>1, <1>2
<1> HIDE DEF n, m, v
<1>5. \A k \in 1..m : k \in 1..n
    BY <1>2
<1>6. \A k \in 2..m : k \in 2..n /\ k - 1 \in 1..m /\ k \in 1..m
    BY <1>2
<1>7. v # <<>> /\ m \in 1..m
    BY <1>2, <1>3
<1>8. \A k \in 1..m : v[k].form = "root" <=> k = 1
    BY <1>1, <1>3, <1>5
<1>9. \A k \in 2..m : v[k].saved = Around(ns, v[k - 1])
    BY <1>1, <1>3, <1>6
<1>10. Walks(A, ns, v, w[n].saved)
    BY <1>3, <1>4, <1>7, <1>8, <1>9 DEF Walks
<1>11. QED BY <1>10 DEF v, m, n

Context(p, l, e, s, i, j) ==
    [p_level |-> p, list_level |-> l, em_level |-> e, strong_level |-> s, in_code |-> i, in_pre |-> j]

\* Leaving an element brings back the context it was entered in, copied or counted.
LEMMA Restored ==
    ASSUME NEW saved \in Contexts, NEW form \in Forms, NEW tag, ctx = Inside(saved, form, tag)
    PROVE  Outside(form, tag, saved) = saved
<1> DEFINE pl == saved.p_level
           ll == saved.list_level
           el == saved.em_level
           sl == saved.strong_level
           ic == saved.in_code
           ip == saved.in_pre
           r  == Context(pl, ll, el, sl, ic, ip)
           p == IF form = "p" THEN 1 ELSE 0
           l == IF form = "item" THEN 1 ELSE 0
           e == IF form = "emphasis" /\ tag = "em" THEN 1 ELSE 0
           s == IF form = "emphasis" /\ tag = "strong" THEN 1 ELSE 0
           i == form \in {"code", "pre"}
           j == form = "pre"
<1>1. pl \in Nat /\ ll \in Nat /\ el \in Nat /\ sl \in Nat /\ ic \in BOOLEAN /\ ip \in BOOLEAN
    BY DEF Contexts
<1>2. saved = r
    BY DEF Contexts, Context
<1>3. ctx = Context(pl + p, ll + l, el + e, sl + s, (ic \/ i), (ip \/ j))
    BY InsideTyped DEF Context
<1> HIDE DEF pl, ll, el, sl, ic, ip, p, l, e, s, i, j
<1>4. CASE form \in Copying
    BY <1>4 DEF Outside, Copying, Counted
<1>5. CASE form = "p"
  <2>1. p = 1 /\ l = 0 /\ e = 0 /\ s = 0 /\ i = FALSE /\ j = FALSE
    BY <1>5 DEF p, l, e, s, i, j
  <2>2. Outside(form, tag, saved) = [ctx EXCEPT !.p_level = @ - 1]
    BY <1>5 DEF Outside, Copying, Counted
  <2>3. /\ (pl + p) - 1 = pl /\ ll + l = ll /\ el + e = el /\ sl + s = sl
    BY <1>1, <2>1
  <2>4. (ic \/ i) = ic /\ (ip \/ j) = ip
    BY <1>1, <2>1
  <2>5. ctx = Context(pl + p, ll, el, sl, ic, ip)
    BY <1>3, <2>3, <2>4, Zenon
  <2>6. [ctx EXCEPT !.p_level = @ - 1] = Context((pl + p) - 1, ll, el, sl, ic, ip)
    BY <2>5 DEF Context
  <2>7. QED BY <1>2, <2>2, <2>3, <2>6, Zenon
<1>6. CASE form = "code"
  <2>1. p = 0 /\ l = 0 /\ e = 0 /\ s = 0 /\ i = TRUE /\ j = FALSE
    BY <1>6 DEF p, l, e, s, i, j
  <2>2. Outside(form, tag, saved) = [ctx EXCEPT !.in_code = ic]
    BY <1>6 DEF Outside, Copying, Counted, ic
  <2>3. /\ pl + p = pl /\ ll + l = ll /\ el + e = el /\ sl + s = sl
    BY <1>1, <2>1
  <2>4. (ip \/ j) = ip
    BY <1>1, <2>1
  <2>5. ctx = Context(pl, ll, el, sl, (ic \/ i), ip)
    BY <1>3, <2>3, <2>4, Zenon
  <2>6. [ctx EXCEPT !.in_code = ic] = r
    BY <2>5 DEF Context
  <2>7. QED BY <1>2, <2>2, <2>6, Zenon
<1>7. CASE form = "emphasis" /\ tag = "em"
  <2>1. p = 0 /\ l = 0 /\ e = 1 /\ s = 0 /\ i = FALSE /\ j = FALSE
    BY <1>7 DEF p, l, e, s, i, j
  <2>2. Outside(form, tag, saved) = [ctx EXCEPT !.em_level = @ - 1]
    BY <1>7 DEF Outside, Copying, Counted
  <2>3. /\ pl + p = pl /\ ll + l = ll /\ (el + e) - 1 = el /\ sl + s = sl
    BY <1>1, <2>1
  <2>4. (ic \/ i) = ic /\ (ip \/ j) = ip
    BY <1>1, <2>1
  <2>5. ctx = Context(pl, ll, el + e, sl, ic, ip)
    BY <1>3, <2>3, <2>4, Zenon
  <2>6. [ctx EXCEPT !.em_level = @ - 1] = Context(pl, ll, (el + e) - 1, sl, ic, ip)
    BY <2>5 DEF Context
  <2>7. QED BY <1>2, <2>2, <2>3, <2>6, Zenon
<1>8. CASE form = "emphasis" /\ tag = "strong"
  <2>1. p = 0 /\ l = 0 /\ e = 0 /\ s = 1 /\ i = FALSE /\ j = FALSE
    BY <1>8 DEF p, l, e, s, i, j
  <2>2. Outside(form, tag, saved) = [ctx EXCEPT !.strong_level = @ - 1]
    BY <1>8 DEF Outside, Copying, Counted
  <2>3. /\ pl + p = pl /\ ll + l = ll /\ el + e = el /\ (sl + s) - 1 = sl
    BY <1>1, <2>1
  <2>4. (ic \/ i) = ic /\ (ip \/ j) = ip
    BY <1>1, <2>1
  <2>5. ctx = Context(pl, ll, el, sl + s, ic, ip)
    BY <1>3, <2>3, <2>4, Zenon
  <2>6. [ctx EXCEPT !.strong_level = @ - 1] = Context(pl, ll, el, (sl + s) - 1, ic, ip)
    BY <2>5 DEF Context
  <2>7. QED BY <1>2, <2>2, <2>3, <2>6, Zenon
<1>9. CASE /\ form \notin Copying /\ form # "p" /\ form # "code"
           /\ ~(form = "emphasis" /\ tag \in {"em", "strong"})
  <2>1. p = 0 /\ l = 0 /\ e = 0 /\ s = 0 /\ i = FALSE /\ j = FALSE
    BY <1>9 DEF p, l, e, s, i, j, Copying
  <2>2. Outside(form, tag, saved) = ctx
    BY <1>9 DEF Outside, Copying, Counted
  <2>3. /\ pl + p = pl /\ ll + l = ll /\ el + e = el /\ sl + s = sl
    BY <1>1, <2>1
  <2>4. (ic \/ i) = ic /\ (ip \/ j) = ip
    BY <1>1, <2>1
  <2>5. QED BY <1>2, <1>3, <2>2, <2>3, <2>4, Zenon
<1>10. QED BY <1>4, <1>5, <1>6, <1>7, <1>8, <1>9

\* What an element writes is of the alphabet of the fragment.
LEMMA AlphabetFacts ==
    ASSUME NEW A \in Alphabets
    PROVE  /\ A \subseteq Symbols
           /\ \A c \in Characters : Char(c) \in A /\ Escaped(c) \in A
           /\ \A s \in A : s.is \in {"open", "styled"} => Close(s.of) \in A
           /\ \A s \in A : s.is = "char" => s.of \in Characters
           /\ \A s \in A : s.is \in {"open", "styled"} /\ s.of \notin EmTags => A = Symbols
           /\ \A s \in A : s.is \in {"open", "styled"} => s.of \in TagNames
<1>1. CASE A = Symbols
  <2>1. \A c \in Characters : Char(c) \in A /\ Escaped(c) \in A
    BY <1>1 DEF Symbols, Char, Escaped
  <2>2. \A s \in A : s.is \in {"open", "styled"} => s.of \in TagNames
    BY <1>1 DEF Symbols
  <2>3. \A t \in TagNames : Close(t) \in A
    BY <1>1 DEF Symbols, Close
  <2>4. \A s \in A : s.is = "char" => s.of \in Characters
    BY <1>1 DEF Symbols
  <2>5. QED BY <1>1, <2>1, <2>2, <2>3, <2>4
<1>2. CASE A = Inline
  <2>1. \A c \in Characters : Char(c) \in A /\ Escaped(c) \in A
    BY <1>2 DEF Inline, Text, Char, Escaped
  <2>2. \A s \in A : s.is \in {"open", "styled"} => s.of \in EmTags
    BY <1>2 DEF Inline, Text
  <2>3. \A t \in EmTags : Close(t) \in A /\ t \in TagNames
    BY <1>2 DEF Inline, Close, EmTags, TagNames
  <2>4. \A s \in A : s.is = "char" => s.of \in Characters
    BY <1>2 DEF Inline, Text
  <2>5. A \subseteq Symbols
    BY <1>2, InlineFacts
  <2>6. QED BY <2>1, <2>2, <2>3, <2>4, <2>5
<1>3. QED BY <1>1, <1>2 DEF Alphabets

LEMMA EmphasizedTyped ==
    ASSUME NEW A, NEW out \in Seq(A), NEW marker \in Seq(A)
    PROVE  Emphasized(out, marker) \in Seq(A)
<1> DEFINE inner == {k \in DOMAIN out : out[k] # Char(" ")}
           n == Len(out)
<1>1. n \in Nat /\ inner \in SUBSET (0..n) /\ inner \in SUBSET Nat /\ inner \subseteq 1..n
  <2>1. n \in Nat /\ DOMAIN out = 1..n
    OBVIOUS
  <2>2. inner \subseteq DOMAIN out
    BY Zenon
  <2> HIDE DEF inner, n
  <2>3. QED BY <2>1, <2>2
<1>2. CASE inner = {}
    BY <1>2 DEF Emphasized
<1>3. CASE inner # {}
  <2> DEFINE i == Min(inner)
             j == Max(inner)
             a == SubSeq(out, 1, i - 1)
             b == SubSeq(out, i, j)
             c == SubSeq(out, j + 1, n)
  <2>1. Emphasized(out, marker) = a \o marker \o b \o marker \o c
    BY <1>3 DEF Emphasized
  <2>2. i \in inner /\ j \in inner
    <3> HIDE DEF inner, n
    <3>1. QED BY <1>1, <1>3, MinIsLeast, MaxIsGreatest
  <2>3. i \in 1..n /\ j \in 1..n
    BY <1>1, <2>2
  <2> HIDE DEF i, j, n
  <2>4. a \in Seq(A) /\ b \in Seq(A) /\ c \in Seq(A)
    BY <2>3 DEF n
  <2> HIDE DEF a, b, c
  <2>5. a \o marker \o b \o marker \o c \in Seq(A)
    BY <2>4
  <2>6. QED BY <2>1, <2>5
<1>4. QED BY <1>2, <1>3

LEMMA WrittenTyped ==
    ASSUME NEW A \in Alphabets, nodes \in Seq(NodesIn(A)), NEW f \in FramesOver(A, nodes), f.form # "root"
    PROVE  Written(f) \in Seq(A)
<1> DEFINE node == nodes[f.node]
           tag == node.val.of
           out == f.out
           mark == <<Mark(tag)>>
           tick == <<Char("tick")>>
           shut == IF node.has_closing_tag THEN <<Close(tag)>> ELSE <<>>
<1>1. /\ out \in Seq(A) /\ f.form \in Forms /\ f.node \in DOMAIN nodes /\ node.val.is # "char"
      /\ f.form = "emphasis" => tag \in EmTags
      /\ f.form \in {"item", "quote", "pre"} => tag \notin EmTags
    BY DEF FramesOver, Frames
<1>2. node \in NodesIn(A)
    BY <1>1
<1>3. node.val \in A /\ node.val.is \in {"open", "styled"}
    BY <1>1, <1>2 DEF NodesIn
<1>4. tag \in TagNames /\ Close(tag) \in A /\ (tag \notin EmTags => A = Symbols)
    BY <1>3, AlphabetFacts
<1>5. /\ Char("*") \in A /\ Char("~") \in A /\ Char("tick") \in A
  <2>1. "*" \in Characters /\ "~" \in Characters /\ "tick" \in Characters
    BY Zenon DEF Characters, Delimiters
  <2>2. QED BY <2>1, AlphabetFacts
<1> DEFINE val == node.val
<1>6. Written(f) = CASE f.form = "emphasis"            -> Emphasized(out, Marker(tag))
          [] f.form = "code"                -> tick \o out \o tick
          [] f.form \in {"p", "list"}       -> out
          [] f.form \in {"item", "quote"}   -> mark \o out
          [] f.form = "pre"                 -> mark \o out \o mark
          [] f.form = "raw"                 -> <<val>> \o out \o shut
    BY DEF Written
<1>7. tick \in Seq(A)
    BY <1>5
<1>8. shut \in Seq(A) /\ <<val>> \in Seq(A)
  <2> DEFINE x == Close(tag)
  <2>1. x \in A /\ val \in A
    BY <1>3, <1>4
  <2> HIDE DEF x, val
  <2>2. <<x>> \in Seq(A) /\ <<val>> \in Seq(A)
    BY <2>1
  <2>3. QED BY <2>2 DEF x
<1>9. f.form \in {"item", "quote", "pre"} => mark \in Seq(A)
  <2>1. tag \in TagNames => Mark(tag) \in Symbols
    BY DEF Symbols, Mark
  <2>2. QED BY <1>1, <1>4, <2>1
<1> HIDE DEF out, tick, shut, mark, val
<1>10. CASE f.form = "emphasis"
  <2>1. Marker(tag) \in Seq(A)
    <3> DEFINE s == Char("*")
               d == Char("~")
    <3>1. tag \in EmTags
        BY <1>1, <1>10
    <3>2. Marker(tag) \in {<<s>>, <<s, s>>, <<d, d>>}
        BY <3>1 DEF Marker, EmTags
    <3>3. s \in A /\ d \in A
        BY <1>5
    <3> HIDE DEF s, d
    <3>4. <<s>> \in Seq(A) /\ <<s, s>> \in Seq(A) /\ <<d, d>> \in Seq(A)
        BY <3>3
    <3>5. QED BY <3>2, <3>4
  <2>2. Emphasized(out, Marker(tag)) \in Seq(A)
    BY <1>1, <2>1, EmphasizedTyped DEF out
  <2>3. QED BY <1>6, <1>10, <2>2
<1>11. CASE f.form = "code"
  <2>1. tick \o out \o tick \in Seq(A)
    BY <1>1, <1>7 DEF out
  <2>2. QED BY <1>6, <1>11, <2>1
<1>12. CASE f.form \in {"p", "list"}
    BY <1>1, <1>6, <1>12 DEF out
<1>13. CASE f.form \in {"item", "quote", "pre"}
  <2>1. mark \in Seq(A) /\ out \in Seq(A)
    BY <1>1, <1>9, <1>13 DEF out
  <2>2. mark \o out \in Seq(A) /\ mark \o out \o mark \in Seq(A)
    BY <2>1
  <2>3. QED BY <1>6, <1>13, <2>2
<1>14. CASE f.form = "raw"
  <2>1. <<val>> \o out \o shut \in Seq(A)
    BY <1>1, <1>8 DEF out
  <2>2. QED BY <1>6, <1>14, <2>1
<1>15. QED BY <1>1, <1>10, <1>11, <1>12, <1>13, <1>14 DEF Forms

\* A node's lineage is of nodes that are not behind it.
Older == \A n \in 1..Len(nodes) : nodes[n].parent \in Nat /\ nodes[n].parent < n

LEMMA LineageFacts ==
    ASSUME Len(nodes) \in Nat, Older
    PROVE  \A n \in 0..Len(nodes) : Lineage[n] \subseteq 1..n
<1> DEFINE m == Len(nodes)
           parent(n) == nodes[n].parent
           Rule(f, k) == \A n \in 0..k : f[n] = IF n = 0 THEN {} ELSE {n} \cup f[parent(n)]
           T == SUBSET Nat
           P(f) == f = [n \in 0..m |-> IF n = 0 THEN {} ELSE {n} \cup f[parent(n)]]
           h == CHOOSE f : P(f)
           S == {k \in 0..m : \E f \in [0..k -> T] : Rule(f, k)}
<1>1. \A n \in 1..m : parent(n) \in Nat /\ parent(n) < n
    BY DEF Older
<1>2. Lineage = h
    BY DEF Lineage
<1> HIDE DEF parent, h, m
<1>a. m \in Nat
    BY DEF m
<1>3. 0 \in S
  <2> DEFINE g == [n \in 0..0 |-> {}]
  <2>1. g \in [0..0 -> T]
    OBVIOUS
  <2>2. Rule(g, 0)
    <3>1. \A n \in 0..0 : n = 0 /\ g[n] = {}
        OBVIOUS
    <3> HIDE DEF g
    <3>2. QED BY <3>1
  <2> HIDE DEF g, Rule
  <2>3. \E f \in [0..0 -> T] : Rule(f, 0)
    BY <2>1, <2>2
  <2>4. 0 \in 0..m
    BY <1>a
  <2>5. QED BY <2>3, <2>4
<1>4. ASSUME NEW k \in 1..m, NEW f \in [0..(k - 1) -> T], Rule(f, k - 1)
      PROVE  \E g \in [0..k -> T] : Rule(g, k)
  <2> DEFINE top == {k} \cup f[parent(k)]
             g == [n \in 0..k |-> IF n = k THEN top ELSE f[n]]
  <2>1. parent(k) \in 0..(k - 1) /\ k \in Nat /\ k # 0
    BY <1>1, <1>a
  <2>2. top \in T
    BY <2>1
  <2> HIDE DEF top
  <2>3. g \in [0..k -> T]
    <3>1. \A n \in 0..k : n = k \/ n \in 0..(k - 1)
        OBVIOUS
    <3>2. QED BY <2>2, <3>1
  <2>4. \A n \in 0..(k - 1) : g[n] = f[n] /\ n # k
    BY <2>1
  <2>5. g[k] = top
    BY <2>1
  <2> HIDE DEF g
  <2>6. ASSUME NEW n \in 0..k PROVE g[n] = IF n = 0 THEN {} ELSE {n} \cup g[parent(n)]
    <3>1. CASE n = k
        <4>1. g[parent(k)] = f[parent(k)]
            BY <2>1, <2>4
        <4>2. QED BY <2>1, <2>5, <3>1, <4>1 DEF top
    <3>2. CASE n # k /\ n # 0
        <4>1. n \in 0..(k - 1) /\ n \in 1..m
            BY <2>1, <3>2
        <4>2. parent(n) \in 0..(k - 1)
            BY <1>1, <4>1
        <4>3. f[n] = {n} \cup f[parent(n)]
            BY <1>4, <3>2, <4>1
        <4>4. QED BY <2>4, <3>2, <4>1, <4>2, <4>3
    <3>3. CASE n # k /\ n = 0
        <4>1. 0 \in 0..(k - 1)
            BY <2>1
        <4>2. f[0] = {}
            BY <1>4, <4>1
        <4>3. QED BY <2>4, <3>3, <4>1, <4>2
    <3>4. QED BY <3>1, <3>2, <3>3
  <2>7. Rule(g, k)
    BY <2>6
  <2>8. QED BY <2>3, <2>7
<1>5. ASSUME NEW k \in 1..m, k - 1 \in S PROVE k \in S
  <2>1. PICK f \in [0..(k - 1) -> T] : Rule(f, k - 1)
    BY <1>5
  <2>2. \E g \in [0..k -> T] : Rule(g, k)
    BY <1>4, <2>1, ZenonT(60)
  <2> HIDE DEF Rule
  <2>3. QED BY <2>2
<1>b. \A k \in 1..m : k - 1 \in S => k \in S
    BY <1>5
<1> HIDE DEF S
<1>6. m \in S
  <2>1. \A k \in 0..m : k \in S
    BY <1>3, <1>a, <1>b, Induction
  <2>2. QED BY <1>a, <2>1
<1>7. PICK g \in [0..m -> T] : Rule(g, m)
    BY <1>6 DEF S
<1>8. P(g)
  <2>1. g = [n \in 0..m |-> g[n]]
    OBVIOUS
  <2>2. \A n \in 0..m : g[n] = IF n = 0 THEN {} ELSE {n} \cup g[parent(n)]
    BY <1>7
  <2>3. QED BY <2>1, <2>2
<1>9. P(h)
    BY <1>8 DEF h
<1>10. \A n \in 0..m : h[n] = IF n = 0 THEN {} ELSE {n} \cup h[parent(n)]
    BY <1>9
<1> DEFINE R == {k \in 0..m : \A n \in 0..k : h[n] \subseteq 1..n}
<1>11. 0 \in R
  <2>1. h[0] = {}
    <3>1. 0 \in 0..m
        BY <1>a
    <3>2. h[0] = IF 0 = 0 THEN {} ELSE {0} \cup h[parent(0)]
        BY <1>10, <3>1, Zenon
    <3>3. QED BY <3>2, Zenon
  <2>2. \A n \in 0..0 : n = 0
    OBVIOUS
  <2>3. \A n \in 0..0 : h[n] \subseteq 1..n
    BY <2>1, <2>2
  <2>4. QED BY <1>a, <2>3
<1>12. ASSUME NEW k \in 1..m, \A n \in 0..(k - 1) : h[n] \subseteq 1..n
       PROVE  \A n \in 0..k : h[n] \subseteq 1..n
  <2>1. parent(k) \in 0..(k - 1) /\ k \in 0..m /\ k # 0 /\ k \in Nat
    BY <1>1, <1>a
  <2>2. h[k] = {k} \cup h[parent(k)]
    BY <1>10, <2>1
  <2>3. h[parent(k)] \subseteq 1..parent(k)
    BY <1>12, <2>1
  <2>4. h[k] \subseteq 1..k
    BY <2>1, <2>2, <2>3
  <2>5. \A n \in 0..k : n = k \/ n \in 0..(k - 1)
    BY <2>1
  <2>6. QED BY <1>12, <2>4, <2>5
<1>13. \A k \in 1..m : k - 1 \in R => k \in R
    BY <1>12
<1> HIDE DEF R
<1>14. m \in R
  <2>1. \A k \in 0..m : k \in R
    BY <1>11, <1>13, <1>a, Induction
  <2>2. QED BY <1>a, <2>1
<1>15. \A n \in 0..m : h[n] \subseteq 1..n
    BY <1>14 DEF R
<1>16. QED BY <1>2, <1>15 DEF m

\* How the serializer stands on a fragment over an alphabet: nothing is entered before
\* the tree is built.
FragmentInv(A) ==
    /\ html \in Seq(A) /\ pos \in 1..(Len(html) + 1)
    /\ nodes \in Seq(NodesIn(A)) /\ Older
    /\ curr \in 0..Len(nodes)
    /\ Walks(A, nodes, walk, ctx)
    /\ Parsing => walk = <<Root>>

LEMMA FragmentStarts ==
    ASSUME NEW A \in Alphabets, html \in Seq(A), pos = 1, nodes = <<>>, curr = 0, walk = <<Root>>, ctx = NoContext
    PROVE  FragmentInv(A)
<1>1. pos \in 1..(Len(html) + 1)
    BY SeqFacts
<1>2. nodes \in Seq(NodesIn(A)) /\ Len(nodes) = 0
    OBVIOUS
<1>3. Older
    BY <1>2 DEF Older
<1>4. Walks(A, nodes, walk, ctx)
    BY RootWalks
<1>5. QED BY <1>1, <1>2, <1>3, <1>4 DEF FragmentInv

\* While the tree is built.
LEMMA ParseKeeps ==
    ASSUME NEW A \in Alphabets, FragmentInv(A), Parse
    PROVE  FragmentInv(A)'
<1> DEFINE n == Len(nodes)
           N == NodesIn(A)
           s == html[pos]
<1>1. /\ html \in Seq(A) /\ pos \in 1..(Len(html) + 1) /\ nodes \in Seq(N) /\ Older /\ curr \in 0..n
      /\ Walks(A, nodes, walk, ctx) /\ (Parsing => walk = <<Root>>)
    BY DEF FragmentInv
<1>2. /\ pos <= Len(html) /\ pos' = pos + 1 /\ html' = html /\ walk' = walk /\ ctx' = ctx
    BY DEF Parse, ParseText, ParseOpen, ParseClose, Parsing
<1>3. walk = <<Root>>
    BY <1>1, <1>2 DEF Parsing
<1>4. ctx = NoContext
  <2> DEFINE r == Root
  <2>1. Walks(A, nodes, <<r>>, NoContext) /\ Walks(A, nodes, <<r>>, ctx)
    BY <1>1, <1>3, RootWalks
  <2> HIDE DEF r
  <2>2. QED BY <2>1 DEF Walks
<1>5. pos' \in 1..(Len(html') + 1) /\ pos \in 1..Len(html)
  <2>1. Len(html) \in Nat
    BY <1>1, SeqFacts
  <2>2. QED BY <1>1, <1>2, <2>1
<1>6. s \in A
    BY <1>1, <1>5
<1>7. n \in Nat /\ DOMAIN nodes = 1..n /\ \A k \in 1..n : nodes[k] \in N
  <2> HIDE DEF N
  <2>1. QED BY <1>1, SeqFacts
<1>8. Walks(A, nodes', walk', ctx')
  <2> DEFINE ns == nodes'
  <2> HIDE DEF ns
  <2>1. Walks(A, ns, <<Root>>, NoContext)
    BY RootWalks
  <2>2. QED BY <1>2, <1>3, <1>4, <2>1 DEF ns
<1>9. nodes' \in Seq(N) /\ curr' \in 0..Len(nodes') /\ Older'
  <2>1. CASE ParseText \/ ParseOpen
    <3> DEFINE x == Child(s)
    <3>1. s.is \in {"char", "open", "styled"} /\ nodes' = Append(nodes, x)
        BY <2>1 DEF ParseText, ParseOpen, Here
    <3>2. x.parent = curr /\ x.val = s
        BY DEF Child
    <3>3. x \in N
        <4>1. s \in Symbols
            BY <1>6, AlphabetFacts
        <4>2. curr \in Nat
            BY <1>1, <1>7
        <4>3. x \in Nodes
            BY <4>1, <4>2 DEF Child, Nodes
        <4> HIDE DEF x
        <4>4. QED BY <1>6, <3>1, <3>2, <4>3 DEF NodesIn
    <3> HIDE DEF x, N
    <3>4. nodes' \in Seq(N) /\ Len(nodes') = n + 1 /\ nodes'[n + 1] = x /\ \A k \in 1..n : nodes'[k] = nodes[k]
        BY <1>1, <3>1, <3>3, Appending
    <3>5. curr' \in {curr, n + 1}
        BY <2>1, <3>4 DEF ParseText, ParseOpen
    <3>6. Older'
        <4>1. \A k \in 1..(n + 1) : k \in 1..n \/ k = n + 1
            BY <1>7
        <4>2. \A k \in 1..n : nodes[k].parent \in Nat /\ nodes[k].parent < k
            BY <1>1 DEF Older
        <4>3. x.parent \in Nat /\ x.parent < n + 1
            BY <1>1, <1>7, <3>2
        <4> HIDE DEF n
        <4>4. \A k \in 1..Len(nodes') : nodes'[k].parent \in Nat /\ nodes'[k].parent < k
            BY <3>4, <4>1, <4>2, <4>3
        <4>5. QED BY <4>4 DEF Older
    <3> HIDE DEF n
    <3>7. curr' \in 0..Len(nodes')
        BY <1>1, <1>7, <3>4, <3>5
    <3>8. QED BY <3>4, <3>6, <3>7
  <2>2. CASE ParseClose /\ Matching = {}
    <3>1. nodes' = nodes /\ curr' = curr
        BY <2>2 DEF ParseClose
    <3>2. QED BY <1>1, <3>1 DEF Older
  <2>3. CASE ParseClose /\ Matching # {}
    <3> DEFINE m == Max(Matching)
               x == [nodes[m] EXCEPT !.has_closing_tag = TRUE]
    <3>1. nodes' = [nodes EXCEPT ![m] = x] /\ curr' = nodes[m].parent
        BY <2>3 DEF ParseClose, Outer
    <3>2. m \in 1..n
      <4>1. Matching \subseteq Lineage[curr]
        BY DEF Matching
      <4>2. Lineage[curr] \subseteq 1..curr
        BY <1>1, <1>7, LineageFacts
      <4>3. Matching \in SUBSET (0..n) /\ Matching \subseteq 1..n
        BY <1>1, <1>7, <4>1, <4>2
      <4>4. m \in Matching
        BY <1>7, <2>3, <4>3, MaxIsGreatest
      <4>5. QED BY <4>3, <4>4
    <3> HIDE DEF m
    <3>3. x \in N /\ x.parent = nodes[m].parent
        <4> DEFINE y == nodes[m]
        <4>1. y \in N
            BY <1>7, <3>2
        <4> HIDE DEF y
        <4>2. /\ [y EXCEPT !.has_closing_tag = TRUE] \in Nodes
              /\ [y EXCEPT !.has_closing_tag = TRUE].parent = y.parent
              /\ [y EXCEPT !.has_closing_tag = TRUE].val = y.val
            BY <4>1 DEF NodesIn, Nodes
        <4>3. [y EXCEPT !.has_closing_tag = TRUE] \in N
            <5> DEFINE z == [y EXCEPT !.has_closing_tag = TRUE]
            <5>1. z \in Nodes /\ z.val = y.val
                BY <4>2
            <5> HIDE DEF z
            <5>2. z \in N
                BY <4>1, <5>1 DEF NodesIn
            <5>3. QED BY <5>2 DEF z
        <4>4. QED BY <4>2, <4>3 DEF y
    <3> HIDE DEF x, N
    <3>4. nodes' \in Seq(N) /\ Len(nodes') = n
        BY <1>1, <3>1, <3>2, <3>3
    <3>5. \A k \in 1..n : nodes'[k] = IF k = m THEN x ELSE nodes[k]
        BY <1>7, <3>1
    <3>6. \A k \in 1..n : nodes[k].parent \in Nat /\ nodes[k].parent < k
        BY <1>1 DEF Older
    <3> HIDE DEF n
    <3>7. \A k \in 1..Len(nodes') : nodes'[k].parent \in Nat /\ nodes'[k].parent < k
        BY <3>2, <3>3, <3>4, <3>5, <3>6
    <3>8. curr' \in 0..Len(nodes')
        BY <1>7, <3>1, <3>2, <3>4, <3>6
    <3>9. Older'
        BY <3>7 DEF Older
    <3>10. QED BY <3>4, <3>8, <3>9
  <2>4. QED BY <2>1, <2>2, <2>3 DEF Parse
<1>10. html' \in Seq(A)
    BY <1>1, <1>2
<1>11. Parsing' => walk' = <<Root>>
    BY <1>2, <1>3
<1>12. QED BY <1>5, <1>8, <1>9, <1>10, <1>11 DEF FragmentInv

\* What a step of the walk makes of a frame: it has come further, or written more.
Extends(g, f, last, out) ==
    \/ g = [f EXCEPT !.last = last]
    \/ g = [f EXCEPT !.out = out]
    \/ g = [f EXCEPT !.last = last, !.out = out]

Stays(g, f) == g.form = f.form /\ g.node = f.node /\ g.saved = f.saved

\* It is still a frame, of the same element.
LEMMA FrameChanged ==
    ASSUME NEW A \in Alphabets, NEW ns, NEW f \in FramesOver(A, ns), NEW last \in Nat, NEW out \in Seq(A), NEW g,
           Extends(g, f, last, out)
    PROVE  g \in FramesOver(A, ns) /\ Stays(g, f)
<1>1. f \in Frames /\ f.out \in Seq(A) /\ f.out \in Seq(Symbols)
    BY DEF FramesOver, Frames
<1>2. out \in Seq(Symbols)
  <2>1. A \subseteq Symbols
    BY AlphabetFacts
  <2>2. QED BY <2>1
<1>3. /\ g \in Frames /\ g.form = f.form /\ g.node = f.node /\ g.saved = f.saved
      /\ g.out \in {f.out, out}
  <2>1. CASE g = [f EXCEPT !.last = last]
    BY <1>1, <2>1 DEF Frames
  <2>2. CASE g = [f EXCEPT !.out = out]
    BY <1>1, <1>2, <2>2 DEF Frames
  <2>3. CASE g = [f EXCEPT !.last = last, !.out = out]
    BY <1>1, <1>2, <2>3 DEF Frames
  <2>4. QED BY <2>1, <2>2, <2>3 DEF Extends
<1>4. g \in FramesOver(A, ns)
    BY <1>1, <1>3 DEF FramesOver
<1>5. QED BY <1>3, <1>4 DEF Stays

\* Where the walk stands.
LEMMA WalkFacts ==
    ASSUME NEW A \in Alphabets, FragmentInv(A)
    PROVE  /\ walk \in Seq(FramesOver(A, nodes)) /\ Len(walk) \in Nat /\ Len(walk) >= 1
           /\ Frame = walk[Len(walk)] /\ Frame \in FramesOver(A, nodes)
           /\ \A k \in 1..Len(walk) : walk[k] \in FramesOver(A, nodes) /\ (walk[k].form = "root" <=> k = 1)
           /\ ctx = Around(nodes, Frame) /\ ctx \in Contexts
           /\ Left # {} => Current \in 1..Len(nodes) /\ nodes[Current] \in NodesIn(A)
<1> DEFINE F == FramesOver(A, nodes)
<1>1. Walks(A, nodes, walk, ctx) /\ nodes \in Seq(NodesIn(A))
    BY DEF FragmentInv
<1>2. /\ walk \in Seq(F) /\ walk # <<>>
      /\ \A k \in 1..Len(walk) : walk[k].form = "root" <=> k = 1
      /\ ctx = Around(nodes, walk[Len(walk)])
    BY <1>1 DEF Walks
<1>3. Len(walk) \in Nat /\ Len(walk) >= 1 /\ \A k \in 1..Len(walk) : walk[k] \in F
  <2> HIDE DEF F
  <2>1. QED BY <1>2
<1>4. Frame = walk[Len(walk)] /\ Frame \in F
  <2>1. Len(walk) \in 1..Len(walk)
    BY <1>3
  <2>2. QED BY <1>3, <2>1 DEF Frame, Last
<1>5. ctx \in Contexts
  <2> DEFINE f == Frame
             tag == nodes[f.node].val.of
  <2>1. f.saved \in Contexts
    BY <1>4 DEF FramesOver, Frames
  <2>2. ctx = Inside(f.saved, f.form, tag)
    BY <1>2, <1>4 DEF Around
  <2> HIDE DEF f, tag
  <2>3. QED BY <2>1, <2>2, InsideTyped
<1>6. ASSUME Left # {} PROVE Current \in 1..Len(nodes) /\ nodes[Current] \in NodesIn(A)
  <2>1. DOMAIN nodes = 1..Len(nodes) /\ Len(nodes) \in Nat /\ \A k \in 1..Len(nodes) : nodes[k] \in NodesIn(A)
    BY <1>1, SeqFacts
  <2>2. Left \subseteq DOMAIN nodes
    <3>1. \A n : ChildrenOf(n) \subseteq DOMAIN nodes
        BY DEF ChildrenOf
    <3>2. \A f : ShownBy(f) \subseteq DOMAIN nodes
        BY <3>1 DEF ShownBy
    <3>3. QED BY <3>2 DEF Left
  <2>3. Left \in SUBSET Nat /\ Left \subseteq 1..Len(nodes)
    BY <2>1, <2>2
  <2>4. Min(Left) \in Left
    BY <1>6, <2>3, MinIsLeast
  <2>5. QED BY <2>1, <2>3, <2>4 DEF Current
<1>7. QED BY <1>2, <1>3, <1>4, <1>5, <1>6

\* The innermost frame is replaced by one of the same element.
LEMMA TopFacts ==
    ASSUME NEW A \in Alphabets, NEW ns, NEW w, NEW c, Walks(A, ns, w, c), NEW n, n = Len(w),
           NEW g \in FramesOver(A, ns),
           g.form = w[n].form, g.node = w[n].node, g.saved = w[n].saved
    PROVE  Walks(A, ns, [w EXCEPT ![n] = g], c)
<1> DEFINE F == FramesOver(A, ns)
           v == [w EXCEPT ![n] = g]
<1>1. w \in Seq(F) /\ w # <<>>
    BY DEF Walks
<1>2. v \in Seq(F) /\ Len(v) = n /\ \A k \in 1..n : v[k] = IF k = n THEN g ELSE w[k]
  <2>1. g \in F
    OBVIOUS
  <2> HIDE DEF F
  <2>2. n \in Nat /\ n >= 1 /\ DOMAIN w = 1..n
    BY <1>1
  <2>3. QED BY <1>1, <2>1, <2>2
<1> HIDE DEF v
<1>3. \A k \in 1..n : v[k].form = w[k].form /\ v[k].node = w[k].node /\ v[k].saved = w[k].saved
    BY <1>2
<1>4. Walks(A, ns, v, c)
    BY <1>2, <1>3, SameWalks
<1>5. QED BY <1>4 DEF v

\* While the tree is walked.
LEMMA WalkKeeps ==
    ASSUME NEW A \in Alphabets, FragmentInv(A), Walk
    PROVE  FragmentInv(A)'
<1> DEFINE n == Len(walk)
           F == FramesOver(A, nodes)
<1>1. /\ walk \in Seq(F) /\ n \in Nat /\ n >= 1
      /\ Frame = walk[n] /\ Frame \in F
      /\ \A k \in 1..n : walk[k] \in F /\ (walk[k].form = "root" <=> k = 1)
      /\ ctx = Around(nodes, Frame) /\ ctx \in Contexts
      /\ Left # {} => Current \in 1..Len(nodes) /\ nodes[Current] \in NodesIn(A)
    BY WalkFacts
<1>2. /\ html \in Seq(A) /\ pos \in 1..(Len(html) + 1) /\ nodes \in Seq(NodesIn(A)) /\ Older
      /\ curr \in 0..Len(nodes) /\ Walks(A, nodes, walk, ctx)
    BY DEF FragmentInv
<1>3. html' = html /\ pos' = pos /\ nodes' = nodes /\ curr' = curr /\ ~Parsing
    BY DEF Walk, WalkText, WalkEnter, WalkLeave, Walking
<1>4. Walks(A, nodes, walk', ctx')
  <2>1. CASE WalkText
    <3> DEFINE c == nodes[Current].val
               e == ser_emit_escaped_text(c)
               g == [Frame EXCEPT !.last = Current, !.out = Append(@, e)]
    <3>1. /\ Left # {} /\ ~IsElement(Current) /\ ctx' = ctx /\ walk' = [walk EXCEPT ![n] = g]
        BY <2>1 DEF WalkText, Top
    <3>2. c \in A /\ c.is = "char" /\ Current \in Nat
        BY <1>1, <3>1 DEF IsElement, NodesIn
    <3>3. e \in A
        <4> HIDE DEF c
        <4>1. Escaped(c.of) \in A
            BY <3>2, AlphabetFacts
        <4>2. QED BY <3>2, <4>1 DEF ser_emit_escaped_text
    <3> DEFINE out == Append(Frame.out, e)
    <3>4. out \in Seq(A)
        <4>1. Frame.out \in Seq(A)
            BY <1>1 DEF FramesOver
        <4> HIDE DEF e
        <4>2. QED BY <3>3, <4>1
    <3>5. g = [Frame EXCEPT !.last = Current, !.out = out]
        OBVIOUS
    <3> HIDE DEF g, out, n
    <3>6. g \in F /\ g.form = Frame.form /\ g.node = Frame.node /\ g.saved = Frame.saved
        <4> DEFINE f == Frame
                   l == Current
        <4>1. f \in F /\ l \in Nat /\ g = [f EXCEPT !.last = l, !.out = out]
            BY <1>1, <3>2, <3>5
        <4> HIDE DEF f, l
        <4>2. Extends(g, f, l, out)
            BY <4>1 DEF Extends
        <4>3. g \in F /\ Stays(g, f)
            BY <3>4, <4>1, <4>2, FrameChanged, Zenon
        <4>4. QED BY <4>3 DEF f, Stays
    <3>7. Walks(A, nodes, [walk EXCEPT ![n] = g], ctx)
        BY <1>1, <1>2, <3>6, TopFacts DEF n
    <3>8. QED BY <3>1, <3>7
  <2>2. CASE WalkEnter
    <3> DEFINE form == FormOf(Current)
               tag == TagOfNode(Current)
               g == [Frame EXCEPT !.last = Current]
               f == [node |-> Current, form |-> form, last |-> 0, out |-> <<>>, saved |-> ctx]
               w == [walk EXCEPT ![n] = g]
    <3>1. /\ Left # {} /\ IsElement(Current) /\ walk' = Append(w, f) /\ ctx' = Inside(ctx, form, tag)
        BY <2>2 DEF WalkEnter, Top
    <3>2. Current \in Nat /\ Current \in DOMAIN nodes /\ nodes[Current].val.is # "char"
        BY <1>1, <1>2, <3>1 DEF IsElement
    <3>3. g \in F /\ g.form = Frame.form /\ g.node = Frame.node /\ g.saved = Frame.saved
        <4> DEFINE h == Frame
                   l == Current
                   o == h.out
        <4>1. h \in F /\ l \in Nat /\ o \in Seq(A) /\ g = [h EXCEPT !.last = l]
            BY <1>1, <3>2 DEF FramesOver
        <4> HIDE DEF h, l, o, g
        <4>2. Extends(g, h, l, o)
            BY <4>1 DEF Extends
        <4>3. g \in F /\ Stays(g, h)
            BY <4>1, <4>2, FrameChanged, Zenon
        <4>4. QED BY <4>3 DEF h, Stays
    <3> HIDE DEF g, n
    <3>4. Walks(A, nodes, w, ctx)
        BY <1>1, <1>2, <3>3, TopFacts DEF n
    <3> HIDE DEF w
    <3>5. /\ form \in Forms /\ form # "root"
          /\ form = "emphasis" => tag \in EmTags
          /\ form \in {"item", "quote", "pre"} => tag \notin EmTags
        <4> DEFINE val == nodes[Current].val
                   plain == val.is = "open"
        <4>1. form \in {"emphasis", "code", "raw", "p", "list", "item", "quote", "pre"}
            BY DEF FormOf
        <4>2. form = "emphasis" => tag \in {"strong", "em", "del"}
            BY DEF FormOf, TagOfNode
        <4>3. form \in {"item", "quote", "pre"} => tag \in {"li", "blockquote", "pre"}
            BY DEF FormOf, TagOfNode
        <4> HIDE DEF form, tag
        <4>4. QED BY <4>1, <4>2, <4>3 DEF Forms, EmTags
    <3>6. f \in F /\ f.form # "root" /\ f.saved = ctx /\ Around(nodes, f) = Inside(ctx, form, tag)
        <4>1. Around(nodes, f) = Inside(ctx, form, tag)
            BY DEF Around, TagOfNode
        <4> HIDE DEF form
        <4>2. f \in Frames
            BY <1>1, <3>2, <3>5 DEF Frames
        <4>3. f.node = Current /\ f.form = form /\ f.saved = ctx /\ f.out = <<>>
            OBVIOUS
        <4> HIDE DEF f
        <4>4. <<>> \in Seq(A)
            OBVIOUS
        <4>5. f \in F
            BY <3>2, <3>5, <4>2, <4>3, <4>4 DEF FramesOver, TagOfNode
        <4>6. QED BY <3>5, <4>1, <4>3, <4>5
    <3> HIDE DEF f, form, tag
    <3>7. Walks(A, nodes, Append(w, f), Around(nodes, f))
        BY <3>4, <3>6, EnterWalks
    <3>8. QED BY <3>1, <3>6, <3>7
  <2>3. CASE WalkLeave
    <3> DEFINE f == Frame
               outer == walk[n - 1]
               text == Written(f)
               o == outer.out \o text
               g == [outer EXCEPT !.out = o]
               u == SubSeq(walk, 1, n - 1)
               w == Append(SubSeq(walk, 1, n - 2), g)
               tag == TagOfNode(f.node)
    <3>1. n > 1 /\ walk' = w /\ ctx' = Outside(f.form, tag, f.saved)
        BY <2>3 DEF WalkLeave
    <3>2. n \in 1..n /\ n - 1 \in 1..n /\ n # 1
        BY <1>1, <3>1
    <3>3. f \in F /\ f.form # "root" /\ outer \in F /\ f = walk[n]
        BY <1>1, <3>2
    <3>4. text \in Seq(A)
        <4> HIDE DEF f
        <4>1. QED BY <1>2, <3>3, WrittenTyped
    <3>5. ctx' = f.saved
        <4> DEFINE s == f.saved
                   form == f.form
        <4>1. s \in Contexts /\ form \in Forms
            BY <3>3 DEF FramesOver, Frames
        <4>2. ctx = Inside(s, form, tag)
            BY <1>1 DEF Around, TagOfNode
        <4> HIDE DEF s, form, tag
        <4>3. Outside(form, tag, s) = s
            BY <4>1, <4>2, Restored
        <4>4. QED BY <3>1, <4>3 DEF s, form
    <3>6. g \in F /\ g.form = outer.form /\ g.node = outer.node /\ g.saved = outer.saved
        <4>1. outer.out \in Seq(A)
            BY <3>3 DEF FramesOver
        <4> HIDE DEF text
        <4>2. o \in Seq(A)
            BY <3>4, <4>1
        <4>3. 0 \in Nat
            OBVIOUS
        <4>4. g = [outer EXCEPT !.out = o]
            OBVIOUS
        <4> HIDE DEF o, outer, g
        <4>5. Extends(g, outer, 0, o)
            BY <4>4 DEF Extends
        <4>6. g \in F /\ Stays(g, outer)
            BY <3>3, <4>2, <4>3, <4>5, FrameChanged, Zenon
        <4>7. QED BY <4>6 DEF Stays
    <3> HIDE DEF text, o, tag
    <3>7. Walks(A, nodes, u, f.saved)
        <4>1. Walks(A, nodes, SubSeq(walk, 1, Len(walk) - 1), walk[Len(walk)].saved)
            BY <1>2, <3>1, LeaveWalks
        <4>2. QED BY <3>3, <4>1
    <3> HIDE DEF f, g, outer
    <3>8. /\ u \in Seq(F) /\ w \in Seq(F) /\ Len(u) = n - 1 /\ Len(w) = n - 1
          /\ \A k \in 1..(n - 1) : u[k] = walk[k] /\ w[k] = IF k = n - 1 THEN g ELSE walk[k]
        <4> DEFINE a == n - 1
                   b == n - 2
                   d == SubSeq(walk, 1, b)
        <4>1. a \in Nat /\ b \in Nat /\ a <= n /\ b <= n /\ a = b + 1
            BY <1>1, <3>1
        <4> HIDE DEF F, a, b, n
        <4>2. u \in Seq(F) /\ Len(u) = a /\ \A k \in 1..a : u[k] = walk[k]
            BY <1>1, <4>1 DEF a, n
        <4>3. d \in Seq(F) /\ Len(d) = b /\ \A k \in 1..b : d[k] = walk[k]
            BY <1>1, <4>1 DEF n
        <4> HIDE DEF d, u
        <4>4. /\ Append(d, g) \in Seq(F) /\ Len(Append(d, g)) = b + 1 /\ Append(d, g)[b + 1] = g
              /\ \A k \in 1..b : Append(d, g)[k] = d[k]
            BY <3>6, <4>3, Appending
        <4>5. w = Append(d, g)
            BY DEF d, b
        <4> HIDE DEF w
        <4>6. \A k \in 1..a : k \in 1..b \/ k = a
            BY <4>1
        <4>7. \A k \in 1..a : w[k] = IF k = a THEN g ELSE walk[k]
            BY <4>1, <4>3, <4>4, <4>5, <4>6
        <4>8. QED BY <4>1, <4>2, <4>4, <4>5, <4>7 DEF a
    <3> HIDE DEF u, w
    <3>9. \A k \in 1..Len(u) : w[k].form = u[k].form /\ w[k].node = u[k].node /\ w[k].saved = u[k].saved
        BY <3>6, <3>8 DEF outer
    <3>10. Walks(A, nodes, w, f.saved)
        BY <3>7, <3>8, <3>9, SameWalks
    <3>11. QED BY <3>1, <3>5, <3>10
  <2>4. QED BY <2>1, <2>2, <2>3 DEF Walk
<1>5. ~Parsing'
    BY <1>3 DEF Parsing
<1>6. Walks(A, nodes', walk', ctx')
    BY <1>3, <1>4
<1>7. QED BY <1>2, <1>3, <1>5, <1>6 DEF FragmentInv, Older

-----------------------------------------------------------------------------
(***************************************************************************)
(* The two directions together.                                            *)
(***************************************************************************)

\* A line that was typed is rendered without lists, quotes and attributes.
LEMMA RenderedTyped ==
    ASSUME tokens \in Seq(TokensOf(Inline))
    PROVE  Rendered \in Seq(Inline)
<1> DEFINE n == Len(tokens)
           ss == [k \in DOMAIN tokens |-> HtmlOf(tokens[k])]
<1>1. n \in Nat /\ DOMAIN tokens = 1..n /\ \A k \in 1..n : tokens[k] \in TokensOf(Inline)
    BY SeqFacts
<1>2. ASSUME NEW t \in TokensOf(Inline) PROVE HtmlOf(t) \in Seq(Inline)
  <2> DEFINE z == t.val
             x == Char(z.of)
             h == HtmlOf(t)
  <2>1. /\ t.type \in {"tag", "text", "delim"} /\ z \in Inline /\ t.len \in Nat
        /\ t.type = "text" => z.is \in {"char", "escaped"}
    <3>1. /\ t.type \in {"tag", "text", "delim"} /\ z \in Inline /\ t.len \in Nat
          /\ t.type = "tag" <=> z.is \in {"open", "close"}
        BY DEF TokensOf, Tokens
    <3>2. z.is \in {"char", "escaped", "open", "close"}
        BY <3>1, InlineFacts
    <3>3. QED BY <3>1, <3>2
  <2>2. CASE t.type = "tag"
    <3>1. h = <<z>>
        BY <2>2 DEF HtmlOf
    <3> HIDE DEF z, h
    <3>2. h \in Seq(Inline)
        BY <2>1, <3>1
    <3>3. QED BY <3>2 DEF h
  <2>3. CASE t.type = "text"
    <3>1. h = <<x>>
        BY <2>3 DEF HtmlOf
    <3>2. z \in Text
        BY <2>1, <2>3, InlineFacts
    <3>3. x \in Inline
        BY <3>2 DEF Text, Char, Inline
    <3> HIDE DEF x, h
    <3>4. h \in Seq(Inline)
        BY <3>1, <3>3
    <3>5. QED BY <3>4 DEF h
  <2>4. CASE t.type = "delim"
    <3> DEFINE m == t.len
    <3>1. h = [k \in 1..m |-> z]
        BY <2>4 DEF HtmlOf
    <3>2. m \in Nat
        BY <2>1
    <3> HIDE DEF z, h, m
    <3>3. h \in Seq(Inline)
        BY <2>1, <3>1, <3>2
    <3>4. QED BY <3>3 DEF h
  <2>5. QED BY <2>1, <2>2, <2>3, <2>4
<1>3. ss \in Seq(Seq(Inline))
  <2>1. \A k \in 1..n : HtmlOf(tokens[k]) \in Seq(Inline)
    BY <1>1, <1>2
  <2>2. ss = [k \in 1..n |-> HtmlOf(tokens[k])]
    BY <1>1
  <2> HIDE DEF ss, n
  <2>3. QED BY <1>1, <2>1, <2>2
<1>4. Rendered = FlattenSeq(ss)
    BY DEF Rendered
<1> HIDE DEF ss
<1>5. FlattenSeq(ss) \in Seq(Inline)
    BY <1>3, FlatTyped
<1>6. QED BY <1>4, <1>5

\* The rendering goes on in its types.
LEMMA RenderKeeps ==
    ASSUME EmphasisInv, Pair \/ Skip
    PROVE  EmphasisInv'
<1> DEFINE ts == tokens
           us == tokens'
           c == closer
           d == closer'
<1>1. /\ source \in Seq(Inline) /\ source' = source
      /\ ts \in Seq(TokensOf(Inline)) /\ c \in 1..(Len(ts) + 1)
    BY DEF EmphasisInv, Pair, Skip
<1>2. us \in Seq(TokensOf(Inline)) /\ d \in 1..(Len(us) + 1)
  <2>1. CASE Pair
    <3>1. PICK o, num, tag, p, q : Paired(ts, c, us, d, o, num, tag, p, q)
        BY <2>1, PairFacts
    <3> HIDE DEF ts, us, c, d
    <3>2. /\ us \in Seq(TokensOf(Inline)) /\ p \in {1, 2} /\ q \in {1, 2} /\ Len(ts) \in Nat /\ c \in 1..Len(ts)
          /\ Len(us) = (Len(ts) + p + q) - 2 /\ d = (c + p + q) - 2
        BY <1>1, <3>1, PairedFacts
    <3>3. QED BY <3>2
  <2>2. CASE Skip
    <3>1. c <= Len(ts) /\ d = c + 1 /\ us \in Seq(TokensOf(Inline)) /\ Len(us) = Len(ts)
        BY <2>2, SkipFacts
    <3> HIDE DEF ts, us, c, d
    <3>2. d \in 1..(Len(us) + 1)
        BY <1>1, <3>1
    <3>3. QED BY <3>1, <3>2
  <2>3. QED BY <2>1, <2>2
<1>3. QED BY <1>1, <1>2 DEF EmphasisInv

\* The line is cut into tokens again.
LEMMA CutTyped ==
    ASSUME NEW line \in Seq(Inline)
    PROVE  tokenize_inline(line) \in Seq(TokensOf(Inline))
<1>1. PICK f \in [0..Len(line) -> Seq(TokensOf(Inline))] : f[Len(line)] = tokenize_inline(line)
    BY TokenFacts
<1>2. Len(line) \in 0..Len(line)
    OBVIOUS
<1>3. QED BY <1>1, <1>2

\* What comes of a line that was typed has no tag but the three of emphasis; the
\* browser leaves any.
RoundInv ==
    /\ EmphasisInv
    /\ trip = <<>> => FragmentInv(Symbols)
    /\ trip # <<>> => FragmentInv(Inline)
    /\ phase \in Phases
    /\ trip \in Seq(Seq(Symbols))
    /\ phase = "render" => trip # <<>>

LEMMA RoundInit == Init => RoundInv
<1>1. SUFFICES ASSUME Init PROVE RoundInv
    OBVIOUS
<1>2. closer = 1 /\ pos = 1 /\ nodes = <<>> /\ curr = 0 /\ walk = <<Root>> /\ ctx = NoContext
    BY <1>1 DEF Init
<1>3. CASE Typed
  <2> DEFINE line == source
  <2>1. /\ line \in Seq(Text) /\ tokens = tokenize_inline(line) /\ phase = "render"
        /\ trip = <<line>> /\ html = <<>>
    BY <1>3, InputsAssumption DEF Typed
  <2> HIDE DEF line
  <2>2. line \in Seq(Inline) /\ tokenize_inline(line) \in Seq(TokensOf(Inline))
    BY <2>1, CutFirst
  <2>3. EmphasisInv
    BY <1>2, <2>1, <2>2 DEF EmphasisInv, line
  <2>4. trip # <<>> /\ trip \in Seq(Seq(Symbols))
    <3>1. line \in Seq(Symbols)
        BY <2>2, InlineFacts
    <3>2. QED BY <2>1, <3>1
  <2>5. Inline \in Alphabets /\ html \in Seq(Inline)
    BY <2>1 DEF Alphabets
  <2>6. FragmentInv(Inline)
    BY <1>2, <2>5, FragmentStarts
  <2>7. QED BY <2>1, <2>3, <2>4, <2>6 DEF RoundInv, Phases
<1>4. CASE Edited
  <2>1. source = <<>> /\ tokens = <<>> /\ html \in Seq(Markup) /\ phase = "serialize" /\ trip = <<>>
    BY <1>4, InputsAssumption DEF Edited
  <2>2. EmphasisInv
    BY <1>2, <2>1 DEF EmphasisInv
  <2>3. Symbols \in Alphabets /\ html \in Seq(Symbols)
    <3>1. Markup \subseteq Symbols
        BY DEF Markup, Symbols
    <3>2. QED BY <2>1, <3>1 DEF Alphabets
  <2>4. FragmentInv(Symbols)
    BY <1>2, <2>3, FragmentStarts
  <2>5. trip \in Seq(Seq(Symbols))
    BY <2>1
  <2>6. QED BY <2>1, <2>2, <2>4, <2>5 DEF RoundInv, Phases
<1>5. QED BY <1>1, <1>3, <1>4 DEF Init

\* Nothing but the serializer changes the fragment.
LEMMA FragmentStays ==
    ASSUME NEW A, FragmentInv(A), UNCHANGED fragment
    PROVE  FragmentInv(A)'
<1>1. html' = html /\ pos' = pos /\ nodes' = nodes /\ curr' = curr /\ walk' = walk /\ ctx' = ctx
    BY DEF fragment
<1>2. /\ html \in Seq(A) /\ pos \in 1..(Len(html) + 1) /\ nodes \in Seq(NodesIn(A)) /\ Older
      /\ curr \in 0..Len(nodes) /\ Walks(A, nodes, walk, ctx) /\ (Parsing => walk = <<Root>>)
    BY DEF FragmentInv
<1>3. Older' /\ (Parsing => walk = <<Root>>)'
    BY <1>1, <1>2 DEF Older, Parsing
<1>4. Walks(A, nodes', walk', ctx')
    BY <1>1, <1>2
<1>5. QED BY <1>1, <1>2, <1>3, <1>4 DEF FragmentInv

LEMMA RoundStep == RoundInv /\ [Next]_vars => RoundInv'
<1>1. SUFFICES ASSUME RoundInv, [Next]_vars PROVE RoundInv'
    OBVIOUS
<1>2. /\ EmphasisInv
      /\ trip = <<>> => FragmentInv(Symbols)
      /\ trip # <<>> => FragmentInv(Inline)
      /\ phase \in Phases
      /\ trip \in Seq(Seq(Symbols))
      /\ phase = "render" => trip # <<>>
    BY <1>1 DEF RoundInv
<1>3. Inline \in Alphabets /\ Symbols \in Alphabets
    BY DEF Alphabets
<1>4. CASE Render
  <2>1. (Pair \/ Skip) /\ UNCHANGED fragment /\ phase' = phase /\ trip' = trip
    BY <1>4 DEF Render
  <2>2. EmphasisInv'
    BY <1>2, <2>1, RenderKeeps
  <2>3. /\ trip = <<>> => FragmentInv(Symbols)'
        /\ trip # <<>> => FragmentInv(Inline)'
    BY <1>2, <2>1, FragmentStays
  <2>4. QED BY <1>2, <2>1, <2>2, <2>3 DEF RoundInv
<1>5. CASE ShowPreview
  <2> DEFINE r == Rendered
             t == trip
  <2>1. phase = "render" /\ trip' = Append(t, r) /\ UNCHANGED emphasis
    BY <1>5 DEF ShowPreview
  <2>2. r \in Seq(Inline)
    BY <1>2, RenderedTyped DEF EmphasisInv
  <2>3. r \in Seq(Symbols)
    <3> HIDE DEF r
    <3>1. QED BY <2>2, InlineFacts
  <2>4. trip' \in Seq(Seq(Symbols)) /\ trip' # <<>>
    <3>1. t \in Seq(Seq(Symbols))
        BY <1>2
    <3> HIDE DEF r, t
    <3>2. QED BY <2>1, <2>3, <3>1
  <2>5. EmphasisInv'
    BY <1>2, <2>1 DEF EmphasisInv, emphasis
  <2>6. phase' \in Phases /\ FragmentInv(Inline)'
    <3>1. CASE FirstRendering
        <4>1. /\ html' = r /\ pos' = 1 /\ nodes' = <<>> /\ curr' = 0 /\ walk' = <<Root>> /\ ctx' = NoContext
              /\ phase' = "serialize"
            BY <1>5, <3>1 DEF ShowPreview, html_to_md
        <4> HIDE DEF r
        <4>2. 1 \in 1..(Len(r) + 1)
            BY <2>2
        <4>3. <<>> \in Seq(NodesIn(Inline)) /\ Len(<<>>) = 0 /\ 0 \in 0..0
            OBVIOUS
        <4>4. Older'
            BY <4>1, <4>3 DEF Older
        <4>5. Walks(Inline, <<>>, <<Root>>, NoContext)
            BY <1>3, RootWalks
        <4>6. FragmentInv(Inline)'
            BY <2>2, <4>1, <4>2, <4>3, <4>4, <4>5 DEF FragmentInv
        <4>7. QED BY <4>1, <4>6 DEF Phases
    <3>2. CASE ~FirstRendering
        <4>1. phase' = "end" /\ UNCHANGED fragment
            BY <1>5, <3>2 DEF ShowPreview
        <4>2. FragmentInv(Inline)'
            BY <1>2, <2>1, <4>1, FragmentStays
        <4>3. QED BY <4>1, <4>2 DEF Phases
    <3>3. QED BY <3>1, <3>2
  <2>7. QED BY <2>4, <2>5, <2>6 DEF RoundInv
<1>6. CASE Serialize
  <2>1. (Parse \/ Walk) /\ UNCHANGED emphasis /\ phase' = phase /\ trip' = trip
    BY <1>6 DEF Serialize
  <2>2. EmphasisInv'
    BY <1>2, <2>1 DEF EmphasisInv, emphasis
  <2>3. ASSUME NEW A \in Alphabets, FragmentInv(A) PROVE FragmentInv(A)'
    BY <2>1, <2>3, ParseKeeps, WalkKeeps
  <2>4. /\ trip = <<>> => FragmentInv(Symbols)'
        /\ trip # <<>> => FragmentInv(Inline)'
    BY <1>2, <1>3, <2>3
  <2>5. QED BY <1>2, <2>1, <2>2, <2>4 DEF RoundInv
<1>7. CASE ShowSource
  <2>1. phase = "serialize" /\ UNCHANGED fragment /\ trip' = trip
    BY <1>7 DEF ShowSource
  <2>2. /\ trip = <<>> => FragmentInv(Symbols)'
        /\ trip # <<>> => FragmentInv(Inline)'
    BY <1>2, <2>1, FragmentStays
  <2>3. CASE trip = <<>>
    <3>1. phase' = "end" /\ UNCHANGED emphasis
        BY <1>7, <2>3 DEF ShowSource
    <3>2. EmphasisInv'
        BY <1>2, <3>1 DEF EmphasisInv, emphasis
    <3>3. QED BY <1>2, <2>1, <2>2, <3>1, <3>2 DEF RoundInv, Phases
  <2>4. CASE trip # <<>>
    <3> DEFINE line == Markdown
    <3>1. source' = line /\ tokens' = tokenize_inline(line) /\ closer' = 1 /\ phase' = "render"
        BY <1>7, <2>4 DEF ShowSource, md_to_html
    <3>2. line \in Seq(Inline)
        <4>1. Len(walk) \in Nat /\ Len(walk) >= 1 /\ \A k \in 1..Len(walk) : walk[k] \in FramesOver(Inline, nodes)
            BY <1>2, <1>3, <2>4, WalkFacts
        <4>2. walk[1] \in FramesOver(Inline, nodes)
            BY <4>1
        <4>3. QED BY <4>2 DEF FramesOver, Markdown
    <3> HIDE DEF line
    <3>3. tokenize_inline(line) \in Seq(TokensOf(Inline))
        BY <3>2, CutTyped
    <3>4. 1 \in 1..(Len(tokens') + 1)
        <4> DEFINE us == tokens'
        <4>1. us \in Seq(TokensOf(Inline))
            BY <3>1, <3>3
        <4> HIDE DEF us
        <4>2. 1 \in 1..(Len(us) + 1)
            BY <4>1
        <4>3. QED BY <4>2 DEF us
    <3>5. EmphasisInv'
        BY <3>1, <3>2, <3>3, <3>4 DEF EmphasisInv
    <3>6. QED BY <1>2, <2>1, <2>2, <2>4, <3>1, <3>5 DEF RoundInv, Phases
  <2>5. QED BY <2>3, <2>4
<1>8. CASE UNCHANGED vars
  <2>1. UNCHANGED emphasis /\ UNCHANGED fragment /\ phase' = phase /\ trip' = trip
    BY <1>8 DEF vars
  <2>2. EmphasisInv'
    BY <1>2, <2>1 DEF EmphasisInv, emphasis
  <2>3. /\ trip = <<>> => FragmentInv(Symbols)'
        /\ trip # <<>> => FragmentInv(Inline)'
    BY <1>2, <2>1, FragmentStays
  <2>4. QED BY <1>2, <2>1, <2>2, <2>3 DEF RoundInv
<1>9. QED BY <1>1, <1>4, <1>5, <1>6, <1>7, <1>8 DEF Next, Step, Ended

\* Whatever line is typed and whatever the browser leaves of a preview, the two
\* converters stay in their types: the context of the walk counts below zero at
\* no element, and what is put back at its end is what was there at its start.
THEOREM RoundTripTyped == Spec => []TypeOK
<1>1. RoundInv => TypeOK
  <2>1. SUFFICES ASSUME RoundInv PROVE TypeOK
    OBVIOUS
  <2>2. EmphasisInv /\ phase \in Phases /\ trip \in Seq(Seq(Symbols))
    BY <2>1 DEF RoundInv
  <2>3. EmphasisTypeOK
    <3>1. Inline \subseteq Symbols /\ TokensOf(Inline) \subseteq Tokens
        BY InlineFacts DEF TokensOf
    <3>2. QED BY <2>2, <3>1 DEF EmphasisInv, EmphasisTypeOK
  <2>4. ASSUME NEW A \in Alphabets, FragmentInv(A) PROVE FragmentTypeOK
    <3>1. A \subseteq Symbols /\ NodesIn(A) \subseteq Nodes /\ FramesOver(A, nodes) \subseteq Frames
        BY AlphabetFacts DEF NodesIn, FramesOver
    <3>2. /\ html \in Seq(A) /\ pos \in 1..(Len(html) + 1) /\ nodes \in Seq(NodesIn(A))
          /\ curr \in 0..Len(nodes)
        BY <2>4 DEF FragmentInv
    <3>3. walk \in Seq(FramesOver(A, nodes)) /\ ctx \in Contexts
        BY <2>4, WalkFacts
    <3>4. html \in Seq(Symbols) /\ nodes \in Seq(Nodes) /\ walk \in Seq(Frames)
        BY <3>1, <3>2, <3>3
    <3>5. QED BY <3>2, <3>3, <3>4 DEF FragmentTypeOK
  <2>5. FragmentTypeOK
    BY <2>1, <2>4 DEF RoundInv, Alphabets
  <2>6. QED BY <2>2, <2>3, <2>5 DEF TypeOK
<1>2. QED BY <1>1, RoundInit, RoundStep, PTL DEF Spec

=============================================================================
