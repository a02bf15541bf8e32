--------------------------- MODULE SequenceLemmas ---------------------------
(***************************************************************************)
(* Facts about sequences and sets of numbers that several proofs need.     *)
(***************************************************************************)
EXTENDS Integers, Sequences, FiniteSets, SequencesExt, TLAPS, WellFoundedInduction,
        FiniteSetTheorems

\* A sequence and its elements.
LEMMA SeqFacts ==
    ASSUME NEW S, NEW s \in Seq(S)
    PROVE  /\ Len(s) \in Nat /\ DOMAIN s = 1..Len(s)
           /\ \A k \in 1..Len(s) : s[k] \in S
OBVIOUS

\* One more line; two texts, one behind the other.
LEMMA Appending ==
    ASSUME NEW S, NEW s \in Seq(S), NEW l \in S
    PROVE  /\ Append(s, l) \in Seq(S) /\ Len(Append(s, l)) = Len(s) + 1
           /\ Append(s, l)[Len(s) + 1] = l
           /\ \A k \in 1..Len(s) : Append(s, l)[k] = s[k]
OBVIOUS

LEMMA Joining ==
    ASSUME NEW S, NEW s \in Seq(S), NEW t \in Seq(S)
    PROVE  /\ s \o t \in Seq(S) /\ Len(s \o t) = Len(s) + Len(t)
           /\ \A k \in 1..Len(s) : (s \o t)[k] = s[k]
           /\ \A k \in 1..Len(t) : (s \o t)[Len(s) + k] = t[k]
OBVIOUS

\* One element in front.
LEMMA Leading ==
    ASSUME NEW S, NEW x \in S, NEW s \in Seq(S)
    PROVE  /\ <<x>> \o s \in Seq(S) /\ Len(<<x>> \o s) = Len(s) + 1
           /\ (<<x>> \o s)[1] = x
           /\ \A k \in 1..Len(s) : (<<x>> \o s)[k + 1] = s[k]
<1> DEFINE one == <<x>>
<1>1. one \in Seq(S) /\ Len(one) = 1 /\ one[1] = x
    OBVIOUS
<1> HIDE DEF one
<1>2. /\ one \o s \in Seq(S) /\ Len(one \o s) = Len(one) + Len(s)
      /\ \A k \in 1..Len(one) : (one \o s)[k] = one[k]
      /\ \A k \in 1..Len(s) : (one \o s)[Len(one) + k] = s[k]
    BY <1>1, Joining
<1>3. /\ one \o s \in Seq(S) /\ Len(one \o s) = Len(s) + 1
      /\ (one \o s)[1] = x
      /\ \A k \in 1..Len(s) : (one \o s)[k + 1] = s[k]
    BY <1>1, <1>2
<1>4. QED BY <1>3 DEF one

\* Five texts, one behind the other, are each where those in front of it end.
Five(t, S, a, b, c, d, e) ==
    LET i == Len(a) + Len(b)
        j == i + Len(c)
        l == j + Len(d)
    IN  /\ t \in Seq(S) /\ Len(t) = l + Len(e)
        /\ \A k \in 1..Len(a) : t[k] = a[k]
        /\ \A k \in 1..Len(b) : t[Len(a) + k] = b[k]
        /\ \A k \in 1..Len(c) : t[i + k] = c[k]
        /\ \A k \in 1..Len(d) : t[j + k] = d[k]
        /\ \A k \in 1..Len(e) : t[l + k] = e[k]

LEMMA JoiningFive ==
    ASSUME NEW S, NEW a \in Seq(S), NEW b \in Seq(S), NEW c \in Seq(S), NEW d \in Seq(S), NEW e \in Seq(S)
    PROVE  Five(a \o b \o c \o d \o e, S, a, b, c, d, e)
<1> DEFINE p == a \o b
           q == p \o c
           r == q \o d
           t == r \o e
           i == Len(a) + Len(b)
           j == i + Len(c)
           l == j + Len(d)
<1>1. Len(a) \in Nat /\ Len(b) \in Nat /\ Len(c) \in Nat /\ Len(d) \in Nat /\ Len(e) \in Nat
    OBVIOUS
<1>2. /\ p \in Seq(S) /\ Len(p) = i
      /\ \A k \in 1..Len(a) : p[k] = a[k]
      /\ \A k \in 1..Len(b) : p[Len(a) + k] = b[k]
    BY Joining
<1> HIDE DEF p
<1>3. /\ q \in Seq(S) /\ Len(q) = Len(p) + Len(c)
      /\ \A k \in 1..Len(p) : q[k] = p[k]
      /\ \A k \in 1..Len(c) : q[Len(p) + k] = c[k]
  <2>1. p \in Seq(S) /\ c \in Seq(S)
    BY <1>2
  <2>2. QED BY <2>1, Joining
<1> HIDE DEF q
<1>4. /\ r \in Seq(S) /\ Len(r) = Len(q) + Len(d)
      /\ \A k \in 1..Len(q) : r[k] = q[k]
      /\ \A k \in 1..Len(d) : r[Len(q) + k] = d[k]
  <2>1. q \in Seq(S) /\ d \in Seq(S)
    BY <1>3
  <2>2. QED BY <2>1, Joining
<1> HIDE DEF r
<1>5. /\ t \in Seq(S) /\ Len(t) = Len(r) + Len(e)
      /\ \A k \in 1..Len(r) : t[k] = r[k]
      /\ \A k \in 1..Len(e) : t[Len(r) + k] = e[k]
  <2>1. r \in Seq(S) /\ e \in Seq(S)
    BY <1>4
  <2>2. QED BY <2>1, Joining
<1> HIDE DEF t
<1>6. Len(p) = i /\ Len(q) = j /\ Len(r) = l /\ i \in Nat /\ j \in Nat /\ l \in Nat
    BY <1>1, <1>2, <1>3, <1>4
<1>7. /\ \A k \in 1..Len(a) : k \in 1..i /\ k \in 1..j /\ k \in 1..l
      /\ \A k \in 1..Len(b) : Len(a) + k \in 1..i /\ Len(a) + k \in 1..j /\ Len(a) + k \in 1..l
      /\ \A k \in 1..Len(c) : i + k \in 1..j /\ i + k \in 1..l
      /\ \A k \in 1..Len(d) : j + k \in 1..l
    BY <1>1
<1> HIDE DEF i, j, l
<1>8. \A k \in 1..Len(a) : t[k] = a[k]
    BY <1>2, <1>3, <1>4, <1>5, <1>6, <1>7
<1>9. \A k \in 1..Len(b) : t[Len(a) + k] = b[k]
    BY <1>2, <1>3, <1>4, <1>5, <1>6, <1>7
<1>10. \A k \in 1..Len(c) : t[i + k] = c[k]
    BY <1>3, <1>4, <1>5, <1>6, <1>7
<1>11. \A k \in 1..Len(d) : t[j + k] = d[k]
    BY <1>4, <1>5, <1>6, <1>7
<1>12. /\ t \in Seq(S) /\ Len(t) = l + Len(e)
       /\ \A k \in 1..Len(e) : t[l + k] = e[k]
    BY <1>5, <1>6
<1>13. Five(t, S, a, b, c, d, e)
    BY <1>8, <1>9, <1>10, <1>11, <1>12 DEF Five, i, j, l
<1>14. QED BY <1>13 DEF t, r, q, p


\* The last element may be replaced in place or by a new sequence.
LEMMA LastReplaced ==
    ASSUME NEW S, NEW s \in Seq(S), s # <<>>, NEW x \in S
    PROVE  LET m == Len(s)
               a == [s EXCEPT ![m] = x]
               b == Append(SubSeq(s, 1, m - 1), x)
           IN  /\ a \in Seq(S) /\ Len(a) = Len(b) /\ a # <<>>
               /\ \A k \in 1..Len(b) : a[k] = b[k]
<1> DEFINE m == Len(s)
           a == [s EXCEPT ![m] = x]
           f == SubSeq(s, 1, m - 1)
           b == Append(f, x)
<1>1. m \in Nat /\ m # 0 /\ DOMAIN s = 1..m /\ \A k \in 1..m : s[k] \in S
    BY SeqFacts
<1>2. a \in Seq(S) /\ Len(a) = m /\ a[m] = x /\ \A k \in 1..(m - 1) : a[k] = s[k]
  <2> DEFINE F(k) == IF k = m THEN x ELSE s[k]
  <2>1. a = [k \in 1..m |-> F(k)]
    BY <1>1
  <2>2. \A k \in 1..m : F(k) \in S
    BY <1>1
  <2>a. m \in Nat
    BY <1>1
  <2> HIDE DEF a, m
  <2>3. F(m) = x /\ \A k \in 1..(m - 1) : F(k) = s[k]
    BY <2>a
  <2> HIDE DEF F
  <2>4. a \in Seq(S) /\ Len(a) = m /\ \A k \in 1..m : a[k] = F(k)
    BY <1>1, <2>1, <2>2
  <2>5. m \in 1..m /\ \A k \in 1..(m - 1) : k \in 1..m
    BY <1>1
  <2>6. QED BY <2>3, <2>4, <2>5
<1>3. f \in Seq(S) /\ Len(f) = m - 1 /\ \A k \in 1..(m - 1) : f[k] = s[k]
    BY <1>1
<1> HIDE DEF f, a
<1>4. /\ Len(b) = Len(f) + 1 /\ b[Len(f) + 1] = x
      /\ \A k \in 1..Len(f) : b[k] = f[k]
    BY <1>3, Appending
<1> HIDE DEF b, m
<1>5. Len(b) = m /\ b[m] = x /\ \A k \in 1..(m - 1) : b[k] = s[k]
    BY <1>1, <1>3, <1>4
<1>6. \A k \in 1..m : k \in 1..(m - 1) \/ k = m
    BY <1>1
<1>7. a # <<>>
    BY <1>1, <1>2
<1>8. /\ a \in Seq(S) /\ Len(a) = Len(b) /\ a # <<>>
      /\ \A k \in 1..Len(b) : a[k] = b[k]
    BY <1>2, <1>5, <1>6, <1>7
<1>9. QED BY <1>8, Zenon DEF a, b, f, m

-----------------------------------------------------------------------------
\* A set of numbers has a least element.
LEMMA LeastOf ==
    ASSUME NEW S \in SUBSET Nat, S # {}
    PROVE  \E m \in S : \A n \in S : m <= n
<1>1. PICK m \in S : \A n \in S : ~(<<n, m>> \in OpToRel(<, Nat))
    BY NatLessThanWellFounded, WFMin
<1>2. \A n \in S : n < m => <<n, m>> \in OpToRel(<, Nat)
    BY DEF OpToRel
<1>3. \A n \in S : ~(n < m)
    BY <1>1, <1>2, Zenon
<1>4. \A n \in S : m <= n
    BY <1>3
<1>5. QED BY <1>4

\* Min picks it.
LEMMA MinIsLeast ==
    ASSUME NEW S \in SUBSET Nat, S # {}
    PROVE  Min(S) \in S /\ \A n \in S : Min(S) <= n
BY LeastOf DEF Min

\* A bounded set has a greatest element, which Max picks.
LEMMA MaxIsGreatest ==
    ASSUME NEW top \in Nat, NEW S \in SUBSET (0..top), S # {}
    PROVE  Max(S) \in S /\ \A n \in S : n <= Max(S)
<1> DEFINE T == {top - n : n \in S}
<1>1. T \in SUBSET Nat /\ T # {}
  <2>1. \A n \in S : top - n \in Nat
    OBVIOUS
  <2>2. QED BY <2>1
<1>2. Min(T) \in T /\ \A n \in T : Min(T) <= n
    <2> HIDE DEF T
    <2> QED BY <1>1, MinIsLeast
<1>3. PICK m \in S : Min(T) = top - m
    BY <1>2
<1>4. ASSUME NEW n \in S PROVE n <= m
  <2>1. top - n \in T
    OBVIOUS
  <2>2. Min(T) <= top - n
    BY <1>2, <2>1
  <2> HIDE DEF T
  <2>3. QED BY <1>3, <1>4, <2>2
<1>5. QED BY <1>4 DEF Max

-----------------------------------------------------------------------------
\* What holds at 0, and at each number if it does at the one before.
LEMMA Induction ==
    ASSUME NEW n \in Nat, NEW S, 0 \in S, \A k \in 1..n : k - 1 \in S => k \in S
    PROVE  \A k \in 0..n : k \in S
<1> DEFINE R == {k \in 0..n : k \notin S}
<1>1. SUFFICES ASSUME R # {} PROVE FALSE
    OBVIOUS
<1>2. R \in SUBSET Nat
    OBVIOUS
<1>3. \A k \in R : k \in 1..n
    OBVIOUS
<1>4. \A k \in 1..n : k \in R => k - 1 \in R
    OBVIOUS
<1> HIDE DEF R
<1>5. PICK m \in R : \A k \in R : m <= k
    BY <1>1, <1>2, LeastOf
<1>6. QED BY <1>3, <1>4, <1>5

Recurs(f, n, base, step) == f[0] = base /\ \A k \in 1..n : f[k] = step[k][f[k - 1]]

\* A function is defined by what it is at 0 and how each value follows from the one
\* before.
LEMMA Recursion ==
    ASSUME NEW n \in Nat, NEW T, NEW base \in T, NEW step \in [1..n -> [T -> T]]
    PROVE  \E f \in [0..n -> T] : Recurs(f, n, base, step)
<1> DEFINE Upto(m) == \E f \in [0..m -> T] : f[0] = base /\ \A k \in 1..m : f[k] = step[k][f[k - 1]]
           S == {m \in 0..n : ~Upto(m)}
<1>1. Upto(0)
  <2> DEFINE f == [k \in 0..0 |-> base]
  <2>1. f \in [0..0 -> T] /\ f[0] = base /\ \A k \in 1..0 : FALSE
    OBVIOUS
  <2> HIDE DEF f
  <2>2. QED BY <2>1
<1>2. ASSUME NEW m \in 1..n, Upto(m - 1) PROVE Upto(m)
  <2>1. PICK f \in [0..(m - 1) -> T] :
           f[0] = base /\ \A k \in 1..(m - 1) : f[k] = step[k][f[k - 1]]
    BY <1>2
  <2> DEFINE x == step[m][f[m - 1]]
             g == [k \in 0..m |-> IF k = m THEN x ELSE f[k]]
  <2>2. x \in T
    <3>1. f[m - 1] \in T
        BY <2>1
    <3>2. QED BY <3>1
  <2> HIDE DEF x
  <2>3. g \in [0..m -> T]
    BY <2>2
  <2>4. g[m] = x /\ \A k \in 0..(m - 1) : g[k] = f[k]
    OBVIOUS
  <2> HIDE DEF g
  <2>5. g[0] = base
    BY <2>1, <2>4
  <2>6. \A k \in 1..m : g[k] = step[k][g[k - 1]]
    <3>1. SUFFICES ASSUME NEW k \in 1..m PROVE g[k] = step[k][g[k - 1]]
        OBVIOUS
    <3>2. g[k - 1] = f[k - 1]
        BY <2>4
    <3>3. CASE k = m
        BY <2>4, <3>2, <3>3 DEF x
    <3>4. CASE k \in 1..(m - 1)
        BY <2>1, <2>4, <3>2, <3>4
    <3>5. QED BY <3>3, <3>4
  <2>7. QED BY <2>3, <2>5, <2>6
<1> HIDE DEF Upto
<1>3. S = {}
  <2>1. SUFFICES ASSUME S # {} PROVE FALSE
    OBVIOUS
  <2>a. S \in SUBSET Nat
    OBVIOUS
  <2> DEFINE R == S
  <2> HIDE DEF R
  <2>b. R \in SUBSET Nat /\ R # {}
    BY <2>1, <2>a DEF R
  <2>2. PICK m \in S : \A j \in S : m <= j
    BY <2>b, LeastOf DEF R
  <2>3. m \in 1..n
    BY <1>1
  <2>4. m - 1 \in 0..n /\ ~(m <= m - 1)
    BY <2>3
  <2>5. m - 1 \notin S
    BY <2>2, <2>4
  <2>6. Upto(m - 1)
    BY <2>4, <2>5
  <2>7. QED BY <1>2, <2>3, <2>6
<1>4. Upto(n)
    BY <1>3
<1>5. QED BY <1>4 DEF Upto, Recurs

\* Whatever is defined like this has its values there.
LEMMA RecursTyped ==
    ASSUME NEW n \in Nat, NEW T, NEW base \in T, NEW step \in [1..n -> [T -> T]], NEW f,
           Recurs(f, n, base, step)
    PROVE  \A k \in 0..n : f[k] \in T
<1> DEFINE S == {k \in 0..n : f[k] \in T}
<1>1. f[0] = base /\ \A k \in 1..n : f[k] = step[k][f[k - 1]]
    BY DEF Recurs
<1>2. 0 \in S
    BY <1>1
<1>3. ASSUME NEW k \in 1..n, f[k - 1] \in T PROVE f[k] \in T
  <2>1. step[k] \in [T -> T]
    OBVIOUS
  <2>2. QED BY <1>1, <1>3, <2>1
<1>4. \A k \in 1..n : k - 1 \in S => k \in S
    BY <1>3
<1> HIDE DEF S
<1>5. \A k \in 0..n : k \in S
    BY <1>2, <1>4, Induction
<1>6. QED BY <1>5 DEF S

\* A concatenation is built up of one sequence after the other.
LEMMA Flattening ==
    ASSUME NEW T, NEW ss \in Seq(Seq(T))
    PROVE  \E f \in [0..Len(ss) -> Seq(T)] :
               /\ f[0] = <<>> /\ f[Len(ss)] = FlattenSeq(ss)
               /\ \A k \in 1..Len(ss) : f[k] = f[k - 1] \o ss[k]
<1> DEFINE n == Len(ss)
           P(f) == f = [k \in 1..n |-> IF k = 1 THEN ss[k] ELSE f[k - 1] \o ss[k]]
<1>1. n \in Nat /\ \A k \in 1..n : ss[k] \in Seq(T)
    OBVIOUS
<1>2. PICK f \in [0..n -> Seq(T)] : f[0] = <<>> /\ \A k \in 1..n : f[k] = f[k - 1] \o ss[k]
  <2> DEFINE base == <<>>
             step == [k \in 1..n |-> [s \in Seq(T) |-> s \o ss[k]]]
  <2>1. base \in Seq(T) /\ step \in [1..n -> [Seq(T) -> Seq(T)]]
    BY <1>1
  <2>2. base = <<>> /\ \A k \in 1..n : \A s \in Seq(T) : step[k][s] = s \o ss[k]
    OBVIOUS
  <2> HIDE DEF step, base, n
  <2>3. PICK f \in [0..n -> Seq(T)] : Recurs(f, n, base, step)
    BY <1>1, <2>1, Recursion
  <2>4. f[0] = base /\ \A k \in 1..n : f[k] = step[k][f[k - 1]]
    BY <2>3 DEF Recurs
  <2>5. \A k \in 1..n : f[k - 1] \in Seq(T)
    BY <1>1, <2>3
  <2>6. f[0] = <<>> /\ \A k \in 1..n : f[k] = f[k - 1] \o ss[k]
    BY <2>2, <2>4, <2>5
  <2>7. QED BY <2>3, <2>6
<1>a. ASSUME NEW k \in 1..n, k = 1 PROVE f[k] = ss[k]
  <2>1. k - 1 = 0
    BY <1>a
  <2>2. f[k] = <<>> \o ss[k]
    BY <1>2, <2>1
  <2>3. QED BY <1>1, <2>2
<1>3. CASE n = 0
  <2>1. FlattenSeq(ss) = ss
    BY <1>3 DEF FlattenSeq
  <2>2. ss = <<>>
    BY <1>3
  <2>3. QED BY <1>2, <1>3, <2>1, <2>2
<1>4. CASE n # 0
  <2> DEFINE g == [k \in 1..n |-> f[k]]
             h == CHOOSE c : P(c)
  <2>1. P(g)
    <3>1. SUFFICES ASSUME NEW k \in 1..n PROVE g[k] = IF k = 1 THEN ss[k] ELSE g[k - 1] \o ss[k]
        OBVIOUS
    <3>2. CASE k = 1
        BY <1>a, <3>2
    <3>3. CASE k # 1
      <4>1. k - 1 \in 1..n
        BY <1>1, <3>3
      <4>2. QED BY <1>2, <3>3, <4>1
    <3>4. QED BY <3>2, <3>3
  <2>2. FlattenSeq(ss) = h[n]
    BY <1>4 DEF FlattenSeq
  <2>3. P(h)
    BY <2>1
  <2> HIDE DEF h
  <2>4. \A k \in 1..n : h[k] = IF k = 1 THEN ss[k] ELSE h[k - 1] \o ss[k]
    BY <2>3
  <2> DEFINE S == {k \in 0..n : k # 0 => h[k] = f[k]}
  <2>5. \A k \in 1..n : k - 1 \in S => k \in S
    <3>1. SUFFICES ASSUME NEW k \in 1..n, k - 1 \in S PROVE h[k] = f[k]
        BY <1>1
    <3>2. CASE k = 1
        BY <1>a, <2>4, <3>2
    <3>3. CASE k # 1
      <4>1. h[k - 1] = f[k - 1]
        BY <3>1, <3>3
      <4>2. QED BY <1>2, <2>4, <3>3, <4>1
    <3>4. QED BY <3>2, <3>3
  <2>6. 0 \in S
    BY <1>1
  <2> HIDE DEF S
  <2>7. n \in S
    <3>1. \A k \in 0..n : k \in S
        BY <1>1, <2>5, <2>6, Induction
    <3>2. QED BY <1>1, <3>1
  <2>8. h[n] = f[n]
    BY <1>4, <2>7 DEF S
  <2>9. QED BY <1>2, <2>2, <2>8
<1>5. QED BY <1>3, <1>4

\* What it is built up to, it is: of sequences each of which keeps a set of texts.
LEMMA FlatIn ==
    ASSUME NEW T, NEW ss \in Seq(Seq(T)), NEW G \in SUBSET Seq(T), <<>> \in G,
           \A s \in G : \A k \in 1..Len(ss) : s \o ss[k] \in G
    PROVE  FlattenSeq(ss) \in G
<1> DEFINE n == Len(ss)
<1>1. PICK f \in [0..n -> Seq(T)] :
          f[0] = <<>> /\ f[n] = FlattenSeq(ss) /\ \A k \in 1..n : f[k] = f[k - 1] \o ss[k]
    BY Flattening
<1> DEFINE S == {k \in 0..n : f[k] \in G}
<1>2. n \in Nat /\ 0 \in S
    BY <1>1
<1>3. \A k \in 1..n : k - 1 \in S => k \in S
  <2>1. SUFFICES ASSUME NEW k \in 1..n, f[k - 1] \in G PROVE f[k] \in G
    OBVIOUS
  <2>2. f[k] = f[k - 1] \o ss[k]
    BY <1>1
  <2>3. QED BY <2>1, <2>2
<1> HIDE DEF S, n
<1>4. n \in S
  <2>1. \A k \in 0..n : k \in S
    BY <1>2, <1>3, Induction
  <2>2. QED BY <1>2, <2>1
<1>5. QED BY <1>1, <1>4 DEF S

\* A text that is put together from texts.
LEMMA FlatTyped ==
    ASSUME NEW T, NEW ss \in Seq(Seq(T))
    PROVE  FlattenSeq(ss) \in Seq(T)
<1> DEFINE G == Seq(T)
<1>1. G \in SUBSET Seq(T) /\ <<>> \in G
    OBVIOUS
<1>2. \A s \in G : \A k \in 1..Len(ss) : s \o ss[k] \in G
  <2>1. \A k \in 1..Len(ss) : ss[k] \in Seq(T)
    OBVIOUS
  <2>2. QED BY <2>1, Joining
<1> HIDE DEF G
<1>3. FlattenSeq(ss) \in G
    BY <1>1, <1>2, FlatIn
<1>4. QED BY <1>3 DEF G

\* One more piece, put behind the others.
LEMMA FlatAppend ==
    ASSUME NEW T, NEW ss \in Seq(Seq(T)), NEW x \in Seq(T)
    PROVE  FlattenSeq(Append(ss, x)) = FlattenSeq(ss) \o x
<1> DEFINE n == Len(ss)
           ts == Append(ss, x)
<1>1. n \in Nat /\ ts \in Seq(Seq(T)) /\ Len(ts) = n + 1 /\ ts[n + 1] = x /\ \A k \in 1..n : ts[k] = ss[k]
    BY Appending
<1>2. PICK f \in [0..n -> Seq(T)] :
          f[0] = <<>> /\ f[n] = FlattenSeq(ss) /\ \A k \in 1..n : f[k] = f[k - 1] \o ss[k]
    BY Flattening
<1> HIDE DEF ts
<1>3. PICK g \in [0..Len(ts) -> Seq(T)] :
          g[0] = <<>> /\ g[Len(ts)] = FlattenSeq(ts) /\ \A k \in 1..Len(ts) : g[k] = g[k - 1] \o ts[k]
    BY <1>1, Flattening
<1> HIDE DEF n
<1> DEFINE S == {k \in 0..n : g[k] = f[k]}
<1>4. \A k \in 0..n : k \in S
  <2>1. 0 \in S
    BY <1>1, <1>2, <1>3
  <2>2. \A k \in 1..n : k - 1 \in S => k \in S
    <3>1. \A k \in 1..n : k \in 1..Len(ts) /\ ts[k] = ss[k]
        BY <1>1
    <3>2. \A k \in 1..n : g[k] = g[k - 1] \o ss[k] /\ f[k] = f[k - 1] \o ss[k]
        BY <1>2, <1>3, <3>1
    <3>3. ASSUME NEW k \in 1..n, k - 1 \in S PROVE k \in S
        <4>1. g[k - 1] = f[k - 1]
            BY <3>3
        <4>2. g[k] = f[k]
            BY <3>2, <4>1
        <4>3. k \in 0..n
            BY <1>1
        <4>4. QED BY <4>2, <4>3
    <3>4. QED BY <3>3
  <2> HIDE DEF S
  <2>3. QED BY <1>1, <2>1, <2>2, Induction
<1>5. g[n] = f[n]
  <2>1. n \in 0..n
    BY <1>1
  <2>2. QED BY <1>4, <2>1
<1>6. g[n + 1] = g[n] \o x
  <2>1. n + 1 \in 1..Len(ts) /\ (n + 1) - 1 = n
    BY <1>1
  <2>2. g[n + 1] = g[(n + 1) - 1] \o ts[n + 1]
    BY <1>3, <2>1
  <2>3. QED BY <1>1, <2>1, <2>2
<1>7. QED BY <1>1, <1>2, <1>3, <1>5, <1>6 DEF ts

\* The beginning of a text grows by its next character.
LEMMA LongerPrefix ==
    ASSUME NEW S, NEW t \in Seq(S), NEW k \in 0..Len(t)
    PROVE  /\ SubSeq(t, 1, k) \in Seq(S) /\ Len(SubSeq(t, 1, k)) = k
           /\ \A m \in 1..k : SubSeq(t, 1, k)[m] = t[m]
           /\ k < Len(t) => SubSeq(t, 1, k + 1) = Append(SubSeq(t, 1, k), t[k + 1])
<1>1. Len(t) \in Nat /\ k \in Nat /\ k <= Len(t)
    OBVIOUS
<1>2. /\ SubSeq(t, 1, k) \in Seq(S) /\ Len(SubSeq(t, 1, k)) = k
      /\ \A m \in 1..k : SubSeq(t, 1, k)[m] = t[m]
    BY <1>1
<1>3. ASSUME k < Len(t) PROVE SubSeq(t, 1, k + 1) = Append(SubSeq(t, 1, k), t[k + 1])
  <2> DEFINE a == SubSeq(t, 1, k + 1)
             b == Append(SubSeq(t, 1, k), t[k + 1])
             n == k + 1
  <2>1. n \in Nat /\ n <= Len(t) /\ t[n] \in S
    BY <1>1, <1>3
  <2>2. a \in Seq(S) /\ Len(a) = n /\ \A m \in 1..n : a[m] = t[m]
    <3> HIDE DEF n
    <3>1. SubSeq(t, 1, n) \in Seq(S) /\ Len(SubSeq(t, 1, n)) = n /\ \A m \in 1..n : SubSeq(t, 1, n)[m] = t[m]
        BY <2>1
    <3>2. QED BY <3>1 DEF n
  <2>3. b \in Seq(S) /\ Len(b) = n /\ b[n] = t[n] /\ \A m \in 1..k : b[m] = t[m]
    BY <1>2, <2>1
  <2> HIDE DEF a, b, n
  <2>4. \A m \in 1..n : m = n \/ m \in 1..k
    BY <1>1 DEF n
  <2>5. \A m \in 1..n : a[m] = b[m]
    BY <2>2, <2>3, <2>4
  <2>6. a = b
    BY <2>1, <2>2, <2>3, <2>5
  <2>7. QED BY <2>6 DEF a, b, n
<1>4. QED BY <1>2, <1>3

LEMMA WholePrefix ==
    ASSUME NEW S, NEW t \in Seq(S)
    PROVE  SubSeq(t, 1, Len(t)) = t
OBVIOUS

\* What the first pieces of a text are together.
Upto(ss) == [k \in 0..Len(ss) |-> FlattenSeq(SubSeq(ss, 1, k))]

LEMMA UptoBuilt ==
    ASSUME NEW T, NEW ss \in Seq(Seq(T))
    PROVE  /\ Upto(ss) \in [0..Len(ss) -> Seq(T)]
           /\ Upto(ss)[0] = <<>> /\ Upto(ss)[Len(ss)] = FlattenSeq(ss)
           /\ \A k \in 1..Len(ss) : Upto(ss)[k] = Upto(ss)[k - 1] \o ss[k]
<1> DEFINE f == Upto(ss)
           n == Len(ss)
           Begin(k) == SubSeq(ss, 1, k)
           U == Seq(T)
<1>1. n \in Nat /\ f = [k \in 0..n |-> FlattenSeq(Begin(k))] /\ \A k \in 1..n : ss[k] \in U
    BY SeqFacts DEF Upto
<1>2. \A k \in 0..n : /\ Begin(k) \in Seq(U)
                      /\ k < n => Begin(k + 1) = Append(Begin(k), ss[k + 1])
    BY LongerPrefix
<1>3. Begin(0) = <<>> /\ Begin(n) = ss
    BY WholePrefix
<1> HIDE DEF n, f, Begin
<1>4. \A k \in 0..n : FlattenSeq(Begin(k)) \in U
    BY <1>2, FlatTyped DEF U
<1>5. f \in [0..n -> U]
    BY <1>1, <1>4
<1>6. f[n] = FlattenSeq(ss)
    BY <1>1, <1>3
<1>7. f[0] = <<>>
  <2>1. FlattenSeq(<<>>) = <<>>
    <3> DEFINE e == <<>>
    <3>1. e \in Seq(U) /\ Len(e) = 0
        OBVIOUS
    <3>2. PICK g \in [0..Len(e) -> U] : g[0] = <<>> /\ g[Len(e)] = FlattenSeq(e)
        BY <3>1, Flattening DEF U
    <3>3. QED BY <3>1, <3>2
  <2>2. QED BY <1>1, <1>3, <2>1
<1>8. ASSUME NEW k \in 1..n PROVE f[k] = f[k - 1] \o ss[k]
  <2> DEFINE j == k - 1
             h == Begin(j)
  <2>1. j \in 0..n /\ j < n /\ j + 1 = k /\ k \in 0..n
    BY <1>1
  <2> HIDE DEF j
  <2>2. Begin(k) = Append(h, ss[k]) /\ h \in Seq(U) /\ ss[k] \in U
    BY <1>1, <1>2, <2>1
  <2>3. FlattenSeq(Begin(k)) = FlattenSeq(h) \o ss[k]
    <3> HIDE DEF h
    <3>1. FlattenSeq(Append(h, ss[k])) = FlattenSeq(h) \o ss[k]
        BY <2>2, FlatAppend DEF U
    <3>2. QED BY <2>2, <3>1
  <2>4. f[k] = f[j] \o ss[k]
    BY <1>1, <2>1, <2>3
  <2>5. QED BY <2>4 DEF j
<1>9. QED BY <1>5, <1>6, <1>7, <1>8 DEF f, n, U
=============================================================================
