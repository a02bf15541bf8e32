---------------------------- MODULE BlocksProofs ----------------------------
(***************************************************************************)
(* The block parser of md_parser.c, for every document: lines are shown in *)
(* the order of the file, none twice, and none that has a text is lost     *)
(* without an error, however blocks are nested.                            *)
(***************************************************************************)
EXTENDS MdBlocks, SequenceLemmas

-----------------------------------------------------------------------------
(***************************************************************************)
(* Where the lines are.                                                    *)
(***************************************************************************)
\* The lines of the part of a document that is passed, n and what follows left out.
Rising(s)        == \A j, k \in 1..Len(s) : j < k => s[j].id < s[k].id
Ahead(s, t, n)   == \A j \in 1..Len(s) : \A k \in n..Len(t) : s[j].id < t[k].id
Passed(s, ls, n) == \A j \in 1..Len(s) : \E k \in 1..(n - 1) : s[j].id = ls[k].id
Has(s, n, w)     == \E k \in n..Len(s) : s[k].id = w[1] /\ s[k].leaf = w[2]

\* The parser at some place: what it has shown, the items and the lines of the block
\* at hand, the document from line n on, and the documents that follow.
Typed(shown, items, taken, ls, n, st) ==
    /\ shown \in Seq(Shown)
    /\ items \in Seq(Seq(Numbered)) /\ taken \in Seq(Numbered)
    /\ ls \in Seq(Numbered) /\ n \in 1..(Len(ls) + 1)
    /\ st \in Seq(Frames) /\ \A d \in 1..Len(st) : st[d].i \in 1..(Len(st[d].lines) + 1)

\* All of them are in the order of the file.
InOrder(shown, items, taken, ls, n, st) ==
    /\ Rising(shown) /\ Rising(taken) /\ Rising(ls)
    /\ \A j \in 1..Len(items) : Rising(items[j])
    /\ \A d \in 1..Len(st) : Rising(st[d].lines)
    /\ Passed(taken, ls, n)
    /\ \A j \in 1..Len(items) : Passed(items[j], ls, n) /\ Ahead(items[j], taken, 1)
    /\ \A j, k \in 1..Len(items) : j < k => Ahead(items[j], items[k], 1)
    /\ Ahead(shown, taken, 1) /\ Ahead(shown, ls, n)
    /\ \A j \in 1..Len(items) : Ahead(shown, items[j], 1)
    /\ \A d \in 1..Len(st) : Ahead(shown, st[d].lines, st[d].i) /\ Ahead(ls, st[d].lines, st[d].i)
    /\ \A d, e \in 1..Len(st) : d < e => Ahead(st[d].lines, st[e].lines, st[e].i)

\* Each of the lines wanted, a number and a leaf, is shown or on its way.
Complete(shown, items, taken, ls, n, st, want) ==
    \A w \in want :
        \/ Has(shown, 1, w) \/ Has(taken, 1, w) \/ Has(ls, n, w)
        \/ \E j \in 1..Len(items) : Has(items[j], 1, w)
        \/ \E d \in 1..Len(st) : Has(st[d].lines, st[d].i, w)

Sound(shown, items, taken, ls, n, st, want) ==
    /\ Typed(shown, items, taken, ls, n, st)
    /\ InOrder(shown, items, taken, ls, n, st)
    /\ Complete(shown, items, taken, ls, n, st, want)

\* The leaves that are shown as they are wherever they stand.
Lasting == Visible \cup {"def"}

\* The lines that the dispatch gets and is to show, unless there was an error.
Sent == parse_all_link_refs_from_lines(source)
Wanted ==
    IF error = 0 THEN {w \in (1..Len(source)) \X Lasting : Sent[w[1]].leaf = w[2]} ELSE {}

\* What the loops know of each other.
LoopInv ==
    /\ block.loop \in {"none", "done"} => block.taken = <<>>
    /\ block.loop \notin {"list", "item"} => block.items = <<>>
    /\ In("list") => block.taken = <<>>
    /\ In("list") /\ block.items = <<>> =>
          ~AtEnd /\ SameList(Line) /\ ~match_horizontal_rule(Line) /\ ~block.prev_blank
    /\ In("html") => ~AtEnd
    /\ In("fence") => lines # <<>>
    /\ In("done") => stack = <<>> /\ (error = 0 => AtEnd)

BlocksInv ==
    /\ source \in Seq(Numbered) /\ \A k \in 1..Len(source) : source[k].id = k
    /\ path \in Seq(Containers) /\ block \in Blocks /\ error \in Nat
    /\ LoopInv
    /\ Sound(html, block.items, block.taken, lines, i, stack, Wanted)

LEMMA HasMore ==
    ASSUME NEW s \in Seq(Numbered), NEW l \in Numbered, NEW w
    PROVE  Has(Append(s, l), 1, w) <=> Has(s, 1, w) \/ (l.id = w[1] /\ l.leaf = w[2])
<1> DEFINE t == Append(s, l)
<1>1. /\ Len(s) \in Nat /\ Len(t) = Len(s) + 1 /\ t[Len(s) + 1] = l
      /\ \A k \in 1..Len(s) : t[k] = s[k]
    BY SeqFacts, Appending
<1> HIDE DEF t
<1>2. \A k \in 1..Len(t) : k \in 1..Len(s) \/ k = Len(s) + 1
    BY <1>1
<1>3. ASSUME Has(s, 1, w) PROVE Has(t, 1, w)
  <2>1. PICK k \in 1..Len(s) : s[k].id = w[1] /\ s[k].leaf = w[2]
    BY <1>3 DEF Has
  <2>2. k \in 1..Len(t)
    BY <1>1
  <2>3. QED BY <1>1, <2>1, <2>2 DEF Has
<1>4. ASSUME l.id = w[1], l.leaf = w[2] PROVE Has(t, 1, w)
  <2>1. Len(s) + 1 \in 1..Len(t)
    BY <1>1
  <2>2. QED BY <1>1, <1>4, <2>1 DEF Has
<1>5. ASSUME Has(t, 1, w) PROVE Has(s, 1, w) \/ (l.id = w[1] /\ l.leaf = w[2])
    BY <1>1, <1>2, <1>5 DEF Has
<1>6. QED BY <1>3, <1>4, <1>5 DEF t

\* Fewer lines are wanted.
LEMMA WantLess ==
    ASSUME NEW h, NEW its, NEW tk, NEW ls, NEW n, NEW st, NEW want, NEW less \in SUBSET want,
           Sound(h, its, tk, ls, n, st, want)
    PROVE  Sound(h, its, tk, ls, n, st, less)
BY DEF Sound, Complete

\* The line at hand becomes part of the block, as it is or as a blank line, if it is
\* none of those that are to be shown.
LEMMA TakeSound ==
    ASSUME NEW h, NEW its, NEW tk, NEW ls, NEW n, NEW st, NEW want,
           \A w \in want : w[2] \in Lasting,
           Sound(h, its, tk, ls, n, st, want), n <= Len(ls),
           NEW l \in Numbered, l.id = ls[n].id, l.leaf = ls[n].leaf \/ ls[n].leaf \notin Lasting
    PROVE  Sound(h, its, Append(tk, l), ls, n + 1, st, want)
<1> DEFINE t == Append(tk, l)
           m == Len(tk)
<1>1. /\ tk \in Seq(Numbered) /\ ls \in Seq(Numbered) /\ its \in Seq(Seq(Numbered)) /\ h \in Seq(Shown)
      /\ n \in 1..(Len(ls) + 1)
    BY DEF Sound, Typed
<1>2. /\ m \in Nat /\ t \in Seq(Numbered) /\ Len(t) = m + 1 /\ t[m + 1] = l
      /\ \A k \in 1..m : t[k] = tk[k]
    BY <1>1, SeqFacts, Appending
<1>3. Len(ls) \in Nat /\ Len(its) \in Nat /\ Len(h) \in Nat
    BY <1>1, SeqFacts
<1>4. n \in 1..Len(ls) /\ n + 1 \in 1..(Len(ls) + 1) /\ n \in 1..((n + 1) - 1)
    BY <1>1, <1>3
<1>5. \A w : Has(t, 1, w) <=> Has(tk, 1, w) \/ (l.id = w[1] /\ l.leaf = w[2])
    BY <1>1, HasMore
<1> HIDE DEF t, m
<1>6. \A k \in 1..(m + 1) : k \in 1..m \/ k = m + 1
    BY <1>2
<1>7. Typed(h, its, t, ls, n + 1, st)
    BY <1>1, <1>2, <1>4 DEF Sound, Typed
<1>8. InOrder(h, its, t, ls, n + 1, st)
  <2> USE DEF Sound, InOrder
  <2>1. Rising(t)
    <3>1. SUFFICES ASSUME NEW j \in 1..(m + 1), NEW k \in 1..(m + 1), j < k PROVE t[j].id < t[k].id
        BY <1>2 DEF Rising
    <3>2. j \in 1..m
        BY <1>2, <3>1
    <3>3. CASE k \in 1..m
        BY <1>2, <3>1, <3>2, <3>3 DEF Rising, m
    <3>4. CASE k = m + 1
      <4>1. PICK e \in 1..(n - 1) : tk[j].id = ls[e].id
        BY <3>2 DEF Passed, m
      <4>2. e \in 1..Len(ls) /\ e < n
        BY <1>3, <1>4
      <4>3. ls[e].id < ls[n].id
        BY <1>4, <4>2 DEF Rising
      <4>4. QED BY <1>2, <3>2, <3>4, <4>1, <4>3
    <3>5. QED BY <1>6, <3>3, <3>4
  <2>2. Passed(t, ls, n + 1)
    <3>1. SUFFICES ASSUME NEW j \in 1..(m + 1) PROVE \E e \in 1..((n + 1) - 1) : t[j].id = ls[e].id
        BY <1>2 DEF Passed
    <3>2. CASE j \in 1..m
      <4>1. PICK e \in 1..(n - 1) : tk[j].id = ls[e].id
        BY <3>2 DEF Passed, m
      <4>2. e \in 1..((n + 1) - 1)
        BY <1>3, <1>4
      <4>3. QED BY <1>2, <3>2, <4>1, <4>2
    <3>3. CASE j = m + 1
        BY <1>2, <1>4, <3>3
    <3>4. QED BY <1>6, <3>2, <3>3
  <2>3. \A j \in 1..Len(its) : Passed(its[j], ls, n + 1)
    <3>1. 1..(n - 1) \subseteq 1..((n + 1) - 1)
        BY <1>3, <1>4
    <3>2. QED BY <3>1 DEF Passed
  <2>4. \A j \in 1..Len(its) : Ahead(its[j], t, 1)
    <3>1. SUFFICES ASSUME NEW j \in 1..Len(its), NEW a \in 1..Len(its[j]), NEW k \in 1..(m + 1)
                   PROVE  its[j][a].id < t[k].id
        BY <1>2 DEF Ahead
    <3>2. CASE k \in 1..m
        BY <1>2, <3>2 DEF Ahead, m
    <3>3. CASE k = m + 1
      <4>1. PICK e \in 1..(n - 1) : its[j][a].id = ls[e].id
        BY DEF Passed
      <4>2. e \in 1..Len(ls) /\ e < n
        BY <1>3, <1>4
      <4>3. ls[e].id < ls[n].id
        BY <1>4, <4>2 DEF Rising
      <4>4. QED BY <1>2, <3>3, <4>1, <4>3
    <3>4. QED BY <1>6, <3>2, <3>3
  <2>5. Ahead(h, t, 1)
    <3>1. SUFFICES ASSUME NEW a \in 1..Len(h), NEW k \in 1..(m + 1) PROVE h[a].id < t[k].id
        BY <1>2 DEF Ahead
    <3>2. CASE k \in 1..m
        BY <1>2, <3>2 DEF Ahead, m
    <3>3. CASE k = m + 1
      <4>1. n \in n..Len(ls)
        BY <1>3, <1>4
      <4>2. h[a].id < ls[n].id
        BY <4>1 DEF Ahead
      <4>3. QED BY <1>2, <3>3, <4>2
    <3>4. QED BY <1>6, <3>2, <3>3
  <2>6. Ahead(h, ls, n + 1)
    <3>1. (n + 1)..Len(ls) \subseteq n..Len(ls)
        BY <1>3, <1>4
    <3>2. QED BY <3>1 DEF Ahead
  <2>7. QED BY <2>1, <2>2, <2>3, <2>4, <2>5, <2>6
<1>9. Complete(h, its, t, ls, n + 1, st, want)
  <2>1. SUFFICES ASSUME NEW w \in want
                 PROVE  \/ Has(h, 1, w) \/ Has(t, 1, w) \/ Has(ls, n + 1, w)
                        \/ \E j \in 1..Len(its) : Has(its[j], 1, w)
                        \/ \E d \in 1..Len(st) : Has(st[d].lines, st[d].i, w)
    BY DEF Complete
  <2>2. CASE Has(ls, n, w)
    <3>1. PICK k \in n..Len(ls) : ls[k].id = w[1] /\ ls[k].leaf = w[2]
        BY <2>2 DEF Has
    <3>2. k = n \/ k \in (n + 1)..Len(ls)
        BY <1>3, <1>4
    <3>3. CASE k = n
        BY <1>5, <2>1, <3>1, <3>3
    <3>4. CASE k \in (n + 1)..Len(ls)
        BY <3>1, <3>4 DEF Has
    <3>5. QED BY <3>2, <3>3, <3>4
  <2>3. CASE ~Has(ls, n, w)
    BY <1>5, <2>1, <2>3 DEF Sound, Complete
  <2>4. QED BY <2>2, <2>3
<1>10. QED BY <1>7, <1>8, <1>9 DEF Sound, t

\* Lines are passed that need not be shown.
LEMMA SkipSound ==
    ASSUME NEW h, NEW its, NEW tk, NEW ls, NEW n, NEW st, NEW want,
           \A w \in want : w[2] \in Lasting,
           Sound(h, its, tk, ls, n, st, want),
           NEW m \in n..(Len(ls) + 1), \A k \in n..(m - 1) : ls[k].leaf \notin Lasting
    PROVE  Sound(h, its, tk, ls, m, st, want)
<1>1. ls \in Seq(Numbered) /\ n \in 1..(Len(ls) + 1) /\ Len(ls) \in Nat
    BY SeqFacts DEF Sound, Typed
<1>2. /\ m \in 1..(Len(ls) + 1) /\ 1..(n - 1) \subseteq 1..(m - 1) /\ m..Len(ls) \subseteq n..Len(ls)
      /\ \A k \in n..Len(ls) : k \in n..(m - 1) \/ k \in m..Len(ls)
    BY <1>1
<1>3. Typed(h, its, tk, ls, m, st)
    BY <1>2 DEF Sound, Typed
<1>4. InOrder(h, its, tk, ls, m, st)
  <2>1. \A s : Passed(s, ls, n) => Passed(s, ls, m)
    BY <1>2 DEF Passed
  <2>2. \A s : Ahead(s, ls, n) => Ahead(s, ls, m)
    BY <1>2 DEF Ahead
  <2>3. QED BY <2>1, <2>2 DEF Sound, InOrder
<1>5. Complete(h, its, tk, ls, m, st, want)
  <2>1. \A w \in want : Has(ls, n, w) => Has(ls, m, w)
    BY <1>2 DEF Has
  <2>2. QED BY <2>1 DEF Sound, Complete
<1>6. QED BY <1>3, <1>4, <1>5 DEF Sound

\* What the block has taken is shown.
ShownAs(ls, as, inside) ==
    [k \in DOMAIN ls |-> [id |-> ls[k].id, as |-> as, path |-> inside,
                          marks |-> ls[k].marks, leaf |-> ls[k].leaf]]

LEMMA ShownItems ==
    ASSUME NEW tk \in Seq(Numbered), NEW as \in Forms, NEW inside \in Seq(Containers)
    PROVE  LET t == ShownAs(tk, as, inside)
           IN  /\ t \in Seq(Shown) /\ Len(t) = Len(tk) /\ Len(tk) \in Nat
               /\ \A k \in 1..Len(tk) : /\ t[k].id = tk[k].id /\ t[k].leaf = tk[k].leaf
                                        /\ t[k].marks = tk[k].marks
                                        /\ t[k].as = as /\ t[k].path = inside
<1> DEFINE t == ShownAs(tk, as, inside)
           Item(k) == [id |-> tk[k].id, as |-> as, path |-> inside,
                       marks |-> tk[k].marks, leaf |-> tk[k].leaf]
<1>1. /\ Len(tk) \in Nat /\ DOMAIN tk = 1..Len(tk)
      /\ \A k \in 1..Len(tk) : tk[k] \in Numbered
    BY SeqFacts
<1>2. \A k \in 1..Len(tk) : Item(k) \in Shown
    BY <1>1 DEF Numbered, Shown
<1>3. t = [k \in 1..Len(tk) |-> Item(k)]
    BY <1>1 DEF ShownAs
<1>4. \A k \in 1..Len(tk) : /\ Item(k).id = tk[k].id /\ Item(k).leaf = tk[k].leaf
                            /\ Item(k).marks = tk[k].marks
                            /\ Item(k).as = as /\ Item(k).path = inside
    OBVIOUS
<1> HIDE DEF Item, t
<1>5. t \in Seq(Shown) /\ Len(t) = Len(tk) /\ \A k \in 1..Len(tk) : t[k] = Item(k)
    BY <1>1, <1>2, <1>3
<1>6. /\ t \in Seq(Shown) /\ Len(t) = Len(tk) /\ Len(tk) \in Nat
      /\ \A k \in 1..Len(tk) : /\ t[k].id = tk[k].id /\ t[k].leaf = tk[k].leaf
                               /\ t[k].marks = tk[k].marks
                               /\ t[k].as = as /\ t[k].path = inside
    BY <1>1, <1>4, <1>5
<1>7. QED BY <1>6 DEF t

LEMMA ShownLines ==
    ASSUME NEW h \in Seq(Shown), NEW tk \in Seq(Numbered), NEW as \in Forms, NEW inside \in Seq(Containers)
    PROVE  LET g == h \o ShownAs(tk, as, inside)
           IN  /\ g \in Seq(Shown) /\ Len(g) = Len(h) + Len(tk)
               /\ Len(h) \in Nat /\ Len(tk) \in Nat
               /\ \A k \in 1..Len(h) : g[k] = h[k]
               /\ \A k \in 1..Len(tk) : /\ g[Len(h) + k].id = tk[k].id
                                        /\ g[Len(h) + k].leaf = tk[k].leaf
<1> DEFINE t == ShownAs(tk, as, inside)
           g == h \o t
<1>1. Len(tk) \in Nat /\ Len(h) \in Nat
    BY SeqFacts
<1>3. /\ t \in Seq(Shown) /\ Len(t) = Len(tk)
      /\ \A k \in 1..Len(tk) : t[k].id = tk[k].id /\ t[k].leaf = tk[k].leaf
    BY ShownItems, ZenonT(60)
<1> HIDE DEF t
<1>4. /\ g \in Seq(Shown) /\ Len(g) = Len(h) + Len(t)
      /\ \A k \in 1..Len(h) : g[k] = h[k]
      /\ \A k \in 1..Len(t) : g[Len(h) + k] = t[k]
  <2>1. t \in Seq(Shown) /\ h \in Seq(Shown)
    BY <1>3
  <2> HIDE DEF g
  <2>2. g = h \o t
    BY DEF g
  <2>3. /\ h \o t \in Seq(Shown) /\ Len(h \o t) = Len(h) + Len(t)
        /\ \A k \in 1..Len(h) : (h \o t)[k] = h[k]
        /\ \A k \in 1..Len(t) : (h \o t)[Len(h) + k] = t[k]
    BY <2>1, Joining
  <2>4. QED BY <2>2, <2>3, Zenon
<1> HIDE DEF g
<1>5. QED BY <1>1, <1>3, <1>4 DEF g, t

LEMMA ShowSound ==
    ASSUME NEW h, NEW tk, NEW ls, NEW n, NEW st, NEW want, NEW as \in Forms, NEW inside \in Seq(Containers),
           Sound(h, <<>>, tk, ls, n, st, want)
    PROVE  Sound(h \o ShownAs(tk, as, inside), <<>>, <<>>, ls, n, st, want)
<1> DEFINE g == h \o ShownAs(tk, as, inside)
           a == Len(h)
           m == Len(tk)
<1>1. h \in Seq(Shown) /\ tk \in Seq(Numbered) /\ ls \in Seq(Numbered) /\ n \in 1..(Len(ls) + 1)
    BY DEF Sound, Typed
<1>2. /\ g \in Seq(Shown) /\ Len(g) = a + m /\ a \in Nat /\ m \in Nat
      /\ \A k \in 1..a : g[k] = h[k]
      /\ \A k \in 1..m : g[a + k].id = tk[k].id /\ g[a + k].leaf = tk[k].leaf
    BY <1>1, ShownLines
<1>3. Len(ls) \in Nat
    BY <1>1, SeqFacts
<1> HIDE DEF g, a, m
<1>4. \A k \in 1..(a + m) : k \in 1..a \/ (k - a \in 1..m /\ k = a + (k - a))
    BY <1>2
<1>5. \A k \in 1..(a + m) : \/ k \in 1..a /\ g[k] = h[k]
                            \/ k - a \in 1..m /\ g[k].id = tk[k - a].id /\ g[k].leaf = tk[k - a].leaf
    BY <1>2, <1>4
<1>6. Typed(g, <<>>, <<>>, ls, n, st)
    BY <1>2 DEF Sound, Typed
<1>7. \A t, e : Ahead(h, t, e) /\ Ahead(tk, t, e) => Ahead(g, t, e)
  <2>1. SUFFICES ASSUME NEW t, NEW e, Ahead(h, t, e), Ahead(tk, t, e),
                        NEW j \in 1..(a + m), NEW k \in e..Len(t)
                 PROVE  g[j].id < t[k].id
    BY <1>2 DEF Ahead
  <2>2. CASE j \in 1..a /\ g[j] = h[j]
    BY <2>1, <2>2 DEF Ahead, a
  <2>3. CASE j - a \in 1..m /\ g[j].id = tk[j - a].id
    BY <2>1, <2>3 DEF Ahead, m
  <2>4. QED BY <1>5, <2>2, <2>3
<1>8. InOrder(g, <<>>, <<>>, ls, n, st)
  <2> USE DEF Sound, InOrder
  <2>1. Rising(g)
    <3>1. SUFFICES ASSUME NEW j \in 1..(a + m), NEW k \in 1..(a + m), j < k PROVE g[j].id < g[k].id
        BY <1>2 DEF Rising
    <3>2. CASE k \in 1..a /\ g[k] = h[k]
      <4>1. j \in 1..a /\ g[j] = h[j]
        BY <1>2, <3>1, <3>2
      <4>2. QED BY <3>1, <3>2, <4>1 DEF Rising, a
    <3>3. CASE k - a \in 1..m /\ g[k].id = tk[k - a].id
      <4>1. CASE j \in 1..a /\ g[j] = h[j]
        BY <3>3, <4>1 DEF Ahead, a, m
      <4>2. CASE j - a \in 1..m /\ g[j].id = tk[j - a].id
        <5>1. j - a < k - a
            BY <1>2, <3>1
        <5>2. QED BY <3>3, <4>2, <5>1 DEF Rising, m
      <4>3. QED BY <1>5, <4>1, <4>2
    <3>4. QED BY <1>5, <3>2, <3>3
  <2>2. \A j \in 1..m : \E e \in 1..(n - 1) : tk[j].id = ls[e].id
    BY DEF Passed, m
  <2>3. 1..(n - 1) \subseteq 1..Len(ls) /\ \A e \in 1..(n - 1) : \A k \in n..Len(ls) : e < k /\ k \in 1..Len(ls)
    BY <1>1, <1>3
  <2>4. Ahead(tk, ls, n)
    <3>1. SUFFICES ASSUME NEW j \in 1..m, NEW k \in n..Len(ls) PROVE tk[j].id < ls[k].id
        BY DEF Ahead, m
    <3>2. PICK e \in 1..(n - 1) : tk[j].id = ls[e].id
        BY <2>2
    <3>3. ls[e].id < ls[k].id
        BY <2>3 DEF Rising
    <3>4. QED BY <3>2, <3>3
  <2>5. \A d \in 1..Len(st) : Ahead(tk, st[d].lines, st[d].i)
    <3>1. SUFFICES ASSUME NEW d \in 1..Len(st), NEW j \in 1..m, NEW k \in (st[d].i)..Len(st[d].lines)
                   PROVE  tk[j].id < st[d].lines[k].id
        BY DEF Ahead, m
    <3>2. PICK e \in 1..(n - 1) : tk[j].id = ls[e].id
        BY <2>2
    <3>3. ls[e].id < st[d].lines[k].id
        BY <2>3 DEF Ahead
    <3>4. QED BY <3>2, <3>3
  <2>6. Ahead(g, ls, n) /\ \A d \in 1..Len(st) : Ahead(g, st[d].lines, st[d].i)
    BY <1>7, <2>4, <2>5
  <2>7. Rising(<<>>) /\ Passed(<<>>, ls, n) /\ Ahead(g, <<>>, 1)
    BY DEF Rising, Passed, Ahead
  <2>8. QED BY <2>1, <2>6, <2>7
<1>9. Complete(g, <<>>, <<>>, ls, n, st, want)
  <2>1. ASSUME NEW w, Has(h, 1, w) PROVE Has(g, 1, w)
    <3>1. PICK k \in 1..a : h[k].id = w[1] /\ h[k].leaf = w[2]
        BY <2>1 DEF Has, a
    <3>2. k \in 1..(a + m) /\ g[k] = h[k]
        BY <1>2
    <3>3. QED BY <1>2, <3>1, <3>2 DEF Has
  <2>2. ASSUME NEW w, Has(tk, 1, w) PROVE Has(g, 1, w)
    <3>1. PICK k \in 1..m : tk[k].id = w[1] /\ tk[k].leaf = w[2]
        BY <2>2 DEF Has, m
    <3>2. a + k \in 1..(a + m) /\ g[a + k].id = tk[k].id /\ g[a + k].leaf = tk[k].leaf
        BY <1>2
    <3>3. QED BY <1>2, <3>1, <3>2 DEF Has
  <2>3. QED BY <2>1, <2>2 DEF Sound, Complete
<1>10. QED BY <1>6, <1>8, <1>9 DEF Sound, g

\* An item is complete.
LEMMA ItemSound ==
    ASSUME NEW h, NEW its, NEW tk, NEW ls, NEW n, NEW st, NEW want,
           Sound(h, its, tk, ls, n, st, want)
    PROVE  Sound(h, Append(its, tk), <<>>, ls, n, st, want)
<1> DEFINE g == Append(its, tk)
           m == Len(its)
<1>1. its \in Seq(Seq(Numbered)) /\ tk \in Seq(Numbered)
    BY DEF Sound, Typed
<1>2. /\ g \in Seq(Seq(Numbered)) /\ m \in Nat /\ Len(g) = m + 1 /\ g[m + 1] = tk
      /\ \A k \in 1..m : g[k] = its[k]
    BY <1>1, SeqFacts, Appending
<1> HIDE DEF g, m
<1>3. \A k \in 1..(m + 1) : k \in 1..m \/ k = m + 1
    BY <1>2
<1>4. Typed(h, g, <<>>, ls, n, st)
    BY <1>2 DEF Sound, Typed
<1>5. InOrder(h, g, <<>>, ls, n, st)
  <2> USE DEF Sound, InOrder
  <2>1. \A j \in 1..Len(g) : Rising(g[j]) /\ Passed(g[j], ls, n) /\ Ahead(h, g[j], 1)
    BY <1>2, <1>3 DEF m
  <2>2. \A j, k \in 1..Len(g) : j < k => Ahead(g[j], g[k], 1)
    <3>1. SUFFICES ASSUME NEW j \in 1..(m + 1), NEW k \in 1..(m + 1), j < k PROVE Ahead(g[j], g[k], 1)
        BY <1>2
    <3>2. j \in 1..m
        BY <1>2, <3>1
    <3>3. QED BY <1>2, <1>3, <3>1, <3>2 DEF m
  <2>3. /\ Rising(<<>>) /\ Passed(<<>>, ls, n) /\ Ahead(h, <<>>, 1)
        /\ \A j \in 1..Len(g) : Ahead(g[j], <<>>, 1)
    BY DEF Rising, Passed, Ahead
  <2>4. QED BY <2>1, <2>2, <2>3
<1>6. Complete(h, g, <<>>, ls, n, st, want)
  <2>1. m + 1 \in 1..Len(g) /\ 1..m \subseteq 1..Len(g)
    BY <1>2
  <2>2. \A w : Has(tk, 1, w) => \E j \in 1..Len(g) : Has(g[j], 1, w)
    BY <1>2, <2>1
  <2>3. \A w : (\E j \in 1..m : Has(its[j], 1, w)) => \E j \in 1..Len(g) : Has(g[j], 1, w)
    BY <1>2, <2>1
  <2>4. QED BY <2>2, <2>3 DEF Sound, Complete, m
<1>7. QED BY <1>4, <1>5, <1>6 DEF Sound, g

\* The last item is taken up again.
LEMMA AgainSound ==
    ASSUME NEW h, NEW its, NEW ls, NEW n, NEW st, NEW want, its # <<>>,
           Sound(h, its, <<>>, ls, n, st, want)
    PROVE  /\ Sound(h, SubSeq(its, 1, Len(its) - 1), its[Len(its)], ls, n, st, want)
           /\ Len(its) \in Nat \ {0}
<1> DEFINE m == Len(its)
           g == SubSeq(its, 1, m - 1)
           t == its[m]
<1>1. its \in Seq(Seq(Numbered)) /\ m \in Nat /\ DOMAIN its = 1..m
    BY SeqFacts DEF Sound, Typed
<1>2. m # 0
    BY <1>1
<1>3. /\ g \in Seq(Seq(Numbered)) /\ Len(g) = m - 1
      /\ \A k \in 1..(m - 1) : g[k] = its[k]
    BY <1>1, <1>2
<1>4. m \in 1..m /\ t \in Seq(Numbered) /\ m - 1 \in Nat
    BY <1>1, <1>2, SeqFacts
<1> HIDE DEF g, m
<1>5. \A k \in 1..m : k \in 1..(m - 1) \/ k = m
    BY <1>1
<1>6. Typed(h, g, t, ls, n, st)
    BY <1>3, <1>4 DEF Sound, Typed
<1>7. 1..(m - 1) \subseteq 1..m /\ \A k \in 1..(m - 1) : k < m
    BY <1>4
<1>8. InOrder(h, g, t, ls, n, st)
    BY <1>3, <1>4, <1>7 DEF Sound, InOrder, m
<1>9. Complete(h, g, t, ls, n, st, want)
  <2>1. \A w : ~Has(<<>>, 1, w)
    BY DEF Has
  <2>2. \A w : (\E j \in 1..m : Has(its[j], 1, w)) => Has(t, 1, w) \/ \E j \in 1..(m - 1) : Has(g[j], 1, w)
    BY <1>3, <1>5
  <2>3. QED BY <1>3, <2>1, <2>2 DEF Sound, Complete, m
<1>10. QED BY <1>2, <1>4, <1>6, <1>8, <1>9 DEF Sound, g, m

\* The block is given up.
LEMMA DropSound ==
    ASSUME NEW h, NEW its, NEW tk, NEW ls, NEW n, NEW st, Sound(h, its, tk, ls, n, st, {})
    PROVE  Sound(h, <<>>, <<>>, ls, n, st, {})
<1>1. \A j \in 1..Len(<<>>) : FALSE
    OBVIOUS
<1>2. Typed(h, <<>>, <<>>, ls, n, st)
    BY DEF Sound, Typed
<1>3. Rising(<<>>) /\ Passed(<<>>, ls, n) /\ Ahead(h, <<>>, 1)
    BY DEF Rising, Passed, Ahead
<1>4. InOrder(h, <<>>, <<>>, ls, n, st)
    BY <1>1, <1>3 DEF Sound, InOrder
<1>5. QED BY <1>2, <1>4 DEF Sound, Complete

\* The next document is parsed: the one at hand is at its end, or given up.
LEMMA NextSound ==
    ASSUME NEW h, NEW ls, NEW n, NEW st, NEW want, st # <<>>,
           Sound(h, <<>>, <<>>, ls, n, st, want), want = {} \/ n > Len(ls)
    PROVE  /\ Sound(h, <<>>, <<>>, Head(st).lines, Head(st).i, Tail(st), want)
           /\ Head(st) \in Frames
<1> DEFINE m == Len(st)
           first == Head(st)
           rest == Tail(st)
<1>1. st \in Seq(Frames) /\ m \in Nat /\ DOMAIN st = 1..m
    BY SeqFacts DEF Sound, Typed
<1>2. m # 0
    BY <1>1
<1>3. /\ first = st[1] /\ rest \in Seq(Frames) /\ Len(rest) = m - 1
      /\ \A k \in 1..(m - 1) : rest[k] = st[k + 1]
    BY <1>1, <1>2
<1>4. 1 \in 1..m /\ (\A k \in 1..(m - 1) : k + 1 \in 1..m /\ 1 < k + 1) /\ first \in Frames
    BY <1>1, <1>2, <1>3
<1> HIDE DEF m, first, rest
<1>5. Typed(h, <<>>, <<>>, first.lines, first.i, rest)
  <2>1. first.lines \in Seq(Numbered) /\ first.i \in 1..(Len(first.lines) + 1)
    BY <1>3, <1>4 DEF Frames, Sound, Typed, m
  <2>2. \A d \in 1..Len(rest) : rest[d].i \in 1..(Len(rest[d].lines) + 1)
    BY <1>3, <1>4 DEF Sound, Typed, m
  <2>3. QED BY <1>3, <2>1, <2>2 DEF Sound, Typed
<1>6. \A j \in 1..Len(<<>>) : FALSE
    OBVIOUS
<1>7. InOrder(h, <<>>, <<>>, first.lines, first.i, rest)
  <2> USE DEF Sound, InOrder
  <2>1. Rising(first.lines) /\ Ahead(h, first.lines, first.i)
    BY <1>3, <1>4 DEF m
  <2>2. \A d \in 1..(m - 1) : /\ Rising(rest[d].lines)
                              /\ Ahead(h, rest[d].lines, rest[d].i)
                              /\ Ahead(first.lines, rest[d].lines, rest[d].i)
    BY <1>3, <1>4 DEF m
  <2>3. \A d, e \in 1..(m - 1) : d < e => Ahead(rest[d].lines, rest[e].lines, rest[e].i)
    <3>1. SUFFICES ASSUME NEW d \in 1..(m - 1), NEW e \in 1..(m - 1), d < e
                   PROVE  Ahead(rest[d].lines, rest[e].lines, rest[e].i)
        OBVIOUS
    <3>2. d + 1 < e + 1 /\ d + 1 \in 1..m /\ e + 1 \in 1..m
        BY <1>1, <1>4, <3>1
    <3>3. QED BY <1>3, <3>2 DEF m
  <2>4. Rising(<<>>) /\ Passed(<<>>, first.lines, first.i) /\ Ahead(h, <<>>, 1)
    BY DEF Rising, Passed, Ahead
  <2>5. QED BY <1>3, <1>6, <2>1, <2>2, <2>3, <2>4
<1>8. Complete(h, <<>>, <<>>, first.lines, first.i, rest, want)
  <2>1. SUFFICES ASSUME NEW w \in want
                 PROVE  \/ Has(h, 1, w) \/ Has(first.lines, first.i, w)
                        \/ \E d \in 1..(m - 1) : Has(rest[d].lines, rest[d].i, w)
    BY <1>3 DEF Complete
  <2>2. ~Has(<<>>, 1, w)
    BY DEF Has
  <2>3. ~Has(ls, n, w)
    <3>1. n > Len(ls) /\ ls \in Seq(Numbered) /\ n \in 1..(Len(ls) + 1)
        BY <2>1 DEF Sound, Typed
    <3>2. n..Len(ls) = {}
        BY <3>1, SeqFacts
    <3>3. QED BY <3>2 DEF Has
  <2>4. Has(h, 1, w) \/ \E d \in 1..m : Has(st[d].lines, st[d].i, w)
    BY <1>6, <2>1, <2>2, <2>3 DEF Sound, Complete, m
  <2>5. ASSUME NEW d \in 1..m PROVE d = 1 \/ (d - 1 \in 1..(m - 1) /\ rest[d - 1] = st[d])
    <3>1. d = 1 \/ (d - 1 \in 1..(m - 1) /\ (d - 1) + 1 = d)
        BY <1>1
    <3>2. QED BY <1>3, <3>1
  <2>6. QED BY <1>3, <2>4, <2>5
<1>9. QED BY <1>4, <1>5, <1>7, <1>8 DEF Sound, first, rest

\* What is joined and split again: all of it, or all but a blank last line.
LEMMA RejoinedLines ==
    ASSUME NEW s \in Seq(Numbered)
    PROVE  /\ Rejoined(s) \in Seq(Numbered) /\ Len(Rejoined(s)) \in Nat /\ Len(Rejoined(s)) <= Len(s)
           /\ \A k \in 1..Len(Rejoined(s)) : Rejoined(s)[k] = s[k]
           /\ \A k \in 1..Len(s) : k \in 1..Len(Rejoined(s)) \/ s[k].leaf = "blank"
<1> DEFINE m == Len(s)
           front == SubSeq(s, 1, m - 1)
<1>1. m \in Nat /\ DOMAIN s = 1..m
    BY SeqFacts
<1>2. CASE Len(s) > 1 /\ is_blank_line(Last(s))
  <2>1. /\ front \in Seq(Numbered) /\ Len(front) = m - 1
        /\ \A k \in 1..(m - 1) : front[k] = s[k]
    BY <1>1, <1>2
  <2>2. Rejoined(s) = front
    BY <1>2 DEF Rejoined, Front
  <2>3. s[m].leaf = "blank"
    BY <1>2 DEF is_blank_line, Last
  <2> HIDE DEF front, m
  <2>4. \A k \in 1..m : k \in 1..(m - 1) \/ k = m
    BY <1>1
  <2>5. m - 1 \in Nat /\ m - 1 <= m
    BY <1>1, <1>2 DEF m
  <2>6. QED BY <2>1, <2>2, <2>3, <2>4, <2>5 DEF m
<1>3. CASE ~(Len(s) > 1 /\ is_blank_line(Last(s)))
  <2>1. Rejoined(s) = s
    BY <1>3 DEF Rejoined
  <2>2. QED BY <1>1, <2>1
<1>4. QED BY <1>2, <1>3

\* The bodies of a block are parsed, and then the document at hand goes on.
Bodies(its, inside) ==
    [k \in DOMAIN its |-> [lines |-> Rejoined(its[k]), i |-> 1, path |-> inside]]

Pushed(fs, g, its, inside, here, st) ==
    fs = Bodies(its, inside) /\ g = Tail(fs) \o <<here>> \o st

\* The bodies but the first come before this document, and that before those around it.
LEMMA Stacked ==
    ASSUME NEW its \in Seq(Seq(Numbered)), its # <<>>, NEW inside \in Seq(Containers),
           NEW here \in Frames, NEW st \in Seq(Frames),
           NEW fs, NEW g, Pushed(fs, g, its, inside, here, st)
    PROVE  /\ Len(its) \in Nat \ {0} /\ Len(st) \in Nat /\ fs \in Seq(Frames)
           /\ \A k \in 1..Len(its) : /\ fs[k].lines = Rejoined(its[k]) /\ fs[k].i = 1
                                     /\ fs[k].path = inside
           /\ g \in Seq(Frames) /\ Len(g) = Len(its) + Len(st)
           /\ \A k \in 1..(Len(its) - 1) : g[k] = fs[k + 1]
           /\ g[Len(its)] = here
           /\ \A k \in 1..Len(st) : g[Len(its) + k] = st[k]
<1> DEFINE m == Len(its)
           rest == Tail(fs)
           some == rest \o <<here>>
<1>0. fs = Bodies(its, inside) /\ g = Tail(fs) \o <<here>> \o st
    BY DEF Pushed
<1>1. m \in Nat /\ DOMAIN its = 1..m /\ Len(st) \in Nat /\ \A k \in 1..m : its[k] \in Seq(Numbered)
    BY SeqFacts
<1>2. m # 0
    BY <1>1
<1>3. fs \in Seq(Frames) /\ Len(fs) = m
      /\ \A k \in 1..m : /\ fs[k].lines = Rejoined(its[k]) /\ fs[k].i = 1
                         /\ fs[k].path = inside
  <2> DEFINE F(k) == [lines |-> Rejoined(its[k]), i |-> 1, path |-> inside]
  <2>1. \A k \in 1..m : Rejoined(its[k]) \in Seq(Numbered)
    BY <1>1, RejoinedLines
  <2>2. \A k \in 1..m : F(k) \in Frames
    BY <2>1 DEF Frames
  <2>3. fs = [k \in 1..m |-> F(k)]
    BY <1>0, <1>1 DEF Bodies
  <2>4. \A k \in 1..m : F(k).lines = Rejoined(its[k]) /\ F(k).i = 1 /\ F(k).path = inside
    OBVIOUS
  <2> HIDE DEF F, m
  <2>5. fs \in Seq(Frames) /\ Len(fs) = m /\ \A k \in 1..m : fs[k] = F(k)
    BY <1>1, <2>2, <2>3
  <2>6. QED BY <2>4, <2>5
<1> HIDE DEF m
<1>4. rest \in Seq(Frames) /\ Len(rest) = m - 1 /\ \A k \in 1..(m - 1) : rest[k] = fs[k + 1]
    BY <1>1, <1>2, <1>3
<1> HIDE DEF rest
<1>5. /\ <<here>> \in Seq(Frames) /\ Len(<<here>>) = 1 /\ <<here>>[1] = here
    OBVIOUS
<1>6. /\ some \in Seq(Frames) /\ Len(some) = m
      /\ \A k \in 1..(m - 1) : some[k] = fs[k + 1]
      /\ some[m] = here
  <2> DEFINE one == <<here>>
  <2>1. one \in Seq(Frames) /\ Len(one) = 1 /\ one[1] = here
    BY <1>5
  <2> HIDE DEF one, rest
  <2>0. rest \in Seq(Frames) /\ one \in Seq(Frames)
    BY <1>4, <2>1
  <2>2. /\ rest \o one \in Seq(Frames) /\ Len(rest \o one) = Len(rest) + Len(one)
        /\ \A k \in 1..Len(rest) : (rest \o one)[k] = rest[k]
        /\ \A k \in 1..Len(one) : (rest \o one)[Len(rest) + k] = one[k]
    BY <2>0, Joining
  <2>3. some = rest \o one
    BY DEF one
  <2> HIDE DEF some
  <2>4. some[(m - 1) + 1] = here
    BY <1>4, <2>1, <2>2, <2>3
  <2>5. some \in Seq(Frames) /\ Len(some) = (m - 1) + 1
    BY <1>4, <2>1, <2>2, <2>3
  <2>6. \A k \in 1..(m - 1) : some[k] = fs[k + 1]
    BY <1>4, <2>2, <2>3
  <2>7. (m - 1) + 1 = m
    BY <1>1
  <2>8. QED BY <2>4, <2>5, <2>6, <2>7
<1> HIDE DEF some
<1>6a. some \in Seq(Frames)
    BY <1>6
<1>7. /\ some \o st \in Seq(Frames) /\ Len(some \o st) = Len(some) + Len(st)
      /\ \A k \in 1..Len(some) : (some \o st)[k] = some[k]
      /\ \A k \in 1..Len(st) : (some \o st)[Len(some) + k] = st[k]
    BY <1>6a, Joining
<1>8. g \in Seq(Frames) /\ Len(g) = m + Len(st)
      /\ (\A k \in 1..m : g[k] = some[k]) /\ (\A k \in 1..Len(st) : g[m + k] = st[k])
    BY <1>0, <1>6, <1>7 DEF some, rest
<1>9. m \in 1..m /\ \A k \in 1..(m - 1) : k \in 1..m
    BY <1>1, <1>2
<1>10. g[m] = here /\ \A k \in 1..(m - 1) : g[k] = fs[k + 1]
    BY <1>6, <1>8, <1>9
<1>11. QED BY <1>1, <1>2, <1>3, <1>8, <1>10 DEF m

\* Going into the bodies keeps order and lines.
LEMMA BodiesSound ==
    ASSUME NEW h, NEW its, NEW ls, NEW n, NEW st, NEW want, its # <<>>,
           Sound(h, its, <<>>, ls, n, st, want), \A w \in want : w[2] # "blank",
           NEW inside \in Seq(Containers), NEW around \in Seq(Containers)
    PROVE  LET fs   == Bodies(its, inside)
               here == [lines |-> ls, i |-> n, path |-> around]
           IN  Sound(h, <<>>, <<>>, fs[1].lines, 1, Tail(fs) \o <<here>> \o st, want)
<1> DEFINE m == Len(its)
           fs == Bodies(its, inside)
           here == [lines |-> ls, i |-> n, path |-> around]
           g == Tail(fs) \o <<here>> \o st
           B(k) == Rejoined(its[k])
<1>1. /\ its \in Seq(Seq(Numbered)) /\ ls \in Seq(Numbered) /\ n \in 1..(Len(ls) + 1)
      /\ st \in Seq(Frames) /\ h \in Seq(Shown) /\ Len(ls) \in Nat
    BY SeqFacts DEF Sound, Typed
<1>2. here \in Frames /\ here.lines = ls /\ here.i = n
    BY <1>1 DEF Frames
<1>2a. Pushed(fs, g, its, inside, here, st)
    BY DEF Pushed
<1> HIDE DEF here, fs, g, m, B
<1>2b. its # <<>> /\ its \in Seq(Seq(Numbered)) /\ here \in Frames /\ st \in Seq(Frames)
    BY <1>1, <1>2
<1>3. /\ m \in Nat \ {0} /\ Len(st) \in Nat
      /\ \A k \in 1..m : fs[k].lines = B(k) /\ fs[k].i = 1
      /\ g \in Seq(Frames) /\ Len(g) = m + Len(st)
      /\ \A k \in 1..(m - 1) : g[k] = fs[k + 1]
      /\ g[m] = here
      /\ \A k \in 1..Len(st) : g[m + k] = st[k]
  <2>1. /\ Len(its) \in Nat \ {0} /\ Len(st) \in Nat /\ fs \in Seq(Frames)
        /\ \A k \in 1..Len(its) : /\ fs[k].lines = Rejoined(its[k]) /\ fs[k].i = 1
                                  /\ fs[k].path = inside
        /\ g \in Seq(Frames) /\ Len(g) = Len(its) + Len(st)
        /\ \A k \in 1..(Len(its) - 1) : g[k] = fs[k + 1]
        /\ g[Len(its)] = here
        /\ \A k \in 1..Len(st) : g[Len(its) + k] = st[k]
    BY <1>2a, <1>2b, Stacked
  <2>2. QED BY <2>1 DEF m, B
<1>4. \A k \in 1..m : its[k] \in Seq(Numbered) /\ Len(its[k]) \in Nat
    BY <1>1, SeqFacts DEF m
<1>5. \A k \in 1..m : /\ B(k) \in Seq(Numbered) /\ Len(B(k)) \in Nat /\ Len(B(k)) <= Len(its[k])
                      /\ \A e \in 1..Len(B(k)) : B(k)[e] = its[k][e]
                      /\ \A e \in 1..Len(its[k]) : e \in 1..Len(B(k)) \/ its[k][e].leaf = "blank"
    BY <1>4, RejoinedLines DEF B
<1>6. \A k \in 1..m : 1..Len(B(k)) \subseteq 1..Len(its[k])
    BY <1>4, <1>5
<1>7. \A k \in 1..m : Rising(B(k)) /\ Passed(B(k), ls, n) /\ Ahead(h, B(k), 1)
  <2>1. SUFFICES ASSUME NEW k \in 1..m PROVE Rising(B(k)) /\ Passed(B(k), ls, n) /\ Ahead(h, B(k), 1)
    OBVIOUS
  <2>2. Rising(its[k]) /\ Passed(its[k], ls, n) /\ Ahead(h, its[k], 1)
    BY DEF Sound, InOrder, m
  <2>3. \A e \in 1..Len(B(k)) : e \in 1..Len(its[k]) /\ B(k)[e] = its[k][e]
    BY <1>5, <1>6
  <2>4. Rising(B(k))
    BY <2>2, <2>3 DEF Rising
  <2>5. Passed(B(k), ls, n)
    BY <2>2, <2>3 DEF Passed
  <2>6. Ahead(h, B(k), 1)
    BY <2>2, <2>3 DEF Ahead
  <2>7. QED BY <2>4, <2>5, <2>6
<1>8. \A j, k \in 1..m : j < k => Ahead(B(j), B(k), 1)
  <2>1. SUFFICES ASSUME NEW j \in 1..m, NEW k \in 1..m, j < k PROVE Ahead(B(j), B(k), 1)
    OBVIOUS
  <2>2. Ahead(its[j], its[k], 1)
    BY <2>1 DEF Sound, InOrder, m
  <2>3. QED BY <1>5, <1>6, <2>2 DEF Ahead
<1>9. \A k \in 1..m : Ahead(B(k), ls, n)
  <2>1. SUFFICES ASSUME NEW k \in 1..m, NEW e \in 1..Len(B(k)), NEW j \in n..Len(ls)
                 PROVE  B(k)[e].id < ls[j].id
    BY DEF Ahead
  <2>2. PICK a \in 1..(n - 1) : B(k)[e].id = ls[a].id
    BY <1>7 DEF Passed
  <2>3. a \in 1..Len(ls) /\ j \in 1..Len(ls) /\ a < j
    BY <1>1
  <2>4. ls[a].id < ls[j].id
    BY <2>3 DEF Sound, InOrder, Rising
  <2>5. QED BY <2>2, <2>4
<1>10. \A k \in 1..m : \A d \in 1..Len(st) : Ahead(B(k), st[d].lines, st[d].i)
  <2>1. SUFFICES ASSUME NEW k \in 1..m, NEW d \in 1..Len(st), NEW e \in 1..Len(B(k)),
                        NEW j \in (st[d].i)..Len(st[d].lines)
                 PROVE  B(k)[e].id < st[d].lines[j].id
    BY DEF Ahead
  <2>2. PICK a \in 1..(n - 1) : B(k)[e].id = ls[a].id
    BY <1>7 DEF Passed
  <2>3. a \in 1..Len(ls)
    BY <1>1
  <2>4. ls[a].id < st[d].lines[j].id
    BY <2>3 DEF Sound, InOrder, Ahead
  <2>5. QED BY <2>2, <2>4
<1>11. \A d \in 1..Len(g) : \/ d \in 1..(m - 1) /\ d + 1 \in 1..m /\ g[d].lines = B(d + 1) /\ g[d].i = 1
                            \/ d = m /\ g[d].lines = ls /\ g[d].i = n
                            \/ d - m \in 1..Len(st) /\ g[d] = st[d - m] /\ d > m
  <2>1. SUFFICES ASSUME NEW d \in 1..Len(g)
                 PROVE  \/ d \in 1..(m - 1) /\ d + 1 \in 1..m /\ g[d].lines = B(d + 1) /\ g[d].i = 1
                        \/ d = m /\ g[d].lines = ls /\ g[d].i = n
                        \/ d - m \in 1..Len(st) /\ g[d] = st[d - m] /\ d > m
    OBVIOUS
  <2>2. \/ d \in 1..(m - 1) /\ d + 1 \in 1..m
        \/ d = m
        \/ d - m \in 1..Len(st) /\ d = m + (d - m) /\ d > m
    BY <1>3
  <2>3. QED BY <1>2, <1>3, <2>2
<1>12. 1 \in 1..m /\ fs[1].lines = B(1) /\ \A d \in 1..(m - 1) : 1 < d + 1
    BY <1>3
<1>13. Typed(h, <<>>, <<>>, fs[1].lines, 1, g)
  <2>1. fs[1].lines \in Seq(Numbered) /\ 1 \in 1..(Len(fs[1].lines) + 1)
    BY <1>5, <1>12
  <2>2. \A d \in 1..Len(g) : g[d].i \in 1..(Len(g[d].lines) + 1)
    <3>1. SUFFICES ASSUME NEW d \in 1..Len(g) PROVE g[d].i \in 1..(Len(g[d].lines) + 1)
        OBVIOUS
    <3>2. CASE d + 1 \in 1..m /\ g[d].lines = B(d + 1) /\ g[d].i = 1
      <4>1. Len(B(d + 1)) \in Nat
        BY <1>5, <3>2
      <4>2. QED BY <3>2, <4>1
    <3>3. CASE g[d].lines = ls /\ g[d].i = n
        BY <1>1, <3>3
    <3>4. CASE d - m \in 1..Len(st) /\ g[d] = st[d - m]
        BY <3>4 DEF Sound, Typed
    <3>5. QED BY <1>11, <3>2, <3>3, <3>4
  <2>3. QED BY <1>1, <1>3, <2>1, <2>2 DEF Typed
<1>14. \A j \in 1..Len(<<>>) : FALSE
    OBVIOUS
<1>15. InOrder(h, <<>>, <<>>, fs[1].lines, 1, g)
  <2>1. \A d \in 1..Len(g) : Rising(g[d].lines)
    <3>1. Rising(ls) /\ \A d \in 1..Len(st) : Rising(st[d].lines)
        BY DEF Sound, InOrder
    <3>2. QED BY <1>7, <1>11, <3>1
  <2>2. \A d \in 1..Len(g) : Ahead(h, g[d].lines, g[d].i)
    <3>1. Ahead(h, ls, n) /\ \A d \in 1..Len(st) : Ahead(h, st[d].lines, st[d].i)
        BY DEF Sound, InOrder
    <3>2. QED BY <1>7, <1>11, <3>1
  <2>3. \A d \in 1..Len(g) : Ahead(B(1), g[d].lines, g[d].i)
    BY <1>8, <1>9, <1>10, <1>11, <1>12
  <2>4. \A d, e \in 1..Len(g) : d < e => Ahead(g[d].lines, g[e].lines, g[e].i)
    <3>1. SUFFICES ASSUME NEW d \in 1..Len(g), NEW e \in 1..Len(g), d < e
                   PROVE  Ahead(g[d].lines, g[e].lines, g[e].i)
        OBVIOUS
    <3>2. d \in Nat /\ e \in Nat /\ m \in Nat /\ d + 1 < e + 1 /\ d - m < e - m
        BY <1>3, <3>1
    <3>3. CASE d \in 1..(m - 1) /\ d + 1 \in 1..m /\ g[d].lines = B(d + 1)
        BY <1>8, <1>9, <1>10, <1>11, <3>2, <3>3
    <3>4. CASE d = m /\ g[d].lines = ls
      <4>1. e > m
        BY <3>1, <3>4
      <4>2. e - m \in 1..Len(st) /\ g[e] = st[e - m]
        BY <1>3, <1>11, <4>1
      <4>3. QED BY <3>4, <4>2 DEF Sound, InOrder
    <3>5. CASE d - m \in 1..Len(st) /\ g[d] = st[d - m] /\ d > m
      <4>1. e > m
        BY <1>3, <3>1, <3>5
      <4>2. e - m \in 1..Len(st) /\ g[e] = st[e - m]
        BY <1>3, <1>11, <4>1
      <4>3. QED BY <3>2, <3>5, <4>2 DEF Sound, InOrder
    <3>6. QED BY <1>11, <3>3, <3>4, <3>5
  <2>5. Rising(<<>>) /\ Passed(<<>>, B(1), 1) /\ Ahead(h, <<>>, 1)
    BY DEF Rising, Passed, Ahead
  <2>6. Rising(h) /\ Rising(B(1)) /\ Ahead(h, B(1), 1)
    BY <1>7, <1>12 DEF Sound, InOrder
  <2>7. QED BY <1>12, <1>14, <2>1, <2>2, <2>3, <2>4, <2>5, <2>6 DEF InOrder
<1>16. Complete(h, <<>>, <<>>, fs[1].lines, 1, g, want)
  <2>1. SUFFICES ASSUME NEW w \in want
                 PROVE  \/ Has(h, 1, w) \/ Has(B(1), 1, w)
                        \/ \E d \in 1..Len(g) : Has(g[d].lines, g[d].i, w)
    BY <1>12 DEF Complete
  <2>2. CASE Has(ls, n, w)
    <3>1. m \in 1..Len(g) /\ g[m].lines = ls /\ g[m].i = n
        BY <1>2, <1>3
    <3>2. QED BY <2>2, <3>1
  <2>3. CASE \E j \in 1..m : Has(its[j], 1, w)
    <3>1. PICK j \in 1..m : Has(its[j], 1, w)
        BY <2>3
    <3>2. PICK e \in 1..Len(its[j]) : its[j][e].id = w[1] /\ its[j][e].leaf = w[2]
        BY <3>1 DEF Has
    <3>3. e \in 1..Len(B(j)) /\ B(j)[e] = its[j][e]
        BY <1>5, <2>1, <3>2
    <3>4. Has(B(j), 1, w)
        BY <3>2, <3>3 DEF Has
    <3>5. CASE j = 1
        BY <3>4, <3>5
    <3>6. CASE j # 1
      <4>1. j - 1 \in 1..(m - 1) /\ (j - 1) + 1 = j /\ j - 1 \in 1..Len(g)
        BY <1>3, <3>6
      <4>2. g[j - 1].lines = B(j) /\ g[j - 1].i = 1
        BY <1>3, <4>1, SMTT(30)
      <4>3. QED BY <3>4, <4>1, <4>2
    <3>7. QED BY <3>5, <3>6
  <2>4. CASE \E d \in 1..Len(st) : Has(st[d].lines, st[d].i, w)
    <3>1. PICK d \in 1..Len(st) : Has(st[d].lines, st[d].i, w)
        BY <2>4
    <3>2. m + d \in 1..Len(g) /\ g[m + d] = st[d]
        BY <1>3
    <3>3. QED BY <3>1, <3>2
  <2>5. ~Has(<<>>, 1, w)
    BY DEF Has
  <2>6. QED BY <2>1, <2>2, <2>3, <2>4, <2>5 DEF Sound, Complete, m
<1>17. QED BY <1>13, <1>15, <1>16 DEF Sound, g, fs, here

-----------------------------------------------------------------------------
(***************************************************************************)
(* Lines and blocks.                                                       *)
(***************************************************************************)
\* Without its spaces and its first marker a line keeps its number and its leaf.
LEMMA ContentFacts ==
    ASSUME NEW l \in Numbered, l.marks # <<>>
    PROVE  Content(l) \in Numbered /\ Content(l).id = l.id /\ Content(l).leaf = l.leaf
<1> DEFINE t == Tail(l.marks)
<1>1. t \in Seq(Markers)
    BY DEF Numbered
<1>2. Content(l) = [l EXCEPT !.sp = 0, !.marks = t]
    BY DEF Content
<1> HIDE DEF t
<1>3. Content(l).id = l.id
    BY <1>2 DEF Numbered
<1>4. Content(l).leaf = l.leaf
    BY <1>2 DEF Numbered
<1>5. Content(l) \in Numbered
  <2>1. /\ l = [sp |-> l.sp, marks |-> l.marks, leaf |-> l.leaf, id |-> l.id]
        /\ l.leaf \in Leaves /\ l.id \in Nat \ {0}
    BY DEF Numbered
  <2>2. Content(l) = [sp |-> 0, marks |-> t, leaf |-> l.leaf, id |-> l.id]
    BY <1>2, <2>1
  <2>3. QED BY <1>1, <2>1, <2>2 DEF Numbered
<1>6. QED BY <1>3, <1>4, <1>5

LEMMA StrippedFacts ==
    ASSUME NEW l \in Numbered, NEW width \in Nat
    PROVE  /\ Stripped(l, width) \in Numbered
           /\ Stripped(l, width).id = l.id /\ Stripped(l, width).leaf = l.leaf
           /\ Stripped(l, width).marks = l.marks
BY DEF Stripped, Numbered

\* The line at hand.
LEMMA InHand ==
    ASSUME BlocksInv, ~AtEnd
    PROVE  /\ Line \in Numbered /\ i \in 1..Len(lines) /\ Len(lines) \in Nat /\ i <= Len(lines)
           /\ i + 1 \in i..(Len(lines) + 1)
<1>1. lines \in Seq(Numbered) /\ i \in 1..(Len(lines) + 1)
    BY DEF BlocksInv, Sound, Typed
<1>2. Len(lines) \in Nat /\ i <= Len(lines)
    BY <1>1, SeqFacts DEF AtEnd
<1>3. i \in 1..Len(lines) /\ i + 1 \in i..(Len(lines) + 1)
    BY <1>1, <1>2
<1>4. QED BY <1>1, <1>2, <1>3 DEF Line

LEMMA WantedFacts ==
    /\ \A w \in Wanted : w[2] \in Lasting
    /\ \A w \in Wanted : w[2] # "blank"
BY DEF Wanted, Lasting, Visible

LEMMA IdleFacts ==
    /\ Idle \in Blocks /\ Idle.loop = "none" /\ Idle.taken = <<>> /\ Idle.items = <<>>
    /\ \A loop \in Loops : LET b == [Idle EXCEPT !.loop = loop]
                           IN  /\ b \in Blocks /\ b.loop = loop
                               /\ b.taken = <<>> /\ b.items = <<>>
<1>1. <<>> \in Seq(Numbered) /\ <<>> \in Seq(Seq(Numbered))
    OBVIOUS
<1>2. QED BY <1>1 DEF Idle, Blocks, Loops

LEMMA TakenFacts ==
    ASSUME NEW b \in Blocks, NEW t \in Seq(Numbered)
    PROVE  LET c == [b EXCEPT !.taken = t]
           IN  /\ c \in Blocks /\ c.taken = t /\ c.items = b.items /\ c.loop = b.loop
               /\ c.prev_blank = b.prev_blank /\ c.ordered = b.ordered
BY DEF Blocks

\* The lines in the block or in front change.
LEMMA Moves ==
    ASSUME BlocksInv, NEW n, NEW its, NEW tk,
           Sound(html, its, tk, lines, n, stack, Wanted),
           i' = n, UNCHANGED <<source, lines, path, stack, error, html>>,
           block' \in Blocks, block'.items = its, block'.taken = tk, LoopInv'
    PROVE  BlocksInv'
<1>1. Wanted' = Wanted
    BY DEF Wanted, Sent
<1>2. Sound(html', block'.items, block'.taken, lines', i', stack', Wanted')
    BY <1>1
<1>3. QED BY <1>2 DEF BlocksInv

\* A block is shown.
LEMMA Finishes ==
    ASSUME BlocksInv, NEW n, NEW tk, NEW as \in Forms,
           Sound(html, <<>>, tk, lines, n, stack, Wanted),
           Show(tk, as), i' = n, UNCHANGED <<source, lines, path, stack, error>>,
           block' \in Blocks, block'.loop = "none", block'.items = <<>>, block'.taken = <<>>
    PROVE  BlocksInv'
<1>1. Wanted' = Wanted
    BY DEF Wanted, Sent
<1>2. path \in Seq(Containers)
    BY DEF BlocksInv
<1>3. Sound(html \o ShownAs(tk, as, path), <<>>, <<>>, lines, n, stack, Wanted)
    BY <1>2, ShowSound
<1>4. html' = html \o ShownAs(tk, as, path)
    BY DEF Show, ShownAs
<1>5. Sound(html', block'.items, block'.taken, lines', i', stack', Wanted')
    BY <1>1, <1>3, <1>4
<1>6. LoopInv'
    BY DEF LoopInv, In
<1>7. QED BY <1>5, <1>6 DEF BlocksInv

\* The line at hand goes into a block that no other loop takes part in.
LEMMA Takes ==
    ASSUME BlocksInv, ~AtEnd, block.loop \notin {"none", "done", "list"},
           In("html") => HasNext,
           NEW l \in Numbered, l.id = Line.id, l.leaf = Line.leaf, Take(l)
    PROVE  BlocksInv'
<1> DEFINE t == Append(block.taken, l)
<1>1. /\ Sound(html, block.items, block.taken, lines, i, stack, Wanted) /\ block \in Blocks
      /\ LoopInv
    BY DEF BlocksInv
<1>2. Sound(html, block.items, t, lines, i + 1, stack, Wanted)
    BY <1>1, InHand, WantedFacts, TakeSound DEF Line
<1>3. t \in Seq(Numbered)
    BY <1>2 DEF Sound, Typed
<1>4. block' = [block EXCEPT !.taken = t] /\ i' = i + 1 /\ UNCHANGED <<source, lines, path, stack, error, html>>
    BY DEF Take, Advance
<1> HIDE DEF t
<1>5. /\ block' \in Blocks /\ block'.taken = t /\ block'.items = block.items
      /\ block'.loop = block.loop
    BY <1>1, <1>3, <1>4, TakenFacts
<1>6. LoopInv'
    BY <1>1, <1>4, <1>5, InHand DEF LoopInv, In, AtEnd, HasNext
<1>7. QED BY <1>2, <1>4, <1>5, <1>6, Moves

-----------------------------------------------------------------------------
(***************************************************************************)
(* One lemma for each kind of action.                                      *)
(***************************************************************************)
LEMMA DispatchFacts ==
    ASSUME BlocksInv, NEW test, Dispatch(test)
    PROVE  /\ ~AtEnd /\ Passes(test) /\ block.loop = "none" /\ block.taken = <<>> /\ block.items = <<>>
           /\ block \in Blocks
           /\ Sound(html, <<>>, <<>>, lines, i, stack, Wanted)
<1>1. ~AtEnd /\ Passes(test) /\ block.loop = "none"
    BY DEF Dispatch, In
<1>2. block.taken = <<>> /\ block.items = <<>>
    BY <1>1 DEF BlocksInv, LoopInv
<1>3. QED BY <1>1, <1>2 DEF BlocksInv

\* The loops that take the line at hand.
LEMMA LineActions ==
    ASSUME BlocksInv,
           MathLine \/ TableRow \/ CodeLine \/ FenceLine \/ ItemLine \/ QuoteLine \/ ParagraphLine
    PROVE  BlocksInv'
<1>1. ~AtEnd /\ block.loop \in {"math", "table", "code", "fence", "item", "quote", "paragraph"}
    BY DEF MathLine, TableRow, CodeLine, FenceLine, ItemLine, QuoteLine, ParagraphLine, Continues, In
<1>2. Line \in Numbered /\ block.indent \in Nat
    BY <1>1, InHand DEF BlocksInv, Blocks
<1>3. \E l \in Numbered : l.id = Line.id /\ l.leaf = Line.leaf /\ Take(l)
  <2>1. CASE ItemLine
    BY <1>2, <2>1, StrippedFacts DEF ItemLine
  <2>2. CASE QuoteLine /\ starts_blockquote(Line)
    BY <1>2, <2>2, ContentFacts DEF QuoteLine, starts_blockquote
  <2>3. CASE Take(Line)
    BY <1>2, <2>3
  <2>4. QED BY <2>1, <2>2, <2>3 DEF MathLine, TableRow, CodeLine, FenceLine, QuoteLine, ParagraphLine
<1>4. QED BY <1>1, <1>3, Takes DEF In

\* A block is opened in front of the line at hand.
LEMMA OpenActions ==
    ASSUME BlocksInv, HtmlOpen \/ CodeOpen \/ QuoteOpen \/ ParagraphOpen
    PROVE  BlocksInv'
<1>1. PICK test \in {"html", "code", "quote", "paragraph"} :
         Dispatch(test) /\ Open([Idle EXCEPT !.loop = test])
    BY DEF HtmlOpen, CodeOpen, QuoteOpen, ParagraphOpen
<1>2. ~AtEnd /\ Sound(html, <<>>, <<>>, lines, i, stack, Wanted)
    BY <1>1, DispatchFacts
<1> DEFINE b == [Idle EXCEPT !.loop = test]
<1>3. b \in Blocks /\ b.loop = test /\ b.taken = <<>> /\ b.items = <<>>
  <2>1. test \in Loops
    BY DEF Loops
  <2>2. QED BY <2>1, IdleFacts
<1>4. block' = b /\ i' = i + 0 /\ UNCHANGED <<source, lines, path, stack, error, html>>
    BY <1>1 DEF Open, Advance
<1> HIDE DEF b
<1>5. i' = i
    BY <1>2, <1>4, InHand
<1>6. LoopInv'
    BY <1>1, <1>2, <1>3, <1>4, <1>5 DEF LoopInv, In, AtEnd
<1>7. QED BY <1>2, <1>3, <1>4, <1>5, <1>6, Moves

\* The line at hand opens a block and is not part of it.
LEMMA FirstActions ==
    ASSUME BlocksInv, MathOpen \/ FenceOpen \/ SkipBlank
    PROVE  BlocksInv'
<1>1. PICK test \in {"math", "fence", "blank"} :
         Dispatch(test) /\ UNCHANGED <<html, source, lines, path, stack, error>> /\ i' = i + 1
    BY DEF MathOpen, FenceOpen, SkipBlank, Advance
<1>2. /\ ~AtEnd /\ Sound(html, <<>>, <<>>, lines, i, stack, Wanted) /\ Passes(test)
      /\ block \in Blocks /\ block.loop = "none" /\ block.taken = <<>> /\ block.items = <<>>
    BY <1>1, DispatchFacts
<1>3. Line.leaf \notin Lasting
    BY <1>2 DEF Passes, is_blank_line, starts_math, starts_code_fence, Unmarked, Lasting, Visible
<1>4. Sound(html, <<>>, <<>>, lines, i + 1, stack, Wanted)
  <2>1. \A k \in i..((i + 1) - 1) : lines[k].leaf \notin Lasting
    BY <1>2, <1>3, InHand DEF Line
  <2>2. i + 1 \in i..(Len(lines) + 1)
    BY <1>2, InHand
  <2>3. QED BY <1>2, <2>1, <2>2, WantedFacts, SkipSound
<1>5. /\ block' \in Blocks /\ block'.taken = <<>> /\ block'.items = <<>>
      /\ block'.loop \in {"math", "fence", "none"}
  <2>1. CASE MathOpen
    BY <2>1, IdleFacts DEF MathOpen, Loops
  <2>2. CASE FenceOpen
    <3>1. FenceLength(Line) \in Nat
        BY DEF FenceLength
    <3>2. block' = [Idle EXCEPT !.loop = "fence", !.fence = FenceLength(Line)]
        BY <2>2 DEF FenceOpen
    <3>3. <<>> \in Seq(Numbered) /\ <<>> \in Seq(Seq(Numbered))
        OBVIOUS
    <3>4. QED BY <3>1, <3>2, <3>3 DEF Idle, Blocks, Loops
  <2>3. CASE SkipBlank
    BY <1>2, <2>3 DEF SkipBlank
  <2>4. QED BY <2>1, <2>2, <2>3
<1>6. lines # <<>>
    BY <1>2, InHand
<1>7. LoopInv'
    BY <1>1, <1>5, <1>6 DEF LoopInv, In
<1>8. QED BY <1>1, <1>4, <1>5, <1>7, Moves

\* A block of one line is shown.
LEMMA SingleActions ==
    ASSUME BlocksInv, Rule \/ (Heading /\ error = 0)
    PROVE  BlocksInv'
<1>1. PICK test \in {"hr", "heading"}, as \in Forms :
         Dispatch(test) /\ Show(<<Line>>, as) /\ Advance(1) /\ UNCHANGED block
    BY DEF Rule, Heading, Forms
<1>2. /\ ~AtEnd /\ Sound(html, <<>>, <<>>, lines, i, stack, Wanted)
      /\ block \in Blocks /\ block.loop = "none" /\ block.taken = <<>> /\ block.items = <<>>
    BY <1>1, DispatchFacts
<1>3. Line \in Numbered /\ i <= Len(lines)
    BY <1>2, InHand
<1>4. Sound(html, <<>>, Append(<<>>, Line), lines, i + 1, stack, Wanted)
    BY <1>2, <1>3, WantedFacts, TakeSound DEF Line
<1>5. Append(<<>>, Line) = <<Line>>
    OBVIOUS
<1>6. Sound(html, <<>>, <<Line>>, lines, i + 1, stack, Wanted)
    BY <1>4, <1>5
<1>7. Show(<<Line>>, as) /\ i' = i + 1 /\ UNCHANGED <<source, lines, path, stack, error, block>>
    BY <1>1 DEF Advance
<1>8. QED BY <1>2, <1>6, <1>7, Finishes

\* The loop of a block ends, and the line at hand is looked at again.
LEMMA CloseActions ==
    ASSUME BlocksInv,
           TableClose \/ CodeClose \/ (ParagraphClose /\ block.taken # <<>> /\ error = 0)
    PROVE  BlocksInv'
<1>1. PICK as \in Forms : block' = Idle /\ Show(block.taken, as) /\ Advance(0)
    BY DEF TableClose, CodeClose, ParagraphClose, RenderParagraph, Close, Forms
<1>2. block.loop \in {"table", "code", "paragraph"}
    BY DEF TableClose, CodeClose, ParagraphClose, In
<1>3. Sound(html, <<>>, block.taken, lines, i, stack, Wanted) /\ i \in Int
    BY <1>2 DEF BlocksInv, LoopInv, Sound, Typed
<1>4. i' = i /\ UNCHANGED <<source, lines, path, stack, error>>
    BY <1>1, <1>3 DEF Advance
<1>5. block' \in Blocks /\ block'.loop = "none" /\ block'.items = <<>> /\ block'.taken = <<>>
    BY <1>1, IdleFacts
<1>6. QED BY <1>1, <1>3, <1>4, <1>5, Finishes

\* A loop of a paragraph that took nothing ends.
LEMMA NothingTaken ==
    ASSUME BlocksInv, ParagraphClose, block.taken = <<>>
    PROVE  BlocksInv'
<1>1. block' = Idle /\ Advance(0) /\ UNCHANGED html
    BY DEF ParagraphClose, Open
<1>2. Sound(html, <<>>, <<>>, lines, i, stack, Wanted) /\ i \in Int
    BY DEF ParagraphClose, In, BlocksInv, LoopInv, Sound, Typed
<1>3. i' = i /\ UNCHANGED <<source, lines, path, stack, error, html>>
    BY <1>1, <1>2 DEF Advance
<1>4. block' \in Blocks /\ block'.items = <<>> /\ block'.taken = <<>> /\ LoopInv'
    BY <1>1, IdleFacts DEF LoopInv, In
<1>5. QED BY <1>2, <1>3, <1>4, Moves

\* The line behind the block is passed with it.
LEMMA PassActions ==
    ASSUME BlocksInv, FenceClose \/ MathClose
    PROVE  BlocksInv'
<1>1. PICK as \in Forms : block' = Idle /\ Show(block.taken, as)
    BY DEF FenceClose, MathClose, Forms
<1>2. block.loop \in {"fence", "math"}
    BY DEF FenceClose, MathClose, In
<1>3. Sound(html, <<>>, block.taken, lines, i, stack, Wanted) /\ i \in Int
    BY <1>2 DEF BlocksInv, LoopInv, Sound, Typed
<1>4. block' \in Blocks /\ block'.loop = "none" /\ block'.items = <<>> /\ block'.taken = <<>>
    BY <1>1, IdleFacts
<1>5. CASE AtEnd
  <2>1. i' = i /\ UNCHANGED <<source, lines, path, stack, error>>
    BY <1>3, <1>5 DEF FenceClose, MathClose, Advance
  <2>2. QED BY <1>1, <1>3, <1>4, <2>1, Finishes
<1>6. CASE ~AtEnd
  <2>1. i' = i + 1 /\ UNCHANGED <<source, lines, path, stack, error>>
    BY <1>6 DEF FenceClose, MathClose, Advance
  <2>2. Line.leaf \notin Lasting
    BY <1>6 DEF FenceClose, MathClose, Continues, EndsMath, ClosesFence, is_code_fence_close,
                starts_code_fence, Unmarked, Lasting, Visible
  <2>3. \A k \in i..((i + 1) - 1) : lines[k].leaf \notin Lasting
    BY <1>3, <2>2 DEF Line
  <2>4. i + 1 \in i..(Len(lines) + 1)
    BY <1>6, InHand
  <2>5. Sound(html, <<>>, block.taken, lines, i + 1, stack, Wanted)
    BY <1>3, <2>3, <2>4, WantedFacts, SkipSound
  <2>6. QED BY <1>1, <1>4, <2>1, <2>5, Finishes
<1>7. QED BY <1>5, <1>6

\* An HTML block takes the line at hand, and ends behind it or goes on.
LEMMA HtmlLines ==
    ASSUME BlocksInv, HtmlLine
    PROVE  BlocksInv'
<1> DEFINE t == Append(block.taken, Line)
<1>1. block.loop = "html" /\ ~AtEnd
    BY DEF HtmlLine, In, BlocksInv, LoopInv
<1>2. Line \in Numbered /\ i <= Len(lines)
    BY <1>1, InHand
<1>3. CASE HasNext /\ ~is_blank_line(NextLine)
  <2>1. Take(Line)
    BY <1>3 DEF HtmlLine
  <2>2. QED BY <1>1, <1>2, <1>3, <2>1, Takes
<1>4. CASE ~(HasNext /\ ~is_blank_line(NextLine))
  <2>1. block' = Idle /\ Show(t, "html") /\ Advance(1)
    BY <1>4 DEF HtmlLine
  <2>2. Sound(html, <<>>, block.taken, lines, i, stack, Wanted)
    BY <1>1 DEF BlocksInv, LoopInv
  <2>3. Sound(html, <<>>, t, lines, i + 1, stack, Wanted)
    BY <1>2, <2>2, WantedFacts, TakeSound DEF Line
  <2> HIDE DEF t
  <2>4. i' = i + 1 /\ UNCHANGED <<source, lines, path, stack, error>>
    BY <2>1 DEF Advance
  <2>5. block' \in Blocks /\ block'.loop = "none" /\ block'.items = <<>> /\ block'.taken = <<>>
    BY <2>1, IdleFacts
  <2>6. "html" \in Forms
    BY DEF Forms
  <2>7. QED BY <2>1, <2>3, <2>4, <2>5, <2>6, Finishes
<1>5. QED BY <1>3, <1>4

\* Two lines are passed: the one at hand is taken, the one behind it skipped.
LEMMA TwoLines ==
    ASSUME BlocksInv, HasNext, NextLine.leaf \notin Lasting, block.items = <<>>
    PROVE  /\ Sound(html, <<>>, Append(block.taken, Line), lines, i + 2, stack, Wanted)
           /\ i + 2 \in Nat
<1>1. Sound(html, <<>>, block.taken, lines, i, stack, Wanted) /\ lines \in Seq(Numbered)
    BY DEF BlocksInv, Sound, Typed
<1>2. ~AtEnd /\ i \in Nat /\ Len(lines) \in Nat /\ i + 1 <= Len(lines)
    BY <1>1, SeqFacts DEF AtEnd, HasNext, Sound, Typed
<1>3. Line \in Numbered /\ i <= Len(lines)
    BY <1>2, InHand
<1>4. Sound(html, <<>>, Append(block.taken, Line), lines, i + 1, stack, Wanted)
    BY <1>1, <1>3, WantedFacts, TakeSound DEF Line
<1>5. i + 2 \in (i + 1)..(Len(lines) + 1)
    BY <1>2
<1>6. \A k \in (i + 1)..((i + 2) - 1) : lines[k].leaf \notin Lasting
    BY <1>2 DEF NextLine
<1>7. Sound(html, <<>>, Append(block.taken, Line), lines, i + 2, stack, Wanted)
    BY <1>4, <1>5, <1>6, WantedFacts, SkipSound
<1>8. QED BY <1>2, <1>7

\* A table opens: the row above the delimiters is taken.
LEMMA TableOpens ==
    ASSUME BlocksInv, TableOpen
    PROVE  BlocksInv'
<1>1. Dispatch("table")
    BY DEF TableOpen
<1>2. /\ Passes("table") /\ block.loop = "none" /\ block.taken = <<>> /\ block.items = <<>>
    BY <1>1, DispatchFacts
<1>3. ~AtEnd
    BY <1>1, DispatchFacts
<1>4. HasNext /\ NextLine.leaf \notin Lasting
    BY <1>2 DEF Passes, UnderDelimiter, match_table_delimiter, Lasting, Visible
<1>5. Sound(html, <<>>, Append(<<>>, Line), lines, i + 2, stack, Wanted)
    BY <1>2, <1>4, TwoLines
<1>6. Append(<<>>, Line) = <<Line>>
    OBVIOUS
<1>7. Sound(html, <<>>, <<Line>>, lines, i + 2, stack, Wanted)
    BY <1>5, <1>6
<1>8. <<Line>> \in Seq(Numbered)
    BY <1>7 DEF Sound, Typed
<1>9. block' \in Blocks /\ block'.taken = <<Line>> /\ block'.items = <<>> /\ block'.loop = "table"
  <2> DEFINE b == [Idle EXCEPT !.loop = "table"]
  <2>1. b \in Blocks /\ b.loop = "table" /\ b.taken = <<>> /\ b.items = <<>>
    BY IdleFacts DEF Loops
  <2>2. block' = [b EXCEPT !.taken = <<Line>>]
    BY DEF TableOpen
  <2> HIDE DEF b
  <2>3. QED BY <1>8, <2>1, <2>2, TakenFacts
<1>10. i' = i + 2 /\ UNCHANGED <<source, lines, path, stack, error, html>>
    BY DEF TableOpen, Advance
<1>11. LoopInv'
    BY <1>9, <1>10 DEF LoopInv, In
<1>12. QED BY <1>7, <1>9, <1>10, <1>11, Moves

\* The last line of a heading over an underline.
LEMMA Underlines ==
    ASSUME BlocksInv, ParagraphUnderline, error = 0
    PROVE  BlocksInv'
<1> DEFINE t == Append(block.taken, Line)
<1>1. block.loop = "paragraph" /\ HasNext /\ match_setext_underline(NextLine)
    BY DEF ParagraphUnderline, In, Underlined
<1>2. block.items = <<>> /\ NextLine.leaf \notin Lasting
    BY <1>1 DEF BlocksInv, LoopInv, match_setext_underline, Unmarked, Lasting, Visible
<1>3. Sound(html, <<>>, t, lines, i + 2, stack, Wanted)
    BY <1>1, <1>2, TwoLines
<1>4. block' = Idle /\ Show(t, "h") /\ Advance(2)
    BY DEF ParagraphUnderline, RenderParagraph
<1> HIDE DEF t
<1>5. i' = i + 2 /\ UNCHANGED <<source, lines, path, stack, error>>
    BY <1>4 DEF Advance
<1>6. block' \in Blocks /\ block'.loop = "none" /\ block'.items = <<>> /\ block'.taken = <<>>
    BY <1>4, IdleFacts
<1>7. "h" \in Forms
    BY DEF Forms
<1>8. QED BY <1>3, <1>4, <1>5, <1>6, <1>7, Finishes

\* The document at hand is at its end, or given up after an error.
LEMMA Returns ==
    ASSUME BlocksInv, Return, error' \in Nat,
           \/ error' # 0
           \/ error' = error /\ AtEnd /\ block.taken = <<>> /\ block.items = <<>>
    PROVE  BlocksInv'
<1>1. PICK want : /\ want = Wanted'
                  /\ want = {} \/ AtEnd
                  /\ Sound(html, <<>>, <<>>, lines, i, stack, want)
  <2>1. Sound(html, block.items, block.taken, lines, i, stack, Wanted) /\ source' = source
    BY DEF BlocksInv, Return
  <2>2. CASE error' # 0
    <3>1. Sound(html, block.items, block.taken, lines, i, stack, {})
        BY <2>1, WantLess
    <3>2. Sound(html, <<>>, <<>>, lines, i, stack, {})
        BY <3>1, DropSound
    <3>3. Wanted' = {}
        BY <2>2 DEF Wanted
    <3>4. QED BY <3>2, <3>3
  <2>3. CASE error' = error /\ AtEnd /\ block.taken = <<>> /\ block.items = <<>>
    <3>1. Wanted' = Wanted
        BY <2>1, <2>3 DEF Wanted, Sent
    <3>2. QED BY <2>1, <2>3, <3>1
  <2>4. QED BY <2>2, <2>3
<1>2. CASE stack = <<>>
  <2>1. block' = [Idle EXCEPT !.loop = "done"] /\ UNCHANGED <<lines, i, path, stack, source, html>>
    BY <1>2 DEF Return
  <2>2. block' \in Blocks /\ block'.taken = <<>> /\ block'.items = <<>> /\ block'.loop = "done"
    BY <2>1, IdleFacts DEF Loops
  <2>3. LoopInv'
    BY <1>2, <2>1, <2>2 DEF LoopInv, In, AtEnd
  <2>4. Sound(html', block'.items, block'.taken, lines', i', stack', want)
    BY <1>1, <2>1, <2>2
  <2>5. QED BY <1>1, <2>1, <2>2, <2>3, <2>4 DEF BlocksInv
<1>3. CASE stack # <<>>
  <2>1. /\ block' = Idle /\ lines' = Head(stack).lines /\ i' = Head(stack).i
        /\ path' = Head(stack).path /\ stack' = Tail(stack) /\ UNCHANGED <<source, html>>
    BY <1>3 DEF Return
  <2>2. want = {} \/ i > Len(lines)
    BY <1>1 DEF AtEnd
  <2>3. /\ Sound(html, <<>>, <<>>, Head(stack).lines, Head(stack).i, Tail(stack), want)
        /\ Head(stack) \in Frames
    BY <1>1, <1>3, <2>2, NextSound
  <2>4. block' \in Blocks /\ block'.items = <<>> /\ block'.taken = <<>> /\ block'.loop = "none"
    BY <2>1, IdleFacts
  <2>5. LoopInv'
    BY <2>4 DEF LoopInv, In
  <2>6. path' \in Seq(Containers)
    BY <2>1, <2>3 DEF Frames
  <2>7. Sound(html', block'.items, block'.taken, lines', i', stack', Wanted')
    BY <1>1, <2>1, <2>3, <2>4
  <2>8. QED BY <2>1, <2>4, <2>5, <2>6, <2>7 DEF BlocksInv
<1>4. QED BY <1>2, <1>3

LEMMA ReturnActions ==
    ASSUME BlocksInv,
           \/ DocumentEnd \/ FenceUnterminated
           \/ error # 0 /\ Heading
           \/ error # 0 /\ ParagraphUnderline
           \/ error # 0 /\ ParagraphClose /\ block.taken # <<>>
    PROVE  BlocksInv'
<1>1. error \in Nat
    BY DEF BlocksInv
<1>2. CASE DocumentEnd
  <2>1. Return /\ error' = error /\ AtEnd /\ block.taken = <<>> /\ block.items = <<>>
    BY <1>2 DEF DocumentEnd, In, BlocksInv, LoopInv
  <2>2. QED BY <1>1, <2>1, Returns
<1>3. CASE FenceUnterminated
  <2>1. Return /\ error' = Len(lines) /\ lines # <<>> /\ lines \in Seq(Numbered)
    BY <1>3 DEF FenceUnterminated, In, BlocksInv, LoopInv, Sound, Typed
  <2>2. error' \in Nat /\ error' # 0
    BY <2>1
  <2>3. QED BY <2>1, <2>2, Returns
<1>4. CASE error # 0 /\ (Heading \/ ParagraphUnderline \/ (ParagraphClose /\ block.taken # <<>>))
  <2>1. Return /\ error' = error
    BY <1>4 DEF Heading, ParagraphUnderline, ParagraphClose, RenderParagraph
  <2>2. QED BY <1>1, <1>4, <2>1, Returns
<1>5. QED BY <1>2, <1>3, <1>4

-----------------------------------------------------------------------------
(***************************************************************************)
(* Lists and quotes.                                                       *)
(***************************************************************************)
LEMMA ListOpens ==
    ASSUME BlocksInv, ListOpen
    PROVE  BlocksInv'
<1>1. Dispatch("list")
    BY DEF ListOpen
<1>2. ~AtEnd /\ Sound(html, <<>>, <<>>, lines, i, stack, Wanted)
    BY <1>1, DispatchFacts
<1>3. match_list_item(Line) /\ ~match_horizontal_rule(Line)
  <2>1. PICK n \in DOMAIN Tests : /\ Tests[n] = "list" /\ Passes(Tests[n])
                                  /\ \A m \in 1..(n - 1) : ~Passes(Tests[m])
    BY <1>1 DEF Dispatch
  <2>2. DOMAIN Tests = 1..11
    BY DEF Tests
  <2>3. Tests[5] = "hr"
    BY DEF Tests
  <2>4. n = 9
    BY <2>1, <2>2 DEF Tests
  <2>5. ~Passes("hr") /\ Passes("list")
    BY <2>1, <2>3, <2>4
  <2>6. QED BY <2>5 DEF Passes
<1>4. Line \in Numbered
    BY <1>2, InHand
<1> DEFINE b == [Idle EXCEPT !.loop = "list", !.ordered = Ordered(Line),
                             !.indent = content_indent(Line)]
<1>5. /\ b \in Blocks /\ b.taken = <<>> /\ b.items = <<>> /\ b.loop = "list"
      /\ b.ordered = Ordered(Line) /\ b.prev_blank = FALSE
  <2>1. Ordered(Line) \in BOOLEAN
    BY DEF Ordered
  <2>2. content_indent(Line) \in Nat
    BY <1>4 DEF content_indent, Numbered
  <2>3. <<>> \in Seq(Numbered) /\ <<>> \in Seq(Seq(Numbered))
    OBVIOUS
  <2>4. b \in Blocks
    BY <2>1, <2>2, <2>3 DEF Idle, Blocks, Loops
  <2>5. b.taken = <<>> /\ b.items = <<>> /\ b.loop = "list" /\ b.prev_blank = FALSE
    BY DEF Idle
  <2>6. b.ordered = Ordered(Line)
    BY DEF Idle
  <2>7. QED BY <2>4, <2>5, <2>6
<1>6. block' = b /\ i' = i /\ UNCHANGED <<source, lines, path, stack, error, html>>
    BY <1>2, InHand DEF ListOpen, Open, Advance
<1> HIDE DEF b
<1>7. LoopInv'
  <2>1. Line' = Line /\ (AtEnd' <=> AtEnd)
    BY <1>6 DEF Line, AtEnd
  <2>2. block'.ordered = Ordered(Line) /\ block'.prev_blank = FALSE
    BY <1>5, <1>6
  <2>3. (SameList(Line))'
    BY <1>3, <2>1, <2>2 DEF SameList
  <2>4. (match_horizontal_rule(Line))' <=> match_horizontal_rule(Line)
    BY <2>1
  <2>5. QED BY <1>2, <1>3, <1>5, <1>6, <2>1, <2>2, <2>3, <2>4 DEF LoopInv, In
<1>8. QED BY <1>2, <1>5, <1>6, <1>7, Moves

LEMMA ItemOpens ==
    ASSUME BlocksInv, ItemOpen
    PROVE  BlocksInv'
<1> DEFINE t == <<Content(Line)>>
<1>1. block.loop = "list" /\ ~AtEnd /\ SameList(Line) /\ block \in Blocks
    BY DEF ItemOpen, In, Continues, BlocksInv
<1>2. block.taken = <<>> /\ Sound(html, block.items, <<>>, lines, i, stack, Wanted)
    BY <1>1 DEF BlocksInv, LoopInv, In
<1>3. Line \in Numbered /\ i <= Len(lines) /\ Line.marks # <<>>
    BY <1>1, InHand DEF SameList, match_list_item
<1>4. Content(Line) \in Numbered /\ Content(Line).id = Line.id /\ Content(Line).leaf = Line.leaf
    BY <1>3, ContentFacts
<1>5. Sound(html, block.items, Append(<<>>, Content(Line)), lines, i + 1, stack, Wanted)
    BY <1>2, <1>3, <1>4, WantedFacts, TakeSound DEF Line
<1>6. Append(<<>>, Content(Line)) = t
    OBVIOUS
<1>7. Sound(html, block.items, t, lines, i + 1, stack, Wanted)
    BY <1>5, <1>6
<1>8. t \in Seq(Numbered)
    BY <1>7 DEF Sound, Typed
<1>9. /\ block' = [block EXCEPT !.loop = "item", !.taken = t,
                               !.own = content_indent(Line), !.prev_blank = FALSE]
      /\ i' = i + 1 /\ UNCHANGED <<source, lines, path, stack, error, html>>
    BY DEF ItemOpen, Advance
<1> HIDE DEF t
<1>10. /\ block' \in Blocks /\ block'.taken = t /\ block'.items = block.items
       /\ block'.loop = "item"
  <2>1. content_indent(Line) \in Nat
    BY <1>3 DEF content_indent, Numbered
  <2> DEFINE own == content_indent(Line)
  <2> HIDE DEF own
  <2>2. block' = [block EXCEPT !.loop = "item", !.taken = t, !.own = own, !.prev_blank = FALSE]
    BY <1>9 DEF own
  <2>3. own \in Nat
    BY <2>1 DEF own
  <2>4. block' = [loop |-> "item", taken |-> t, items |-> block.items, ordered |-> block.ordered,
                  indent |-> block.indent, own |-> own, prev_blank |-> FALSE, fence |-> block.fence]
    BY <1>1, <2>2 DEF Blocks
  <2>5. QED BY <1>1, <1>8, <2>3, <2>4 DEF Blocks, Loops
<1>11. LoopInv'
    BY <1>9, <1>10 DEF LoopInv, In
<1>12. QED BY <1>7, <1>9, <1>10, <1>11, Moves

\* A list without an item is at the line that opened it.
LEMMA FirstItem ==
    ASSUME BlocksInv, In("list"), block.items = <<>>
    PROVE  ~AtEnd /\ Continues(EndsList) /\ ~is_blank_line(Line) /\ ~OtherLine(Line)
<1>1. ~AtEnd /\ SameList(Line) /\ ~match_horizontal_rule(Line) /\ ~block.prev_blank
    BY DEF BlocksInv, LoopInv
<1>2. ~is_blank_line(Line) /\ ~OtherLine(Line)
    BY <1>1 DEF SameList, match_list_item, is_blank_line, OtherLine
<1>3. ~EndsList(Line)
    BY <1>1, <1>2 DEF EndsList, TooFarApart
<1>4. QED BY <1>1, <1>2, <1>3 DEF Continues

LEMMA ListBlanks ==
    ASSUME BlocksInv, ListBlank
    PROVE  BlocksInv'
<1>1. block.loop = "list" /\ ~AtEnd /\ is_blank_line(Line) /\ block \in Blocks
    BY DEF ListBlank, In, Continues, BlocksInv
<1>2. /\ block.taken = <<>> /\ Sound(html, block.items, <<>>, lines, i, stack, Wanted)
      /\ block.items # <<>>
    BY <1>1, FirstItem DEF BlocksInv, LoopInv, In
<1>3. \A k \in i..((i + 1) - 1) : lines[k].leaf \notin Lasting
    BY <1>1, InHand DEF Line, is_blank_line, Lasting, Visible
<1>4. i + 1 \in i..(Len(lines) + 1)
    BY <1>1, InHand
<1>5. Sound(html, block.items, <<>>, lines, i + 1, stack, Wanted)
    BY <1>2, <1>3, <1>4, WantedFacts, SkipSound
<1>6. /\ block' = [block EXCEPT !.prev_blank = TRUE]
      /\ i' = i + 1 /\ UNCHANGED <<source, lines, path, stack, error, html>>
    BY DEF ListBlank, Advance
<1>7. /\ block' \in Blocks /\ block'.taken = <<>> /\ block'.items = block.items
      /\ block'.loop = "list"
    BY <1>1, <1>2, <1>6 DEF Blocks
<1>8. LoopInv'
    BY <1>2, <1>6, <1>7 DEF LoopInv, In
<1>9. QED BY <1>5, <1>6, <1>7, <1>8, Moves

LEMMA ItemCloses ==
    ASSUME BlocksInv, ItemClose
    PROVE  BlocksInv'
<1> DEFINE its == Append(block.items, block.taken)
           blank == ~AtEnd /\ is_blank_line(Line)
<1>1. Sound(html, block.items, block.taken, lines, i, stack, Wanted) /\ block \in Blocks
    BY DEF BlocksInv
<1>2. Sound(html, its, <<>>, lines, i, stack, Wanted)
    BY <1>1, ItemSound
<1>3. its \in Seq(Seq(Numbered)) /\ i \in Int
    BY <1>2 DEF Sound, Typed
<1>4. its # <<>>
  <2>1. block.items \in Seq(Seq(Numbered)) /\ block.taken \in Seq(Numbered)
    BY <1>1 DEF Sound, Typed
  <2>2. Len(its) = Len(block.items) + 1 /\ Len(block.items) \in Nat
    BY <2>1, SeqFacts, Appending
  <2> HIDE DEF its
  <2>3. QED BY <1>3, <2>2
<1>5. /\ block' = [block EXCEPT !.loop = "list", !.taken = <<>>, !.items = its,
                               !.indent = block.own, !.prev_blank = blank]
      /\ i' = i + 0 /\ UNCHANGED <<source, lines, path, stack, error, html>>
    BY DEF ItemClose, Advance
<1>6. blank \in BOOLEAN
    BY DEF is_blank_line, AtEnd
<1> HIDE DEF its, blank
<1>7. i' = i
    BY <1>3, <1>5
<1>8. /\ block' \in Blocks /\ block'.taken = <<>> /\ block'.items = its
      /\ block'.loop = "list"
  <2>1. block' = [loop |-> "list", taken |-> <<>>, items |-> its, ordered |-> block.ordered,
                  indent |-> block.own, own |-> block.own, prev_blank |-> blank, fence |-> block.fence]
    BY <1>1, <1>5 DEF Blocks
  <2>2. <<>> \in Seq(Numbered)
    OBVIOUS
  <2>3. QED BY <1>1, <1>3, <1>6, <2>1, <2>2 DEF Blocks, Loops
<1>9. LoopInv'
    BY <1>4, <1>8 DEF LoopInv, In
<1>10. QED BY <1>2, <1>5, <1>7, <1>8, <1>9, Moves

\* Only the lines of the items count, not how the sequence of them was built.
LEMMA SameItems ==
    ASSUME NEW h, NEW its, NEW tk, NEW ls, NEW n, NEW st, NEW want,
           Sound(h, its, tk, ls, n, st, want),
           NEW same \in Seq(Seq(Numbered)), Len(same) = Len(its),
           \A k \in 1..Len(its) : same[k] = its[k]
    PROVE  Sound(h, same, tk, ls, n, st, want)
<1>1. Typed(h, same, tk, ls, n, st)
    BY DEF Sound, Typed
<1>2. InOrder(h, same, tk, ls, n, st)
    BY DEF Sound, InOrder
<1>3. Complete(h, same, tk, ls, n, st, want)
    BY DEF Sound, Complete
<1>4. QED BY <1>1, <1>2, <1>3 DEF Sound

LEMMA ListIndents ==
    ASSUME BlocksInv, ListIndented
    PROVE  BlocksInv'
<1> DEFINE its == block.items
           m == Len(its)
           l == Stripped(Line, block.indent)
           x == Append(its[m], l)
           f == SubSeq(its, 1, m - 1)
           a == [its EXCEPT ![m] = x]
<1>1. block.loop = "list" /\ ~AtEnd /\ OtherLine(Line) /\ block \in Blocks
    BY DEF ListIndented, In, Continues, BlocksInv
<1>2. block.taken = <<>> /\ Sound(html, its, <<>>, lines, i, stack, Wanted) /\ its # <<>>
    BY <1>1, FirstItem DEF BlocksInv, LoopInv, In
<1>3. Line \in Numbered /\ i <= Len(lines) /\ block.indent \in Nat
    BY <1>1, InHand DEF Blocks
<1>4. l \in Numbered /\ l.id = Line.id /\ l.leaf = Line.leaf
    BY <1>3, StrippedFacts
<1> HIDE DEF l
<1>5. Sound(html, f, its[m], lines, i, stack, Wanted)
    BY <1>2, AgainSound
<1>6. Sound(html, f, x, lines, i + 1, stack, Wanted)
    BY <1>3, <1>4, <1>5, WantedFacts, TakeSound DEF Line
<1>7. Sound(html, Append(f, x), <<>>, lines, i + 1, stack, Wanted)
    BY <1>6, ItemSound
<1>8. its \in Seq(Seq(Numbered)) /\ x \in Seq(Numbered)
    BY <1>2, <1>6 DEF Sound, Typed
<1> HIDE DEF x, its
<1>9. /\ a \in Seq(Seq(Numbered)) /\ Len(a) = Len(Append(f, x)) /\ a # <<>>
      /\ \A k \in 1..Len(Append(f, x)) : a[k] = Append(f, x)[k]
    BY <1>2, <1>8, LastReplaced
<1>10. Sound(html, a, <<>>, lines, i + 1, stack, Wanted)
    BY <1>7, <1>9, SameItems
<1>11. block' = [block EXCEPT !.items = a]
    BY DEF ListIndented, a, its, x, l, m
<1> HIDE DEF a
<1>12. i' = i + 1 /\ UNCHANGED <<source, lines, path, stack, error, html>>
    BY DEF ListIndented, Advance
<1>13. /\ block' \in Blocks /\ block'.taken = <<>> /\ block'.items = a
       /\ block'.loop = "list"
    BY <1>1, <1>2, <1>9, <1>11 DEF Blocks
<1>14. LoopInv'
    BY <1>9, <1>13 DEF LoopInv, In
<1>15. QED BY <1>10, <1>12, <1>13, <1>14, Moves

\* The bodies of a list or a quote are parsed.
LEMMA Recurses ==
    ASSUME BlocksInv, NEW bodies, bodies # <<>>, NEW container \in Containers,
           Sound(html, bodies, <<>>, lines, i, stack, Wanted), Recurse(bodies, container)
    PROVE  BlocksInv'
<1> DEFINE inside == Append(path, container)
           fs == Bodies(bodies, inside)
           here == [lines |-> lines, i |-> i, path |-> path]
<1>1. inside \in Seq(Containers) /\ path \in Seq(Containers) /\ error \in Nat
    BY DEF BlocksInv
<1>2. /\ lines' = fs[1].lines /\ i' = 1 /\ path' = fs[1].path
      /\ stack' = Tail(fs) \o <<here>> \o stack /\ block' = Idle
      /\ UNCHANGED <<source, html, error>>
    BY DEF Recurse, Bodies
<1>3. bodies \in Seq(Seq(Numbered))
    BY DEF Sound, Typed
<1> HIDE DEF inside
<1>4. fs[1].path = inside
  <2>1. DOMAIN bodies = 1..Len(bodies) /\ Len(bodies) \in Nat
    BY <1>3, SeqFacts
  <2>2. 1 \in DOMAIN bodies
    BY <1>3, <2>1
  <2>3. QED BY <2>2 DEF Bodies
<1>5. Sound(html, <<>>, <<>>, fs[1].lines, 1, Tail(fs) \o <<here>> \o stack, Wanted)
    BY <1>1, WantedFacts, BodiesSound
<1> HIDE DEF fs, here
<1>6. Wanted' = Wanted
    BY <1>2 DEF Wanted, Sent
<1>7. block' \in Blocks /\ block'.items = <<>> /\ block'.taken = <<>> /\ block'.loop = "none"
    BY <1>2, IdleFacts
<1>8. LoopInv'
    BY <1>7 DEF LoopInv, In
<1>9. Sound(html', block'.items, block'.taken, lines', i', stack', Wanted')
    BY <1>2, <1>5, <1>6, <1>7
<1>10. QED BY <1>1, <1>2, <1>4, <1>7, <1>8, <1>9 DEF BlocksInv

LEMMA RecurseActions ==
    ASSUME BlocksInv, ListClose \/ QuoteClose
    PROVE  BlocksInv'
<1>1. Sound(html, block.items, block.taken, lines, i, stack, Wanted)
    BY DEF BlocksInv
<1>2. CASE ListClose
  <2>1. In("list") /\ block.items # <<>>
    BY <1>2, FirstItem DEF ListClose
  <2>2. block.taken = <<>>
    BY <2>1 DEF BlocksInv, LoopInv
  <2>3. PICK container \in Containers : Recurse(block.items, container)
    BY <1>2 DEF ListClose, Containers
  <2>4. QED BY <1>1, <2>1, <2>2, <2>3, Recurses
<1>3. CASE QuoteClose
  <2>1. block.items = <<>>
    BY <1>3 DEF QuoteClose, In, BlocksInv, LoopInv
  <2>2. Sound(html, Append(<<>>, block.taken), <<>>, lines, i, stack, Wanted)
    BY <1>1, <2>1, ItemSound
  <2>3. Append(<<>>, block.taken) = <<block.taken>> /\ <<block.taken>> # <<>>
    OBVIOUS
  <2>4. Recurse(<<block.taken>>, "quote") /\ "quote" \in Containers
    BY <1>3 DEF QuoteClose, Containers
  <2>5. Sound(html, <<block.taken>>, <<>>, lines, i, stack, Wanted)
    BY <2>2, <2>3
  <2>6. QED BY <2>3, <2>4, <2>5, Recurses
<1>4. QED BY <1>2, <1>3

LEMMA NonBlankFacts ==
    ASSUME BlocksInv
    PROVE  /\ NonBlank \in i..(Len(lines) + 1)
           /\ \A k \in i..(NonBlank - 1) : is_blank_line(lines[k])
           /\ NonBlank <= Len(lines) => ~is_blank_line(lines[NonBlank])
<1> DEFINE n == Len(lines)
           S == {j \in i..(n + 1) : j <= n => ~is_blank_line(lines[j])}
<1>1. n \in Nat /\ i \in 1..(n + 1)
    BY SeqFacts DEF BlocksInv, Sound, Typed
<1> HIDE DEF n
<1>2. n + 1 \in S /\ S \in SUBSET Nat
    BY <1>1
<1>3. PICK m \in S : \A j \in S : m <= j
    BY <1>2, LeastOf
<1>4. \A k \in i..(m - 1) : is_blank_line(lines[k])
  <2>1. SUFFICES ASSUME NEW k \in i..(m - 1) PROVE is_blank_line(lines[k])
    OBVIOUS
  <2>2. k \in i..(n + 1) /\ ~(m <= k)
    BY <1>1
  <2>3. QED BY <1>3, <2>2
<1>5. m \in i..(n + 1) /\ (m <= n => ~is_blank_line(lines[m]))
    OBVIOUS
<1>6. \E j \in i..(Len(lines) + 1) :
         /\ \A k \in i..(j - 1) : is_blank_line(lines[k])
         /\ j <= Len(lines) => ~is_blank_line(lines[j])
    BY <1>4, <1>5, Zenon DEF n
<1>7. QED BY <1>6, Zenon DEF NonBlank

LEMMA ItemBlanks ==
    ASSUME BlocksInv, ItemBlank
    PROVE  BlocksInv'
<1> DEFINE t == Append(block.taken, Blank)
<1>1. block.loop = "item" /\ ~AtEnd /\ is_blank_line(Line) /\ block \in Blocks
    BY DEF ItemBlank, In, Continues, BlocksInv
<1>2. Sound(html, block.items, block.taken, lines, i, stack, Wanted)
    BY DEF BlocksInv
<1>3. Line \in Numbered /\ i \in 1..Len(lines) /\ Len(lines) \in Nat
    BY <1>1, InHand
<1>4. Blank \in Numbered /\ Blank.id = Line.id
  <2>1. Line.id \in Nat \ {0}
    BY <1>3 DEF Numbered
  <2>2. <<>> \in Seq(Markers)
    OBVIOUS
  <2>3. QED BY <2>1, <2>2 DEF Blank, Numbered, Leaves
<1>5. Line.leaf \notin Lasting
    BY <1>1 DEF is_blank_line, Lasting, Visible
<1>6. Sound(html, block.items, t, lines, i + 1, stack, Wanted)
    BY <1>2, <1>3, <1>4, <1>5, WantedFacts, TakeSound DEF Line
<1> HIDE DEF t
<1>7. NonBlank \in (i + 1)..(Len(lines) + 1)
  <2>1. NonBlank # i
    BY <1>1, <1>3, NonBlankFacts DEF Line
  <2>2. NonBlank \in i..(Len(lines) + 1)
    BY NonBlankFacts
  <2>3. QED BY <1>3, <2>1, <2>2
<1>8. \A k \in (i + 1)..(NonBlank - 1) : lines[k].leaf \notin Lasting
  <2>1. \A k \in i..(NonBlank - 1) : lines[k].leaf \notin Lasting
    BY NonBlankFacts DEF is_blank_line, Lasting, Visible
  <2>2. \A k \in (i + 1)..(NonBlank - 1) : k \in i..(NonBlank - 1)
    BY <1>3, <1>7
  <2>3. QED BY <2>1, <2>2
<1>9. Sound(html, block.items, t, lines, NonBlank, stack, Wanted)
    BY <1>6, <1>7, <1>8, WantedFacts, SkipSound
<1>10. /\ block' = [block EXCEPT !.taken = t] /\ i' = NonBlank
       /\ UNCHANGED <<source, lines, path, stack, error, html>>
    BY DEF ItemBlank, t
<1>11. t \in Seq(Numbered)
    BY <1>9 DEF Sound, Typed
<1>12. /\ block' \in Blocks /\ block'.taken = t /\ block'.items = block.items
       /\ block'.loop = "item"
    BY <1>1, <1>10, <1>11, TakenFacts
<1>13. LoopInv'
    BY <1>12 DEF LoopInv, In
<1>14. QED BY <1>9, <1>10, <1>12, <1>13, Moves

-----------------------------------------------------------------------------
(***************************************************************************)
(* Every step of the parser.                                               *)
(***************************************************************************)
LEMMA BlocksStep ==
    ASSUME BlocksInv, BlocksNext
    PROVE  BlocksInv'
<1>1. CASE SkipBlank \/ MathOpen \/ FenceOpen
    BY <1>1, FirstActions
<1>2. CASE Rule \/ Heading
    BY <1>2, SingleActions, ReturnActions
<1>3. CASE DocumentEnd \/ FenceUnterminated
    BY <1>3, ReturnActions
<1>4. CASE HtmlOpen \/ CodeOpen \/ QuoteOpen \/ ParagraphOpen
    BY <1>4, OpenActions
<1>5. CASE MathLine \/ TableRow \/ CodeLine \/ FenceLine \/ ItemLine \/ QuoteLine \/ ParagraphLine
    BY <1>5, LineActions
<1>6. CASE HtmlLine
    BY <1>6, HtmlLines
<1>7. CASE MathClose \/ FenceClose
    BY <1>7, PassActions
<1>8. CASE TableOpen
    BY <1>8, TableOpens
<1>9. CASE TableClose \/ CodeClose
    BY <1>9, CloseActions
<1>10. CASE ListOpen \/ ItemOpen \/ ListBlank \/ ListIndented
    BY <1>10, ListOpens, ItemOpens, ListBlanks, ListIndents
<1>11. CASE ListClose \/ QuoteClose
    BY <1>11, RecurseActions
<1>12. CASE ItemBlank \/ ItemClose
    BY <1>12, ItemBlanks, ItemCloses
<1>13. CASE ParagraphUnderline
    BY <1>13, Underlines, ReturnActions
<1>14. CASE ParagraphClose
    BY <1>14, CloseActions, NothingTaken, ReturnActions
<1>15. QED BY <1>1, <1>2, <1>3, <1>4, <1>5, <1>6, <1>7, <1>8, <1>9, <1>10, <1>11, <1>12, <1>13,
              <1>14 DEF BlocksNext

LEMMA BlocksStutter ==
    ASSUME BlocksInv, [BlocksNext]_document
    PROVE  BlocksInv'
<1>1. CASE BlocksNext
    BY <1>1, BlocksStep
<1>2. CASE UNCHANGED document
  <2>1. UNCHANGED <<source, lines, i, path, stack, block, html, error>>
    BY <1>2 DEF document
  <2>2. Wanted' = Wanted
    BY <2>1 DEF Wanted, Sent
  <2>3. LoopInv'
    BY <2>1 DEF BlocksInv, LoopInv, In, AtEnd, SameList, Line
  <2>4. Sound(html, block.items, block.taken, lines, i, stack, Wanted)
    BY DEF BlocksInv
  <2>5. QED BY <2>1, <2>2, <2>3, <2>4 DEF BlocksInv
<1>3. QED BY <1>1, <1>2

\* The lines that the dispatch gets: those of the source, some of them blanked.
LEMMA SentFacts ==
    ASSUME source \in Seq(Numbered)
    PROVE  /\ Sent \in Seq(Numbered) /\ Len(Sent) = Len(source)
           /\ \A k \in 1..Len(source) :
                 /\ Sent[k].id = source[k].id /\ Sent[k].marks = source[k].marks
                 /\ ~Blanked(source, k) => Sent[k].leaf = source[k].leaf
<1> DEFINE n == Len(source)
           F(k) == IF Blanked(source, k) THEN [source[k] EXCEPT !.leaf = "blank"] ELSE source[k]
<1>1. n \in Nat /\ DOMAIN source = 1..n /\ \A k \in 1..n : source[k] \in Numbered
    BY SeqFacts
<1>2. \A k \in 1..n : F(k) \in Numbered /\ F(k).id = source[k].id /\ F(k).marks = source[k].marks
                      /\ (~Blanked(source, k) => F(k).leaf = source[k].leaf)
  <2>1. SUFFICES ASSUME NEW k \in 1..n
                 PROVE  F(k) \in Numbered /\ F(k).id = source[k].id /\ F(k).marks = source[k].marks
                        /\ (~Blanked(source, k) => F(k).leaf = source[k].leaf)
    OBVIOUS
  <2>2. source[k] \in Numbered
    BY <1>1
  <2>3. [source[k] EXCEPT !.leaf = "blank"] \in Numbered
    BY <2>2 DEF Numbered, Leaves
  <2>4. /\ [source[k] EXCEPT !.leaf = "blank"].id = source[k].id
        /\ [source[k] EXCEPT !.leaf = "blank"].marks = source[k].marks
    BY <2>2 DEF Numbered
  <2>5. CASE Blanked(source, k)
    BY <2>3, <2>4, <2>5
  <2>6. CASE ~Blanked(source, k)
    BY <2>2, <2>6
  <2>7. QED BY <2>5, <2>6
<1>3. Sent = [k \in 1..n |-> F(k)]
    BY <1>1 DEF Sent, parse_all_link_refs_from_lines
<1> HIDE DEF F, n
<1>4. Sent \in Seq(Numbered) /\ Len(Sent) = n /\ \A k \in 1..n : Sent[k] = F(k)
    BY <1>1, <1>2, <1>3
<1>5. QED BY <1>2, <1>4 DEF n

LEMMA NumberedLines ==
    ASSUME NEW d \in Documents, source = [k \in DOMAIN d |-> With(d[k], k)]
    PROVE  source \in Seq(Numbered) /\ \A k \in 1..Len(source) : source[k].id = k
<1>1. d \in Seq(Lines)
    BY DocumentsAssumption
<1>2. Len(d) \in Nat /\ DOMAIN d = 1..Len(d) /\ \A k \in 1..Len(d) : d[k] \in Lines
    BY <1>1, SeqFacts
<1>3. \A k \in 1..Len(d) : With(d[k], k) \in Numbered /\ With(d[k], k).id = k
    BY <1>2 DEF With, Numbered, Lines
<1>4. source = [k \in 1..Len(d) |-> With(d[k], k)]
    BY <1>2
<1>5. source \in Seq(Numbered) /\ Len(source) = Len(d) /\ \A k \in 1..Len(d) : source[k] = With(d[k], k)
    BY <1>2, <1>3, <1>4
<1>6. QED BY <1>3, <1>5

\* At rest: nothing is shown, taken or around.
LEMMA AtRest ==
    ASSUME NEW ls \in Seq(Numbered), Rising(ls), NEW want, \A w \in want : Has(ls, 1, w)
    PROVE  Sound(<<>>, <<>>, <<>>, ls, 1, <<>>, want)
<1>1. \A j \in 1..Len(<<>>) : FALSE
    OBVIOUS
<1>2. /\ <<>> \in Seq(Numbered) /\ <<>> \in Seq(Seq(Numbered)) /\ <<>> \in Seq(Shown)
      /\ <<>> \in Seq(Frames)
    OBVIOUS
<1>3. 1 \in 1..(Len(ls) + 1)
    BY SeqFacts
<1>4. Typed(<<>>, <<>>, <<>>, ls, 1, <<>>)
    BY <1>1, <1>2, <1>3 DEF Typed
<1>5. InOrder(<<>>, <<>>, <<>>, ls, 1, <<>>)
    BY <1>1 DEF InOrder, Rising, Ahead, Passed
<1>6. Complete(<<>>, <<>>, <<>>, ls, 1, <<>>, want)
    BY DEF Complete
<1>7. QED BY <1>4, <1>5, <1>6 DEF Sound

LEMMA BlocksStart == BlocksInit => BlocksInv
<1> SUFFICES ASSUME BlocksInit PROVE BlocksInv
    OBVIOUS
<1>1. source \in Seq(Numbered) /\ \A k \in 1..Len(source) : source[k].id = k
    BY NumberedLines DEF BlocksInit
<1>2. /\ Sent \in Seq(Numbered) /\ Len(Sent) = Len(source) /\ Len(source) \in Nat
      /\ \A k \in 1..Len(source) : Sent[k].id = k
    BY <1>1, SentFacts, SeqFacts
<1>3. /\ lines = Sent /\ i = 1 /\ path = <<>> /\ stack = <<>> /\ block = Idle /\ html = <<>>
      /\ error = 0
    BY DEF BlocksInit, Sent
<1>4. Rising(Sent)
    BY <1>2 DEF Rising
<1>5. \A w \in Wanted : Has(Sent, 1, w)
    BY <1>2 DEF Wanted, Has
<1>6. Sound(<<>>, <<>>, <<>>, Sent, 1, <<>>, Wanted)
    BY <1>2, <1>4, <1>5, AtRest
<1>7. LoopInv
    BY <1>3, IdleFacts DEF LoopInv, In
<1>8. path \in Seq(Containers)
    BY <1>3
<1>9. QED BY <1>1, <1>3, <1>6, <1>7, <1>8, IdleFacts DEF BlocksInv

-----------------------------------------------------------------------------
(***************************************************************************)
(* The definitions that stay in the text.                                  *)
(***************************************************************************)
\* f[k] for k up to n, from f[0] and the steps from one value to the next.
\* How many lines up to some line look like a fence.
Fences(d, k) == {n \in 1..k : starts_code_fence(d[n])}

LEMMA FencesFacts ==
    ASSUME NEW d, NEW k \in Nat
    PROVE  /\ Cardinality(Fences(d, 0)) = 0
           /\ Cardinality(Fences(d, k)) \in Nat
           /\ Cardinality(Fences(d, k + 1)) = IF starts_code_fence(d[k + 1])
                                              THEN Cardinality(Fences(d, k)) + 1
                                              ELSE Cardinality(Fences(d, k))
<1>1. Fences(d, 0) = {}
    BY DEF Fences
<1>2. IsFiniteSet(1..k)
    BY FS_Interval
<1>3. Fences(d, k) \subseteq 1..k
    BY DEF Fences
<1>4. IsFiniteSet(Fences(d, k))
    BY <1>2, <1>3, FS_Subset
<1>5. Cardinality(Fences(d, k)) \in Nat
    BY <1>4, FS_CardinalityType
<1>6. k + 1 \notin Fences(d, k)
    BY <1>3
<1>7. \A n : n \in 1..(k + 1) <=> (n \in 1..k \/ n = k + 1)
    OBVIOUS
<1>8. CASE starts_code_fence(d[k + 1])
  <2>1. Fences(d, k + 1) = Fences(d, k) \cup {k + 1}
    BY <1>7, <1>8 DEF Fences
  <2>2. Cardinality(Fences(d, k) \cup {k + 1}) = Cardinality(Fences(d, k)) + 1
    BY <1>4, <1>6, FS_AddElement
  <2>3. QED BY <1>1, <1>5, <1>8, <2>1, <2>2, FS_EmptySet
<1>9. CASE ~starts_code_fence(d[k + 1])
  <2>1. Fences(d, k + 1) = Fences(d, k)
    BY <1>7, <1>9 DEF Fences
  <2>2. QED BY <1>1, <1>5, <1>9, <2>1, FS_EmptySet
<1>10. QED BY <1>8, <1>9

\* in_p is what its definition says.
LEMMA InParagraphFacts ==
    ASSUME NEW d \in Seq(Numbered), NEW k \in 1..Len(d)
    PROVE  InParagraph(d)[k] <=> /\ ~Breaks(d[k]) /\ ~InFence(d, k)
                                 /\ Definition(d[k]) => InParagraph(d)[k - 1]
<1> DEFINE n == Len(d)
           Goes(j, b) == ~Breaks(d[j]) /\ ~InFence(d, j) /\ (Definition(d[j]) => b)
           step == [j \in 1..n |-> [b \in BOOLEAN |-> Goes(j, b)]]
           P(f) == f = [j \in 0..n |-> /\ j > 0
                                       /\ ~Breaks(d[j]) /\ ~InFence(d, j)
                                       /\ Definition(d[j]) => f[j - 1]]
<1>1. n \in Nat
    BY SeqFacts
<1>2. step \in [1..n -> [BOOLEAN -> BOOLEAN]]
    OBVIOUS
<1>3. PICK f \in [0..n -> BOOLEAN] : f[0] = FALSE /\ \A j \in 1..n : f[j] = step[j][f[j - 1]]
  <2> DEFINE base == FALSE
             T == BOOLEAN
  <2>1. n \in Nat /\ base \in T /\ step \in [1..n -> [T -> T]]
    BY <1>1, <1>2
  <2> HIDE DEF step, n, base, T
  <2>2. \E f \in [0..n -> T] : Recurs(f, n, base, step)
    BY <2>1, Recursion
  <2>3. QED BY <2>2, Zenon DEF T, base, Recurs
<1>4. \A j \in 1..n : f[j] = Goes(j, f[j - 1])
  <2>1. \A j \in 1..n : f[j - 1] \in BOOLEAN
    BY <1>1, <1>3
  <2> HIDE DEF Goes, n
  <2>2. QED BY <1>3, <2>1
<1>5. P(f)
  <2>1. SUFFICES ASSUME NEW j \in 0..n
                 PROVE  f[j] = (/\ j > 0
                                /\ ~Breaks(d[j]) /\ ~InFence(d, j)
                                /\ Definition(d[j]) => f[j - 1])
    OBVIOUS
  <2>2. CASE j = 0
    BY <1>3, <2>2
  <2>3. CASE j # 0
    <3>1. j \in 1..n /\ j > 0
        BY <1>1, <2>3
    <3>2. QED BY <1>4, <3>1
  <2>4. QED BY <2>2, <2>3
<1>6. InParagraph(d) = CHOOSE g : P(g)
    BY DEF InParagraph
<1> HIDE DEF P
<1>7. P(InParagraph(d))
    BY <1>5, <1>6
<1> DEFINE g == InParagraph(d)
<1> HIDE DEF g
<1>8. k \in 0..n /\ k > 0
    BY <1>1
<1>9. g[k] = (/\ k > 0
              /\ ~Breaks(d[k]) /\ ~InFence(d, k)
              /\ Definition(d[k]) => g[k - 1])
    BY <1>7, <1>8 DEF P, g
<1>10. QED BY <1>8, <1>9 DEF g

\* The fence that is open behind a line, and the one in front of it.
Behind(l, before) ==
    IF ~starts_code_fence(l) THEN before
    ELSE IF before = 0 THEN FenceLength(l)
    ELSE IF FenceLength(l) >= before THEN 0 ELSE before

LEMMA OpenFenceFacts ==
    ASSUME NEW d \in Seq(Numbered)
    PROVE  /\ OpenFence(d)[0] = 0
           /\ \A k \in 1..Len(d) : /\ OpenFence(d)[k] = Behind(d[k], OpenFence(d)[k - 1])
                                        /\ OpenFence(d)[k] \in {0, 3, 4}
           /\ \A k \in 0..Len(d) : OpenFence(d)[k] \in {0, 3, 4}
<1> DEFINE n == Len(d)
           T == {0, 3, 4}
           step == [j \in 1..n |-> [b \in T |-> Behind(d[j], b)]]
           P(f) == f = [k \in 0..n |->
                           IF k = 0 THEN 0
                           ELSE LET l == d[k]
                                IN  IF ~starts_code_fence(l) THEN f[k - 1]
                                    ELSE IF f[k - 1] = 0 THEN FenceLength(l)
                                    ELSE IF FenceLength(l) >= f[k - 1] THEN 0 ELSE f[k - 1]]
<1>1. n \in Nat
    BY SeqFacts
<1>2. \A j \in 1..n : \A b \in T : Behind(d[j], b) \in T
    BY DEF Behind, FenceLength
<1>3. PICK f \in [0..n -> T] : Recurs(f, n, 0, step)
  <2>1. 0 \in T /\ step \in [1..n -> [T -> T]]
    BY <1>2
  <2> HIDE DEF step, n, T
  <2>2. QED BY <1>1, <2>1, Recursion
<1>4. \A j \in 1..n : f[j] = Behind(d[j], f[j - 1]) /\ f[j] \in T
  <2>1. \A j \in 1..n : f[j - 1] \in T /\ f[j] \in T
    BY <1>1, <1>3, SMTT(30)
  <2>2. \A j \in 1..n : f[j] = step[j][f[j - 1]]
    BY <1>3 DEF Recurs
  <2> HIDE DEF n, T
  <2>3. QED BY <2>1, <2>2
<1>5. f[0] = 0
    BY <1>3 DEF Recurs
<1>6. P(f)
  <2>1. SUFFICES ASSUME NEW k \in 0..n
                 PROVE  f[k] = IF k = 0 THEN 0
                               ELSE LET l == d[k]
                                    IN  IF ~starts_code_fence(l) THEN f[k - 1]
                                        ELSE IF f[k - 1] = 0 THEN FenceLength(l)
                                        ELSE IF FenceLength(l) >= f[k - 1] THEN 0 ELSE f[k - 1]
    OBVIOUS
  <2>2. CASE k = 0
    BY <1>5, <2>2
  <2>3. CASE k # 0
    <3>1. k \in 1..n
        BY <1>1, <2>3
    <3>2. f[k] = Behind(d[k], f[k - 1])
        BY <1>4, <3>1
    <3> HIDE DEF n
    <3>3. QED BY <2>3, <3>2 DEF Behind
  <2>4. QED BY <2>2, <2>3
<1>7. OpenFence(d) = CHOOSE g : P(g)
    BY DEF OpenFence
<1> HIDE DEF P
<1>8. P(OpenFence(d))
    BY <1>6, <1>7
<1> DEFINE g == OpenFence(d)
<1> HIDE DEF g
<1>9. P(g)
    BY <1>8 DEF g
<1>10. g[0] = 0
  <2>1. 0 \in 0..n
    BY <1>1
  <2>2. QED BY <1>9, <2>1 DEF P
<1>11. \A k \in 1..n : g[k] = Behind(d[k], g[k - 1])
  <2>1. SUFFICES ASSUME NEW k \in 1..n PROVE g[k] = Behind(d[k], g[k - 1])
    OBVIOUS
  <2>2. k \in 0..n /\ k # 0
    BY <1>1
  <2>3. g[k] = IF k = 0 THEN 0
               ELSE LET l == d[k]
                    IN  IF ~starts_code_fence(l) THEN g[k - 1]
                        ELSE IF g[k - 1] = 0 THEN FenceLength(l)
                        ELSE IF FenceLength(l) >= g[k - 1] THEN 0 ELSE g[k - 1]
    BY <1>9, <2>2 DEF P
  <2> HIDE DEF n
  <2>4. QED BY <2>2, <2>3 DEF Behind
<1> DEFINE S == {k \in 0..n : g[k] \notin T}
<1>12. S = {}
  <2>1. SUFFICES ASSUME S # {} PROVE FALSE
    OBVIOUS
  <2> DEFINE R == S
  <2> HIDE DEF R
  <2>2. R \in SUBSET Nat /\ R # {}
    BY <2>1 DEF R
  <2>3. PICK m \in S : \A j \in S : m <= j
    BY <2>2, LeastOf DEF R
  <2>4. m \in 1..n
    BY <1>10
  <2>5. m - 1 \in 0..n /\ ~(m <= m - 1)
    BY <2>4
  <2>6. g[m - 1] \in T
    BY <2>3, <2>5
  <2>7. g[m] \in T
    BY <1>2, <1>11, <2>4, <2>6
  <2>8. QED BY <2>7
<1>13. \A k \in 0..n : g[k] \in T
    BY <1>12
<1>14. \A k \in 1..n : k \in 0..n
    BY <1>1
<1>15. QED BY <1>10, <1>11, <1>13, <1>14 DEF g

\* Without fences of four, a fence is open behind a line exactly when an odd number
\* of lines up to it look like a fence.
LEMMA OpenIsOdd ==
    ASSUME source \in Seq(Numbered), \A l \in Range(source) : l.leaf # "long",
           NEW k \in 1..Len(source), OpenFence(source)[k] # 0
    PROVE  InFence(source, k)
<1> DEFINE n == Len(source)
           Odd(j) == Cardinality(Fences(source, j)) % 2 = 1
           Right(j) == OpenFence(source)[j] \in {0, 3} /\ (OpenFence(source)[j] # 0 <=> Odd(j))
           S == {j \in 0..n : ~Right(j)}
<1>1. n \in Nat /\ DOMAIN source = 1..n
    BY SeqFacts
<1>2. Right(0)
  <2>1. Cardinality(Fences(source, 0)) = 0
    BY FencesFacts
  <2>2. QED BY <2>1, OpenFenceFacts
<1>3. ASSUME NEW j \in 1..n, Right(j - 1) PROVE Right(j)
  <2> DEFINE c == Cardinality(Fences(source, j - 1))
             l == source[j]
             a == OpenFence(source)[j - 1]
             b == OpenFence(source)[j]
  <2>1. /\ c \in Nat
        /\ Cardinality(Fences(source, j)) = IF starts_code_fence(l) THEN c + 1 ELSE c
    <3>1. j - 1 \in Nat /\ (j - 1) + 1 = j
        BY <1>1
    <3>2. /\ Cardinality(Fences(source, j - 1)) \in Nat
          /\ Cardinality(Fences(source, (j - 1) + 1)) =
                IF starts_code_fence(source[(j - 1) + 1])
                  THEN Cardinality(Fences(source, j - 1)) + 1
                  ELSE Cardinality(Fences(source, j - 1))
        BY <3>1, FencesFacts
    <3>3. QED BY <3>1, <3>2
  <2>2. FenceLength(l) = 3
    BY <1>1 DEF FenceLength, Range
  <2>3. b = Behind(l, a)
    BY OpenFenceFacts
  <2>4. a \in {0, 3} /\ (a # 0 <=> c % 2 = 1)
    BY <1>3
  <2> HIDE DEF c, l, a, b
  <2>5. (c + 1) % 2 = 1 <=> c % 2 # 1
    BY <2>1
  <2>6. b \in {0, 3} /\ (b # 0 <=> (IF starts_code_fence(l) THEN c + 1 ELSE c) % 2 = 1)
    BY <2>2, <2>3, <2>4, <2>5 DEF Behind
  <2>7. QED BY <2>1, <2>6 DEF b
<1> HIDE DEF Right
<1>4. S = {}
  <2>1. SUFFICES ASSUME S # {} PROVE FALSE
    OBVIOUS
  <2> DEFINE R == S
  <2> HIDE DEF R
  <2>2. R \in SUBSET Nat /\ R # {}
    BY <2>1 DEF R
  <2>3. PICK m \in S : \A j \in S : m <= j
    BY <2>2, LeastOf DEF R
  <2>4. m \in 1..n
    BY <1>2
  <2>5. m - 1 \in 0..n /\ ~(m <= m - 1)
    BY <2>4
  <2>6. Right(m - 1)
    BY <2>3, <2>5
  <2>7. QED BY <1>3, <2>4, <2>6
<1>5. Right(k)
    BY <1>1, <1>4
<1>6. Odd(k)
    BY <1>5 DEF Right
<1>7. QED BY <1>6 DEF InFence, Fences

LEMMA StaysSent ==
    ASSUME source \in Seq(Numbered), NEW k \in 1..Len(source), StaysText(k)
    PROVE  ~Blanked(source, k)
<1>1. /\ Len(source) \in Nat /\ DOMAIN source = 1..Len(source)
      /\ \A j \in 1..Len(source) : source[j] \in Numbered /\ source[j] \in Range(source)
    BY SeqFacts DEF Range
<1>2. CASE OpenFence(source)[k] # 0
  <2>1. InFence(source, k)
    BY <1>2, OpenIsOdd DEF StaysText
  <2>2. QED BY <2>1 DEF Blanked
<1>3. CASE k > 1 /\ source[k - 1].leaf = "text" /\ ~Indented(source[k - 1])
  <2>1. SUFFICES ASSUME ~Indented(source[k]), ~InFence(source, k) PROVE is_continuation(source, k)
    BY DEF Blanked
  <2>2. k - 1 \in 1..Len(source) /\ (k - 1) + 1 = k /\ k - 1 \in Nat
    BY <1>1, <1>3
  <2>3. source[k].leaf = "def" /\ source[k].marks = <<>> /\ source[k - 1].marks = <<>>
    BY <1>1, <2>2 DEF StaysText, Plain
  <2>4. ~Breaks(source[k - 1]) /\ ~Definition(source[k - 1])
    BY <1>3, <2>3 DEF Breaks, Definition, is_blank_line, starts_code_fence, match_heading,
                      match_horizontal_rule, starts_blockquote, match_list_item, Unmarked
  <2>5. ~Breaks(source[k]) /\ ~starts_code_fence(source[k])
    BY <2>1, <2>3 DEF Breaks, is_blank_line, starts_code_fence, match_heading,
                      match_horizontal_rule, starts_blockquote, match_list_item, Unmarked
  <2>6. ~InFence(source, k - 1)
    <3>1. Cardinality(Fences(source, (k - 1) + 1)) = Cardinality(Fences(source, k - 1))
        BY <2>2, <2>5, FencesFacts
    <3>2. Cardinality(Fences(source, k)) = Cardinality(Fences(source, k - 1))
        BY <2>2, <3>1
    <3>3. QED BY <2>1, <3>2 DEF InFence, Fences
  <2>7. InParagraph(source)[k - 1]
    BY <2>2, <2>4, <2>6, InParagraphFacts
  <2>8. InParagraph(source)[k]
    BY <2>1, <2>5, <2>7, InParagraphFacts
  <2>9. QED BY <2>7, <2>8 DEF is_continuation
<1>4. QED BY <1>2, <1>3 DEF StaysText

\* What is shown and what is still to come, at the end.
LEMMA OnceEach == BlocksInv => EachLineOnce
<1> SUFFICES ASSUME BlocksInv PROVE EachLineOnce
    OBVIOUS
<1>1. /\ source \in Seq(Numbered) /\ \A k \in 1..Len(source) : source[k].id = k
      /\ html \in Seq(Shown) /\ Rising(html)
      /\ lines \in Seq(Numbered) /\ i \in 1..(Len(lines) + 1)
    BY DEF BlocksInv, Sound, Typed, InOrder
<1>2. /\ DOMAIN source = 1..Len(source) /\ DOMAIN html = 1..Len(html)
      /\ Len(source) \in Nat /\ Len(lines) \in Nat
      /\ \A k \in 1..Len(source) : source[k] \in Numbered
    BY <1>1, SeqFacts
<1>3. \A k, n \in DOMAIN html : k < n => html[k].id < html[n].id
    BY <1>1, <1>2 DEF Rising
<1>4. ASSUME In("done"), error = 0, NEW k \in DOMAIN source,
             source[k].leaf \in Visible \/ StaysText(k)
      PROVE  \E s \in Range(html) : s.id = source[k].id /\ s.leaf = source[k].leaf
  <2> DEFINE w == <<k, source[k].leaf>>
  <2>1. block.taken = <<>> /\ block.items = <<>> /\ stack = <<>> /\ i > Len(lines)
    BY <1>4 DEF BlocksInv, LoopInv, In, AtEnd
  <2>2. source[k].leaf \in Lasting
    BY <1>4 DEF Lasting, StaysText
  <2>3. ~Blanked(source, k)
    <3>1. CASE source[k].leaf \in Visible
        BY <3>1 DEF Blanked, Definition, Visible
    <3>2. CASE StaysText(k)
        BY <1>1, <1>2, <3>2, StaysSent
    <3>3. QED BY <1>4, <3>1, <3>2
  <2>4. Sent[k].leaf = source[k].leaf
    BY <1>1, <1>2, <2>3, SentFacts
  <2>5. w \in Wanted
    BY <1>2, <1>4, <2>2, <2>4 DEF Wanted
  <2>6. /\ ~Has(<<>>, 1, w) /\ ~Has(lines, i, w)
        /\ \A j \in 1..Len(<<>>) : FALSE
    <3>1. i..Len(lines) = {}
        BY <1>1, <1>2, <2>1
    <3>2. QED BY <3>1 DEF Has
  <2>7. Complete(html, <<>>, <<>>, lines, i, <<>>, Wanted)
    BY <2>1 DEF BlocksInv, Sound
  <2> HIDE DEF w
  <2>8. Has(html, 1, w)
    BY <2>5, <2>6, <2>7 DEF Complete
  <2>9. w[1] = k /\ w[2] = source[k].leaf
    BY DEF w
  <2>10. PICK j \in 1..Len(html) : html[j].id = k /\ html[j].leaf = source[k].leaf
    BY <2>8, <2>9 DEF Has
  <2>11. html[j] \in Range(html)
    BY <1>2 DEF Range
  <2>12. QED BY <1>1, <1>2, <2>10, <2>11
<1>5. QED BY <1>3, <1>4 DEF EachLineOnce

-----------------------------------------------------------------------------
(***************************************************************************)
(* The error of a document without containers.                             *)
(***************************************************************************)
\* Such a document is parsed without recursion, and the loop over the lines and the
\* loop of a fence know of the open fence what the lines passed say.
PlainInv ==
    Plain =>
        /\ block.loop \in {"none", "table", "code", "fence", "paragraph", "done"}
        /\ stack = <<>> /\ lines = Sent
        /\ ~In("done") =>
              /\ error = 0
              /\ OpenFence(source)[i - 1] = IF In("fence") THEN block.fence ELSE 0
              /\ In("fence") => block.fence # 0
        /\ In("done") => (error # 0 <=> OpenFence(source)[Len(source)] # 0)

\* A line of such a document has no markers, and the scan leaves its fences.
LEMMA PlainLines ==
    ASSUME source \in Seq(Numbered), Plain, NEW k \in 1..Len(source)
    PROVE  /\ Sent[k].marks = <<>> /\ Sent[k].leaf \notin {"html", "math", "under"}
           /\ \A b \in Nat : Behind(Sent[k], b) = Behind(source[k], b)
<1>1. DOMAIN source = 1..Len(source) /\ source[k] \in Numbered
    BY SeqFacts
<1>2. source[k].marks = <<>> /\ source[k].leaf \notin {"html", "math", "under"}
    BY <1>1 DEF Plain, Range
<1> DEFINE l == source[k]
           x == [l EXCEPT !.leaf = "blank"]
<1>3. Sent[k] = IF Blanked(source, k) THEN x ELSE l
    BY <1>1 DEF Sent, parse_all_link_refs_from_lines
<1>4. CASE ~Blanked(source, k)
    BY <1>2, <1>3, <1>4
<1>5. CASE Blanked(source, k)
  <2>1. l.leaf = "def"
    BY <1>5 DEF Blanked, Definition
  <2>2. x.leaf = "blank" /\ x.marks = <<>>
    BY <1>1, <1>2 DEF Numbered
  <2>3. ~starts_code_fence(l) /\ ~starts_code_fence(x)
    BY <2>1, <2>2 DEF starts_code_fence, Unmarked
  <2> HIDE DEF l, x
  <2>4. \A b \in Nat : Behind(x, b) = Behind(l, b)
    BY <2>3 DEF Behind
  <2>5. QED BY <1>3, <1>5, <2>2, <2>4 DEF l
<1>6. QED BY <1>4, <1>5

\* What is known of the line at hand of such a document.
LEMMA PlainAtHand ==
    ASSUME BlocksInv, PlainInv, Plain, ~In("done")
    PROVE  /\ i \in 1..(Len(source) + 1) /\ Len(source) \in Nat /\ Len(lines) = Len(source)
           /\ stack = <<>> /\ error = 0 /\ OpenFence(source)[i - 1] \in {0, 3, 4}
           /\ ~AtEnd => /\ i \in 1..Len(source) /\ Line.marks = <<>>
                        /\ Line.leaf \notin {"html", "math", "under"}
                        /\ OpenFence(source)[i] = Behind(Line, OpenFence(source)[i - 1])
           /\ HasNext => /\ i + 1 \in 1..Len(source) /\ NextLine.marks = <<>>
                         /\ NextLine.leaf \notin {"html", "math", "under"}
                         /\ OpenFence(source)[i + 1] = Behind(NextLine, OpenFence(source)[i])
                         /\ OpenFence(source)[i] \in {0, 3, 4}
<1> DEFINE f == OpenFence(source)
           n == Len(source)
<1>1. source \in Seq(Numbered) /\ lines = Sent /\ i \in 1..(Len(lines) + 1) /\ stack = <<>> /\ error = 0
    BY DEF BlocksInv, Sound, Typed, PlainInv
<1>2. Len(lines) = n /\ n \in Nat
    BY <1>1, SentFacts, SeqFacts
<1>3. /\ \A k \in 1..n : f[k] = Behind(source[k], f[k - 1]) /\ f[k] \in {0, 3, 4}
      /\ \A k \in 0..n : f[k] \in {0, 3, 4}
    BY <1>1, OpenFenceFacts
<1>4. ASSUME NEW k \in 1..n
      PROVE  /\ lines[k].marks = <<>> /\ lines[k].leaf \notin {"html", "math", "under"}
             /\ f[k] = Behind(lines[k], f[k - 1]) /\ f[k] \in {0, 3, 4}
  <2>1. /\ Sent[k].marks = <<>> /\ Sent[k].leaf \notin {"html", "math", "under"}
        /\ \A b \in Nat : Behind(Sent[k], b) = Behind(source[k], b)
    BY <1>1, PlainLines
  <2>2. k - 1 \in 0..n
    BY <1>2
  <2>3. f[k - 1] \in Nat
    BY <1>3, <2>2
  <2> HIDE DEF f
  <2>4. QED BY <1>1, <1>3, <2>1, <2>3
<1> HIDE DEF f, n
<1>5. i \in 1..(n + 1) /\ i - 1 \in 0..n
    BY <1>1, <1>2
<1>6. ~AtEnd => i \in 1..n
    BY <1>2, <1>5 DEF AtEnd
<1>7. HasNext => i + 1 \in 1..n /\ (i + 1) - 1 = i /\ i \in 1..n
    BY <1>2, <1>5 DEF HasNext
<1>8. ~AtEnd => /\ i \in 1..n /\ Line.marks = <<>>
                /\ Line.leaf \notin {"html", "math", "under"}
                /\ f[i] = Behind(Line, f[i - 1])
    BY <1>4, <1>6 DEF Line
<1>9. HasNext => /\ i + 1 \in 1..n /\ NextLine.marks = <<>>
                 /\ NextLine.leaf \notin {"html", "math", "under"}
                 /\ f[i + 1] = Behind(NextLine, f[i]) /\ f[i] \in {0, 3, 4}
    BY <1>3, <1>4, <1>7 DEF NextLine
<1>10. f[i - 1] \in {0, 3, 4}
    BY <1>3, <1>5
<1>11. QED BY <1>1, <1>2, <1>5, <1>8, <1>9, <1>10 DEF f, n

\* The loop over the lines, or the one of a block, goes on.
LEMMA PlainMoves ==
    ASSUME Plain, PlainInv, ~In("done"), NEW n, i' = n, UNCHANGED <<source, lines, stack, error>>,
           block'.loop \in {"none", "table", "code", "fence", "paragraph"},
           OpenFence(source)[n - 1] = IF block'.loop = "fence" THEN block'.fence ELSE 0,
           block'.loop = "fence" => block'.fence # 0
    PROVE  PlainInv'
<1>1. Sent' = Sent
    BY DEF Sent
<1>2. stack = <<>> /\ lines = Sent /\ error = 0
    BY DEF PlainInv
<1>3. OpenFence(source') = OpenFence(source)
    OBVIOUS
<1>4. ~(In("done"))' /\ ((In("fence"))' <=> block'.loop = "fence")
    BY DEF In
<1>5. OpenFence(source')[i' - 1] = IF (In("fence"))' THEN block'.fence ELSE 0
    BY <1>3, <1>4
<1>6. QED BY <1>1, <1>2, <1>4, <1>5 DEF PlainInv

\* A line that is no fence is passed.
LEMMA PlainPass ==
    ASSUME BlocksInv, PlainInv, Plain, ~In("done"),
           SkipBlank \/ Rule \/ Heading \/ TableRow \/ CodeLine \/ ParagraphLine
    PROVE  PlainInv'
<1>1. ~AtEnd /\ block.loop \in {"none", "table", "code", "paragraph"} /\ block \in Blocks
    BY DEF SkipBlank, Rule, Heading, Dispatch, TableRow, CodeLine, ParagraphLine, Continues, In,
           BlocksInv
<1>2. /\ Line \in Numbered /\ error = 0 /\ i \in Nat
      /\ OpenFence(source)[i] = Behind(Line, OpenFence(source)[i - 1])
    BY <1>1, PlainAtHand, InHand
<1>3. OpenFence(source)[i - 1] = 0
    BY <1>1 DEF PlainInv, In
<1>4. ~starts_code_fence(Line)
  <2>1. CASE SkipBlank \/ Rule \/ Heading
    BY <2>1 DEF SkipBlank, Rule, Heading, Dispatch, Passes, is_blank_line, match_horizontal_rule,
                match_heading, starts_code_fence, Unmarked
  <2>2. CASE TableRow
    BY <2>2 DEF TableRow, Continues, EndsTable
  <2>3. CASE CodeLine
    <3>1. Line.sp \in Nat
        BY <1>2 DEF Numbered
    <3>2. Indented(Line) \/ is_blank_line(Line)
        BY <2>3 DEF CodeLine, Continues, EndsCode
    <3>3. QED BY <3>1, <3>2 DEF Indented, is_blank_line, starts_code_fence, Unmarked
  <2>4. CASE ParagraphLine
    BY <2>4 DEF ParagraphLine, Continues, EndsParagraph, InterruptsParagraph
  <2>5. QED BY <2>1, <2>2, <2>3, <2>4
<1>5. OpenFence(source)[i] = 0
    BY <1>2, <1>3, <1>4 DEF Behind
<1>6. UNCHANGED <<source, lines, stack, error>> /\ i' = i + 1 /\ block'.loop = block.loop
  <2>1. CASE SkipBlank \/ Rule
    BY <2>1 DEF SkipBlank, Rule, Advance
  <2>2. CASE Heading
    BY <1>2, <2>2 DEF Heading, Advance
  <2>3. CASE Take(Line)
    BY <1>1, <2>3 DEF Take, Advance, Blocks
  <2>4. QED BY <2>1, <2>2, <2>3 DEF TableRow, CodeLine, ParagraphLine
<1>7. (i + 1) - 1 = i
    BY <1>2
<1>8. QED BY <1>1, <1>5, <1>6, <1>7, PlainMoves

\* A block begins or ends in front of the line at hand.
LEMMA PlainStays ==
    ASSUME BlocksInv, PlainInv, Plain, ~In("done"),
           CodeOpen \/ ParagraphOpen \/ TableClose \/ CodeClose \/ ParagraphClose
    PROVE  PlainInv'
<1>1. block.loop \in {"none", "table", "code", "paragraph"}
    BY DEF CodeOpen, ParagraphOpen, TableClose, CodeClose, ParagraphClose, Dispatch, In
<1>2. OpenFence(source)[i - 1] = 0 /\ error = 0 /\ i \in Nat
    BY <1>1, PlainAtHand DEF PlainInv, In
<1>3. Advance(0)
    BY <1>2 DEF CodeOpen, ParagraphOpen, TableClose, CodeClose, ParagraphClose, Open, Close,
                RenderParagraph
<1>4. \E loop \in {"none", "code", "paragraph"} : block' = [Idle EXCEPT !.loop = loop]
  <2>1. Idle = [Idle EXCEPT !.loop = "none"]
    BY DEF Idle
  <2>2. QED BY <1>2, <2>1 DEF CodeOpen, ParagraphOpen, TableClose, CodeClose, ParagraphClose,
                              Open, Close, RenderParagraph
<1>5. block'.loop \in {"none", "code", "paragraph"}
    BY <1>4, IdleFacts DEF Loops
<1>6. i' = i /\ UNCHANGED <<source, lines, stack, error>>
    BY <1>2, <1>3 DEF Advance
<1>7. QED BY <1>2, <1>5, <1>6, PlainMoves

\* Neither a row nor the delimiter below it is a fence.
LEMMA PlainTable ==
    ASSUME BlocksInv, PlainInv, Plain, ~In("done"), TableOpen
    PROVE  PlainInv'
<1>1. In("none") /\ ~AtEnd /\ HasNext /\ split_table_row(Line) /\ match_table_delimiter(NextLine)
    BY DEF TableOpen, Dispatch, Passes, UnderDelimiter
<1>2. /\ OpenFence(source)[i] = Behind(Line, OpenFence(source)[i - 1])
      /\ OpenFence(source)[i + 1] = Behind(NextLine, OpenFence(source)[i])
      /\ OpenFence(source)[i - 1] = 0 /\ i \in Nat
    BY <1>1, PlainAtHand DEF PlainInv, In
<1>3. ~starts_code_fence(Line) /\ ~starts_code_fence(NextLine)
    BY <1>1 DEF split_table_row, match_table_delimiter, starts_code_fence, Unmarked
<1>4. OpenFence(source)[i + 1] = 0
    BY <1>2, <1>3 DEF Behind
<1>5. i' = i + 2 /\ UNCHANGED <<source, lines, stack, error>> /\ (i + 2) - 1 = i + 1
    BY <1>2 DEF TableOpen, Advance
<1>6. block'.loop = "table"
    BY DEF TableOpen, Idle
<1>7. QED BY <1>4, <1>5, <1>6, PlainMoves

\* The loop of a fence keeps its length, and ends where the lines say.
LEMMA PlainFence ==
    ASSUME BlocksInv, PlainInv, Plain, ~In("done"), FenceOpen \/ FenceLine \/ FenceClose
    PROVE  PlainInv'
<1> DEFINE before == OpenFence(source)[i - 1]
<1>1. ~AtEnd /\ block \in Blocks
    BY DEF FenceOpen, Dispatch, FenceLine, FenceClose, Continues, BlocksInv
<1>2. /\ OpenFence(source)[i] = Behind(Line, before) /\ i \in Nat
      /\ before = IF In("fence") THEN block.fence ELSE 0
      /\ In("fence") => block.fence # 0
      /\ before \in {0, 3, 4}
    BY <1>1, PlainAtHand DEF PlainInv
<1> HIDE DEF before
<1>3. i' = i + 1 /\ UNCHANGED <<source, lines, stack, error>> /\ (i + 1) - 1 = i
  <2>1. Advance(1)
    BY DEF FenceOpen, FenceLine, FenceClose, Take
  <2>2. QED BY <1>2, <2>1 DEF Advance
<1>4. CASE FenceOpen
  <2>1. starts_code_fence(Line) /\ ~In("fence")
    BY <1>4 DEF FenceOpen, Dispatch, Passes, In
  <2>2. block' = [Idle EXCEPT !.loop = "fence", !.fence = FenceLength(Line)]
    BY <1>4 DEF FenceOpen
  <2>3. block'.loop = "fence" /\ block'.fence = FenceLength(Line)
    BY <2>2 DEF Idle
  <2>4. OpenFence(source)[i] = FenceLength(Line) /\ FenceLength(Line) # 0
    BY <1>2, <2>1 DEF Behind, FenceLength
  <2>5. QED BY <1>3, <2>3, <2>4, PlainMoves
<1>5. CASE FenceLine
  <2>1. In("fence") /\ ~ClosesFence(Line) /\ Take(Line)
    BY <1>5 DEF FenceLine, Continues
  <2>2. block'.loop = "fence" /\ block'.fence = block.fence
    BY <1>1, <2>1 DEF Take, Blocks, In
  <2>3. OpenFence(source)[i] = block.fence
    BY <1>2, <2>1 DEF Behind, ClosesFence, is_code_fence_close
  <2>4. QED BY <1>2, <1>3, <2>1, <2>2, <2>3, PlainMoves
<1>6. CASE FenceClose
  <2>1. In("fence") /\ ClosesFence(Line) /\ block' = Idle
    BY <1>6 DEF FenceClose
  <2>2. block'.loop = "none"
    BY <2>1, IdleFacts
  <2>3. OpenFence(source)[i] = 0
    BY <1>2, <2>1 DEF Behind, ClosesFence, is_code_fence_close
  <2>4. QED BY <1>3, <2>2, <2>3, PlainMoves
<1>7. QED BY <1>4, <1>5, <1>6

\* The document ends, inside a fence or not.
LEMMA PlainEnds ==
    ASSUME BlocksInv, PlainInv, Plain, ~In("done"), DocumentEnd \/ FenceUnterminated
    PROVE  PlainInv'
<1>1. /\ AtEnd /\ stack = <<>> /\ error = 0 /\ i \in 1..(Len(source) + 1) /\ Len(source) \in Nat
      /\ Len(lines) = Len(source) /\ lines = Sent
      /\ OpenFence(source)[i - 1] = IF In("fence") THEN block.fence ELSE 0
      /\ In("fence") => block.fence # 0 /\ lines # <<>>
    BY PlainAtHand DEF DocumentEnd, FenceUnterminated, PlainInv, BlocksInv, LoopInv
<1>2. i - 1 = Len(source)
    BY <1>1 DEF AtEnd
<1>3. block' = [Idle EXCEPT !.loop = "done"] /\ UNCHANGED <<lines, stack, source>>
    BY <1>1 DEF DocumentEnd, FenceUnterminated, Return
<1>4. block'.loop = "done"
    BY <1>3 DEF Idle
<1>5. error' # 0 <=> OpenFence(source)[Len(source)] # 0
  <2>1. CASE DocumentEnd
    BY <1>1, <1>2, <2>1 DEF DocumentEnd, In
  <2>2. CASE FenceUnterminated
    <3>1. error' = Len(lines) /\ In("fence")
        BY <2>2 DEF FenceUnterminated
    <3>2. lines \in Seq(Numbered)
        BY DEF BlocksInv, Sound, Typed
    <3>3. Len(lines) # 0
        BY <1>1, <3>1, <3>2
    <3>4. QED BY <1>1, <1>2, <3>1, <3>3
  <2>3. QED BY <2>1, <2>2
<1>6. Sent' = Sent /\ OpenFence(source') = OpenFence(source)
    BY <1>3 DEF Sent
<1>7. QED BY <1>1, <1>3, <1>4, <1>5, <1>6 DEF PlainInv, In

\* The other actions need a marker, an underline or an HTML or math block.
LEMMA PlainNever ==
    ASSUME BlocksInv, PlainInv, Plain, ~In("done"), BlocksNext
    PROVE  \/ SkipBlank \/ Rule \/ Heading \/ TableRow \/ CodeLine \/ ParagraphLine
           \/ CodeOpen \/ ParagraphOpen \/ TableClose \/ CodeClose \/ ParagraphClose
           \/ TableOpen
           \/ FenceOpen \/ FenceLine \/ FenceClose
           \/ DocumentEnd \/ FenceUnterminated
<1>1. block.loop \in {"none", "table", "code", "fence", "paragraph", "done"}
    BY DEF PlainInv
<1>2. ~AtEnd => Line.marks = <<>> /\ Line.leaf \notin {"html", "math", "under"}
    BY PlainAtHand
<1>3. HasNext => NextLine.marks = <<>> /\ NextLine.leaf \notin {"html", "math", "under"}
    BY PlainAtHand
<1>4. ~HtmlOpen /\ ~MathOpen /\ ~ListOpen /\ ~QuoteOpen
    BY <1>2 DEF HtmlOpen, MathOpen, ListOpen, QuoteOpen, Dispatch, Passes, is_html_block_line,
                starts_math, match_list_item, starts_blockquote, Unmarked
<1>5. ~ParagraphUnderline
    BY <1>3 DEF ParagraphUnderline, Underlined, match_setext_underline, Unmarked
<1>6. /\ ~HtmlLine /\ ~MathLine /\ ~MathClose /\ ~ItemOpen /\ ~ListBlank /\ ~ListIndented
      /\ ~ListClose /\ ~ItemBlank /\ ~ItemLine /\ ~ItemClose /\ ~QuoteLine /\ ~QuoteClose
    BY <1>1 DEF HtmlLine, MathLine, MathClose, ItemOpen, ListBlank, ListIndented, ListClose,
                ItemBlank, ItemLine, ItemClose, QuoteLine, QuoteClose, In
<1>7. QED BY <1>4, <1>5, <1>6 DEF BlocksNext

LEMMA SourceStays == BlocksNext => UNCHANGED source
BY DEF BlocksNext, SkipBlank, Rule, Heading, DocumentEnd, HtmlOpen, HtmlLine, MathOpen, MathLine,
       MathClose, TableOpen, TableRow, TableClose, CodeOpen, CodeLine, CodeClose, FenceOpen,
       FenceLine, FenceClose, FenceUnterminated, ListOpen, ItemOpen, ListBlank, ListIndented,
       ListClose, ItemBlank, ItemLine, ItemClose, QuoteOpen, QuoteLine, QuoteClose, ParagraphOpen,
       ParagraphUnderline, ParagraphLine, ParagraphClose, RenderParagraph, Open, Close, Take,
       Advance, Return, Recurse

LEMMA DoneStays == BlocksNext => ~In("done")
BY DEF BlocksNext, SkipBlank, Rule, Heading, DocumentEnd, HtmlOpen, HtmlLine, MathOpen, MathLine,
       MathClose, TableOpen, TableRow, TableClose, CodeOpen, CodeLine, CodeClose, FenceOpen,
       FenceLine, FenceClose, FenceUnterminated, ListOpen, ItemOpen, ListBlank, ListIndented,
       ListClose, ItemBlank, ItemLine, ItemClose, QuoteOpen, QuoteLine, QuoteClose, ParagraphOpen,
       ParagraphUnderline, ParagraphLine, ParagraphClose, Dispatch, In

LEMMA PlainStep ==
    ASSUME BlocksInv, PlainInv, [BlocksNext]_document
    PROVE  PlainInv'
<1>1. CASE BlocksNext
  <2>1. source' = source /\ ~In("done")
    BY <1>1, SourceStays, DoneStays
  <2>2. CASE ~Plain
    <3>1. ~Plain'
        BY <2>1, <2>2 DEF Plain
    <3>2. QED BY <3>1 DEF PlainInv
  <2>3. CASE Plain
    BY <1>1, <2>1, <2>3, PlainNever, PlainPass, PlainStays, PlainTable, PlainFence, PlainEnds
  <2>4. QED BY <2>2, <2>3
<1>2. CASE UNCHANGED document
  <2>1. UNCHANGED <<source, lines, i, stack, block, error>>
    BY <1>2 DEF document
  <2>2. Sent' = Sent /\ (Plain' <=> Plain)
    BY <2>1 DEF Sent, Plain
  <2>3. OpenFence(source') = OpenFence(source)
    BY <2>1
  <2>4. QED BY <2>1, <2>2, <2>3 DEF PlainInv, In
<1>3. QED BY <1>1, <1>2

LEMMA PlainStart == BlocksInit => PlainInv
<1> SUFFICES ASSUME BlocksInit PROVE PlainInv
    OBVIOUS
<1>1. source \in Seq(Numbered)
    BY NumberedLines DEF BlocksInit
<1>2. /\ lines = Sent /\ i = 1 /\ stack = <<>> /\ block = Idle /\ error = 0
    BY DEF BlocksInit, Sent
<1>3. OpenFence(source)[0] = 0 /\ i - 1 = 0
    BY <1>1, <1>2, OpenFenceFacts
<1>4. block.loop = "none"
    BY <1>2, IdleFacts
<1>5. QED BY <1>2, <1>3, <1>4 DEF PlainInv, In

LEMMA ErrorRight == PlainInv => ErrorIffUnterminated
BY DEF PlainInv, ErrorIffUnterminated

-----------------------------------------------------------------------------
(***************************************************************************)
(* The markers that were taken off the lines, and the containers.          *)
(***************************************************************************)
\* What is left of the markers of a line is their end, and there is a container for
\* each of the others around it.
MarksFit(marks, left, around) ==
    /\ Len(left) <= Len(marks)
    /\ \A k \in 1..Len(left) : left[k] = marks[(Len(marks) - Len(left)) + k]
    /\ \E place \in [1..(Len(marks) - Len(left)) -> 1..Len(around)] :
          /\ \A k \in 1..(Len(marks) - Len(left)) : around[place[k]] = ContainerOf(marks[k])
          /\ \A j, k \in 1..(Len(marks) - Len(left)) : j < k => place[j] < place[k]

Honoured(src, l, around)     == l.id \in 1..Len(src) /\ MarksFit(src[l.id].marks, l.marks, around)
AllHonoured(src, ls, around) == \A k \in 1..Len(ls) : Honoured(src, ls[k], around)

\* The containers around what a block takes.
Inside(b, around) ==
    IF b.loop \in {"list", "item"} THEN Append(around, IF b.ordered THEN "ol" ELSE "ul")
    ELSE IF b.loop = "quote" THEN Append(around, "quote")
    ELSE around

BlockHonoured(src, b, around) ==
    /\ AllHonoured(src, b.taken, Inside(b, around))
    /\ \A k \in 1..Len(b.items) : AllHonoured(src, b.items[k], Inside(b, around))
    /\ b.loop = "paragraph" => \A k \in 1..Len(b.taken) : ~starts_blockquote(b.taken[k])

StackHonoured(src, st) == \A d \in 1..Len(st) : AllHonoured(src, st[d].lines, st[d].path)

ShownHonoured(src, shown) ==
    \A k \in 1..Len(shown) :
        /\ Honoured(src, shown[k], shown[k].path)
        /\ shown[k].as = "p" => ~starts_blockquote(shown[k])

\* On their way to where they are shown, all lines have the containers they need.
HonourInv ==
    /\ AllHonoured(source, lines, path)
    /\ StackHonoured(source, stack)
    /\ BlockHonoured(source, block, path)
    /\ ShownHonoured(source, html)

\* A line with all its markers needs no container.
LEMMA FitsStart ==
    ASSUME NEW marks \in Seq(Markers), NEW around
    PROVE  MarksFit(marks, marks, around)
<1>1. Len(marks) \in Nat /\ Len(marks) - Len(marks) = 0
    BY SeqFacts
<1>2. \A k \in 1..0 : FALSE
    OBVIOUS
<1>3. [k \in 1..0 |-> 1] \in [1..0 -> 1..Len(around)]
    BY <1>2
<1>4. \A k \in 1..Len(marks) : 0 + k = k
    BY <1>1
<1>5. \A k \in 1..Len(marks) : marks[k] = marks[0 + k]
    BY <1>4
<1>6. \E place \in [1..0 -> 1..Len(around)] :
         /\ \A k \in 1..0 : around[place[k]] = ContainerOf(marks[k])
         /\ \A j, k \in 1..0 : j < k => place[j] < place[k]
    BY <1>2, <1>3
<1>7. Len(marks) <= Len(marks)
    BY <1>1
<1>8. QED BY <1>1, <1>5, <1>6, <1>7, Zenon DEF MarksFit

\* One more container around a line does no harm.
LEMMA FitsDeeper ==
    ASSUME NEW marks, NEW left, NEW around \in Seq(Containers), NEW c \in Containers,
           MarksFit(marks, left, around)
    PROVE  MarksFit(marks, left, Append(around, c))
<1> DEFINE n == Len(marks) - Len(left)
           deeper == Append(around, c)
           T == 1..n
<1>1. PICK place \in [T -> 1..Len(around)] :
         /\ \A k \in T : around[place[k]] = ContainerOf(marks[k])
         /\ \A j, k \in T : j < k => place[j] < place[k]
    BY DEF MarksFit
<1>2. /\ Len(deeper) = Len(around) + 1 /\ Len(around) \in Nat
      /\ \A k \in 1..Len(around) : deeper[k] = around[k]
    BY Appending, SeqFacts
<1> HIDE DEF deeper, T
<1>3. \A k \in T : place[k] \in 1..Len(around)
    BY <1>1
<1>4. place \in [T -> 1..Len(deeper)]
    BY <1>1, <1>2, <1>3
<1>5. \A k \in T : deeper[place[k]] = ContainerOf(marks[k])
    BY <1>1, <1>2, <1>3
<1>6. QED BY <1>1, <1>4, <1>5 DEF MarksFit, T, deeper

\* A marker is taken off where its container begins.
LEMMA FitsTaken ==
    ASSUME NEW marks \in Seq(Markers), NEW left \in Seq(Markers), left # <<>>,
           NEW around \in Seq(Containers), NEW c \in Containers, c = ContainerOf(Head(left)),
           MarksFit(marks, left, around)
    PROVE  MarksFit(marks, Tail(left), Append(around, c))
<1> DEFINE m == Len(marks)
           l == Len(left)
           n == m - l
           a == Len(around)
           deeper == Append(around, c)
           rest == Tail(left)
<1>1. m \in Nat /\ l \in Nat /\ a \in Nat /\ l # 0 /\ l <= m /\ n \in Nat
    BY SeqFacts DEF MarksFit
<1>2. PICK place \in [1..n -> 1..a] :
         /\ \A k \in 1..n : around[place[k]] = ContainerOf(marks[k])
         /\ \A j, k \in 1..n : j < k => place[j] < place[k]
    BY DEF MarksFit
<1>3. Len(deeper) = a + 1 /\ deeper[a + 1] = c /\ \A k \in 1..a : deeper[k] = around[k]
    BY Appending
<1>4. Len(rest) = l - 1 /\ Head(left) = left[1] /\ \A k \in 1..(l - 1) : rest[k] = left[k + 1]
    BY <1>1
<1>5. \A k \in 1..l : left[k] = marks[n + k]
    BY DEF MarksFit
<1> HIDE DEF m, l, a, deeper, rest
<1>6. left[1] = marks[n + 1]
    BY <1>1, <1>5
<1>7. m - Len(rest) = n + 1 /\ Len(rest) <= m
    BY <1>1, <1>4
<1>8. \A k \in 1..Len(rest) : rest[k] = marks[(n + 1) + k]
  <2>1. \A k \in 1..(l - 1) : k + 1 \in 1..l /\ n + (k + 1) = (n + 1) + k
    BY <1>1
  <2>2. QED BY <1>4, <1>5, <2>1
<1> DEFINE further == [k \in 1..(n + 1) |-> IF k \in 1..n THEN place[k] ELSE a + 1]
<1> HIDE DEF n
<1>9. \A k \in 1..(n + 1) : k \in 1..n \/ (k = n + 1 /\ k \notin 1..n)
    BY <1>1
<1>10. \A k \in 1..n : place[k] \in 1..a
    BY <1>2
<1>11. /\ \A k \in 1..n : further[k] = place[k]
       /\ further[n + 1] = a + 1
  <2>1. \A k \in 1..n : k \in 1..(n + 1)
    BY <1>1
  <2>2. n + 1 \in 1..(n + 1) /\ n + 1 \notin 1..n
    BY <1>1
  <2>3. QED BY <2>1, <2>2
<1>12. further \in [1..(n + 1) -> 1..(a + 1)]
    BY <1>1, <1>10
<1> HIDE DEF further
<1>13. \A k \in 1..(n + 1) : deeper[further[k]] = ContainerOf(marks[k])
    BY <1>2, <1>3, <1>4, <1>6, <1>9, <1>10, <1>11
<1>14. \A j, k \in 1..(n + 1) : j < k => further[j] < further[k]
  <2>1. SUFFICES ASSUME NEW j \in 1..(n + 1), NEW k \in 1..(n + 1), j < k
                 PROVE  further[j] < further[k]
    OBVIOUS
  <2>2. j \in 1..n
    BY <1>1, <2>1
  <2>3. CASE k \in 1..n
    BY <1>2, <1>11, <2>1, <2>2, <2>3
  <2>4. CASE k = n + 1
    BY <1>1, <1>10, <1>11, <2>2, <2>4
  <2>5. QED BY <1>9, <2>3, <2>4
<1>15. QED
  <2>1. Len(marks) - Len(Tail(left)) = n + 1 /\ Len(Tail(left)) <= Len(marks)
    BY <1>7 DEF m, rest
  <2>2. \A k \in 1..Len(Tail(left)) : Tail(left)[k] = marks[(n + 1) + k]
    BY <1>8 DEF rest
  <2>3. further \in [1..(n + 1) -> 1..Len(Append(around, c))]
    BY <1>3, <1>12 DEF deeper
  <2>4. \A k \in 1..(n + 1) : Append(around, c)[further[k]] = ContainerOf(marks[k])
    BY <1>13 DEF deeper
  <2>5. QED BY <1>14, <2>1, <2>2, <2>3, <2>4 DEF MarksFit

\* Only the number of a line and its markers count.
LEMMA SameHonoured ==
    ASSUME NEW src, NEW l, NEW same, NEW around, same.id = l.id, same.marks = l.marks,
           Honoured(src, l, around)
    PROVE  Honoured(src, same, around)
BY DEF Honoured

LEMMA DeeperHonoured ==
    ASSUME NEW src, NEW l, NEW around \in Seq(Containers), NEW c \in Containers,
           Honoured(src, l, around)
    PROVE  Honoured(src, l, Append(around, c))
BY FitsDeeper DEF Honoured

\* A line goes into the container that its first marker opens.
LEMMA ContentHonoured ==
    ASSUME NEW src \in Seq(Numbered), NEW l \in Numbered, NEW around \in Seq(Containers),
           l.marks # <<>>, NEW c \in Containers, c = ContainerOf(Head(l.marks)),
           Honoured(src, l, around)
    PROVE  Honoured(src, Content(l), Append(around, c))
<1>1. l.id \in 1..Len(src) /\ MarksFit(src[l.id].marks, l.marks, around)
    BY DEF Honoured
<1>2. src[l.id] \in Numbered
    BY <1>1, SeqFacts
<1>3. src[l.id].marks \in Seq(Markers) /\ l.marks \in Seq(Markers)
    BY <1>2 DEF Numbered
<1>4. MarksFit(src[l.id].marks, Tail(l.marks), Append(around, c))
    BY <1>1, <1>3, FitsTaken
<1>5. Content(l).id = l.id
    BY ContentFacts
<1>6. Content(l).marks = Tail(l.marks)
  <2> DEFINE t == Tail(l.marks)
  <2>1. Content(l) = [l EXCEPT !.sp = 0, !.marks = t]
    BY DEF Content
  <2> HIDE DEF t
  <2>2. Content(l).marks = t
    BY <2>1 DEF Numbered
  <2>3. QED BY <2>2 DEF t
<1>7. QED BY <1>1, <1>4, <1>5, <1>6 DEF Honoured

\* One more line.
LEMMA MoreHonoured ==
    ASSUME NEW src, NEW ls \in Seq(Numbered), NEW l \in Numbered, NEW around,
           AllHonoured(src, ls, around), Honoured(src, l, around)
    PROVE  AllHonoured(src, Append(ls, l), around)
<1> DEFINE t == Append(ls, l)
<1>1. /\ Len(ls) \in Nat /\ Len(t) = Len(ls) + 1 /\ t[Len(ls) + 1] = l
      /\ \A k \in 1..Len(ls) : t[k] = ls[k]
    BY SeqFacts, Appending
<1> HIDE DEF t
<1>2. \A k \in 1..Len(t) : k \in 1..Len(ls) \/ k = Len(ls) + 1
    BY <1>1
<1>3. AllHonoured(src, t, around)
    BY <1>1, <1>2 DEF AllHonoured
<1>4. QED BY <1>3 DEF t

\* The line at hand.
LEMMA HandHonoured ==
    ASSUME BlocksInv, HonourInv, ~AtEnd
    PROVE  /\ Honoured(source, Line, path)
           /\ \A c \in Containers : Honoured(source, Line, Append(path, c))
<1>1. i \in 1..Len(lines) /\ path \in Seq(Containers)
    BY InHand DEF BlocksInv
<1>2. Honoured(source, Line, path)
    BY <1>1 DEF HonourInv, AllHonoured, Line
<1>3. QED BY <1>1, <1>2, DeeperHonoured

\* A block that has taken nothing.
LEMMA EmptyHonoured ==
    ASSUME NEW b, NEW src, NEW around, b.taken = <<>>, b.items = <<>>
    PROVE  BlockHonoured(src, b, around)
<1>1. \A k \in 1..Len(<<>>) : FALSE
    OBVIOUS
<1>2. QED BY <1>1 DEF BlockHonoured, AllHonoured

\* The line at hand is taken, passed or looked at again.
LEMMA HonourMoves ==
    ASSUME HonourInv, UNCHANGED <<source, lines, path, stack, html>>,
           BlockHonoured(source, block', path)
    PROVE  HonourInv'
BY DEF HonourInv

\* What a block has taken is shown.
LEMMA HonourShows ==
    ASSUME BlocksInv, HonourInv, UNCHANGED <<source, lines, path, stack>>,
           NEW tk \in Seq(Numbered), NEW as \in Forms, Show(tk, as),
           AllHonoured(source, tk, path),
           as = "p" => \A k \in 1..Len(tk) : ~starts_blockquote(tk[k]),
           BlockHonoured(source, block', path)
    PROVE  HonourInv'
<1> DEFINE t == ShownAs(tk, as, path)
           g == html \o t
<1>1. html \in Seq(Shown) /\ path \in Seq(Containers)
    BY DEF BlocksInv, Sound, Typed
<1>2. /\ t \in Seq(Shown) /\ Len(t) = Len(tk) /\ Len(tk) \in Nat
      /\ \A k \in 1..Len(tk) : /\ t[k].id = tk[k].id /\ t[k].leaf = tk[k].leaf
                               /\ t[k].marks = tk[k].marks
                               /\ t[k].as = as /\ t[k].path = path
    BY <1>1, ShownItems
<1> HIDE DEF t
<1>3. /\ Len(html) \in Nat /\ Len(g) = Len(html) + Len(t)
      /\ \A k \in 1..Len(html) : g[k] = html[k]
      /\ \A k \in 1..Len(t) : g[Len(html) + k] = t[k]
  <2>1. html \in Seq(Shown) /\ t \in Seq(Shown)
    BY <1>1, <1>2
  <2>2. /\ html \o t \in Seq(Shown) /\ Len(html \o t) = Len(html) + Len(t)
        /\ \A k \in 1..Len(html) : (html \o t)[k] = html[k]
        /\ \A k \in 1..Len(t) : (html \o t)[Len(html) + k] = t[k]
    BY <2>1, Joining
  <2>3. Len(html) \in Nat
    BY <2>1, SeqFacts
  <2>4. QED BY <2>2, <2>3, Zenon
<1>4. html' = g
    BY DEF Show, ShownAs, t
<1> HIDE DEF g
<1>5. ASSUME NEW k \in 1..Len(t)
      PROVE  Honoured(source, t[k], t[k].path) /\ (t[k].as = "p" => ~starts_blockquote(t[k]))
  <2>1. k \in 1..Len(tk) /\ t[k].id = tk[k].id /\ t[k].marks = tk[k].marks /\ t[k].as = as
        /\ t[k].path = path
    BY <1>2
  <2>2. Honoured(source, tk[k], path)
    BY <2>1 DEF AllHonoured
  <2>3. Honoured(source, t[k], path)
    BY <2>1, <2>2, SameHonoured
  <2>4. as = "p" => ~starts_blockquote(t[k])
    BY <2>1 DEF starts_blockquote
  <2>5. QED BY <2>1, <2>3, <2>4
<1>6. \A k \in 1..Len(g) : k \in 1..Len(html) \/ (k - Len(html) \in 1..Len(t) /\ k = Len(html) + (k - Len(html)))
    BY <1>2, <1>3
<1>7. ASSUME NEW k \in 1..Len(g)
      PROVE  Honoured(source, g[k], g[k].path) /\ (g[k].as = "p" => ~starts_blockquote(g[k]))
  <2>1. CASE k \in 1..Len(html)
    BY <1>3, <2>1 DEF HonourInv, ShownHonoured
  <2>2. CASE k - Len(html) \in 1..Len(t) /\ k = Len(html) + (k - Len(html))
    <3>1. g[k] = t[k - Len(html)]
        BY <1>3, <2>2
    <3>2. QED BY <1>5, <2>2, <3>1
  <2>3. QED BY <1>6, <2>1, <2>2
<1>8. ShownHonoured(source, html')
    BY <1>4, <1>7 DEF ShownHonoured
<1>9. QED BY <1>8 DEF HonourInv

\* The line at hand goes into a block.
LEMMA HonourTakes ==
    ASSUME BlocksInv, HonourInv, NEW l \in Numbered, Take(l),
           Honoured(source, l, Inside(block, path)),
           In("paragraph") => ~starts_blockquote(l)
    PROVE  HonourInv'
<1> DEFINE t == Append(block.taken, l)
<1>1. block \in Blocks /\ block.taken \in Seq(Numbered)
    BY DEF BlocksInv, Blocks
<1>2. /\ t \in Seq(Numbered) /\ Len(block.taken) \in Nat /\ Len(t) = Len(block.taken) + 1
      /\ t[Len(block.taken) + 1] = l
      /\ \A k \in 1..Len(block.taken) : t[k] = block.taken[k]
    BY <1>1, SeqFacts, Appending
<1>3. block' = [block EXCEPT !.taken = t] /\ UNCHANGED <<source, lines, path, stack, html>>
    BY DEF Take, Advance
<1>4. AllHonoured(source, t, Inside(block, path))
    BY <1>1, MoreHonoured DEF HonourInv, BlockHonoured
<1> HIDE DEF t
<1>5. /\ block'.taken = t /\ block'.items = block.items /\ block'.loop = block.loop
      /\ block'.ordered = block.ordered
    BY <1>1, <1>2, <1>3, TakenFacts
<1>6. Inside(block', path) = Inside(block, path)
    BY <1>5 DEF Inside
<1>7. \A k \in 1..Len(t) : k \in 1..Len(block.taken) \/ k = Len(block.taken) + 1
    BY <1>2
<1>8. block.loop = "paragraph" => \A k \in 1..Len(t) : ~starts_blockquote(t[k])
    BY <1>2, <1>7 DEF HonourInv, BlockHonoured, In
<1>9. BlockHonoured(source, block', path)
    BY <1>4, <1>5, <1>6, <1>8 DEF HonourInv, BlockHonoured
<1>10. QED BY <1>3, <1>9, HonourMoves

\* The loops that take the line at hand.
LEMMA HonourLines ==
    ASSUME BlocksInv, HonourInv,
           MathLine \/ TableRow \/ CodeLine \/ FenceLine \/ ItemLine \/ QuoteLine \/ ParagraphLine
    PROVE  HonourInv'
<1>1. ~AtEnd /\ block \in Blocks
    BY DEF MathLine, TableRow, CodeLine, FenceLine, ItemLine, QuoteLine, ParagraphLine, Continues,
           BlocksInv
<1>2. Line \in Numbered /\ block.indent \in Nat /\ path \in Seq(Containers) /\ source \in Seq(Numbered)
    BY <1>1, InHand DEF BlocksInv, Blocks
<1>3. Honoured(source, Line, path) /\ \A c \in Containers : Honoured(source, Line, Append(path, c))
    BY <1>1, HandHonoured
<1>4. CASE MathLine \/ TableRow \/ CodeLine \/ FenceLine \/ ParagraphLine
  <2>1. block.loop \in {"math", "table", "code", "fence", "paragraph"} /\ Take(Line)
    BY <1>4 DEF MathLine, TableRow, CodeLine, FenceLine, ParagraphLine, In
  <2>2. Inside(block, path) = path
    BY <2>1 DEF Inside
  <2>3. In("paragraph") => ~starts_blockquote(Line)
    BY <1>4 DEF MathLine, TableRow, CodeLine, FenceLine, ParagraphLine, In, Continues,
                EndsParagraph, InterruptsParagraph
  <2>4. QED BY <1>2, <1>3, <2>1, <2>2, <2>3, HonourTakes
<1>5. CASE ItemLine
  <2>1. block.loop = "item" /\ Take(Stripped(Line, block.indent))
    BY <1>5 DEF ItemLine, In
  <2>2. /\ Stripped(Line, block.indent) \in Numbered
        /\ Stripped(Line, block.indent).id = Line.id
        /\ Stripped(Line, block.indent).marks = Line.marks
    BY <1>2, StrippedFacts
  <2>3. \E c \in Containers : Inside(block, path) = Append(path, c)
    BY <2>1 DEF Inside, Containers
  <2>4. Honoured(source, Line, Inside(block, path))
    BY <1>3, <2>3
  <2>5. Honoured(source, Stripped(Line, block.indent), Inside(block, path))
    BY <2>2, <2>4, SameHonoured
  <2>6. QED BY <2>1, <2>2, <2>5, HonourTakes DEF In
<1>6. CASE QuoteLine
  <2>1. block.loop = "quote"
    BY <1>6 DEF QuoteLine, In
  <2>2. "quote" \in Containers /\ Inside(block, path) = Append(path, "quote")
    BY <2>1 DEF Inside, Containers
  <2>3. CASE starts_blockquote(Line)
    <3>1. Take(Content(Line))
        BY <1>6, <2>3 DEF QuoteLine
    <3>2. Line.marks # <<>> /\ "quote" = ContainerOf(Head(Line.marks))
        BY <2>3 DEF starts_blockquote, ContainerOf
    <3>3. Content(Line) \in Numbered
        BY <1>2, <3>2, ContentFacts
    <3>4. Honoured(source, Content(Line), Append(path, "quote"))
        BY <1>2, <1>3, <2>2, <3>2, ContentHonoured
    <3>5. QED BY <2>1, <2>2, <3>1, <3>3, <3>4, HonourTakes DEF In
  <2>4. CASE ~starts_blockquote(Line)
    <3>1. Take(Line)
        BY <1>6, <2>4 DEF QuoteLine
    <3>2. QED BY <1>2, <1>3, <2>2, <2>4, <3>1, HonourTakes
  <2>5. QED BY <2>3, <2>4
<1>7. QED BY <1>4, <1>5, <1>6

\* The loop over the lines goes on, or that of a block begins.
LEMMA HonourOpens ==
    ASSUME BlocksInv, HonourInv,
           \/ SkipBlank \/ HtmlOpen \/ MathOpen \/ CodeOpen \/ FenceOpen \/ ListOpen
           \/ QuoteOpen \/ ParagraphOpen \/ (ParagraphClose /\ block.taken = <<>>)
    PROVE  HonourInv'
<1>1. block'.taken = <<>> /\ block'.items = <<>>
  <2>1. CASE SkipBlank
    BY <2>1, DispatchFacts DEF SkipBlank
  <2>2. CASE HtmlOpen \/ MathOpen \/ CodeOpen \/ QuoteOpen \/ ParagraphOpen
    <3>1. PICK loop \in Loops : block' = [Idle EXCEPT !.loop = loop]
        BY <2>2 DEF HtmlOpen, MathOpen, CodeOpen, QuoteOpen, ParagraphOpen, Open, Loops
    <3>2. QED BY <3>1 DEF Idle
  <2>3. CASE FenceOpen \/ ListOpen
    BY <2>3 DEF FenceOpen, ListOpen, Open, Idle
  <2>4. CASE ParagraphClose /\ block.taken = <<>>
    BY <2>4, IdleFacts DEF ParagraphClose, Open
  <2>5. QED BY <2>1, <2>2, <2>3, <2>4
<1>2. UNCHANGED <<source, lines, path, stack, html>>
    BY DEF SkipBlank, HtmlOpen, MathOpen, CodeOpen, FenceOpen, ListOpen, QuoteOpen, ParagraphOpen,
           ParagraphClose, Open, Advance
<1>3. BlockHonoured(source, block', path)
    BY <1>1, EmptyHonoured
<1>4. QED BY <1>2, <1>3, HonourMoves

\* A block of some lines is shown.
LEMMA HonourBlocks ==
    ASSUME BlocksInv, HonourInv, NEW tk \in Seq(Numbered), NEW as \in Forms, Show(tk, as),
           UNCHANGED <<source, lines, path, stack>>,
           tk = block.taken \/ (~AtEnd /\ tk = Append(block.taken, Line) /\ as # "p"),
           block.loop \notin {"list", "item", "quote"},
           as = "p" => In("paragraph"),
           block'.taken = <<>>, block'.items = <<>>
    PROVE  HonourInv'
<1>1. block.taken \in Seq(Numbered)
    BY DEF BlocksInv, Blocks
<1>2. Inside(block, path) = path
    BY DEF Inside
<1>3. AllHonoured(source, block.taken, path)
    BY <1>2 DEF HonourInv, BlockHonoured
<1>4. AllHonoured(source, tk, path)
  <2>1. CASE tk = block.taken
    BY <1>3, <2>1
  <2>2. CASE ~AtEnd /\ tk = Append(block.taken, Line)
    BY <1>1, <1>3, <2>2, InHand, HandHonoured, MoreHonoured
  <2>3. QED BY <2>1, <2>2
<1>5. as = "p" => \A k \in 1..Len(tk) : ~starts_blockquote(tk[k])
    BY DEF HonourInv, BlockHonoured, In
<1>6. BlockHonoured(source, block', path)
    BY EmptyHonoured
<1>7. QED BY <1>4, <1>5, <1>6, HonourShows

LEMMA HonourEnds ==
    ASSUME BlocksInv, HonourInv,
           \/ Rule \/ (Heading /\ error = 0)
           \/ HtmlLine \/ MathClose \/ TableClose \/ CodeClose \/ FenceClose
           \/ (ParagraphUnderline /\ error = 0)
           \/ (ParagraphClose /\ block.taken # <<>> /\ error = 0)
    PROVE  HonourInv'
<1>1. block.taken \in Seq(Numbered)
    BY DEF BlocksInv, Blocks
<1>2. Idle.taken = <<>> /\ Idle.items = <<>>
    BY IdleFacts
<1>3. ASSUME ~AtEnd PROVE Append(block.taken, Line) \in Seq(Numbered)
    BY <1>1, <1>3, InHand, Appending
<1>4. CASE Rule \/ (Heading /\ error = 0)
  <2>1. PICK test \in {"hr", "heading"}, as \in {"hr", "h"} :
           Dispatch(test) /\ Show(<<Line>>, as) /\ Advance(1) /\ UNCHANGED block
    BY <1>4 DEF Rule, Heading
  <2>2. ~AtEnd /\ block.loop = "none" /\ block.taken = <<>> /\ block.items = <<>>
    BY <2>1, DispatchFacts
  <2>3. Append(block.taken, Line) = <<Line>>
    BY <2>2
  <2>4. Show(Append(block.taken, Line), as) /\ as \in Forms /\ as # "p"
    BY <2>1, <2>3 DEF Forms
  <2>5. UNCHANGED <<source, lines, path, stack>>
    BY <2>1 DEF Advance
  <2>6. block'.taken = <<>> /\ block'.items = <<>>
    BY <2>1, <2>2
  <2>7. QED BY <1>3, <2>2, <2>4, <2>5, <2>6, HonourBlocks
<1>5. CASE HtmlLine
  <2>1. ~AtEnd /\ block.loop = "html"
    BY <1>5 DEF HtmlLine, In, BlocksInv, LoopInv
  <2>2. CASE Take(Line)
    <3>1. Inside(block, path) = path /\ ~In("paragraph")
        BY <2>1 DEF Inside, In
    <3>2. QED BY <2>1, <2>2, <3>1, InHand, HandHonoured, HonourTakes
  <2>3. CASE ~Take(Line)
    <3>1. block' = Idle /\ Show(Append(block.taken, Line), "html") /\ Advance(1)
        BY <1>5, <2>3 DEF HtmlLine
    <3>2. "html" \in Forms /\ UNCHANGED <<source, lines, path, stack>>
        BY <3>1 DEF Forms, Advance
    <3>3. QED BY <1>2, <1>3, <2>1, <3>1, <3>2, HonourBlocks
  <2>4. QED BY <2>2, <2>3
<1>6. CASE MathClose \/ TableClose \/ CodeClose \/ FenceClose
  <2>1. PICK as \in {"math", "cell", "code"} :
           block' = Idle /\ Show(block.taken, as) /\ UNCHANGED <<source, lines, path, stack>>
    BY <1>6 DEF MathClose, TableClose, CodeClose, FenceClose, Close, Advance
  <2>2. block.loop \in {"math", "table", "code", "fence"}
    BY <1>6 DEF MathClose, TableClose, CodeClose, FenceClose, In
  <2>3. as \in Forms /\ as # "p"
    BY DEF Forms
  <2>4. QED BY <1>1, <1>2, <2>1, <2>2, <2>3, HonourBlocks
<1>7. CASE ParagraphUnderline /\ error = 0
  <2>1. ~AtEnd /\ block.loop = "paragraph"
    BY <1>7 DEF ParagraphUnderline, Continues, In
  <2>2. block' = Idle /\ Show(Append(block.taken, Line), "h") /\ Advance(2)
    BY <1>7 DEF ParagraphUnderline, RenderParagraph
  <2>3. "h" \in Forms /\ UNCHANGED <<source, lines, path, stack>>
    BY <2>2 DEF Forms, Advance
  <2>4. QED BY <1>2, <1>3, <2>1, <2>2, <2>3, HonourBlocks
<1>8. CASE ParagraphClose /\ block.taken # <<>> /\ error = 0
  <2>1. block.loop = "paragraph" /\ In("paragraph")
    BY <1>8 DEF ParagraphClose, In
  <2>2. block' = Idle /\ Show(block.taken, "p") /\ Advance(0)
    BY <1>8 DEF ParagraphClose, RenderParagraph
  <2>3. "p" \in Forms /\ UNCHANGED <<source, lines, path, stack>>
    BY <2>2 DEF Forms, Advance
  <2>4. QED BY <1>1, <1>2, <2>1, <2>2, <2>3, HonourBlocks
<1>9. QED BY <1>4, <1>5, <1>6, <1>7, <1>8

\* A table opens with the row above the delimiters.
LEMMA HonourTable ==
    ASSUME BlocksInv, HonourInv, TableOpen
    PROVE  HonourInv'
<1>1. ~AtEnd /\ block.taken = <<>> /\ block.items = <<>>
    BY DispatchFacts DEF TableOpen
<1>2. Line \in Numbered /\ Honoured(source, Line, path)
    BY <1>1, InHand, HandHonoured
<1>3. AllHonoured(source, <<Line>>, path)
    BY <1>2 DEF AllHonoured
<1>4. block'.taken = <<Line>> /\ block'.items = <<>> /\ block'.loop = "table"
    BY DEF TableOpen, Idle
<1>5. Inside(block', path) = path
    BY <1>4 DEF Inside
<1>6. BlockHonoured(source, block', path)
    BY <1>3, <1>4, <1>5 DEF BlockHonoured
<1>7. UNCHANGED <<source, lines, path, stack, html>>
    BY DEF TableOpen, Advance
<1>8. QED BY <1>6, <1>7, HonourMoves

\* The documents around the one at hand go on.
LEMMA HonourReturns ==
    ASSUME BlocksInv, HonourInv, Return
    PROVE  HonourInv'
<1>1. UNCHANGED <<source, html>> /\ stack \in Seq(Frames)
    BY DEF Return, BlocksInv, Sound, Typed
<1>2. CASE stack = <<>>
  <2>1. block' = [Idle EXCEPT !.loop = "done"] /\ UNCHANGED <<lines, path, stack>>
    BY <1>2 DEF Return
  <2>2. block'.taken = <<>> /\ block'.items = <<>>
    BY <2>1, IdleFacts DEF Loops
  <2>3. QED BY <1>1, <2>1, <2>2, EmptyHonoured, HonourMoves
<1>3. CASE stack # <<>>
  <2> DEFINE rest == Tail(stack)
             m == Len(stack)
  <2>1. /\ block' = Idle /\ lines' = Head(stack).lines /\ path' = Head(stack).path
        /\ stack' = rest
    BY <1>3 DEF Return
  <2>2. /\ Head(stack) = stack[1] /\ Len(rest) = m - 1 /\ m \in Nat /\ m # 0
        /\ \A k \in 1..(m - 1) : rest[k] = stack[k + 1]
    BY <1>1, <1>3
  <2> HIDE DEF rest, m
  <2>3. 1 \in 1..m /\ \A k \in 1..(m - 1) : k + 1 \in 1..m
    BY <2>2
  <2>4. \A d \in 1..m : AllHonoured(source, stack[d].lines, stack[d].path)
    BY DEF HonourInv, StackHonoured, m
  <2>5. AllHonoured(source, lines', path')
    BY <2>1, <2>2, <2>3, <2>4
  <2>6. StackHonoured(source, stack')
    BY <2>1, <2>2, <2>3, <2>4 DEF StackHonoured
  <2>7. BlockHonoured(source, block', path')
    BY <2>1, IdleFacts, EmptyHonoured
  <2>8. QED BY <1>1, <2>5, <2>6, <2>7 DEF HonourInv
<1>4. QED BY <1>2, <1>3

\* An item begins behind its marker, inside the list it is one of.
LEMMA HonourItemOpens ==
    ASSUME BlocksInv, HonourInv, ItemOpen
    PROVE  HonourInv'
<1> DEFINE l == Content(Line)
           c == IF block.ordered THEN "ol" ELSE "ul"
<1>1. block.loop = "list" /\ ~AtEnd /\ SameList(Line) /\ block \in Blocks
    BY DEF ItemOpen, In, Continues, BlocksInv
<1>2. Line \in Numbered /\ path \in Seq(Containers) /\ source \in Seq(Numbered)
    BY <1>1, InHand DEF BlocksInv
<1>3. Line.marks # <<>> /\ c \in Containers /\ c = ContainerOf(Head(Line.marks))
  <2>1. Line.marks # <<>> /\ Head(Line.marks) # ">" /\ (block.ordered <=> Head(Line.marks) = "1.")
    BY <1>1 DEF SameList, match_list_item, Ordered, Blocks
  <2>2. Line.marks \in Seq(Markers)
    BY <1>2 DEF Numbered
  <2>3. Head(Line.marks) \in Markers
    BY <2>1, <2>2
  <2>4. QED BY <2>1, <2>3 DEF Markers, ContainerOf, Containers
<1>4. Honoured(source, Line, path)
    BY <1>1, HandHonoured
<1>5. Honoured(source, l, Append(path, c))
    BY <1>2, <1>3, <1>4, ContentHonoured
<1>6. block' = [block EXCEPT !.loop = "item", !.taken = <<l>>,
                             !.own = content_indent(Line), !.prev_blank = FALSE]
    BY DEF ItemOpen
<1> HIDE DEF l, c
<1>7. /\ block'.taken = <<l>> /\ block'.items = block.items /\ block'.loop = "item"
      /\ block'.ordered = block.ordered
    BY <1>1, <1>6 DEF Blocks
<1>8. Inside(block', path) = Append(path, c) /\ Inside(block, path) = Append(path, c)
    BY <1>1, <1>7 DEF Inside, c
<1>9. AllHonoured(source, <<l>>, Append(path, c))
    BY <1>5 DEF AllHonoured
<1>10. BlockHonoured(source, block', path)
    BY <1>7, <1>8, <1>9 DEF HonourInv, BlockHonoured
<1>11. UNCHANGED <<source, lines, path, stack, html>>
    BY DEF ItemOpen, Advance
<1>12. QED BY <1>10, <1>11, HonourMoves

\* The lines of a list stay in it when its loops hand over to each other.
LEMMA HonourSameLines ==
    ASSUME BlocksInv, HonourInv, ListBlank \/ ItemClose
    PROVE  HonourInv'
<1>1. block \in Blocks /\ block.loop \in {"list", "item"} /\ path \in Seq(Containers)
    BY DEF ListBlank, ItemClose, In, BlocksInv
<1>2. UNCHANGED <<source, lines, path, stack, html>>
    BY DEF ListBlank, ItemClose, Advance
<1>3. CASE ListBlank
  <2>1. /\ block'.taken = block.taken /\ block'.items = block.items /\ block'.loop = block.loop
        /\ block'.ordered = block.ordered
    BY <1>1, <1>3 DEF ListBlank, Blocks
  <2>2. Inside(block', path) = Inside(block, path)
    BY <2>1 DEF Inside
  <2>3. BlockHonoured(source, block', path)
    BY <2>1, <2>2 DEF HonourInv, BlockHonoured
  <2>4. QED BY <1>2, <2>3, HonourMoves
<1>4. CASE ItemClose
  <2> DEFINE its == Append(block.items, block.taken)
             m == Len(block.items)
             blank == ~AtEnd /\ is_blank_line(Line)
  <2>1. block.items \in Seq(Seq(Numbered)) /\ block.taken \in Seq(Numbered)
    BY <1>1 DEF Blocks
  <2>2. /\ Len(its) = m + 1 /\ m \in Nat /\ its[m + 1] = block.taken
        /\ \A k \in 1..m : its[k] = block.items[k]
    BY <2>1, SeqFacts, Appending
  <2>3. block' = [block EXCEPT !.loop = "list", !.taken = <<>>, !.items = its,
                               !.indent = block.own, !.prev_blank = blank]
    BY <1>4 DEF ItemClose
  <2> HIDE DEF its, m, blank
  <2>4. /\ block'.taken = <<>> /\ block'.items = its /\ block'.loop = "list"
        /\ block'.ordered = block.ordered
    BY <1>1, <2>3 DEF Blocks
  <2>5. Inside(block', path) = Inside(block, path)
    BY <1>1, <2>4 DEF Inside
  <2>6. \A k \in 1..Len(its) : k \in 1..m \/ k = m + 1
    BY <2>2
  <2>7. \A k \in 1..Len(its) : AllHonoured(source, its[k], Inside(block, path))
    BY <2>2, <2>6 DEF HonourInv, BlockHonoured, m
  <2>8. AllHonoured(source, <<>>, Inside(block, path))
    BY DEF AllHonoured
  <2>9. BlockHonoured(source, block', path)
    BY <2>4, <2>5, <2>7, <2>8 DEF BlockHonoured
  <2>10. QED BY <1>2, <2>9, HonourMoves
<1>5. QED BY <1>3, <1>4

\* An indented line joins the last item, wherever it stands.
LEMMA HonourIndents ==
    ASSUME BlocksInv, HonourInv, ListIndented
    PROVE  HonourInv'
<1> DEFINE its == block.items
           m == Len(its)
           l == Stripped(Line, block.indent)
           x == Append(its[m], l)
           a == [its EXCEPT ![m] = x]
           around == Inside(block, path)
<1>1. block.loop = "list" /\ In("list") /\ ~AtEnd /\ OtherLine(Line) /\ block \in Blocks
    BY DEF ListIndented, In, Continues, BlocksInv
<1>2. its # <<>> /\ its \in Seq(Seq(Numbered))
    BY <1>1, FirstItem DEF Blocks
<1>3. Line \in Numbered /\ block.indent \in Nat
    BY <1>1, InHand DEF Blocks
<1>4. l \in Numbered /\ l.id = Line.id /\ l.marks = Line.marks
    BY <1>3, StrippedFacts
<1>5. Honoured(source, Line, around)
  <2>1. \E c \in Containers : around = Append(path, c)
    BY <1>1 DEF Inside, Containers
  <2>2. QED BY <1>1, <2>1, HandHonoured
<1> HIDE DEF l
<1>6. Honoured(source, l, around)
    BY <1>4, <1>5, SameHonoured
<1>7. \A k \in 1..m : AllHonoured(source, its[k], around)
    BY DEF HonourInv, BlockHonoured
<1>8. m \in Nat /\ m \in 1..m /\ DOMAIN its = 1..m /\ its[m] \in Seq(Numbered)
  <2>1. m \in Nat /\ DOMAIN its = 1..m /\ \A k \in 1..m : its[k] \in Seq(Numbered)
    BY <1>2, SeqFacts
  <2>2. m # 0
    BY <1>2
  <2>3. QED BY <2>1, <2>2
<1> HIDE DEF around
<1>9. AllHonoured(source, x, around)
    BY <1>4, <1>6, <1>7, <1>8, MoreHonoured
<1>10. block' = [block EXCEPT !.items = a]
    BY DEF ListIndented, l
<1>11. Len(a) = m /\ \A k \in 1..m : AllHonoured(source, a[k], around)
  <2>1. a = [k \in 1..m |-> IF k = m THEN x ELSE its[k]]
    BY <1>8
  <2> HIDE DEF a, x, m, its
  <2>2. Len(a) = m
    BY <1>8, <2>1
  <2>3. \A k \in 1..m : a[k] = IF k = m THEN x ELSE its[k]
    BY <2>1
  <2>4. QED BY <1>7, <1>9, <2>2, <2>3
<1> HIDE DEF a, x, m
<1>12. /\ block'.items = a /\ block'.taken = block.taken /\ block'.loop = block.loop
       /\ block'.ordered = block.ordered
    BY <1>1, <1>10 DEF Blocks
<1>13. Inside(block', path) = around
    BY <1>12 DEF Inside, around
<1>14. BlockHonoured(source, block', path)
    BY <1>11, <1>12, <1>13 DEF HonourInv, BlockHonoured, around
<1>15. UNCHANGED <<source, lines, path, stack, html>>
    BY DEF ListIndented, Advance
<1>16. QED BY <1>14, <1>15, HonourMoves

\* A blank line of an item has no markers to lose.
LEMMA HonourItemBlanks ==
    ASSUME BlocksInv, HonourInv, ItemBlank
    PROVE  HonourInv'
<1> DEFINE t == Append(block.taken, Blank)
           around == Inside(block, path)
<1>1. block.loop = "item" /\ ~AtEnd /\ is_blank_line(Line) /\ block \in Blocks
    BY DEF ItemBlank, In, Continues, BlocksInv
<1>2. Line \in Numbered /\ block.taken \in Seq(Numbered)
    BY <1>1, InHand DEF Blocks
<1>3. Blank \in Numbered /\ Blank.id = Line.id /\ Blank.marks = Line.marks
  <2>1. Line.id \in Nat \ {0}
    BY <1>2 DEF Numbered
  <2>2. <<>> \in Seq(Markers)
    OBVIOUS
  <2>3. QED BY <1>1, <2>1, <2>2 DEF Blank, Numbered, Leaves, is_blank_line
<1>4. \E c \in Containers : around = Append(path, c)
    BY <1>1 DEF Inside, Containers
<1>5. Honoured(source, Blank, around)
    BY <1>1, <1>3, <1>4, HandHonoured, SameHonoured
<1>6. AllHonoured(source, t, around)
    BY <1>2, <1>3, <1>5, MoreHonoured DEF HonourInv, BlockHonoured
<1>7. t \in Seq(Numbered)
    BY <1>2, <1>3, Appending
<1>8. block' = [block EXCEPT !.taken = t]
    BY DEF ItemBlank
<1> HIDE DEF t
<1>9. /\ block'.taken = t /\ block'.items = block.items /\ block'.loop = "item"
      /\ block'.ordered = block.ordered
    BY <1>1, <1>7, <1>8, TakenFacts
<1>10. Inside(block', path) = around
    BY <1>1, <1>9 DEF Inside
<1>11. BlockHonoured(source, block', path)
    BY <1>6, <1>9, <1>10 DEF HonourInv, BlockHonoured
<1>12. UNCHANGED <<source, lines, path, stack, html>>
    BY DEF ItemBlank
<1>13. QED BY <1>11, <1>12, HonourMoves

\* The bodies of a list or a quote are parsed inside it.
LEMMA HonourRecurses ==
    ASSUME BlocksInv, HonourInv, NEW bodies \in Seq(Seq(Numbered)), bodies # <<>>,
           NEW container \in Containers, Recurse(bodies, container),
           \A k \in 1..Len(bodies) : AllHonoured(source, bodies[k], Append(path, container))
    PROVE  HonourInv'
<1> DEFINE inside == Append(path, container)
           fs == Bodies(bodies, inside)
           here == [lines |-> lines, i |-> i, path |-> path]
           g == Tail(fs) \o <<here>> \o stack
           m == Len(bodies)
           n == Len(stack)
<1>1. /\ inside \in Seq(Containers) /\ stack \in Seq(Frames) /\ here \in Frames
  <2>1. path \in Seq(Containers) /\ stack \in Seq(Frames) /\ lines \in Seq(Numbered) /\ i \in Nat \ {0}
    BY DEF BlocksInv, Sound, Typed
  <2>2. inside \in Seq(Containers)
    BY <2>1
  <2>3. QED BY <2>1, <2>2 DEF Frames
<1>2. /\ lines' = fs[1].lines /\ path' = fs[1].path /\ stack' = g /\ block' = Idle
      /\ UNCHANGED <<source, html>>
    BY DEF Recurse, Bodies
<1>3. here.lines = lines /\ here.path = path
    OBVIOUS
<1>4. Pushed(fs, g, bodies, inside, here, stack)
    BY DEF Pushed
<1> HIDE DEF inside, fs, here, g
<1>5. /\ m \in Nat \ {0} /\ n \in Nat
      /\ \A k \in 1..m : fs[k].lines = Rejoined(bodies[k]) /\ fs[k].path = inside
      /\ Len(g) = m + n
      /\ \A k \in 1..(m - 1) : g[k] = fs[k + 1]
      /\ g[m] = here
      /\ \A k \in 1..n : g[m + k] = stack[k]
    BY <1>1, <1>4, Stacked
<1>6. \A k \in 1..m : AllHonoured(source, fs[k].lines, fs[k].path)
  <2>1. SUFFICES ASSUME NEW k \in 1..m PROVE AllHonoured(source, fs[k].lines, fs[k].path)
    OBVIOUS
  <2>2. bodies[k] \in Seq(Numbered)
    BY SeqFacts
  <2>3. /\ Len(Rejoined(bodies[k])) \in Nat /\ Len(bodies[k]) \in Nat
        /\ Len(Rejoined(bodies[k])) <= Len(bodies[k])
        /\ \A j \in 1..Len(Rejoined(bodies[k])) : Rejoined(bodies[k])[j] = bodies[k][j]
    BY <2>2, RejoinedLines, SeqFacts
  <2>4. AllHonoured(source, bodies[k], inside)
    BY DEF inside
  <2>5. AllHonoured(source, Rejoined(bodies[k]), inside)
    BY <2>3, <2>4 DEF AllHonoured
  <2>6. QED BY <1>5, <2>5
<1> HIDE DEF m, n
<1>7. 1 \in 1..m /\ \A k \in 1..(m - 1) : k + 1 \in 1..m
    BY <1>5
<1>8. AllHonoured(source, lines', path')
    BY <1>2, <1>6, <1>7
<1>9. StackHonoured(source, stack')
  <2>1. \A k \in 1..(m + n) : \/ k \in 1..(m - 1)
                              \/ k = m
                              \/ k - m \in 1..n /\ k = m + (k - m)
    <3>1. m \in Nat /\ n \in Nat
        BY <1>5
    <3>2. QED BY <3>1
  <2>2. SUFFICES ASSUME NEW k \in 1..(m + n) PROVE AllHonoured(source, g[k].lines, g[k].path)
    BY <1>2, <1>5 DEF StackHonoured
  <2>3. CASE k \in 1..(m - 1)
    BY <1>5, <1>6, <1>7, <2>3
  <2>4. CASE k = m
    BY <1>3, <1>5, <2>4 DEF HonourInv
  <2>5. CASE k - m \in 1..n /\ k = m + (k - m)
    <3>1. g[k] = stack[k - m]
        BY <1>5, <2>5
    <3>2. AllHonoured(source, stack[k - m].lines, stack[k - m].path)
        BY <2>5 DEF HonourInv, StackHonoured, n
    <3>3. QED BY <3>1, <3>2
  <2>6. QED BY <2>1, <2>3, <2>4, <2>5
<1>10. BlockHonoured(source, block', path')
    BY <1>2, IdleFacts, EmptyHonoured
<1>11. QED BY <1>2, <1>8, <1>9, <1>10 DEF HonourInv

LEMMA HonourBodies ==
    ASSUME BlocksInv, HonourInv, ListClose \/ QuoteClose
    PROVE  HonourInv'
<1>1. block \in Blocks
    BY DEF BlocksInv
<1>2. CASE ListClose
  <2> DEFINE c == IF block.ordered THEN "ol" ELSE "ul"
  <2>1. block.loop = "list" /\ block.items # <<>> /\ Recurse(block.items, c)
    BY <1>2, FirstItem DEF ListClose, In
  <2>2. c \in Containers /\ Inside(block, path) = Append(path, c)
    BY <2>1 DEF Containers, Inside
  <2>3. block.items \in Seq(Seq(Numbered))
    BY <1>1 DEF Blocks
  <2> HIDE DEF c
  <2>4. \A k \in 1..Len(block.items) : AllHonoured(source, block.items[k], Append(path, c))
    BY <2>2 DEF HonourInv, BlockHonoured
  <2>5. QED BY <2>1, <2>2, <2>3, <2>4, HonourRecurses
<1>3. CASE QuoteClose
  <2> DEFINE bodies == <<block.taken>>
  <2>1. block.loop = "quote" /\ Recurse(bodies, "quote") /\ block.taken \in Seq(Numbered)
    BY <1>1, <1>3 DEF QuoteClose, In, Blocks
  <2>2. "quote" \in Containers /\ Inside(block, path) = Append(path, "quote")
    BY <2>1 DEF Containers, Inside
  <2>3. bodies \in Seq(Seq(Numbered)) /\ bodies # <<>> /\ Len(bodies) = 1 /\ bodies[1] = block.taken
    BY <2>1
  <2> HIDE DEF bodies
  <2>4. AllHonoured(source, block.taken, Append(path, "quote"))
    BY <2>2 DEF HonourInv, BlockHonoured
  <2>5. \A k \in 1..Len(bodies) : AllHonoured(source, bodies[k], Append(path, "quote"))
    BY <2>3, <2>4
  <2>6. QED BY <2>1, <2>2, <2>3, <2>5, HonourRecurses
<1>4. QED BY <1>2, <1>3

LEMMA HonourStep ==
    ASSUME BlocksInv, HonourInv, [BlocksNext]_document
    PROVE  HonourInv'
<1>1. CASE MathLine \/ TableRow \/ CodeLine \/ FenceLine \/ ItemLine \/ QuoteLine \/ ParagraphLine
    BY <1>1, HonourLines
<1>2. CASE \/ SkipBlank \/ HtmlOpen \/ MathOpen \/ CodeOpen \/ FenceOpen \/ ListOpen
           \/ QuoteOpen \/ ParagraphOpen \/ (ParagraphClose /\ block.taken = <<>>)
    BY <1>2, HonourOpens
<1>3. CASE \/ Rule \/ (Heading /\ error = 0)
           \/ HtmlLine \/ MathClose \/ TableClose \/ CodeClose \/ FenceClose
           \/ (ParagraphUnderline /\ error = 0)
           \/ (ParagraphClose /\ block.taken # <<>> /\ error = 0)
    BY <1>3, HonourEnds
<1>4. CASE \/ DocumentEnd \/ FenceUnterminated
           \/ error # 0 /\ (Heading \/ ParagraphUnderline \/ (ParagraphClose /\ block.taken # <<>>))
  <2>1. Return
    BY <1>4 DEF DocumentEnd, FenceUnterminated, Heading, ParagraphUnderline, ParagraphClose,
                RenderParagraph
  <2>2. QED BY <2>1, HonourReturns
<1>5. CASE TableOpen
    BY <1>5, HonourTable
<1>6. CASE ItemOpen \/ ListBlank \/ ItemClose \/ ListIndented \/ ItemBlank
    BY <1>6, HonourItemOpens, HonourSameLines, HonourIndents, HonourItemBlanks
<1>7. CASE ListClose \/ QuoteClose
    BY <1>7, HonourBodies
<1>8. CASE UNCHANGED document
    BY <1>8 DEF document, HonourInv
<1>9. QED BY <1>1, <1>2, <1>3, <1>4, <1>5, <1>6, <1>7, <1>8 DEF BlocksNext

\* Nothing was taken off a line yet.
LEMMA HonourStart == BlocksInit => HonourInv
<1> SUFFICES ASSUME BlocksInit PROVE HonourInv
    OBVIOUS
<1>1. source \in Seq(Numbered) /\ \A k \in 1..Len(source) : source[k].id = k
    BY NumberedLines DEF BlocksInit
<1>2. /\ Len(Sent) = Len(source) /\ Len(source) \in Nat
      /\ \A k \in 1..Len(source) : Sent[k].id = k /\ Sent[k].marks = source[k].marks
    BY <1>1, SentFacts, SeqFacts
<1>3. /\ lines = Sent /\ path = <<>> /\ stack = <<>> /\ block = Idle /\ html = <<>>
    BY DEF BlocksInit, Sent
<1>4. AllHonoured(source, lines, path)
  <2>1. SUFFICES ASSUME NEW k \in 1..Len(source) PROVE Honoured(source, Sent[k], path)
    BY <1>2, <1>3 DEF AllHonoured
  <2>2. source[k].marks \in Seq(Markers)
    <3>1. source[k] \in Numbered
        BY <1>1, SeqFacts
    <3>2. QED BY <3>1 DEF Numbered
  <2>3. MarksFit(source[k].marks, source[k].marks, path)
    BY <2>2, FitsStart
  <2>4. QED BY <1>2, <2>3 DEF Honoured
<1>5. \A k \in 1..Len(<<>>) : FALSE
    OBVIOUS
<1>6. StackHonoured(source, stack) /\ ShownHonoured(source, html)
    BY <1>3, <1>5 DEF StackHonoured, ShownHonoured
<1>7. BlockHonoured(source, block, path)
    BY <1>3, IdleFacts, EmptyHonoured
<1>8. QED BY <1>4, <1>6, <1>7 DEF HonourInv

\* What is shown has what the property asks for.
LEMMA MarkersRight == BlocksInv /\ HonourInv => MarkersHonoured
<1> SUFFICES ASSUME BlocksInv, HonourInv, NEW s \in Range(html)
             PROVE  LET marks == source[s.id].marks
                        rest  == Len(marks) - Len(s.marks)
                    IN  /\ marks = SubSeq(marks, 1, rest) \o s.marks
                        /\ Nest(SubSeq(marks, 1, rest), s.path)
                        /\ s.as = "p" => ~starts_blockquote(s)
    BY DEF MarkersHonoured
<1> DEFINE marks == source[s.id].marks
           left == s.marks
           n == Len(marks) - Len(left)
           gone == SubSeq(marks, 1, n)
<1>1. html \in Seq(Shown) /\ source \in Seq(Numbered)
    BY DEF BlocksInv, Sound, Typed
<1>2. PICK k \in 1..Len(html) : s = html[k]
    BY <1>1 DEF Range
<1>3. Honoured(source, s, s.path) /\ (s.as = "p" => ~starts_blockquote(s))
    BY <1>2 DEF HonourInv, ShownHonoured
<1>4. s \in Shown /\ source[s.id] \in Numbered
    BY <1>1, <1>2, <1>3, SeqFacts DEF Honoured
<1>5. marks \in Seq(Markers) /\ left \in Seq(Markers) /\ s.path \in Seq(Containers)
    BY <1>4 DEF Shown, Numbered
<1>6. MarksFit(marks, left, s.path)
    BY <1>3 DEF Honoured
<1>7. /\ Len(marks) \in Nat /\ Len(left) \in Nat /\ Len(left) <= Len(marks)
      /\ \A j \in 1..Len(left) : left[j] = marks[n + j]
    BY <1>5, <1>6, SeqFacts DEF MarksFit
<1> HIDE DEF marks, left
<1>8. n \in 0..Len(marks) /\ Len(marks) = n + Len(left)
    BY <1>7
<1>9. /\ gone \in Seq(Markers) /\ Len(gone) = n /\ DOMAIN gone = 1..n
      /\ \A j \in 1..n : gone[j] = marks[j]
    BY <1>5, <1>8
<1> HIDE DEF gone
<1>10. marks = gone \o left
  <2>1. /\ gone \o left \in Seq(Markers) /\ Len(gone \o left) = Len(gone) + Len(left)
        /\ \A j \in 1..Len(gone) : (gone \o left)[j] = gone[j]
        /\ \A j \in 1..Len(left) : (gone \o left)[Len(gone) + j] = left[j]
    BY <1>5, <1>9, Joining, SMTT(30)
  <2> DEFINE both == gone \o left
  <2>2. both \in Seq(Markers) /\ Len(both) = Len(marks)
    BY <1>8, <1>9, <2>1
  <2>3. /\ \A j \in 1..n : both[j] = marks[j]
        /\ \A j \in 1..Len(left) : both[n + j] = marks[n + j]
    BY <1>7, <1>9, <2>1
  <2> HIDE DEF both, n
  <2>4. \A j \in 1..Len(marks) : j \in 1..n \/ (j - n \in 1..Len(left) /\ j = n + (j - n))
    BY <1>7, <1>8
  <2>5. \A j \in 1..Len(marks) : both[j] = marks[j]
    BY <2>3, <2>4
  <2>6. both = marks
    BY <1>5, <2>2, <2>5
  <2>7. QED BY <2>6 DEF both
<1>11. Nest(gone, s.path)
  <2>1. PICK place \in [1..n -> 1..Len(s.path)] :
           /\ \A j \in 1..n : s.path[place[j]] = ContainerOf(marks[j])
           /\ \A j, h \in 1..n : j < h => place[j] < place[h]
    BY <1>6 DEF MarksFit
  <2>2. DOMAIN s.path = 1..Len(s.path)
    BY <1>5, SeqFacts
  <2>3. \A j \in 1..n : s.path[place[j]] = ContainerOf(gone[j])
    BY <1>9, <2>1
  <2> HIDE DEF n
  <2>4. QED BY <1>9, <2>1, <2>2, <2>3 DEF Nest
<1>12. QED BY <1>3, <1>10, <1>11 DEF gone, n, marks, left
=============================================================================
