-------------------------- MODULE ConversionsProofs --------------------------
(***************************************************************************)
(* What is proved of the converters inside the server.                     *)
(***************************************************************************)
EXTENDS Conversions, BlocksProofs, MermaidProofs

-----------------------------------------------------------------------------
(***************************************************************************)
(* The recursive descent of mathml.c: whatever stands in a formula, no     *)
(* token is lost or doubled between the buffers of the calls.              *)
(***************************************************************************)

(***************************************************************************)
(* What is written, and the leaves in it.                                  *)
(***************************************************************************)
Places(s) == {s[n].at : n \in {m \in DOMAIN s : s[m].el = "leaf"}}
Single(s) ==
    \A m, n \in DOMAIN s : s[m].el = "leaf" /\ s[n].el = "leaf" /\ s[m].at = s[n].at => m = n

\* The leaves of two texts, one behind the other.
LEMMA CatPlaces ==
    ASSUME NEW s \in Seq(Marks), NEW t \in Seq(Marks)
    PROVE  /\ s \o t \in Seq(Marks)
           /\ Places(s \o t) = Places(s) \cup Places(t)
           /\ Single(s) /\ Single(t) /\ Places(s) \cap Places(t) = {} => Single(s \o t)
<1> DEFINE u == s \o t
<1>1. /\ Len(s) \in Nat /\ DOMAIN s = 1..Len(s) /\ Len(t) \in Nat /\ DOMAIN t = 1..Len(t)
      /\ u \in Seq(Marks) /\ Len(u) = Len(s) + Len(t) /\ DOMAIN u = 1..(Len(s) + Len(t))
      /\ \A n \in 1..Len(s) : u[n] = s[n]
      /\ \A n \in 1..Len(t) : u[Len(s) + n] = t[n]
    OBVIOUS
<1> HIDE DEF u
<1>2. \A n \in DOMAIN u : n \in 1..Len(s) \/ (n - Len(s) \in 1..Len(t) /\ n = Len(s) + (n - Len(s)))
    BY <1>1
<1>3. \A n \in 1..Len(t) : Len(s) + n \in DOMAIN u
    BY <1>1
<1>4. \A n \in DOMAIN u : \/ n \in DOMAIN s /\ u[n] = s[n]
                          \/ n - Len(s) \in DOMAIN t /\ u[n] = t[n - Len(s)]
    BY <1>1, <1>2
<1>5. Places(u) \subseteq Places(s) \cup Places(t)
    BY <1>4 DEF Places
<1>6. Places(s) \subseteq Places(u)
    BY <1>1 DEF Places
<1>7. Places(t) \subseteq Places(u)
  <2>1. SUFFICES ASSUME NEW n \in DOMAIN t, t[n].el = "leaf" PROVE t[n].at \in Places(u)
    BY DEF Places
  <2>2. Len(s) + n \in DOMAIN u /\ u[Len(s) + n] = t[n]
    BY <1>1, <1>3
  <2>3. QED BY <2>1, <2>2 DEF Places
<1>8. ASSUME Single(s), Single(t), Places(s) \cap Places(t) = {} PROVE Single(u)
  <2>1. SUFFICES ASSUME NEW m \in DOMAIN u, NEW n \in DOMAIN u,
                        u[m].el = "leaf", u[n].el = "leaf", u[m].at = u[n].at
                 PROVE  m = n
    BY DEF Single
  <2>2. CASE m \in DOMAIN s /\ u[m] = s[m] /\ n \in DOMAIN s /\ u[n] = s[n]
    BY <1>8, <2>1, <2>2 DEF Single
  <2>3. CASE m - Len(s) \in DOMAIN t /\ u[m] = t[m - Len(s)] /\ n - Len(s) \in DOMAIN t /\ u[n] = t[n - Len(s)]
    <3>1. m - Len(s) = n - Len(s)
        BY <1>8, <2>1, <2>3 DEF Single
    <3>2. QED BY <1>1, <3>1
  <2>4. \A k, l : k \in DOMAIN s /\ l \in DOMAIN t /\ s[k].el = "leaf" /\ t[l].el = "leaf"
                     => s[k].at # t[l].at
    BY <1>8 DEF Places
  <2>5. QED BY <1>4, <2>1, <2>2, <2>3, <2>4
<1>9. QED BY <1>1, <1>5, <1>6, <1>7, <1>8 DEF u

LEMMA NoPlaces == <<>> \in Seq(Marks) /\ Places(<<>>) = {} /\ Single(<<>>)
BY DEF Places, Single

\* One leaf, or one tag.
LEMMA MarkPlaces ==
    ASSUME NEW m \in Marks
    PROVE  /\ <<m>> \in Seq(Marks) /\ Single(<<m>>)
           /\ Places(<<m>>) = IF m.el = "leaf" THEN {m.at} ELSE {}
<1>1. /\ <<m>> \in Seq(Marks) /\ DOMAIN <<m>> = {1} /\ <<m>>[1] = m
    OBVIOUS
<1> DEFINE s == <<m>>
<1>2. DOMAIN s = {1} /\ s[1] = m
    BY <1>1
<1> HIDE DEF s
<1>3. Single(s) /\ Places(s) = IF m.el = "leaf" THEN {m.at} ELSE {}
    BY <1>2 DEF Single, Places
<1>4. QED BY <1>1, <1>3 DEF s

\* Tags around a text add no leaves.
LEMMA WrapPlaces ==
    ASSUME NEW el \in Elements \ {"leaf"}, NEW s \in Seq(Marks)
    PROVE  /\ Wrap(el, s) \in Seq(Marks)
           /\ Places(Wrap(el, s)) = Places(s)
           /\ Single(s) => Single(Wrap(el, s))
<1> DEFINE a == <<Tag(el)>>
           z == <<EndTag(el)>>
<1>1. /\ Tag(el) \in Marks /\ Tag(el).el # "leaf"
      /\ EndTag(el) \in Marks /\ EndTag(el).el # "leaf"
    BY DEF Tag, EndTag, Marks
<1>2. /\ a \in Seq(Marks) /\ Places(a) = {} /\ Single(a)
      /\ z \in Seq(Marks) /\ Places(z) = {} /\ Single(z)
    BY <1>1, MarkPlaces
<1>3. Wrap(el, s) = (a \o s) \o z
    BY DEF Wrap
<1> HIDE DEF a, z
<1>4. /\ a \o s \in Seq(Marks) /\ Places(a \o s) = Places(s)
      /\ Single(s) => Single(a \o s)
  <2>1. /\ a \o s \in Seq(Marks)
        /\ Places(a \o s) = Places(a) \cup Places(s)
        /\ Single(a) /\ Single(s) /\ Places(a) \cap Places(s) = {} => Single(a \o s)
    BY <1>2, CatPlaces
  <2>2. QED BY <1>2, <2>1
<1> DEFINE b == a \o s
<1> HIDE DEF b
<1>5. b \in Seq(Marks) /\ Places(b) = Places(s) /\ (Single(s) => Single(b))
    BY <1>4 DEF b
<1>6. /\ b \o z \in Seq(Marks) /\ Places(b \o z) = Places(s)
      /\ Single(s) => Single(b \o z)
  <2>1. /\ b \o z \in Seq(Marks)
        /\ Places(b \o z) = Places(b) \cup Places(z)
        /\ Single(b) /\ Single(z) /\ Places(b) \cap Places(z) = {} => Single(b \o z)
    BY <1>2, <1>5, CatPlaces
  <2>2. QED BY <1>2, <1>5, <2>1
<1>7. QED BY <1>3, <1>6 DEF b

-----------------------------------------------------------------------------
(***************************************************************************)
(* The calls under way.                                                    *)
(***************************************************************************)
\* The buffers a procedure writes out when it returns.
Uses(proc) ==
    CASE proc \in {"math", "group", "sqrt"} -> {"base"}
      [] proc = "frac" -> {"base", "sub"}
      [] proc = "root" -> {"base", "sup"}
      [] proc = "expr" -> Buffers

\* A call fills no other, those of a loop never wait for a first one, and where none
\* was filled yet nothing is written.
Fits(call) ==
    /\ call.fills \in Uses(call.proc) \cup {"none"}
    /\ call.proc \in {"math", "group", "root"} => call.fills # "none"
    /\ \A b \in Buffers \ Uses(call.proc) : call.text[b] = <<>>
    /\ call.fills = "none" => \A b \in Buffers : call.text[b] = <<>>

\* The call of a formula is the first and no other; a call that waits for another
\* has a buffer for what that one returns.
Shape(s) ==
    /\ s \in Seq(Calls) /\ s # <<>>
    /\ \A c \in 1..Len(s) : s[c].proc = "math" <=> c = 1
    /\ \A c \in 1..Len(s) : c # Len(s) => s[c].fills # "none"
    /\ \A c \in 1..Len(s) : Fits(s[c])

Held(s, c, b) == Places(s[c].text[b])

\* In front of q every token that becomes an element is in one buffer, at one place,
\* or in the text that is about to be written.
InPlace(s, q, text) ==
    /\ q \in 1..(Len(latex) + 1)
    /\ text \in Seq(Marks) /\ Single(text) /\ Places(text) \subseteq 1..(q - 1)
    /\ \A c \in 1..Len(s) : \A b \in Buffers :
          /\ Single(s[c].text[b])
          /\ Held(s, c, b) \subseteq 1..(q - 1)
          /\ Held(s, c, b) \cap Places(text) = {}
    /\ \A c, d \in 1..Len(s) : \A a, b \in Buffers :
          c # d \/ a # b => Held(s, c, a) \cap Held(s, d, b) = {}
    /\ \A k \in 1..(q - 1) :
          latex[k] = "x" =>
             k \in Places(text) \/ \E c \in 1..Len(s) : \E b \in Buffers : k \in Held(s, c, b)

LEMMA StackEnds ==
    ASSUME NEW S, NEW s \in Seq(S), s # <<>>
    PROVE  /\ Len(s) \in Nat \ {0} /\ DOMAIN s = 1..Len(s)
           /\ Last(s) = s[Len(s)] /\ Last(s) \in S
           /\ Front(s) \in Seq(S) /\ Len(Front(s)) = Len(s) - 1
           /\ \A c \in 1..(Len(s) - 1) : Front(s)[c] = s[c]
<1>1. Len(s) \in Nat /\ DOMAIN s = 1..Len(s)
    OBVIOUS
<1>2. Len(s) # 0
    OBVIOUS
<1>3. Last(s) = s[Len(s)] /\ Last(s) \in S
    BY <1>1, <1>2 DEF Last
<1>4. Front(s) \in Seq(S) /\ Len(Front(s)) = Len(s) - 1
    BY <1>1, <1>2 DEF Front
<1>5. \A c \in 1..(Len(s) - 1) : Front(s)[c] = s[c]
    BY <1>1, <1>2 DEF Front
<1>6. QED BY <1>1, <1>2, <1>3, <1>4, <1>5

\* What mml_append changes.
LEMMA Appended ==
    ASSUME NEW s \in Seq(Calls), s # <<>>, Last(s).fills \in Buffers, NEW text \in Seq(Marks)
    PROVE  LET u == mml_append(s, text)
               top == u[Len(s)]
           IN  /\ u \in Seq(Calls) /\ Len(u) = Len(s) /\ u # <<>>
               /\ \A c \in 1..(Len(s) - 1) : u[c] = s[c]
               /\ top.proc = Last(s).proc /\ top.fills = Last(s).fills
               /\ \A b \in Buffers :
                     top.text[b] = IF b = Last(s).fills THEN Last(s).text[b] \o text
                                   ELSE Last(s).text[b]
<1> DEFINE old == Last(s)
           new == [old EXCEPT !.text[old.fills] = @ \o text]
           front == Front(s)
           u == Append(front, new)
<1>1. /\ Len(s) \in Nat \ {0} /\ old \in Calls
      /\ front \in Seq(Calls) /\ Len(front) = Len(s) - 1
      /\ \A c \in 1..(Len(s) - 1) : front[c] = s[c]
    BY StackEnds
<1>2. mml_append(s, text) = u
    BY DEF mml_append
<1> HIDE DEF old, front
<1>3. /\ old.text[old.fills] \o text \in Seq(Marks)
      /\ old.fills \in Buffers
  <2>1. old.fills \in Buffers
    BY DEF old
  <2>2. old.text[old.fills] \in Seq(Marks)
    BY <1>1, <2>1 DEF Calls
  <2>3. QED BY <2>1, <2>2
<1>4. /\ new \in Calls /\ new.proc = old.proc /\ new.fills = old.fills
      /\ \A b \in Buffers : new.text[b] = IF b = old.fills THEN old.text[b] \o text ELSE old.text[b]
    BY <1>1, <1>3 DEF Calls
<1> HIDE DEF new
<1>5. /\ u \in Seq(Calls) /\ Len(u) = Len(s) /\ u[Len(s)] = new
      /\ \A c \in 1..(Len(s) - 1) : u[c] = s[c]
    BY <1>1, <1>4
<1>6. u # <<>>
    BY <1>1, <1>5
<1> HIDE DEF u
<1>7. QED BY <1>2, <1>4, <1>5, <1>6 DEF old

\* A text is written to the buffer of the last call.
LEMMA WriteKeeps ==
    ASSUME NEW s, NEW q, NEW text, Shape(s), InPlace(s, q, text), Last(s).fills # "none"
    PROVE  Shape(mml_append(s, text)) /\ InPlace(mml_append(s, text), q, <<>>)
<1> DEFINE u == mml_append(s, text)
           n == Len(s)
           f == Last(s).fills
<1>1. /\ s \in Seq(Calls) /\ s # <<>> /\ text \in Seq(Marks)
      /\ n \in Nat \ {0} /\ n \in 1..n /\ Last(s) = s[n] /\ Last(s) \in Calls
    BY StackEnds DEF Shape, InPlace
<1>2. /\ f \in Buffers /\ f \in Uses(Last(s).proc)
      /\ \A b \in Buffers : Last(s).text[b] \in Seq(Marks)
  <2> DEFINE last == Last(s)
  <2>1. Fits(last) /\ last.fills # "none"
    BY <1>1 DEF Shape
  <2>2. last \in Calls
    BY <1>1
  <2> HIDE DEF last
  <2>3. last.fills \in Uses(last.proc)
    BY <2>1 DEF Fits
  <2>4. last.fills \in Buffers /\ \A b \in Buffers : last.text[b] \in Seq(Marks)
    BY <2>1, <2>2 DEF Calls
  <2>5. QED BY <2>3, <2>4 DEF last
<1>3. /\ u \in Seq(Calls) /\ Len(u) = n /\ u # <<>>
      /\ \A c \in 1..(n - 1) : u[c] = s[c]
      /\ u[n].proc = s[n].proc /\ u[n].fills = s[n].fills
      /\ \A b \in Buffers :
            u[n].text[b] = IF b = f THEN s[n].text[b] \o text ELSE s[n].text[b]
  <2> DEFINE last == Last(s)
  <2>1. /\ u \in Seq(Calls) /\ Len(u) = n /\ u # <<>>
        /\ \A c \in 1..(n - 1) : u[c] = s[c]
        /\ u[n].proc = last.proc /\ u[n].fills = last.fills
        /\ \A b \in Buffers :
              u[n].text[b] = IF b = f THEN last.text[b] \o text ELSE last.text[b]
    BY <1>1, <1>2, Appended, Zenon
  <2>2. last = s[n]
    BY <1>1
  <2> HIDE DEF u, f, n, last
  <2>3. QED BY <2>1, <2>2
<1> HIDE DEF u, f
<1>4. \A c \in 1..n : c = n \/ c \in 1..(n - 1)
    BY <1>1
<1>5. Fits(u[n])
  <2>1. Fits(s[n])
    BY <1>1 DEF Shape
  <2>2. QED BY <1>1, <1>2, <1>3, <2>1 DEF Fits
<1>6. Shape(u)
  <2>1. \A c \in 1..n : u[c].proc = s[c].proc /\ u[c].fills = s[c].fills /\ Fits(u[c])
    BY <1>1, <1>3, <1>4, <1>5 DEF Shape
  <2>2. QED BY <1>1, <1>3, <2>1 DEF Shape
<1>7. /\ Single(s[n].text[f]) /\ Single(text) /\ Places(s[n].text[f]) \cap Places(text) = {}
      /\ s[n].text[f] \in Seq(Marks)
    BY <1>1, <1>2 DEF InPlace, Held
<1>8. /\ Places(s[n].text[f] \o text) = Places(s[n].text[f]) \cup Places(text)
      /\ Single(s[n].text[f] \o text)
    BY <1>1, <1>7, CatPlaces
<1>9. \A c \in 1..n : \A b \in Buffers :
         /\ Held(u, c, b) = Held(s, c, b) \cup IF c = n /\ b = f THEN Places(text) ELSE {}
         /\ Single(u[c].text[b])
  <2>1. SUFFICES ASSUME NEW c \in 1..n, NEW b \in Buffers
                 PROVE  /\ Held(u, c, b) = Held(s, c, b) \cup IF c = n /\ b = f THEN Places(text) ELSE {}
                        /\ Single(u[c].text[b])
    OBVIOUS
  <2>2. Single(s[c].text[b])
    BY DEF InPlace
  <2>3. CASE c = n /\ b = f
    BY <1>3, <1>8, <2>3 DEF Held
  <2>4. CASE c # n \/ b # f
    <3>1. u[c].text[b] = s[c].text[b]
        BY <1>3, <1>4, <2>4
    <3>2. QED BY <2>2, <2>4, <3>1 DEF Held
  <2>5. QED BY <2>3, <2>4
<1>10. InPlace(u, q, <<>>)
  <2>1. q \in 1..(Len(latex) + 1) /\ Places(text) \subseteq 1..(q - 1)
    BY DEF InPlace
  <2>2. \A c \in 1..n : \A b \in Buffers :
           /\ Single(u[c].text[b])
           /\ Held(u, c, b) \subseteq 1..(q - 1)
           /\ Held(u, c, b) \cap Places(<<>>) = {}
    BY <1>9, <2>1, NoPlaces DEF InPlace
  <2>3. \A c, d \in 1..n : \A a, b \in Buffers :
           c # d \/ a # b => Held(u, c, a) \cap Held(u, d, b) = {}
    <3>1. SUFFICES ASSUME NEW c \in 1..n, NEW d \in 1..n, NEW a \in Buffers, NEW b \in Buffers,
                          c # d \/ a # b
                   PROVE  Held(u, c, a) \cap Held(u, d, b) = {}
        OBVIOUS
    <3>2. /\ Held(s, c, a) \cap Held(s, d, b) = {}
          /\ Held(s, c, a) \cap Places(text) = {}
          /\ Held(s, d, b) \cap Places(text) = {}
        BY <3>1 DEF InPlace
    <3>3. /\ Held(u, c, a) = Held(s, c, a) \cup IF c = n /\ a = f THEN Places(text) ELSE {}
          /\ Held(u, d, b) = Held(s, d, b) \cup IF d = n /\ b = f THEN Places(text) ELSE {}
        BY <1>9
    <3>4. QED BY <3>1, <3>2, <3>3
  <2>4. \A k \in 1..(q - 1) :
           latex[k] = "x" => \E c \in 1..n : \E b \in Buffers : k \in Held(u, c, b)
    <3>1. SUFFICES ASSUME NEW k \in 1..(q - 1), latex[k] = "x"
                   PROVE  \E c \in 1..n : \E b \in Buffers : k \in Held(u, c, b)
        OBVIOUS
    <3>2. CASE k \in Places(text)
        BY <1>1, <1>2, <1>9, <3>2
    <3>3. CASE \E c \in 1..n : \E b \in Buffers : k \in Held(s, c, b)
        BY <1>9, <3>3
    <3>4. QED BY <3>1, <3>2, <3>3 DEF InPlace
  <2>5. QED BY <1>3, <2>1, <2>2, <2>3, <2>4, NoPlaces DEF InPlace
<1>11. QED BY <1>6, <1>10 DEF u

\* A procedure is called.
LEMMA PushKeeps ==
    ASSUME NEW s, NEW q, NEW proc \in Procedures \ {"math"}, NEW fills \in Buffers \cup {"none"},
           Shape(s), InPlace(s, q, <<>>), Last(s).fills # "none", Fits(Call(proc, fills))
    PROVE  Shape(Append(s, Call(proc, fills))) /\ InPlace(Append(s, Call(proc, fills)), q, <<>>)
<1> DEFINE new == Call(proc, fills)
           u == Append(s, new)
           n == Len(s)
<1>1. s \in Seq(Calls) /\ s # <<>> /\ n \in Nat \ {0} /\ Last(s) = s[n]
    BY StackEnds DEF Shape
<1>2. /\ new \in Calls /\ new.proc = proc
      /\ \A b \in Buffers : new.text[b] = <<>>
    BY NoPlaces DEF Call, Calls
<1> HIDE DEF new
<1>3. /\ u \in Seq(Calls) /\ u # <<>> /\ Len(u) = n + 1 /\ u[n + 1] = new
      /\ \A c \in 1..n : u[c] = s[c]
    BY <1>1, <1>2
<1> HIDE DEF u
<1>4. \A c \in 1..(n + 1) : c \in 1..n \/ c = n + 1
    BY <1>1
<1>5. Shape(u)
  <2>1. \A c \in 1..(n + 1) : u[c].proc = "math" <=> c = 1
    BY <1>1, <1>2, <1>3, <1>4 DEF Shape
  <2>2. \A c \in 1..n : u[c].fills # "none"
    BY <1>1, <1>3 DEF Shape
  <2>3. \A c \in 1..(n + 1) : Fits(u[c])
    BY <1>3, <1>4 DEF Shape, new
  <2>4. QED BY <1>3, <1>4, <2>1, <2>2, <2>3 DEF Shape
<1>6. /\ \A c \in 1..n : \A b \in Buffers : Held(u, c, b) = Held(s, c, b)
      /\ \A b \in Buffers : Held(u, n + 1, b) = {} /\ Single(u[n + 1].text[b])
    BY <1>2, <1>3, NoPlaces DEF Held
<1>7. InPlace(u, q, <<>>)
  <2>1. \A c \in 1..(n + 1) : \A b \in Buffers :
           /\ Single(u[c].text[b])
           /\ Held(u, c, b) \subseteq 1..(q - 1)
           /\ Held(u, c, b) \cap Places(<<>>) = {}
    <3>1. \A c \in 1..n : \A b \in Buffers :
             /\ Single(u[c].text[b])
             /\ Held(u, c, b) \subseteq 1..(q - 1)
             /\ Held(u, c, b) \cap Places(<<>>) = {}
        BY <1>3, <1>6 DEF InPlace
    <3>2. QED BY <1>4, <1>6, <3>1
  <2>2. \A c, d \in 1..(n + 1) : \A a, b \in Buffers :
           c # d \/ a # b => Held(u, c, a) \cap Held(u, d, b) = {}
    <3>1. \A c, d \in 1..n : \A a, b \in Buffers :
             c # d \/ a # b => Held(u, c, a) \cap Held(u, d, b) = {}
        BY <1>6 DEF InPlace
    <3>2. QED BY <1>4, <1>6, <3>1
  <2>3. \A k \in 1..(q - 1) :
           latex[k] = "x" => \E c \in 1..(n + 1) : \E b \in Buffers : k \in Held(u, c, b)
    <3>1. SUFFICES ASSUME NEW k \in 1..(q - 1), latex[k] = "x"
                   PROVE  \E c \in 1..(n + 1) : \E b \in Buffers : k \in Held(u, c, b)
        OBVIOUS
    <3>2. PICK c \in 1..n : \E b \in Buffers : k \in Held(s, c, b)
        BY <3>1, NoPlaces DEF InPlace
    <3>3. c \in 1..(n + 1)
        BY <1>1
    <3>4. QED BY <1>6, <3>2, <3>3
  <2>4. QED BY <1>3, <2>1, <2>2, <2>3 DEF InPlace
<1>8. QED BY <1>5, <1>7 DEF u, new

\* The last call turns to another of its buffers.
LEMMA FillKeeps ==
    ASSUME Shape(calls), NEW q, InPlace(calls, q, <<>>), NEW f \in Buffers, f \in Uses(Running.proc)
    PROVE  /\ Shape(Filling(f)) /\ InPlace(Filling(f), q, <<>>)
           /\ Last(Filling(f)).fills # "none"
<1> DEFINE u == Filling(f)
           n == Len(calls)
<1>1. calls \in Seq(Calls) /\ n \in Nat \ {0} /\ Running = calls[n] /\ calls[n] \in Calls
    BY StackEnds DEF Shape, Running
<1>2. u = [calls EXCEPT ![n] = [calls[n] EXCEPT !.fills = f]]
    BY DEF Filling
<1> DEFINE top == [calls[n] EXCEPT !.fills = f]
<1>3. /\ top \in Calls /\ top.proc = calls[n].proc /\ top.fills = f /\ top.text = calls[n].text
    BY <1>1 DEF Calls
<1> HIDE DEF top
<1>4. /\ u \in Seq(Calls) /\ Len(u) = n /\ DOMAIN u = 1..n /\ u[n] = top
      /\ \A c \in 1..n : c # n => u[c] = calls[c]
    BY <1>1, <1>2, <1>3, SMTT(30) DEF top
<1>5. u # <<>>
    BY <1>1, <1>4
<1> HIDE DEF u
<1>6. Last(u) = top
    BY <1>1, <1>4 DEF Last
<1>7. "none" \notin Buffers
    BY DEF Buffers
<1>8. Fits(top)
  <2>1. Fits(calls[n])
    BY <1>1 DEF Shape
  <2>2. QED BY <1>1, <1>3, <1>7, <2>1 DEF Fits
<1>9. Shape(u)
  <2>1. \A c \in 1..n : u[c].proc = calls[c].proc /\ Fits(u[c])
    BY <1>1, <1>3, <1>4, <1>8 DEF Shape
  <2>2. \A c \in 1..n : c # n => u[c].fills # "none"
    BY <1>1, <1>4 DEF Shape
  <2>3. QED BY <1>1, <1>4, <1>5, <2>1, <2>2 DEF Shape
<1>10. \A c \in 1..n : u[c].text = calls[c].text
    BY <1>1, <1>3, <1>4
<1>11. InPlace(u, q, <<>>)
    BY <1>4, <1>10, ZenonT(60) DEF InPlace, Held
<1>12. QED BY <1>3, <1>6, <1>7, <1>9, <1>11 DEF u

\* A call returns: what it has written is written out by the call that waits for it.
LEMMA PopKeeps ==
    ASSUME Shape(calls), NEW q, InPlace(calls, q, <<>>), Running.proc # "math",
           NEW text \in Seq(Marks), Single(text),
           Places(text) = UNION {Places(Running.text[b]) : b \in Buffers}
    PROVE  /\ Shape(Front(calls)) /\ InPlace(Front(calls), q, text)
           /\ Last(Front(calls)).fills # "none"
<1> DEFINE u == Front(calls)
           n == Len(calls)
<1>1. calls \in Seq(Calls) /\ n \in Nat \ {0} /\ Running = calls[n]
    BY StackEnds DEF Shape, Running
<1>2. u \in Seq(Calls) /\ Len(u) = n - 1 /\ \A c \in 1..(n - 1) : u[c] = calls[c]
    BY <1>1, StackEnds DEF Shape
<1>3. n # 1
    BY <1>1 DEF Shape
<1> HIDE DEF u
<1>4. u # <<>> /\ n - 1 \in Nat \ {0} /\ n - 1 \in 1..(n - 1) /\ 1..(n - 1) \subseteq 1..n
    BY <1>1, <1>2, <1>3
<1>5. Last(u) = u[n - 1]
    BY <1>2, <1>4, StackEnds
<1>6. Shape(u)
    BY <1>1, <1>2, <1>4 DEF Shape
<1>7. Last(u).fills # "none"
    BY <1>1, <1>2, <1>4, <1>5 DEF Shape
<1>8. \A c \in 1..(n - 1) : u[c].text = calls[c].text
    BY <1>2
<1>9. \A k : k \in Places(text) <=> \E b \in Buffers : k \in Held(calls, n, b)
    BY <1>1 DEF Held
<1>10. InPlace(u, q, text)
  <2>1. q \in 1..(Len(latex) + 1) /\ Places(text) \subseteq 1..(q - 1)
    <3>1. \A b \in Buffers : Held(calls, n, b) \subseteq 1..(q - 1)
        BY <1>1 DEF InPlace
    <3>2. \A k : k \in Places(text) => k \in 1..(q - 1)
        BY <1>9, <3>1
    <3>3. QED BY <3>2 DEF InPlace
  <2>2. \A c \in 1..(n - 1) : \A b \in Buffers :
           /\ Single(u[c].text[b])
           /\ Held(u, c, b) \subseteq 1..(q - 1)
    BY <1>4, <1>8 DEF InPlace, Held
  <2>3. \A c \in 1..(n - 1) : \A b \in Buffers : Held(u, c, b) \cap Places(text) = {}
    <3>1. SUFFICES ASSUME NEW c \in 1..(n - 1), NEW b \in Buffers, NEW a \in Buffers
                   PROVE  Held(u, c, b) \cap Held(calls, n, a) = {}
      <4>1. SUFFICES ASSUME NEW c \in 1..(n - 1), NEW b \in Buffers, NEW k \in Held(u, c, b),
                            k \in Places(text)
                     PROVE  FALSE
        OBVIOUS
      <4>2. PICK a \in Buffers : k \in Held(calls, n, a)
        BY <1>9, <4>1
      <4>3. QED BY <4>1, <4>2
    <3>2. c \in 1..n /\ n \in 1..n /\ c # n
        BY <1>1
    <3>3. Held(calls, c, b) \cap Held(calls, n, a) = {}
        BY <3>2 DEF InPlace
    <3>4. QED BY <1>8, <3>3 DEF Held
  <2>4. \A c, d \in 1..(n - 1) : \A a, b \in Buffers :
           c # d \/ a # b => Held(u, c, a) \cap Held(u, d, b) = {}
    BY <1>4, <1>8 DEF InPlace, Held
  <2>5. ASSUME NEW k \in 1..(q - 1), latex[k] = "x"
        PROVE  k \in Places(text) \/ \E c \in 1..(n - 1) : \E b \in Buffers : k \in Held(u, c, b)
    <3>1. PICK c \in 1..n : \E b \in Buffers : k \in Held(calls, c, b)
        BY <2>5, NoPlaces DEF InPlace
    <3>2. CASE c = n
        BY <1>9, <3>1, <3>2
    <3>3. CASE c # n
      <4>1. c \in 1..(n - 1)
        BY <1>1, <3>3
      <4>2. QED BY <1>8, <3>1, <4>1 DEF Held
    <3>4. QED BY <3>2, <3>3
  <2>6. QED BY <1>2, <2>1, <2>2, <2>3, <2>4, <2>5 DEF InPlace
<1>11. QED BY <1>6, <1>7, <1>10 DEF u

LEMMA HandUpKeeps ==
    ASSUME Shape(calls), NEW q, InPlace(calls, q, <<>>), Running.proc # "math",
           NEW text \in Seq(Marks), Single(text),
           Places(text) = UNION {Places(Running.text[b]) : b \in Buffers},
           HandUp(text)
    PROVE  Shape(calls') /\ InPlace(calls', q, <<>>)
<1> DEFINE u == Front(calls)
<1>1. Shape(u) /\ InPlace(u, q, text) /\ Last(u).fills # "none"
    BY PopKeeps
<1>2. calls' = mml_append(u, text)
    BY DEF HandUp
<1> HIDE DEF u
<1>3. QED BY <1>1, <1>2, WriteKeeps

-----------------------------------------------------------------------------
(***************************************************************************)
(* The cursor.                                                             *)
(***************************************************************************)
\* A token that becomes no element is passed.
LEMMA SkipKeeps ==
    ASSUME NEW s, NEW q, InPlace(s, q, <<>>), q <= Len(latex), latex[q] # "x", Len(latex) \in Nat
    PROVE  InPlace(s, q + 1, <<>>)
<1>1. q \in 1..(Len(latex) + 1) /\ q + 1 \in 1..(Len(latex) + 1) /\ 1..(q - 1) \subseteq 1..((q + 1) - 1)
    BY DEF InPlace
<1>2. \A k \in 1..((q + 1) - 1) : k \in 1..(q - 1) \/ k = q
    BY <1>1
<1>3. \A c \in 1..Len(s) : \A b \in Buffers :
         /\ Single(s[c].text[b])
         /\ Held(s, c, b) \subseteq 1..((q + 1) - 1)
         /\ Held(s, c, b) \cap Places(<<>>) = {}
    BY <1>1, NoPlaces DEF InPlace
<1>4. \A k \in 1..((q + 1) - 1) :
         latex[k] = "x" => \E c \in 1..Len(s) : \E b \in Buffers : k \in Held(s, c, b)
    BY <1>2, NoPlaces DEF InPlace
<1>5. QED BY <1>1, <1>3, <1>4, NoPlaces DEF InPlace

\* A token becomes a leaf, which is about to be written.
LEMMA LeafKeeps ==
    ASSUME NEW s, NEW q, InPlace(s, q, <<>>), q <= Len(latex), Len(latex) \in Nat
    PROVE  InPlace(s, q + 1, <<Leaf(q)>>)
<1> DEFINE t == <<Leaf(q)>>
<1>1. q \in 1..(Len(latex) + 1) /\ q + 1 \in 1..(Len(latex) + 1) /\ 1..(q - 1) \subseteq 1..((q + 1) - 1)
    BY DEF InPlace
<1>2. t \in Seq(Marks) /\ Single(t) /\ Places(t) = {q}
  <2>1. Leaf(q) \in Marks /\ Leaf(q).el = "leaf" /\ Leaf(q).at = q
    BY <1>1 DEF Leaf, Marks, Elements
  <2>2. QED BY <2>1, MarkPlaces
<1> HIDE DEF t
<1>3. \A k \in 1..((q + 1) - 1) : k \in 1..(q - 1) \/ k = q
    BY <1>1
<1>4. q \notin 1..(q - 1) /\ q \in 1..((q + 1) - 1)
    BY <1>1
<1>5. \A c \in 1..Len(s) : \A b \in Buffers :
         /\ Single(s[c].text[b])
         /\ Held(s, c, b) \subseteq 1..((q + 1) - 1)
         /\ Held(s, c, b) \cap Places(t) = {}
    BY <1>1, <1>2, <1>4 DEF InPlace
<1>6. \A k \in 1..((q + 1) - 1) :
         latex[k] = "x" =>
            k \in Places(t) \/ \E c \in 1..Len(s) : \E b \in Buffers : k \in Held(s, c, b)
    BY <1>2, <1>3, NoPlaces DEF InPlace
<1>7. QED BY <1>1, <1>2, <1>4, <1>5, <1>6 DEF InPlace, t

\* The leaves of a text stand in a row.
LEMMA LeavesInRow ==
    ASSUME NEW from \in Nat, NEW to \in Nat, from <= to
    PROVE  /\ LeavesOf(from, to) \in Seq(Marks)
           /\ Single(LeavesOf(from, to))
           /\ Places(LeavesOf(from, to)) = from..(to - 1)
<1> DEFINE n == to - from
           t == [k \in 1..n |-> Leaf(from + k - 1)]
<1>1. LeavesOf(from, to) = t
    BY DEF LeavesOf
<1>2. n \in Nat /\ to = from + n
    OBVIOUS
<1> HIDE DEF n
<1>3. \A k \in 1..n :
         Leaf(from + k - 1) \in Marks /\ Leaf(from + k - 1).el = "leaf"
         /\ Leaf(from + k - 1).at = from + k - 1
    BY <1>2 DEF Leaf, Marks, Elements
<1>4. t \in Seq(Marks)
  <2> DEFINE e(k) == Leaf(from + k - 1)
  <2>1. \A k \in 1..n : e(k) \in Marks
    BY <1>3
  <2>2. t = [k \in 1..n |-> e(k)]
    OBVIOUS
  <2> HIDE DEF e, t
  <2>3. QED BY <1>2, <2>1, <2>2
<1>5. DOMAIN t = 1..n /\ \A k \in 1..n : t[k].el = "leaf" /\ t[k].at = from + k - 1
    BY <1>3
<1>5a. \A j, k \in 1..n : from + j - 1 = from + k - 1 => j = k
    BY <1>2
<1> HIDE DEF t
<1>6. Single(t)
    BY <1>5, <1>5a, ZenonT(60) DEF Single
<1>7. ASSUME NEW k \in from..(to - 1) PROVE k \in Places(t)
  <2>1. (k - from) + 1 \in 1..n /\ from + ((k - from) + 1) - 1 = k
    BY <1>2
  <2>2. t[(k - from) + 1].at = k /\ t[(k - from) + 1].el = "leaf"
    BY <1>5, <2>1
  <2>3. QED BY <1>5, <2>1, <2>2 DEF Places
<1>8. ASSUME NEW k \in Places(t) PROVE k \in from..(to - 1)
  <2>1. PICK m \in 1..n : k = from + m - 1
    BY <1>5 DEF Places
  <2>2. QED BY <1>2, <2>1
<1>9. QED BY <1>1, <1>4, <1>6, <1>7, <1>8

LEMMA Tokenized ==
    ASSUME latex \in Seq(Tokens)
    PROVE  Len(latex) \in Nat /\ DOMAIN latex = 1..Len(latex)
OBVIOUS

\* The brace that ends a \text, or the end of the formula.
LEMMA TextEnds ==
    ASSUME NEW n \in Nat, Len(latex) = n, DOMAIN latex = 1..n, NEW from \in Nat, from <= n + 1
    PROVE  /\ EndOfText(from) \in Nat /\ from <= EndOfText(from) /\ EndOfText(from) <= n + 1
           /\ EndOfText(from) \in DOMAIN latex => latex[EndOfText(from)] = "close"
<1> DEFINE S == {k \in from..n : latex[k] = "close"} \cup {n + 1}
<1>1. EndOfText(from) = Min(S)
    BY DEF EndOfText
<1>2. S \in SUBSET Nat /\ S # {}
    OBVIOUS
<1>3. \A k \in S : k \in Nat /\ from <= k /\ k <= n + 1 /\ (k <= n => latex[k] = "close")
    OBVIOUS
<1> HIDE DEF S
<1>4. Min(S) \in S
    BY <1>2, MinIsLeast
<1>5. EndOfText(from) \in S
    BY <1>1, <1>4
<1>6. QED BY <1>3, <1>5

\* What stands in the braces of a \text becomes leaves.
LEMMA TextKeeps ==
    ASSUME NEW n \in Nat, Len(latex) = n, DOMAIN latex = 1..n, NEW s, NEW q, InPlace(s, q, <<>>),
           q \in 1..n, latex[q] = "text", q + 1 \in 1..n, latex[q + 1] = "open",
           NEW stop, stop = EndOfText(q + 2),
           NEW r, r = IF stop \in DOMAIN latex THEN stop + 1 ELSE stop
    PROVE  InPlace(s, r, Wrap("mtext", LeavesOf(q + 2, stop)))
<1> DEFINE t == Wrap("mtext", LeavesOf(q + 2, stop))
<1>1. q + 2 \in Nat /\ q + 2 <= n + 1 /\ q \in Nat
    OBVIOUS
<1>2. stop \in Nat /\ q + 2 <= stop /\ stop <= n + 1 /\ (stop \in 1..n => latex[stop] = "close")
    BY <1>1, TextEnds
<1>3. /\ r \in Nat /\ r \in 1..(n + 1) /\ stop <= r /\ r <= stop + 1
      /\ r # stop => latex[stop] = "close"
  <2>1. CASE stop \in 1..n
    BY <1>1, <1>2, <2>1
  <2>2. CASE stop \notin 1..n
    BY <1>1, <1>2, <2>2
  <2>3. QED BY <2>1, <2>2
<1>4. t \in Seq(Marks) /\ Single(t) /\ Places(t) = (q + 2)..(stop - 1)
  <2> DEFINE inside == LeavesOf(q + 2, stop)
  <2>1. inside \in Seq(Marks) /\ Single(inside) /\ Places(inside) = (q + 2)..(stop - 1)
    BY <1>1, <1>2, LeavesInRow
  <2> HIDE DEF inside
  <2>2. "mtext" \in Elements \ {"leaf"}
    BY DEF Elements
  <2>3. /\ Wrap("mtext", inside) \in Seq(Marks)
        /\ Places(Wrap("mtext", inside)) = Places(inside)
        /\ Single(inside) => Single(Wrap("mtext", inside))
    BY <2>1, <2>2, WrapPlaces
  <2>4. QED BY <2>1, <2>3 DEF inside
<1> HIDE DEF t
<1>5. 1..(q - 1) \subseteq 1..(r - 1) /\ Places(t) \subseteq 1..(r - 1)
      /\ \A k \in Places(t) : k \notin 1..(q - 1)
    BY <1>1, <1>2, <1>3, <1>4, SMTT(30)
<1>6. \A c \in 1..Len(s) : \A b \in Buffers :
         /\ Single(s[c].text[b])
         /\ Held(s, c, b) \subseteq 1..(r - 1)
         /\ Held(s, c, b) \cap Places(t) = {}
    BY <1>5 DEF InPlace
<1>7. ASSUME NEW k \in 1..(r - 1), latex[k] = "x"
      PROVE  k \in Places(t) \/ \E c \in 1..Len(s) : \E b \in Buffers : k \in Held(s, c, b)
  <2>1. k \in 1..(q - 1) \/ k = q \/ k = q + 1 \/ k \in (q + 2)..(stop - 1) \/ (k = stop /\ r # stop)
    BY <1>1, <1>2, <1>3
  <2>2. latex[q] # "x" /\ latex[q + 1] # "x"
    OBVIOUS
  <2>3. CASE k \in 1..(q - 1)
    BY <1>7, <2>3, NoPlaces DEF InPlace
  <2>4. CASE k = stop /\ r # stop
    BY <1>3, <1>7, <2>4
  <2>5. QED BY <1>4, <1>7, <2>1, <2>2, <2>3, <2>4
<1>8. \A c, d \in 1..Len(s) : \A a, b \in Buffers :
         c # d \/ a # b => Held(s, c, a) \cap Held(s, d, b) = {}
    BY DEF InPlace
<1>9. InPlace(s, r, t)
    BY <1>3, <1>4, <1>5, <1>6, <1>7, <1>8 DEF InPlace
<1>10. QED BY <1>9 DEF t

\* The token at hand, if the formula has not ended.
LEMMA AtHand ==
    ASSUME NEW n \in Nat, DOMAIN latex = 1..n, latex \in Seq(Tokens), NEW q \in 1..(n + 1),
           Peek(q) # "end"
    PROVE  q \in 1..n /\ latex[q] = Peek(q) /\ Peek(q) \in Tokens
BY DEF Peek

LEMMA NewCalls ==
    /\ Fits(Call("group", "base")) /\ Fits(Call("frac", "none")) /\ Fits(Call("root", "sup"))
    /\ Fits(Call("sqrt", "none")) /\ Fits(Call("expr", "none"))
BY DEF Fits, Call, Uses, Buffers

\* mathml_parse_single, for a call that has chosen its buffer.
LEMMA SingleKeeps ==
    ASSUME latex \in Seq(Tokens), NEW s, NEW q, Shape(s), InPlace(s, q, <<>>),
           Last(s).fills # "none", mathml_parse_single(s, q)
    PROVE  Shape(calls') /\ InPlace(calls', p', <<>>)
<1> DEFINE n == Len(latex)
<1>1. n \in Nat /\ DOMAIN latex = 1..n
    BY Tokenized
<1>2. q \in 1..(n + 1)
    BY DEF InPlace
<1> HIDE DEF n
<1>3. CASE Peek(q) = "end" /\ calls' = s /\ p' = q
    BY <1>3
<1>4. ASSUME Peek(q) # "end" PROVE q \in 1..n /\ q <= n /\ latex[q] = Peek(q)
    BY <1>1, <1>2, <1>4, AtHand
<1>5. ASSUME Peek(q) # "end", Peek(q) # "x" PROVE InPlace(s, q + 1, <<>>)
  <2>1. q <= Len(latex) /\ latex[q] # "x" /\ Len(latex) \in Nat
    BY <1>1, <1>4, <1>5 DEF n
  <2>2. QED BY <2>1, SkipKeeps
<1>6. CASE Peek(q) = "open" /\ calls' = Append(s, Call("group", "base")) /\ p' = q + 1
  <2>1. InPlace(s, q + 1, <<>>)
    BY <1>5, <1>6
  <2>2. "group" \in Procedures \ {"math"} /\ "base" \in Buffers \cup {"none"}
    BY DEF Procedures, Buffers
  <2>3. QED BY <1>6, <2>1, <2>2, PushKeeps, NewCalls
<1>7. CASE /\ Peek(q) \in {"x", "[", "]", "close"}
           /\ calls' = mml_append(s, <<Leaf(q)>>) /\ p' = q + 1
  <2>1. q <= Len(latex) /\ Len(latex) \in Nat
    BY <1>1, <1>4, <1>7 DEF n
  <2>2. InPlace(s, q + 1, <<Leaf(q)>>)
    BY <2>1, LeafKeeps
  <2>3. QED BY <1>7, <2>2, WriteKeeps
<1>8. CASE Peek(q) \in {"upper", "lower"} /\ calls' = s /\ p' = q + 1
    BY <1>5, <1>8
<1>9. CASE /\ Peek(q) = "text" /\ Peek(q + 1) = "open"
           /\ LET end == EndOfText(q + 2)
              IN  /\ calls' = mml_append(s, Wrap("mtext", LeavesOf(q + 2, end)))
                  /\ p' = IF end \in DOMAIN latex THEN end + 1 ELSE end
  <2> DEFINE stop == EndOfText(q + 2)
             r == IF stop \in DOMAIN latex THEN stop + 1 ELSE stop
             t == Wrap("mtext", LeavesOf(q + 2, stop))
  <2>1. q \in 1..n /\ latex[q] = "text"
    BY <1>4, <1>9
  <2>2. q + 1 \in 1..n /\ latex[q + 1] = "open"
    <3>1. q + 1 \in 1..(n + 1)
        BY <1>1, <2>1
    <3>2. Peek(q + 1) # "end"
        BY <1>9
    <3>3. QED BY <1>1, <1>9, <3>1, <3>2, AtHand
  <2>3. calls' = mml_append(s, t) /\ p' = r
    BY <1>9
  <2>4. InPlace(s, r, t)
    BY <1>1, <2>1, <2>2, TextKeeps DEF n
  <2> HIDE DEF r, t
  <2>5. QED BY <2>3, <2>4, WriteKeeps
<1>10. CASE Peek(q) = "text" /\ calls' = s /\ p' = q + 1
    BY <1>5, <1>10
<1>11. CASE Peek(q) = "frac" /\ calls' = Append(s, Call("frac", "none")) /\ p' = q + 1
  <2>1. InPlace(s, q + 1, <<>>)
    BY <1>5, <1>11
  <2>2. "frac" \in Procedures \ {"math"} /\ "none" \in Buffers \cup {"none"}
    BY DEF Procedures
  <2>3. QED BY <1>11, <2>1, <2>2, PushKeeps, NewCalls
<1>12. CASE /\ Peek(q) = "sqrt" /\ Peek(q + 1) = "["
            /\ calls' = Append(s, Call("root", "sup")) /\ p' = q + 2
  <2>1. InPlace(s, q + 1, <<>>)
    BY <1>5, <1>12
  <2>2. q + 1 \in 1..n /\ latex[q + 1] # "x"
    <3>1. q + 1 \in 1..(n + 1)
        BY <1>1, <1>4, <1>12
    <3>2. Peek(q + 1) # "end" /\ Peek(q + 1) # "x"
        BY <1>12
    <3>3. QED BY <1>1, <3>1, <3>2, AtHand
  <2>3. InPlace(s, (q + 1) + 1, <<>>)
    <3>1. q + 1 <= Len(latex) /\ Len(latex) \in Nat
        BY <1>1, <2>2 DEF n
    <3>2. QED BY <2>1, <2>2, <3>1, SkipKeeps
  <2>4. p' = (q + 1) + 1
    BY <1>1, <1>2, <1>12
  <2>5. "root" \in Procedures \ {"math"} /\ "sup" \in Buffers \cup {"none"}
    BY DEF Procedures, Buffers
  <2>6. QED BY <1>12, <2>3, <2>4, <2>5, PushKeeps, NewCalls
<1>13. CASE Peek(q) = "sqrt" /\ calls' = Append(s, Call("sqrt", "none")) /\ p' = q + 1
  <2>1. InPlace(s, q + 1, <<>>)
    BY <1>5, <1>13
  <2>2. "sqrt" \in Procedures \ {"math"} /\ "none" \in Buffers \cup {"none"}
    BY DEF Procedures
  <2>3. QED BY <1>13, <2>1, <2>2, PushKeeps, NewCalls
<1>14. QED
    BY <1>3, <1>6, <1>7, <1>8, <1>9, <1>10, <1>11, <1>12, <1>13, Zenon
    DEF mathml_parse_single, mathml_parse_atom

-----------------------------------------------------------------------------
(***************************************************************************)
(* The procedures.                                                         *)
(***************************************************************************)
MathInv == latex \in Seq(Tokens) /\ Shape(calls) /\ InPlace(calls, p, <<>>)

\* The buffers of the last call are apart; those it does not write are empty.
LEMMA AtTop ==
    ASSUME MathInv
    PROVE  /\ Running \in Calls /\ Fits(Running) /\ Len(calls) \in Nat \ {0}
           /\ Running = calls[Len(calls)]
           /\ \A b \in Buffers : Written(b) \in Seq(Marks) /\ Single(Written(b))
           /\ \A a, b \in Buffers : a # b => Places(Written(a)) \cap Places(Written(b)) = {}
           /\ \A b \in Buffers \ Uses(Running.proc) : Written(b) = <<>>
<1> DEFINE n == Len(calls)
<1>1. n \in Nat \ {0} /\ Running = calls[n] /\ Running \in Calls /\ n \in 1..n
    BY StackEnds DEF MathInv, Shape, Running
<1>2. \A b \in Buffers : Written(b) \in Seq(Marks)
    BY <1>1 DEF Written, Calls
<1>3. Fits(Running)
    BY <1>1 DEF MathInv, Shape
<1>4. \A b \in Buffers : Single(Written(b))
    BY <1>1 DEF MathInv, InPlace, Written
<1>5. \A a, b \in Buffers : a # b => Held(calls, n, a) \cap Held(calls, n, b) = {}
    BY <1>1 DEF MathInv, InPlace
<1>6. \A b \in Buffers : Held(calls, n, b) = Places(Written(b))
    BY <1>1 DEF Held, Written
<1>7. \A a, b \in Buffers : a # b => Places(Written(a)) \cap Places(Written(b)) = {}
    BY <1>5, <1>6
<1>8. \A b \in Buffers \ Uses(Running.proc) : Written(b) = <<>>
    BY <1>3 DEF Fits, Written
<1>9. QED BY <1>1, <1>2, <1>3, <1>4, <1>7, <1>8

\* The last call returns a text that holds its buffers.
LEMMA ReturnKeeps ==
    ASSUME MathInv, Running.proc # "math", NEW text \in Seq(Marks), Single(text),
           Places(text) = Places(Written("base")) \cup Places(Written("sub")) \cup Places(Written("sup")),
           HandUp(text)
    PROVE  Shape(calls') /\ InPlace(calls', p, <<>>)
<1>1. Places(text) = UNION {Places(Running.text[b]) : b \in Buffers}
    BY DEF Written, Buffers
<1>2. QED BY <1>1, HandUpKeeps DEF MathInv

LEMMA ExprCalled ==
    ASSUME MathInv, Running.fills # "none", CallExpr
    PROVE  Shape(calls') /\ InPlace(calls', p', <<>>)
<1>1. "expr" \in Procedures \ {"math"} /\ "none" \in Buffers \cup {"none"}
    BY DEF Procedures
<1>2. Last(calls).fills # "none" /\ Shape(calls) /\ InPlace(calls, p, <<>>)
    BY DEF MathInv, Running
<1>3. QED BY <1>1, <1>2, PushKeeps, NewCalls DEF CallExpr

\* A call turns to a buffer and parses one token or group into it.
LEMMA FilledKeeps ==
    ASSUME MathInv, NEW f \in Buffers, f \in Uses(Running.proc), NEW q, InPlace(calls, q, <<>>),
           mathml_parse_single(Filling(f), q)
    PROVE  Shape(calls') /\ InPlace(calls', p', <<>>)
<1> DEFINE u == Filling(f)
<1>1. Shape(u) /\ InPlace(u, q, <<>>) /\ Last(u).fills # "none"
    BY FillKeeps DEF MathInv
<1>2. mathml_parse_single(u, q) /\ latex \in Seq(Tokens)
    BY DEF MathInv
<1> HIDE DEF u
<1>3. QED BY <1>1, <1>2, SingleKeeps

\* The token at the cursor is passed.
LEMMA PassKeeps ==
    ASSUME MathInv, Peek(p) # "end", Peek(p) # "x"
    PROVE  InPlace(calls, p + 1, <<>>)
<1> DEFINE n == Len(latex)
<1>1. n \in Nat /\ DOMAIN latex = 1..n /\ latex \in Seq(Tokens)
    BY Tokenized DEF MathInv
<1>2. p \in 1..(n + 1) /\ InPlace(calls, p, <<>>)
    BY DEF MathInv, InPlace
<1> HIDE DEF n
<1>3. p \in 1..n /\ latex[p] # "x"
    BY <1>1, <1>2, AtHand
<1>4. p <= Len(latex) /\ Len(latex) \in Nat
    BY <1>1, <1>3 DEF n
<1>5. QED BY <1>2, <1>3, <1>4, SkipKeeps

LEMMA MathGoesOnKeeps ==
    ASSUME MathInv, MathGoesOn
    PROVE  Shape(calls') /\ InPlace(calls', p', <<>>)
<1>1. Running.fills # "none"
    BY AtTop DEF MathGoesOn, Fits
<1>2. QED BY <1>1, ExprCalled DEF MathGoesOn

LEMMA GroupedKeeps ==
    ASSUME MathInv, Grouped
    PROVE  Shape(calls') /\ InPlace(calls', p', <<>>)
<1>1. Running.proc = "group" /\ Running.proc # "math" /\ Running.fills # "none"
    BY AtTop DEF Grouped, Fits
<1>2. CASE CallExpr
    BY <1>1, <1>2, ExprCalled
<1>3. CASE /\ Peek(p) \in {"close", "end"}
           /\ p' = IF Peek(p) = "close" THEN p + 1 ELSE p
           /\ HandUp(IF Written("base") = <<>> THEN <<>> ELSE Wrap("mrow", Written("base")))
  <2> DEFINE base == Written("base")
             text == IF base = <<>> THEN <<>> ELSE Wrap("mrow", base)
  <2>1. /\ base \in Seq(Marks) /\ Single(base)
        /\ Written("sub") = <<>> /\ Written("sup") = <<>>
    BY <1>1, AtTop DEF Uses, Buffers
  <2>2. HandUp(text)
    BY <1>3
  <2> HIDE DEF base
  <2>3. /\ Wrap("mrow", base) \in Seq(Marks)
        /\ Places(Wrap("mrow", base)) = Places(base)
        /\ Single(base) => Single(Wrap("mrow", base))
    <3>1. "mrow" \in Elements \ {"leaf"}
        BY DEF Elements
    <3>2. QED BY <2>1, <3>1, WrapPlaces
  <2>4. text \in Seq(Marks) /\ Single(text) /\ Places(text) = Places(base)
    BY <2>1, <2>3, NoPlaces
  <2> HIDE DEF text
  <2>5. Places(text) = Places(base) \cup Places(Written("sub")) \cup Places(Written("sup"))
    BY <2>1, <2>4, NoPlaces
  <2>6. p' = p \/ p' = p + 1
    BY <1>3
  <2>7. Shape(calls')
    BY <1>1, <2>2, <2>4, <2>5, ReturnKeeps DEF base
  <2>8. InPlace(calls', p', <<>>)
    <3>1. CASE Peek(p) = "end"
      <4>1. p' = p
        BY <1>3, <3>1
      <4>2. InPlace(calls', p, <<>>)
        BY <1>1, <2>2, <2>4, <2>5, ReturnKeeps DEF base
      <4>3. QED BY <4>1, <4>2
    <3>2. CASE Peek(p) = "close"
      <4>1. p' = p + 1
        BY <1>3, <3>2
      <4>2. InPlace(calls, p + 1, <<>>)
        BY <3>2, PassKeeps
      <4>3. Places(text) = UNION {Places(Running.text[b]) : b \in Buffers}
        BY <2>5 DEF base, Written, Buffers
      <4>4. InPlace(calls', p + 1, <<>>)
        BY <1>1, <2>2, <2>4, <4>2, <4>3, HandUpKeeps DEF MathInv
      <4>5. QED BY <4>1, <4>4
    <3>3. QED BY <1>3, <3>1, <3>2
  <2>9. QED BY <2>7, <2>8
<1>4. QED BY <1>2, <1>3 DEF Grouped

\* Two buffers, one behind the other in tags.
LEMMA BothWrapped ==
    ASSUME MathInv, NEW a \in Buffers, NEW b \in Buffers, a # b, NEW el \in Elements \ {"leaf"},
           NEW text, text = Wrap(el, Written(a) \o Written(b))
    PROVE  /\ text \in Seq(Marks) /\ Single(text)
           /\ Places(text) = Places(Written(a)) \cup Places(Written(b))
<1> DEFINE first == Written(a)
           second == Written(b)
           inside == first \o second
<1>1. /\ first \in Seq(Marks) /\ Single(first) /\ second \in Seq(Marks) /\ Single(second)
      /\ Places(first) \cap Places(second) = {}
    BY AtTop
<1> HIDE DEF first, second
<1>2. /\ first \o second \in Seq(Marks)
      /\ Places(first \o second) = Places(first) \cup Places(second)
      /\ Single(first) /\ Single(second) /\ Places(first) \cap Places(second) = {} => Single(first \o second)
    BY <1>1, CatPlaces
<1>3. inside \in Seq(Marks) /\ Places(inside) = Places(first) \cup Places(second) /\ Single(inside)
    BY <1>1, <1>2
<1> HIDE DEF inside
<1>4. /\ Wrap(el, inside) \in Seq(Marks)
      /\ Places(Wrap(el, inside)) = Places(inside)
      /\ Single(inside) => Single(Wrap(el, inside))
    BY <1>3, WrapPlaces
<1>5. QED BY <1>3, <1>4 DEF inside, first, second

LEMMA FractionKeeps ==
    ASSUME MathInv, Fraction
    PROVE  Shape(calls') /\ InPlace(calls', p', <<>>)
<1>1. Running.proc = "frac" /\ Running.proc # "math" /\ Uses(Running.proc) = {"base", "sub"}
    BY DEF Fraction, Uses
<1>2. "base" \in Buffers /\ "sub" \in Buffers /\ "sup" \in Buffers \ Uses(Running.proc)
    BY <1>1 DEF Buffers
<1>3. InPlace(calls, p, <<>>)
    BY DEF MathInv
<1>4. CASE mathml_parse_single(Filling("base"), p)
    BY <1>1, <1>2, <1>3, <1>4, FilledKeeps
<1>5. CASE mathml_parse_single(Filling("sub"), p)
    BY <1>1, <1>2, <1>3, <1>5, FilledKeeps
<1>6. CASE HandUp(Wrap("mfrac", Written("base") \o Written("sub"))) /\ p' = p
  <2> DEFINE text == Wrap("mfrac", Written("base") \o Written("sub"))
  <2>1. HandUp(text)
    BY <1>6
  <2>2. /\ text \in Seq(Marks) /\ Single(text)
        /\ Places(text) = Places(Written("base")) \cup Places(Written("sub"))
    <3>1. "mfrac" \in Elements \ {"leaf"}
        BY DEF Elements
    <3>2. QED BY <1>2, <3>1, BothWrapped
  <2> HIDE DEF text
  <2>3. Written("sup") = <<>>
    BY <1>2, AtTop
  <2>4. Places(text) = Places(Written("base")) \cup Places(Written("sub")) \cup Places(Written("sup"))
    BY <2>2, <2>3, NoPlaces
  <2>5. Shape(calls') /\ InPlace(calls', p, <<>>)
    BY <1>1, <2>1, <2>2, <2>4, ReturnKeeps
  <2>6. QED BY <1>6, <2>5
<1>7. QED BY <1>4, <1>5, <1>6 DEF Fraction

LEMMA RootKeeps ==
    ASSUME MathInv, Root
    PROVE  Shape(calls') /\ InPlace(calls', p', <<>>)
<1>1. /\ Running.proc \in {"sqrt", "root"} /\ Running.proc # "math"
      /\ "base" \in Uses(Running.proc) /\ "base" \in Buffers
    BY DEF Root, Uses, Buffers
<1>2. InPlace(calls, p, <<>>)
    BY DEF MathInv
<1>3. CASE mathml_parse_single(Filling("base"), p)
    BY <1>1, <1>2, <1>3, FilledKeeps
<1>4. CASE Running.fills = "sup" /\ CallExpr
  <2>1. Running.fills # "none"
    BY <1>4
  <2>2. QED BY <1>4, <2>1, ExprCalled
<1>5. CASE Peek(p) = "]" /\ mathml_parse_single(Filling("base"), p + 1)
  <2>1. InPlace(calls, p + 1, <<>>)
    BY <1>5, PassKeeps
  <2>2. QED BY <1>1, <1>5, <2>1, FilledKeeps
<1>6. CASE Running.proc = "sqrt" /\ p' = p /\ HandUp(Wrap("msqrt", Written("base")))
  <2> DEFINE base == Written("base")
             text == Wrap("msqrt", base)
  <2>1. /\ base \in Seq(Marks) /\ Single(base)
        /\ Written("sub") = <<>> /\ Written("sup") = <<>>
    BY <1>6, AtTop DEF Uses, Buffers
  <2>2. HandUp(text)
    BY <1>6
  <2> HIDE DEF base
  <2>3. text \in Seq(Marks) /\ Places(text) = Places(base) /\ (Single(base) => Single(text))
    <3>1. "msqrt" \in Elements \ {"leaf"}
        BY DEF Elements
    <3>2. QED BY <2>1, <3>1, WrapPlaces
  <2> HIDE DEF text
  <2>4. Places(text) = Places(base) \cup Places(Written("sub")) \cup Places(Written("sup"))
    BY <2>1, <2>3, NoPlaces
  <2>5. Shape(calls') /\ InPlace(calls', p, <<>>)
    BY <1>1, <2>1, <2>2, <2>3, <2>4, ReturnKeeps DEF base
  <2>6. QED BY <1>6, <2>5
<1>7. CASE Running.proc = "root" /\ p' = p /\ HandUp(Wrap("mroot", Written("base") \o Written("sup")))
  <2> DEFINE text == Wrap("mroot", Written("base") \o Written("sup"))
  <2>1. HandUp(text)
    BY <1>7
  <2>2. /\ text \in Seq(Marks) /\ Single(text)
        /\ Places(text) = Places(Written("base")) \cup Places(Written("sup"))
    <3>1. "mroot" \in Elements \ {"leaf"} /\ "base" \in Buffers /\ "sup" \in Buffers
        BY DEF Elements, Buffers
    <3>2. QED BY <3>1, BothWrapped
  <2> HIDE DEF text
  <2>3. Written("sub") = <<>>
    BY <1>7, AtTop DEF Uses, Buffers
  <2>4. Places(text) = Places(Written("base")) \cup Places(Written("sub")) \cup Places(Written("sup"))
    BY <2>2, <2>3, NoPlaces
  <2>5. Shape(calls') /\ InPlace(calls', p, <<>>)
    BY <1>1, <2>1, <2>2, <2>4, ReturnKeeps
  <2>6. QED BY <1>7, <2>5
<1>8. QED BY <1>3, <1>4, <1>5, <1>6, <1>7 DEF Root

\* What a token with scripts becomes holds all three buffers.
LEMMA ScriptsPlaces ==
    ASSUME MathInv
    PROVE  /\ Scripted \in Seq(Marks) /\ Single(Scripted)
           /\ Places(Scripted) = Places(Written("base")) \cup Places(Written("sub")) \cup Places(Written("sup"))
<1> DEFINE base == Written("base")
           sub == Written("sub")
           sup == Written("sup")
           scripts == sub \o sup
           inside == base \o scripts
<1>1. /\ base \in Seq(Marks) /\ sub \in Seq(Marks) /\ sup \in Seq(Marks)
      /\ Single(base) /\ Single(sub) /\ Single(sup)
      /\ Places(sub) \cap Places(sup) = {}
      /\ Places(base) \cap Places(sub) = {} /\ Places(base) \cap Places(sup) = {}
    BY AtTop DEF Buffers
<1>2. \E el \in Elements \ {"leaf"} :
         Scripted = IF scripts = <<>> THEN base ELSE Wrap(el, inside)
  <2>1. /\ "msubsup" \in Elements \ {"leaf"} /\ "msup" \in Elements \ {"leaf"}
        /\ "msub" \in Elements \ {"leaf"}
    BY DEF Elements
  <2>2. QED BY <2>1 DEF Scripted
<1> HIDE DEF base, sub, sup
<1>3. /\ sub \o sup \in Seq(Marks)
      /\ Places(sub \o sup) = Places(sub) \cup Places(sup)
      /\ Single(sub) /\ Single(sup) /\ Places(sub) \cap Places(sup) = {} => Single(sub \o sup)
    BY <1>1, CatPlaces
<1>4. scripts \in Seq(Marks) /\ Places(scripts) = Places(sub) \cup Places(sup) /\ Single(scripts)
    BY <1>1, <1>3
<1> HIDE DEF scripts
<1>5. Places(base) \cap Places(scripts) = {}
    BY <1>1, <1>4
<1>6. /\ base \o scripts \in Seq(Marks)
      /\ Places(base \o scripts) = Places(base) \cup Places(scripts)
      /\ Single(base) /\ Single(scripts) /\ Places(base) \cap Places(scripts) = {} => Single(base \o scripts)
    BY <1>1, <1>4, CatPlaces
<1>7. inside \in Seq(Marks) /\ Places(inside) = Places(base) \cup Places(scripts) /\ Single(inside)
    BY <1>1, <1>4, <1>5, <1>6
<1> HIDE DEF inside
<1>8. PICK el \in Elements \ {"leaf"} :
         Scripted = IF scripts = <<>> THEN base ELSE Wrap(el, inside)
    BY <1>2
<1>9. CASE scripts = <<>>
  <2>1. Scripted = base /\ Places(scripts) = {}
    BY <1>8, <1>9, NoPlaces
  <2>2. Places(base) = Places(base) \cup Places(sub) \cup Places(sup)
    BY <1>4, <2>1
  <2>3. QED BY <1>1, <2>1, <2>2 DEF base, sub, sup
<1>10. CASE scripts # <<>>
  <2>1. Scripted = Wrap(el, inside)
    BY <1>8, <1>10
  <2>2. /\ Wrap(el, inside) \in Seq(Marks)
        /\ Places(Wrap(el, inside)) = Places(inside)
        /\ Single(inside) => Single(Wrap(el, inside))
    BY <1>7, WrapPlaces
  <2>3. QED BY <1>4, <1>7, <2>1, <2>2 DEF base, sub, sup
<1>11. QED BY <1>9, <1>10

LEMMA ExprKeeps ==
    ASSUME MathInv, mathml_parse_expr
    PROVE  Shape(calls') /\ InPlace(calls', p', <<>>)
<1>1. Running.proc = "expr" /\ Running.proc # "math" /\ Uses(Running.proc) = Buffers
    BY DEF mathml_parse_expr, Uses
<1>2. InPlace(calls, p, <<>>)
    BY DEF MathInv
<1>3. CASE Running.fills = "none" /\ HandUp(<<>>) /\ p' = p
  <2>1. \A b \in Buffers : Written(b) = <<>>
    BY <1>3, AtTop DEF Fits, Written
  <2>2. Written("base") = <<>> /\ Written("sub") = <<>> /\ Written("sup") = <<>>
    BY <2>1 DEF Buffers
  <2>3. Places(<<>>) = Places(Written("base")) \cup Places(Written("sub")) \cup Places(Written("sup"))
    BY <2>2, NoPlaces
  <2>4. Shape(calls') /\ InPlace(calls', p, <<>>)
    BY <1>1, <1>3, <2>3, NoPlaces, ReturnKeeps
  <2>5. QED BY <1>3, <2>4
<1>4. CASE mathml_parse_single(Filling("base"), p)
  <2>1. "base" \in Buffers
    BY DEF Buffers
  <2>2. QED BY <1>1, <1>2, <1>4, <2>1, FilledKeeps
<1>5. CASE Script # "none" /\ mathml_parse_single(Filling(Script), p + 1)
  <2>1. Script \in Buffers /\ Peek(p) \in {"upper", "lower"}
    BY <1>5 DEF Script, Buffers
  <2>2. InPlace(calls, p + 1, <<>>)
    BY <2>1, PassKeeps
  <2>3. mathml_parse_single(Filling(Script), p + 1)
    BY <1>5
  <2> HIDE DEF Script
  <2>4. QED BY <1>1, <2>1, <2>2, <2>3, FilledKeeps
<1>6. CASE HandUp(Scripted) /\ p' = p
  <2>1. Shape(calls') /\ InPlace(calls', p, <<>>)
    BY <1>1, <1>6, ScriptsPlaces, ReturnKeeps
  <2>2. QED BY <1>6, <2>1
<1>7. QED BY <1>3, <1>4, <1>5, <1>6 DEF mathml_parse_expr

LEMMA MathStep == MathInv /\ [MathNext]_formula => MathInv'
<1>1. SUFFICES ASSUME MathInv, [MathNext]_formula PROVE MathInv'
    OBVIOUS
<1>2. CASE UNCHANGED formula
  <2>1. latex' = latex /\ p' = p /\ calls' = calls
    BY <1>2 DEF formula
  <2>2. Shape(calls)'
    BY <1>1, <2>1 DEF MathInv, Shape
  <2>3. InPlace(calls', p', <<>>)
    BY <1>1, <2>1 DEF MathInv
  <2>4. InPlace(calls, p, <<>>)'
    BY <2>1, <2>3 DEF InPlace, Held, Places
  <2>5. QED BY <1>1, <2>1, <2>2, <2>4 DEF MathInv
<1>3. CASE MathNext
  <2>1. latex' = latex
    BY <1>3 DEF MathNext
  <2>2. Shape(calls') /\ InPlace(calls', p', <<>>)
    BY <1>1, <1>3, MathGoesOnKeeps, GroupedKeeps, FractionKeeps, RootKeeps, ExprKeeps DEF MathNext
  <2>3. Shape(calls)'
    BY <2>2 DEF Shape
  <2>4. InPlace(calls, p, <<>>)'
    BY <2>1, <2>2 DEF InPlace, Held, Places
  <2>5. QED BY <1>1, <2>1, <2>3, <2>4 DEF MathInv
<1>4. QED BY <1>1, <1>2, <1>3

\* At rest and at the start.
LEMMA MathStart ==
    ASSUME latex \in Seq(Tokens), p = 1, calls = <<Call("math", "base")>>
    PROVE  MathInv
<1> DEFINE call == Call("math", "base")
<1>1. /\ call \in Calls /\ call.proc = "math" /\ Fits(call)
      /\ \A b \in Buffers : call.text[b] = <<>>
    BY NoPlaces DEF Call, Calls, Procedures, Fits, Uses, Buffers
<1> HIDE DEF call
<1>2. calls \in Seq(Calls) /\ calls # <<>> /\ Len(calls) = 1 /\ calls[1] = call
    BY <1>1 DEF call
<1>3. Shape(calls)
    BY <1>1, <1>2 DEF Shape
<1>4. InPlace(calls, p, <<>>)
  <2>1. \A c \in 1..1 : \A b \in Buffers : calls[c].text[b] = <<>>
    BY <1>1, <1>2
  <2>2. Len(latex) \in Nat
    BY Tokenized
  <2>3. \A c \in 1..1 : \A b \in Buffers : Held(calls, c, b) = {} /\ Single(calls[c].text[b])
    BY <2>1, NoPlaces DEF Held
  <2>4. p \in 1..(Len(latex) + 1) /\ 1..(p - 1) = {}
    BY <2>2
  <2>5. QED BY <1>2, <2>3, <2>4, NoPlaces DEF InPlace
<1>5. QED BY <1>3, <1>4 DEF MathInv

\* When the formula is converted, only the buffer of latex_to_mathml is left.
LEMMA OnceAtTheEnd == MathInv => EachTokenOnce
<1>1. SUFFICES ASSUME MathInv, MathDone
               PROVE  /\ \A m, n \in DOMAIN Converted :
                            Converted[m].el = "leaf" /\ Converted[n] = Converted[m] => m = n
                      /\ \A k \in DOMAIN latex : latex[k] = "x" => Leaf(k) \in Range(Converted)
    BY DEF EachTokenOnce
<1> DEFINE outcome == Converted
<1>2. /\ Running \in Calls /\ Len(calls) \in Nat \ {0} /\ Running = calls[Len(calls)]
      /\ Running.proc = "math"
      /\ \A b \in Buffers : Written(b) \in Seq(Marks) /\ Single(Written(b))
      /\ \A b \in Buffers \ Uses(Running.proc) : Written(b) = <<>>
    BY <1>1, AtTop DEF MathDone
<1>3. Len(calls) = 1
  <2>1. \A c \in 1..Len(calls) : calls[c].proc = "math" <=> c = 1
    BY <1>1 DEF MathInv, Shape
  <2>2. Len(calls) \in 1..Len(calls) /\ calls[Len(calls)].proc = "math"
    BY <1>2
  <2>3. QED BY <2>1, <2>2
<1>4. outcome = Written("base") /\ Written("sub") = <<>> /\ Written("sup") = <<>>
    BY <1>2 DEF Converted, Written, Uses, Buffers
<1>5. outcome \in Seq(Marks) /\ Single(outcome)
    BY <1>2, <1>4 DEF Buffers
<1>6. p = Len(latex) + 1 /\ Len(latex) \in Nat /\ DOMAIN latex = 1..Len(latex)
  <2>1. Len(latex) \in Nat /\ DOMAIN latex = 1..Len(latex)
    BY <1>1, Tokenized DEF MathInv
  <2>2. p \in 1..(Len(latex) + 1)
    BY <1>1 DEF MathInv, InPlace
  <2>3. p \notin DOMAIN latex
    BY <1>1 DEF MathDone, Peek, MathInv, Tokens
  <2>4. QED BY <2>1, <2>2, <2>3
<1> HIDE DEF outcome
<1>7. ASSUME NEW m \in DOMAIN outcome, NEW n \in DOMAIN outcome, outcome[m].el = "leaf", outcome[n] = outcome[m]
      PROVE  m = n
    BY <1>5, <1>7 DEF Single
<1>8. ASSUME NEW k \in DOMAIN latex, latex[k] = "x" PROVE Leaf(k) \in Range(outcome)
  <2>1. k \in 1..(p - 1)
    BY <1>6
  <2>2. \E c \in 1..Len(calls) : \E b \in Buffers : k \in Held(calls, c, b)
    BY <1>1, <1>8, <2>1, NoPlaces DEF MathInv, InPlace
  <2>3. \A c \in 1..Len(calls) : calls[c] = Running
    BY <1>2, <1>3
  <2>4. PICK b \in Buffers : k \in Places(Written(b))
    BY <2>2, <2>3 DEF Held, Written
  <2>5. k \in Places(outcome)
    BY <1>4, <2>4, NoPlaces DEF Buffers
  <2>6. PICK m \in DOMAIN outcome : outcome[m].el = "leaf" /\ outcome[m].at = k
    BY <2>5 DEF Places
  <2>7. outcome[m] \in Marks
    BY <1>5
  <2>8. outcome[m] = Leaf(k)
    BY <2>6, <2>7 DEF Marks, Leaf
  <2>9. QED BY <2>8 DEF Range
<1>9. QED BY <1>7, <1>8 DEF outcome

LEMMA MathTyped == MathInv => MathTypeOK
BY DEF MathInv, Shape, InPlace, MathTypeOK

-----------------------------------------------------------------------------
(***************************************************************************)
(* The strings of Wire, for every request and every size: their types, and *)
(* that what is answered is JSON.                                          *)
(***************************************************************************)
\* A character is escaped if a backslash that is not escaped stands before it.
LEMMA EscapedFacts ==
    ASSUME NEW T, NEW s \in Seq(T), NEW k \in 1..(Len(s) + 1)
    PROVE  /\ ~Escaped(s, 1)
           /\ k <= Len(s) => (Escaped(s, k + 1) <=> s[k] = "backslash" /\ ~Escaped(s, k))
<1> DEFINE Runs(m) == {j \in 1..m : \A x \in j..(m - 1) : s[x] = "backslash"}
<1>1. ASSUME NEW m \in 1..(Len(s) + 2)
      PROVE  /\ Min(Runs(m)) \in Runs(m) /\ Min(Runs(m)) \in 1..m
             /\ \A j \in Runs(m) : Min(Runs(m)) <= j
  <2>1. m \in Runs(m) /\ Runs(m) \in SUBSET Nat
    OBVIOUS
  <2> DEFINE R == Runs(m)
  <2>2. R \in SUBSET Nat /\ R # {} /\ R \subseteq 1..m
    BY <2>1
  <2> HIDE DEF R
  <2>3. \E x \in R : \A y \in R : x <= y
    BY <2>2, LeastOf
  <2>4. Min(R) \in R /\ \A y \in R : Min(R) <= y
    BY <2>3 DEF Min
  <2>5. QED BY <2>2, <2>4 DEF R
<1>2. \A m : Escaped(s, m) = ((m - Min(Runs(m))) % 2 = 1)
    BY DEF Escaped
<1>3. ~Escaped(s, 1)
  <2>1. Min(Runs(1)) = 1
    BY <1>1
  <2>2. 1 - 1 = 0 /\ 0 % 2 # 1
    OBVIOUS
  <2> HIDE DEF Runs
  <2>3. Escaped(s, 1) <=> (1 - 1) % 2 = 1
    BY <1>2, <2>1
  <2>4. QED BY <2>2, <2>3
<1>4. ASSUME k <= Len(s), s[k] = "backslash"
      PROVE  Escaped(s, k + 1) <=> ~Escaped(s, k)
  <2>1. \A j \in 1..k : j \in Runs(k + 1) <=> j \in Runs(k)
    BY <1>4
  <2>2. k \in Runs(k) /\ k \in 1..(Len(s) + 2) /\ k + 1 \in 1..(Len(s) + 2)
    OBVIOUS
  <2> DEFINE m == Min(Runs(k))
             l == Min(Runs(k + 1))
  <2>3. m \in 1..k /\ m \in Runs(k) /\ \A j \in Runs(k) : m <= j
    BY <1>1, <2>2
  <2>4. l \in 1..(k + 1) /\ l \in Runs(k + 1) /\ \A j \in Runs(k + 1) : l <= j
    BY <1>1, <2>2
  <2> HIDE DEF m, l, Runs
  <2>5. l = m
    <3>1. m \in Runs(k + 1) /\ l <= m
        BY <2>1, <2>3, <2>4
    <3>2. l \in 1..k
        BY <2>3, <2>4, <3>1
    <3>3. QED BY <2>1, <2>3, <2>4, <3>1, <3>2
  <2>6. Escaped(s, k) <=> (k - m) % 2 = 1
    BY <1>2 DEF m
  <2>7. Escaped(s, k + 1) <=> (k + 1 - m) % 2 = 1
    <3>1. (k + 1) - l = k + 1 - m
        BY <2>3, <2>5
    <3>2. Escaped(s, k + 1) <=> ((k + 1) - l) % 2 = 1
        BY <1>2 DEF l
    <3>3. QED BY <3>1, <3>2
  <2>8. QED BY <2>3, <2>6, <2>7
<1>5. ASSUME k <= Len(s), s[k] # "backslash"
      PROVE  ~Escaped(s, k + 1)
  <2>1. k + 1 \in 1..(Len(s) + 2)
    OBVIOUS
  <2>2. \A j \in 1..k : j \notin Runs(k + 1)
    BY <1>5
  <2>3. Min(Runs(k + 1)) = k + 1
    BY <1>1, <2>1, <2>2
  <2>4. (k + 1) - (k + 1) = 0 /\ 0 % 2 # 1
    OBVIOUS
  <2> HIDE DEF Runs
  <2>5. Escaped(s, k + 1) <=> ((k + 1) - (k + 1)) % 2 = 1
    BY <1>2, <2>3
  <2>6. QED BY <2>4, <2>5
<1>6. QED BY <1>3, <1>4, <1>5

\* Whether a character is escaped depends on what stands before it.
LEMMA EscapedBefore ==
    ASSUME NEW s, NEW t, NEW k \in Nat, \A x \in 1..(k - 1) : s[x] = t[x]
    PROVE  Escaped(s, k) = Escaped(t, k)
<1>1. {j \in 1..k : \A x \in j..(k - 1) : s[x] = "backslash"}
          = {j \in 1..k : \A x \in j..(k - 1) : t[x] = "backslash"}
    OBVIOUS
<1>2. QED BY <1>1 DEF Escaped

\* JSON stays JSON when a character is put behind it as Escape writes it.
LEMMA StringGrows ==
    ASSUME NEW T, NEW s \in Seq(T), IsString(s), NEW c
    PROVE  IsString(s \o Escape(c))
<1>1. ASSUME NEW x, NEW y \in Seq({x}), Len(y) = 1, y[1] = x, x \notin Control \cup {"quote", "backslash"}
      PROVE  IsString(s \o y)
  <2> DEFINE t == s \o y
             n == Len(s)
  <2>1. /\ t \in Seq(T \cup {x}) /\ n \in Nat /\ Len(t) = n + 1
        /\ \A k \in 1..n : t[k] = s[k]
        /\ t[n + 1] = x
    <3> DEFINE U == T \cup {x}
    <3>1. s \in Seq(U) /\ y \in Seq(U) /\ n \in Nat
        OBVIOUS
    <3> HIDE DEF U
    <3>a. /\ s \o y \in Seq(U) /\ Len(s \o y) = Len(s) + Len(y)
          /\ \A k \in 1..Len(s) : (s \o y)[k] = s[k]
          /\ \A k \in 1..Len(y) : (s \o y)[Len(s) + k] = y[k]
        BY <3>1, Joining
    <3>b. 1 \in 1..Len(y) /\ Len(y) \in 1..Len(y)
        BY <1>1
    <3>2. t \in Seq(U) /\ Len(t) = n + 1 /\ (\A k \in 1..n : t[k] = s[k]) /\ t[n + 1] = y[1]
        BY <1>1, <3>a, <3>b
    <3>3. QED BY <1>1, <3>1, <3>2 DEF U
  <2> HIDE DEF t
  <2>2. \A k \in 1..(n + 1) : Escaped(t, k) = Escaped(s, k)
    <3> HIDE DEF n
    <3>1. ASSUME NEW k \in 1..(n + 1) PROVE Escaped(t, k) = Escaped(s, k)
      <4>1. k \in Nat /\ \A z \in 1..(k - 1) : z \in 1..n
        BY <2>1
      <4>2. \A z \in 1..(k - 1) : t[z] = s[z]
        BY <2>1, <4>1
      <4>3. QED BY <4>1, <4>2, EscapedBefore
    <3>2. QED BY <3>1, Zenon
  <2>3. ~Escaped(t, n + 2)
    BY <1>1, <2>1, EscapedFacts
  <2>4. ASSUME NEW k \in 1..(n + 1)
        PROVE  t[k] \notin Control /\ (t[k] = "quote" => Escaped(t, k))
    <3>1. CASE k \in 1..n
        BY <2>1, <2>2, <3>1 DEF IsString
    <3>2. CASE k = n + 1
        BY <1>1, <2>1, <3>2
    <3>3. QED BY <2>1, <3>1, <3>2
  <2>5. QED BY <2>1, <2>3, <2>4 DEF IsString, t
<1>2. ASSUME NEW x, x \notin Control, NEW y \in Seq({"backslash", x}), Len(y) = 2, y[1] = "backslash", y[2] = x
      PROVE  IsString(s \o y)
  <2> DEFINE t == s \o y
             n == Len(s)
  <2>1. /\ t \in Seq(T \cup {"backslash", x}) /\ n \in Nat /\ Len(t) = n + 2
        /\ \A k \in 1..n : t[k] = s[k]
        /\ t[n + 1] = "backslash" /\ t[n + 2] = x
    <3> DEFINE U == T \cup {"backslash", x}
    <3>1. s \in Seq(U) /\ y \in Seq(U) /\ n \in Nat
        OBVIOUS
    <3> HIDE DEF U
    <3>a. /\ s \o y \in Seq(U) /\ Len(s \o y) = Len(s) + Len(y)
          /\ \A k \in 1..Len(s) : (s \o y)[k] = s[k]
          /\ \A k \in 1..Len(y) : (s \o y)[Len(s) + k] = y[k]
        BY <3>1, Joining
    <3>b. 1 \in 1..Len(y) /\ Len(y) \in 1..Len(y)
        BY <1>2
    <3>2. /\ t \in Seq(U) /\ Len(t) = n + 2 /\ (\A k \in 1..n : t[k] = s[k])
          /\ t[n + 1] = y[1] /\ t[n + 2] = y[2]
        BY <1>2, <3>a, <3>b
    <3>3. QED BY <1>2, <3>1, <3>2 DEF U
  <2> HIDE DEF t
  <2>2. \A k \in 1..(n + 1) : Escaped(t, k) = Escaped(s, k)
    BY <2>1, EscapedBefore, SMTT(30)
  <2>3. ~Escaped(t, n + 1)
    BY <2>1, <2>2 DEF IsString
  <2>4. Escaped(t, n + 2)
    <3>1. n + 1 \in 1..(Len(t) + 1) /\ n + 1 <= Len(t) /\ (n + 1) + 1 = n + 2
        BY <2>1
    <3>2. QED BY <2>1, <2>3, <3>1, EscapedFacts
  <2>5. ~Escaped(t, n + 3)
    <3>1. n + 2 \in 1..(Len(t) + 1) /\ n + 2 <= Len(t) /\ (n + 2) + 1 = n + 3
        BY <2>1
    <3>2. QED BY <2>1, <2>4, <3>1, EscapedFacts
  <2>6. ASSUME NEW k \in 1..(n + 2)
        PROVE  t[k] \notin Control /\ (t[k] = "quote" => Escaped(t, k))
    <3>1. CASE k \in 1..n
        BY <2>1, <2>2, <3>1 DEF IsString
    <3>2. CASE k = n + 1
        BY <2>1, <3>2 DEF Control
    <3>3. CASE k = n + 2
        BY <1>2, <2>1, <2>4, <3>3
    <3>4. QED BY <2>1, <3>1, <3>2, <3>3
  <2>7. Len(t) + 1 = n + 3
    BY <2>1
  <2>8. QED BY <2>1, <2>5, <2>6, <2>7 DEF IsString, t
<1>3. CASE c \in {"quote", "backslash"}
  <2>a. /\ <<"backslash", c>> \in Seq({"backslash", c}) /\ Len(<<"backslash", c>>) = 2
        /\ <<"backslash", c>>[1] = "backslash" /\ <<"backslash", c>>[2] = c
    OBVIOUS
  <2>1. Escape(c) = <<"backslash", c>> /\ c \notin Control
    BY <1>3 DEF Escape, Control
  <2>2. QED BY <1>2, <2>a, <2>1
<1>4. CASE c = "nl"
  <2>a. /\ <<"backslash", "n">> \in Seq({"backslash", "n"}) /\ Len(<<"backslash", "n">>) = 2
        /\ <<"backslash", "n">>[1] = "backslash" /\ <<"backslash", "n">>[2] = "n"
    OBVIOUS
  <2>1. Escape(c) = <<"backslash", "n">> /\ "n" \notin Control
    BY <1>4 DEF Escape, Control
  <2>2. QED BY <1>2, <2>a, <2>1
<1>5. CASE c \in {"bs", "ctl"}
  <2>1. Escape(c) = <<>> /\ s \o <<>> = s
    BY <1>5 DEF Escape
  <2>2. QED BY <2>1
<1>6. CASE c \notin Control \cup {"quote", "backslash"}
  <2>a. <<c>> \in Seq({c}) /\ Len(<<c>>) = 1 /\ <<c>>[1] = c
    OBVIOUS
  <2>1. Escape(c) = <<c>>
    BY <1>6 DEF Escape, Control
  <2>2. QED BY <1>1, <1>6, <2>a, <2>1
<1>7. QED BY <1>3, <1>4, <1>5, <1>6 DEF Control

\* What has no backslash is JSON if it has no quote and no control character.
LEMMA PlainIsString ==
    ASSUME NEW T, NEW s \in Seq(T), \A k \in 1..Len(s) : s[k] \notin Control \cup {"quote", "backslash"}
    PROVE  IsString(s)
<1>1. Len(s) + 1 = 1 \/ Len(s) \in 1..(Len(s) + 1)
    OBVIOUS
<1>2. ~Escaped(s, Len(s) + 1)
    BY <1>1, EscapedFacts
<1>3. QED BY <1>2 DEF IsString

LEMMA EmptyString == IsString(<<>>)
<1> DEFINE e == <<>>
<1>1. e \in Seq(Chars) /\ \A k \in 1..Len(e) : FALSE
    OBVIOUS
<1> HIDE DEF e
<1>2. IsString(e)
    BY <1>1, PlainIsString
<1>3. QED BY <1>2 DEF e

-----------------------------------------------------------------------------
(* What the two codes make of a text. *)

LEMMA EscapeText ==
    ASSUME NEW c \in Signs
    PROVE  Escape(c) \in Seq(Signs) /\ (c \in Chars => Escape(c) \in Seq(Chars))
<1>1. \A x \in Signs : <<>> \in Seq(Signs) /\ <<x>> \in Seq(Signs) /\ <<"backslash", x>> \in Seq(Signs)
  <2>1. "backslash" \in Signs
    BY DEF Signs, Chars
  <2>2. QED BY <2>1
<1>2. \A x \in Chars : <<>> \in Seq(Chars) /\ <<x>> \in Seq(Chars) /\ <<"backslash", x>> \in Seq(Chars)
  <2>1. "backslash" \in Chars
    BY DEF Chars
  <2>2. QED BY <2>1
<1>3. "n" \in Signs /\ "n" \in Chars
    BY DEF Signs, Chars, Letters
<1>4. \/ c \in {"quote", "backslash"} /\ Escape(c) = <<"backslash", c>>
      \/ Escape(c) = <<"backslash", "n">>
      \/ Escape(c) = <<>>
      \/ Escape(c) = <<c>>
    BY DEF Escape
<1>5. QED BY <1>1, <1>2, <1>3, <1>4

LEMMA EachEscape ==
    ASSUME NEW n \in Seq(Chars)
    PROVE  Each(Escape, n) \in Seq(Chars) /\ IsString(Each(Escape, n))
<1> DEFINE ss == [k \in DOMAIN n |-> Escape(n[k])]
           G == {s \in Seq(Chars) : IsString(s)}
<1>1. DOMAIN n = 1..Len(n) /\ Len(n) \in Nat /\ \A k \in 1..Len(n) : n[k] \in Chars /\ n[k] \in Signs
    BY DEF Signs
<1>2. \A k \in 1..Len(n) : Escape(n[k]) \in Seq(Chars)
    BY <1>1, EscapeText
<1>3. ss \in Seq(Seq(Chars)) /\ Len(ss) = Len(n) /\ \A k \in 1..Len(n) : ss[k] = Escape(n[k])
    BY <1>1, <1>2
<1>4. Each(Escape, n) = FlattenSeq(ss)
    BY DEF Each
<1> HIDE DEF ss
<1>5. <<>> \in G
  <2>1. <<>> \in Seq(Chars)
    OBVIOUS
  <2>2. QED BY <2>1, EmptyString
<1>6. ASSUME NEW s \in G, NEW k \in 1..Len(ss)
      PROVE  s \o ss[k] \in G
  <2>1. s \in Seq(Chars) /\ IsString(s) /\ ss[k] \in Seq(Chars) /\ ss[k] = Escape(n[k])
    BY <1>2, <1>3
  <2>2. s \o ss[k] \in Seq(Chars)
    BY <2>1, Joining
  <2>3. IsString(s \o ss[k])
    BY <2>1, StringGrows
  <2>4. QED BY <2>2, <2>3
<1>7. G \in SUBSET Seq(Chars)
    OBVIOUS
<1> HIDE DEF G
<1>8. FlattenSeq(ss) \in G
    BY <1>3, <1>5, <1>6, <1>7, FlatIn
<1>9. QED BY <1>4, <1>8 DEF G

LEMMA ClientTexts ==
    ASSUME NEW text \in Seq(Chars)
    PROVE  Stringify(text) \in Seq(Signs) /\ Encoded(text) \in Seq(Signs)
<1>1. DOMAIN text = 1..Len(text) /\ Len(text) \in Nat /\ \A k \in 1..Len(text) : text[k] \in Signs
    BY DEF Signs
<1>2. {"backslash", "n", "b", "u", "h", "pct", "hex"} \subseteq Signs
    BY DEF Signs, Chars, Letters
<1>3. Stringify(text) \in Seq(Signs)
  <2> DEFINE Code(c) == CASE c \in {"quote", "backslash"} -> <<"backslash", c>>
                          [] c = "nl"  -> <<"backslash", "n">>
                          [] c = "bs"  -> <<"backslash", "b">>
                          [] c = "ctl" -> <<"backslash", "u", "h", "h", "h", "h">>
                          [] OTHER     -> <<c>>
             ss == [k \in DOMAIN text |-> Code(text[k])]
  <2>1. Stringify(text) = FlattenSeq(ss)
    BY DEF Stringify, Each
  <2>2. ASSUME NEW c \in Signs PROVE Code(c) \in Seq(Signs)
    <3>1. /\ <<"backslash", c>> \in Seq(Signs) /\ <<"backslash", "n">> \in Seq(Signs)
          /\ <<"backslash", "b">> \in Seq(Signs) /\ <<c>> \in Seq(Signs)
          /\ <<"backslash", "u", "h", "h", "h", "h">> \in Seq(Signs)
        BY <1>2
    <3>2. QED BY <3>1
  <2> HIDE DEF Code
  <2>3. ss \in Seq(Seq(Signs))
    BY <1>1, <2>2
  <2> HIDE DEF ss
  <2>4. QED BY <2>1, <2>3, FlatTyped
<1>4. Encoded(text) \in Seq(Signs)
  <2> DEFINE Code(c) == IF c \in {"a", "n", "b", "u", "h", ".md", "dots"} \cup Keys THEN <<c>>
                        ELSE <<"pct", "hex", c>>
             ss == [k \in DOMAIN text |-> Code(text[k])]
  <2>1. Encoded(text) = FlattenSeq(ss)
    BY DEF Encoded, Each
  <2>2. ASSUME NEW c \in Signs PROVE Code(c) \in Seq(Signs)
    <3>1. <<c>> \in Seq(Signs) /\ <<"pct", "hex", c>> \in Seq(Signs)
        BY <1>2
    <3>2. QED BY <3>1
  <2> HIDE DEF Code
  <2>3. ss \in Seq(Seq(Signs))
    BY <1>1, <2>2
  <2> HIDE DEF ss
  <2>4. QED BY <2>1, <2>3, FlatTyped
<1>5. QED BY <1>3, <1>4

-----------------------------------------------------------------------------
(***************************************************************************)
(* The invariant: the text put together for an editor, and each entry of a *)
(* list, is JSON so far; the name an upload ends with has lost what stands *)
(* in front of a slash or a backslash; and a list that is sent has room    *)
(* for its end.                                                            *)
(***************************************************************************)
PhasesOf(is) ==
    CASE is = "post"   -> {"find", "value", "ok", "refused"}
      [] is = "upload" -> {"find", "value", "resolve", "ok", "refused"}
      [] is = "get"    -> {"decode", "resolve", "escape", "ok", "refused"}
      [] is = "list"   -> {"list", "ok"}

Files(j) == j.active \in Seq(Chars) /\ \A f \in DOMAIN j.disk : j.disk[f] \in Seq(Chars)

JsonInv ==
    /\ WireTypeOK
    /\ job.is \in {"post", "upload", "get", "list"}
    /\ job.text \in Seq(Chars) /\ job.names \in Seq(Seq(Chars)) /\ Files(job)
    /\ phase \in PhasesOf(job.is)
    /\ job.is \in {"get", "list"} => IsString(out)
    /\ job.is = "upload" /\ phase = "ok" =>
           \A k \in 1..Len(name) : name[k] \notin {"slash", "backslash"}
    /\ \A k \in 1..Len(listed) : IsString(listed[k])
    /\ listed # <<>> => job.is = "list"
    /\ listed # <<>> /\ phase = "ok" => size + 2 <= ListMax

LEMMA AtFacts ==
    ASSUME JsonInv, NEW k, At(k) # "end"
    PROVE  k \in 1..Len(wire) /\ At(k) = wire[k] /\ At(k) \in Signs
<1>1. wire \in Seq(Signs)
    BY DEF JsonInv, WireTypeOK
<1>2. DOMAIN wire = 1..Len(wire) /\ \A j \in 1..Len(wire) : wire[j] \in Signs
    BY <1>1
<1>3. QED BY <1>2 DEF At

LEMMA WireStart == WireInit => JsonInv
<1> SUFFICES ASSUME WireInit PROVE JsonInv
    OBVIOUS
<1>1. /\ job.is \in {"post", "upload", "get", "list"}
      /\ job.name \in Seq(Chars) /\ job.text \in Seq(Chars)
      /\ job.names \in Seq(Seq(Chars)) /\ job.cut \in Nat /\ Files(job)
    BY JobsAssumption DEF WireInit, Files
<1>2. ASSUME NEW s \in Seq(Signs), NEW m \in Int, m <= Len(s)
      PROVE  SubSeq(s, 1, m) \in Seq(Signs)
    BY <1>2
<1>3. wire \in Seq(Signs) /\ phase \in PhasesOf(job.is)
  <2>1. CASE job.is \in {"post", "upload"}
    <3>1. wire = Arriving(job) /\ phase = "find"
        BY <2>1 DEF WireInit, Start
    <3>2. Body(job) \in Seq(Signs)
      <4>1. {"quote", "name", "content", "colon", "comma"} \subseteq Signs
        BY DEF Signs, Chars, Keys
      <4>2. ASSUME NEW key \in {"name", "content"}, NEW text \in Seq(Chars)
            PROVE  Member(key, text) \in Seq(Signs)
        <5> DEFINE s == Stringify(text)
                   front == <<"quote", key, "quote", "colon", "quote">>
                   end == <<"quote">>
        <5>1. s \in Seq(Signs) /\ front \in Seq(Signs) /\ end \in Seq(Signs)
            BY <4>1, ClientTexts
        <5>2. Member(key, text) = front \o s \o end
            BY DEF Member
        <5> HIDE DEF s, front, end
        <5>3. QED BY <5>1, <5>2
      <4>3. <<"comma">> \in Seq(Signs)
        BY <4>1
      <4> DEFINE a == Member("name", job.name)
                 b == Member("content", job.text)
                 c == <<"comma">>
      <4>4. a \in Seq(Signs) /\ b \in Seq(Signs) /\ c \in Seq(Signs)
        BY <1>1, <4>2, <4>3
      <4>5. Body(job) = a \o c \o b \/ Body(job) = b
        BY DEF Body
      <4> HIDE DEF a, b, c
      <4>6. a \o c \in Seq(Signs)
        BY <4>4
      <4>7. a \o c \o b \in Seq(Signs)
        BY <4>4, <4>6
      <4>8. QED BY <4>4, <4>5, <4>7
    <3>3. wire \in Seq(Signs)
      <4> DEFINE m == Len(Body(job)) - job.cut
      <4>1. Body(job) \in Seq(Signs) /\ m \in Int /\ m <= Len(Body(job))
        BY <1>1, <3>2
      <4>2. wire = SubSeq(Body(job), 1, m)
        BY <3>1 DEF Arriving
      <4> HIDE DEF m
      <4>3. QED BY <1>2, <4>1, <4>2
    <3>4. QED BY <2>1, <3>1, <3>3 DEF PhasesOf
  <2>2. CASE job.is = "get"
    <3> DEFINE e == Encoded(job.name)
               S == {PathMax, Len(e)}
    <3>1. wire = SubSeq(e, 1, Min(S)) /\ phase = "decode"
        BY <2>2 DEF WireInit, Start
    <3>2. e \in Seq(Signs) /\ Len(e) \in Nat /\ PathMax \in Nat
        BY <1>1, ClientTexts, SizesAssumption
    <3>3. \E x \in S : \A y \in S : x <= y
        BY <3>2
    <3>4. Min(S) \in S /\ \A y \in S : Min(S) <= y
      <4> HIDE DEF S
      <4>1. QED BY <3>3 DEF Min
    <3>5. Min(S) \in Int /\ Min(S) <= Len(e)
        BY <3>2, <3>4
    <3> DEFINE m == Min(S)
    <3> HIDE DEF e, S
    <3>6. m \in Int /\ m <= Len(e) /\ wire = SubSeq(e, 1, m) /\ e \in Seq(Signs)
        BY <3>1, <3>2, <3>5
    <3> HIDE DEF m
    <3>7. wire \in Seq(Signs)
        BY <1>2, <3>6
    <3>8. QED BY <2>2, <3>1, <3>7 DEF PhasesOf
  <2>3. CASE job.is = "list"
    <3>1. wire = <<>> /\ phase = "list"
        BY <2>3 DEF WireInit, Start
    <3>2. QED BY <2>3, <3>1 DEF PhasesOf
  <2>4. QED BY <1>1, <2>1, <2>2, <2>3
<1>4. pos = 1 /\ field \in Keys /\ name = <<>> /\ out = <<>> /\ listed = <<>> /\ size = 1
    BY DEF WireInit, Keys
<1>5. phase # "ok" /\ phase \in {"find", "decode", "list"}
    BY <1>1 DEF WireInit, Start
<1>6. WireTypeOK
  <2>1. <<>> \in Seq(Signs) /\ <<>> \in Seq(Seq(Chars))
    OBVIOUS
  <2>2. QED BY <1>3, <1>4, <1>5, <2>1 DEF WireTypeOK
<1>7. IsString(out) /\ \A k \in 1..Len(listed) : FALSE
    BY <1>4, EmptyString
<1>8. QED BY <1>1, <1>3, <1>4, <1>5, <1>6, <1>7 DEF JsonInv

-----------------------------------------------------------------------------
(* Each action keeps it. *)

LEMMA BodyKeeps ==
    ASSUME JsonInv, FindKey \/ ReadValue \/ BreakOff \/ EndValue
    PROVE  JsonInv'
<1>1. /\ job.is \in {"post", "upload"} /\ phase \in {"find", "value"}
      /\ UNCHANGED <<job, wire, listed, size>> /\ listed = <<>>
  <2>1. phase \in {"find", "value"} /\ UNCHANGED <<job, wire, listed, size>>
    BY DEF FindKey, ReadValue, BreakOff, EndValue
  <2>2. job.is \in {"post", "upload"}
    BY <2>1 DEF JsonInv, PhasesOf
  <2>3. QED BY <2>1, <2>2 DEF JsonInv
<1>2. /\ wire \in Seq(Signs) /\ pos \in Nat \ {0} /\ field \in Keys /\ name \in Seq(Signs)
      /\ out \in Seq(Signs) /\ listed \in Seq(Seq(Chars)) /\ size \in Nat
    BY DEF JsonInv, WireTypeOK
<1>3. /\ pos' \in Nat \ {0} /\ field' \in Keys /\ name' \in Seq(Signs) /\ out' \in Seq(Signs)
      /\ phase' \in PhasesOf(job.is)
      /\ ~(job.is = "upload" /\ phase' = "ok")
  <2>1. CASE FindKey
    <3> DEFINE S == {k \in DOMAIN wire : <<At(k), At(k + 1), At(k + 2)>> = <<"quote", field, "quote">>}
    <3>1. S \in SUBSET Nat
      <4>1. DOMAIN wire \in SUBSET Nat
        BY <1>2
      <4>2. QED BY <4>1
    <3>2. /\ \/ S # {} /\ pos' = Min(S) + 5
             \/ pos' = pos
          /\ phase' \in {"value", "refused"}
          /\ out' = <<>> /\ UNCHANGED <<field, name>>
        BY <2>1 DEF FindKey
    <3> HIDE DEF S
    <3>3. ASSUME S # {} PROVE Min(S) \in Nat
      <4>1. \E x \in S : \A y \in S : x <= y
        BY <3>1, <3>3, LeastOf
      <4>2. QED BY <3>1, <4>1 DEF Min
    <3>4. pos' \in Nat \ {0}
        BY <1>2, <3>2, <3>3
    <3>5. <<>> \in Seq(Signs)
        OBVIOUS
    <3>6. QED BY <1>1, <1>2, <3>2, <3>4, <3>5 DEF PhasesOf
  <2>2. CASE ReadValue
    <3>1. UNCHANGED <<field, name, phase>> /\ phase = "value"
        BY <2>2 DEF ReadValue
    <3>2. CASE At(pos) \notin {"quote", "backslash", "end"} /\ out' = Append(out, At(pos)) /\ pos' = pos + 1
      <4>1. At(pos) \in Signs
        BY <3>2, AtFacts
      <4>2. out' \in Seq(Signs)
        BY <1>2, <3>2, <4>1
      <4>3. QED BY <1>1, <1>2, <3>1, <3>2, <4>2 DEF PhasesOf
    <3>3. CASE /\ At(pos) = "backslash" /\ At(pos + 1) # "end"
               /\ out' = out \o Unescaped(At(pos + 1))
               /\ pos' = IF At(pos + 1) = "u" /\ At(pos + 5) # "end" THEN pos + 6 ELSE pos + 2
      <4>1. At(pos + 1) \in Signs
        BY <3>3, AtFacts
      <4> DEFINE c == At(pos + 1)
                 u == Unescaped(c)
      <4>2. u \in Seq(Signs)
        <5>1. {"nl", "bs"} \subseteq Signs
            BY DEF Signs, Chars, Control
        <5>2. u \in {<<"nl">>, <<"bs">>, <<>>, <<c>>}
            BY DEF Unescaped
        <5>3. <<"nl">> \in Seq(Signs) /\ <<"bs">> \in Seq(Signs) /\ <<>> \in Seq(Signs) /\ <<c>> \in Seq(Signs)
            BY <4>1, <5>1
        <5>4. QED BY <5>2, <5>3
      <4>3. out' \in Seq(Signs)
        <5>1. out' = out \o u
            BY <3>3
        <5> HIDE DEF u
        <5>2. QED BY <1>2, <4>2, <5>1
      <4>4. pos' \in Nat \ {0}
        BY <1>2, <3>3
      <4>5. QED BY <1>1, <1>2, <3>1, <4>3, <4>4 DEF PhasesOf
    <3>4. QED BY <2>2, <3>2, <3>3 DEF ReadValue
  <2>3. CASE BreakOff
    <3>1. UNCHANGED <<pos, field, name, out>> /\ phase' = "refused"
        BY <2>3 DEF BreakOff
    <3>2. QED BY <1>1, <1>2, <3>1 DEF PhasesOf
  <2>4. CASE EndValue
    <3>1. /\ UNCHANGED <<pos, out>>
          /\ \/ name' = out /\ field' = "content" /\ phase' = "find"
             \/ UNCHANGED <<field, name>> /\ phase' = IF job.is = "upload" THEN "resolve" ELSE "ok"
        BY <2>4 DEF EndValue
    <3>2. QED BY <1>1, <1>2, <3>1 DEF PhasesOf, Keys
  <2>5. QED BY <2>1, <2>2, <2>3, <2>4
<1>4. phase' \in {"find", "value", "resolve", "ok", "refused"}
    BY <1>1, <1>3 DEF PhasesOf
<1>5. WireTypeOK'
    BY <1>1, <1>2, <1>3, <1>4 DEF WireTypeOK
<1>6. QED BY <1>1, <1>3, <1>5 DEF JsonInv

\* What stands behind the last slash or backslash has none.
LEMMA BaseFacts ==
    ASSUME NEW n \in Seq(Signs)
    PROVE  /\ Base(n) \in Seq(Signs)
           /\ \A k \in 1..Len(Base(n)) : Base(n)[k] \notin {"slash", "backslash"}
<1> DEFINE cuts == {k \in DOMAIN n : n[k] \in {"slash", "backslash"}}
<1>1. DOMAIN n = 1..Len(n) /\ Len(n) \in Nat
    OBVIOUS
<1>2. CASE cuts = {}
  <2>1. Base(n) = n
    BY <1>2 DEF Base
  <2>2. QED BY <1>1, <1>2, <2>1
<1>3. CASE cuts # {}
  <2>1. cuts \in SUBSET Nat /\ \A k \in cuts : k <= Len(n)
    BY <1>1
  <2>2. Max(cuts) \in cuts /\ \A k \in cuts : k <= Max(cuts)
    <3> DEFINE back == {Len(n) - k : k \in cuts}
    <3>1. back \in SUBSET Nat /\ back # {}
        BY <1>1, <1>3, <2>1
    <3>2. \E m \in cuts : \A k \in cuts : k <= m
      <4>1. \E b \in back : \A c \in back : b <= c
        <5> HIDE DEF back
        <5>1. QED BY <3>1, LeastOf
      <4>2. PICK b \in back : \A c \in back : b <= c
        BY <4>1
      <4>3. PICK m \in cuts : b = Len(n) - m
        BY <4>2
      <4>4. \A k \in cuts : Len(n) - m <= Len(n) - k
        BY <4>2, <4>3
      <4>5. \A k \in cuts : k <= m
        BY <1>1, <2>1, <4>4
      <4>6. QED BY <4>5
    <3> HIDE DEF cuts
    <3>3. QED BY <3>2 DEF Max
  <2> DEFINE m == Max(cuts)
             b == SubSeq(n, m + 1, Len(n))
  <2>3. Base(n) = b
    BY <1>3 DEF Base
  <2>4. m \in 1..Len(n) /\ \A k \in cuts : k <= m
    BY <1>1, <2>2
  <2>5. \A k \in (m + 1)..Len(n) : n[k] \notin {"slash", "backslash"}
    <3>1. SUFFICES ASSUME NEW k \in (m + 1)..Len(n), n[k] \in {"slash", "backslash"}
                   PROVE  FALSE
        OBVIOUS
    <3> HIDE DEF m
    <3>2. k \in 1..Len(n) /\ ~(k <= m)
        BY <1>1, <2>4
    <3>3. k \in cuts
        BY <1>1, <3>1, <3>2
    <3> HIDE DEF cuts
    <3>4. QED BY <2>4, <3>2, <3>3
  <2> HIDE DEF m
  <2>6. b \in Seq(Signs)
    BY <1>1, <2>4
  <2>7. Len(b) = Len(n) - m
    <3>1. Len(b) = IF m + 1 <= Len(n) THEN Len(n) - (m + 1) + 1 ELSE 0
        BY <1>1, <2>4
    <3> DEFINE l == Len(n)
    <3>2. l \in Nat /\ m \in 1..l
        BY <1>1, <2>4
    <3> HIDE DEF b, l
    <3>3. (IF m + 1 <= l THEN l - (m + 1) + 1 ELSE 0) = l - m
        BY <3>2
    <3>4. QED BY <3>1, <3>3 DEF l
  <2>8. \A k \in 1..(Len(n) - m) : b[k] = n[m + k]
    BY <1>1, <2>4
  <2> HIDE DEF b
  <2>9. ASSUME NEW k \in 1..Len(b) PROVE b[k] \notin {"slash", "backslash"}
    <3>1. k \in 1..(Len(n) - m) /\ m + k \in (m + 1)..Len(n)
        BY <1>1, <2>4, <2>7
    <3>2. QED BY <2>5, <2>8, <3>1
  <2>10. QED BY <2>3, <2>6, <2>9
<1>4. QED BY <1>2, <1>3

LEMMA NameKeeps ==
    ASSUME JsonInv, DecodeChar \/ DecodeEnds \/ SaveUpload \/ OpenFile \/ RefuseFile
    PROVE  JsonInv'
<1>1. /\ job.is \in {"upload", "get"} /\ phase \in {"decode", "resolve"}
      /\ UNCHANGED <<job, field, out, listed, size>> /\ listed = <<>>
  <2>1. phase \in {"decode", "resolve"} /\ UNCHANGED <<job, field, out, listed, size>>
    BY DEF DecodeChar, DecodeEnds, SaveUpload, OpenFile, RefuseFile
  <2>2. job.is \in {"upload", "get"}
    BY <2>1 DEF JsonInv, PhasesOf
  <2>3. QED BY <2>1, <2>2 DEF JsonInv
<1>2. /\ wire \in Seq(Signs) /\ pos \in Nat \ {0} /\ field \in Keys /\ name \in Seq(Signs)
      /\ out \in Seq(Signs) /\ listed \in Seq(Seq(Chars)) /\ size \in Nat
      /\ Files(job)
    BY DEF JsonInv, WireTypeOK
<1>3. /\ wire' \in Seq(Signs) /\ pos' \in Nat \ {0} /\ name' \in Seq(Signs)
      /\ phase' \in PhasesOf(job.is)
      /\ job.is = "upload" /\ phase' = "ok" =>
             \A k \in 1..Len(name') : name'[k] \notin {"slash", "backslash"}
  <2>1. CASE DecodeChar
    <3> DEFINE coded == At(pos) = "pct" /\ At(pos + 1) = "hex" /\ At(pos + 2) # "end"
               c == IF coded THEN At(pos + 2) ELSE At(pos)
    <3>1. /\ At(pos) # "end" /\ name' = Append(name, c) /\ phase = "decode"
          /\ pos' \in {pos + 3, pos + 1} /\ UNCHANGED <<wire, phase>>
        BY <2>1 DEF DecodeChar
    <3>2. c \in Signs
        BY <3>1, AtFacts
    <3> HIDE DEF c
    <3>3. name' \in Seq(Signs)
        BY <1>2, <3>1, <3>2
    <3>4. QED BY <1>1, <1>2, <3>1, <3>3 DEF JsonInv
  <2>2. CASE DecodeEnds
    <3>1. phase = "decode" /\ phase' = "resolve" /\ UNCHANGED <<wire, pos, name>>
        BY <2>2 DEF DecodeEnds
    <3>2. job.is = "get"
        BY <1>1, <3>1 DEF JsonInv, PhasesOf
    <3>3. QED BY <1>2, <3>1, <3>2 DEF PhasesOf
  <2>3. CASE SaveUpload
    <3>1. /\ job.is = "upload" /\ name' = Base(name) /\ phase' \in {"ok", "refused"}
          /\ UNCHANGED <<wire, pos>>
        BY <2>3 DEF SaveUpload
    <3>2. Base(name) \in Seq(Signs) /\ \A k \in 1..Len(Base(name)) : Base(name)[k] \notin {"slash", "backslash"}
        BY <1>2, BaseFacts
    <3>3. phase' \in PhasesOf(job.is)
        BY <3>1 DEF PhasesOf
    <3>4. QED BY <1>2, <3>1, <3>2, <3>3
  <2>4. CASE OpenFile
    <3> DEFINE target == IF name = <<>> THEN job.active ELSE name
               text == IF target \in DOMAIN job.disk THEN job.disk[target] ELSE <<>>
    <3>1. job.is = "get" /\ name' = target /\ wire' = text /\ pos' = 1 /\ phase' = "escape"
        BY <2>4 DEF OpenFile
    <3>2. \A t \in Seq(Chars) : t \in Seq(Signs)
        <4>1. \A x \in Chars : x \in Signs
            BY DEF Signs
        <4>2. QED BY <4>1
    <3>3. target \in Seq(Signs)
        BY <1>2, <3>2 DEF Files
    <3>4. text \in Seq(Chars)
        <4>1. <<>> \in Seq(Chars)
            OBVIOUS
        <4>2. QED BY <1>2, <4>1, Zenon DEF Files
    <3> HIDE DEF target, text
    <3>5. phase' \in PhasesOf(job.is)
        BY <3>1 DEF PhasesOf
    <3>6. QED BY <3>1, <3>2, <3>3, <3>4, <3>5
  <2>5. CASE RefuseFile
    <3>1. job.is = "get" /\ phase' = "refused" /\ UNCHANGED <<wire, pos, name>>
        BY <2>5 DEF RefuseFile
    <3>2. QED BY <1>2, <3>1 DEF PhasesOf
  <2>6. QED BY <2>1, <2>2, <2>3, <2>4, <2>5
<1>4. phase' \in {"find", "value", "resolve", "decode", "escape", "ok", "refused"}
    BY <1>1, <1>3 DEF PhasesOf
<1>5. WireTypeOK'
    BY <1>1, <1>2, <1>3, <1>4 DEF WireTypeOK
<1>6. IsString(out') \/ job.is = "upload"
    BY <1>1 DEF JsonInv
<1>7. QED BY <1>1, <1>3, <1>5, <1>6 DEF JsonInv

LEMMA EscapeKeeps ==
    ASSUME JsonInv, EscapeChar \/ EscapeEnds
    PROVE  JsonInv'
<1>1. /\ job.is = "get" /\ phase = "escape"
      /\ UNCHANGED <<job, wire, field, name, listed, size>> /\ listed = <<>>
  <2>1. phase = "escape" /\ UNCHANGED <<job, wire, field, name, listed, size>>
    BY DEF EscapeChar, EscapeEnds
  <2>2. job.is = "get"
    BY <2>1 DEF JsonInv, PhasesOf
  <2>3. QED BY <2>1, <2>2 DEF JsonInv
<1>2. /\ wire \in Seq(Signs) /\ pos \in Nat \ {0} /\ field \in Keys /\ name \in Seq(Signs)
      /\ out \in Seq(Signs) /\ listed \in Seq(Seq(Chars)) /\ size \in Nat
      /\ IsString(out)
    BY <1>1 DEF JsonInv, WireTypeOK
<1>3. pos' \in Nat \ {0} /\ out' \in Seq(Signs) /\ IsString(out') /\ phase' \in {"escape", "ok"}
  <2>1. CASE EscapeChar
    <3> DEFINE e == Escape(At(pos))
               t == out \o e
    <3>1. At(pos) # "end" /\ out' = t /\ pos' = pos + 1 /\ phase' = "escape"
        BY <1>1, <2>1 DEF EscapeChar
    <3>2. At(pos) \in Signs
        BY <3>1, AtFacts
    <3>3. e \in Seq(Signs)
        BY <3>2, EscapeText
    <3>4. IsString(t)
        BY <1>2, StringGrows
    <3> HIDE DEF e
    <3>5. t \in Seq(Signs)
        BY <1>2, <3>3
    <3> HIDE DEF t
    <3>6. QED BY <1>2, <3>1, <3>4, <3>5
  <2>2. CASE EscapeEnds
    <3>1. UNCHANGED <<pos, out>> /\ phase' = "ok"
        BY <2>2 DEF EscapeEnds
    <3>2. QED BY <1>2, <3>1
  <2>3. QED BY <2>1, <2>2
<1>4. phase' \in PhasesOf(job.is)
    BY <1>1, <1>3 DEF PhasesOf
<1>5. WireTypeOK'
    BY <1>1, <1>2, <1>3 DEF WireTypeOK
<1>6. QED BY <1>1, <1>3, <1>4, <1>5 DEF JsonInv

LEMMA ListKeeps ==
    ASSUME JsonInv, ListFile \/ ListEnds
    PROVE  JsonInv'
<1>1. job.is = "list" /\ phase = "list" /\ UNCHANGED <<job, wire, field, name, out>>
  <2>1. phase = "list" /\ UNCHANGED <<job, wire, field, name, out>>
    BY DEF ListFile, ListEnds
  <2>2. QED BY <2>1 DEF JsonInv, PhasesOf
<1>2. /\ wire \in Seq(Signs) /\ pos \in Nat \ {0} /\ field \in Keys /\ name \in Seq(Signs)
      /\ out \in Seq(Signs) /\ listed \in Seq(Seq(Chars)) /\ size \in Nat
      /\ job.names \in Seq(Seq(Chars)) /\ IsString(out)
      /\ \A k \in 1..Len(listed) : IsString(listed[k])
    BY <1>1 DEF JsonInv, WireTypeOK
<1>3. /\ pos' \in Nat \ {0} /\ listed' \in Seq(Seq(Chars)) /\ size' \in Nat
      /\ phase' \in {"list", "ok"}
      /\ \A k \in 1..Len(listed') : IsString(listed'[k])
      /\ listed' # <<>> /\ phase' = "ok" => size' + 2 <= ListMax
  <2>1. CASE ListFile
    <3> DEFINE file == job.names[pos]
               e == Each(Escape, file)
    <3>1. /\ MoreFiles /\ pos' = pos + 1 /\ phase' = "list"
          /\ \/ listed' = Append(listed, e) /\ size' = size + Entry(file)
             \/ UNCHANGED <<listed, size>>
        BY <1>1, <2>1 DEF ListFile
    <3>2. file \in Seq(Chars)
        BY <1>2, <3>1 DEF MoreFiles
    <3>3. e \in Seq(Chars) /\ IsString(e)
        BY <3>2, EachEscape
    <3>4. Entry(file) \in Nat
      <4>1. Entry(file) = EntrySize + Len(e) + (IF listed = <<>> THEN 0 ELSE 1)
        BY DEF Entry
      <4>2. Len(e) \in Nat /\ EntrySize \in Nat
        BY <3>3, SizesAssumption
      <4>3. QED BY <4>1, <4>2
    <3> HIDE DEF e
    <3>5. CASE listed' = Append(listed, e) /\ size' = size + Entry(file)
      <4>1. /\ Append(listed, e) \in Seq(Seq(Chars)) /\ Len(Append(listed, e)) = Len(listed) + 1
            /\ Append(listed, e)[Len(listed) + 1] = e
            /\ \A k \in 1..Len(listed) : Append(listed, e)[k] = listed[k]
        BY <1>2, <3>3, Appending
      <4>2. Len(listed) \in Nat
        BY <1>2
      <4>3. ASSUME NEW k \in 1..Len(listed') PROVE IsString(listed'[k])
        <5>1. k \in 1..Len(listed) \/ k = Len(listed) + 1
            BY <3>5, <4>1, <4>2
        <5>2. CASE k \in 1..Len(listed)
          <6>1. listed'[k] = listed[k]
            BY <3>5, <4>1, <5>2
          <6>2. QED BY <1>2, <5>2, <6>1
        <5>3. CASE k = Len(listed) + 1
          <6>1. listed'[k] = e
            BY <3>5, <4>1, <5>3
          <6>2. QED BY <3>3, <6>1
        <5>4. QED BY <5>1, <5>2, <5>3
      <4>4. QED BY <1>2, <3>1, <3>4, <3>5, <4>1, <4>3, SMTT(30)
    <3>6. CASE UNCHANGED <<listed, size>>
        BY <1>2, <3>1, <3>6
    <3>7. QED BY <3>1, <3>5, <3>6
  <2>2. CASE ListEnds
    <3>1. /\ UNCHANGED <<pos, size>> /\ phase' = "ok"
          /\ listed' = IF size < ListMax - 2 THEN listed ELSE <<>>
        BY <2>2 DEF ListEnds
    <3>2. ListMax \in Nat /\ <<>> \in Seq(Seq(Chars)) /\ \A k \in 1..Len(<<>>) : FALSE
        BY SizesAssumption
    <3>3. QED BY <1>2, <3>1, <3>2
  <2>3. QED BY <2>1, <2>2
<1>4. phase' \in PhasesOf(job.is)
    BY <1>1, <1>3 DEF PhasesOf
<1>5. WireTypeOK'
    BY <1>1, <1>2, <1>3 DEF WireTypeOK
<1>6. QED BY <1>1, <1>2, <1>3, <1>4, <1>5 DEF JsonInv

LEMMA WireStep == JsonInv /\ [WireNext]_wires => JsonInv'
<1>1. CASE UNCHANGED wires
  <2>1. UNCHANGED <<job, wire, pos, field, name, out, listed, size, phase>>
    BY <1>1 DEF wires
  <2>2. QED BY <2>1 DEF JsonInv, WireTypeOK
<1>2. QED BY <1>1, BodyKeeps, NameKeeps, EscapeKeeps, ListKeeps DEF WireNext

\* What JsonInv says of the end is what AnswerIsJson asks for.
LEMMA AnswersRight == JsonInv => AnswerIsJson
<1> SUFFICES ASSUME JsonInv, phase = "ok"
             PROVE  /\ IsString(out) \/ job.is \in {"post", "upload"}
                    /\ job.is = "upload" /\ Range(name) \cap (Control \cup {"quote"}) = {} => IsString(name)
                    /\ \A k \in DOMAIN listed : IsString(listed[k])
                    /\ listed # <<>> => size + 2 <= ListMax
    BY DEF AnswerIsJson
<1>1. ASSUME job.is = "upload", Range(name) \cap (Control \cup {"quote"}) = {}
      PROVE  IsString(name)
  <2>1. name \in Seq(Signs) /\ DOMAIN name = 1..Len(name)
    BY DEF JsonInv, WireTypeOK
  <2>2. ASSUME NEW k \in 1..Len(name) PROVE name[k] \notin Control \cup {"quote", "backslash"}
    <3>1. name[k] \in Range(name)
        BY <2>1 DEF Range
    <3>2. name[k] # "backslash"
        BY <1>1 DEF JsonInv
    <3>3. QED BY <1>1, <3>1, <3>2
  <2>3. QED BY <2>1, <2>2, PlainIsString
<1>2. DOMAIN listed = 1..Len(listed)
    BY DEF JsonInv, WireTypeOK
<1>3. QED BY <1>1, <1>2 DEF JsonInv

-----------------------------------------------------------------------------
(***************************************************************************)
(* What a text is written as, and read back from.                          *)
(***************************************************************************)
\* What the first pieces of a text are together.
Pieces(f, ss) ==
    /\ f \in [0..Len(ss) -> Seq(Signs)]
    /\ f[0] = <<>> /\ f[Len(ss)] = FlattenSeq(ss)
    /\ \A k \in 1..Len(ss) : f[k] = f[k - 1] \o ss[k]

LEMMA UptoPieces ==
    ASSUME NEW ss \in Seq(Seq(Signs))
    PROVE  Pieces(Upto(ss), ss)
BY UptoBuilt DEF Pieces

\* Where the pieces stand.
LEMMA UptoFacts ==
    ASSUME NEW ss \in Seq(Seq(Signs))
    PROVE  LET f == Upto(ss)
               n == Len(ss)
           IN  /\ n \in Nat /\ f[0] = <<>> /\ f[n] = FlattenSeq(ss)
               /\ \A k \in 0..n : f[k] \in Seq(Signs) /\ Len(f[k]) \in Nat
               /\ \A k \in 1..n : /\ f[k] = f[k - 1] \o ss[k] /\ ss[k] \in Seq(Signs)
                                  /\ Len(ss[k]) \in Nat /\ Len(f[k]) = Len(f[k - 1]) + Len(ss[k])
               /\ \A j \in 0..n : \A k \in 0..j : /\ Len(f[k]) <= Len(f[j])
                                                  /\ \A m \in 1..Len(f[k]) : f[j][m] = f[k][m]
               /\ \A k \in 1..n : \A m \in 1..Len(ss[k]) : f[n][Len(f[k - 1]) + m] = ss[k][m]
<1> DEFINE f == Upto(ss)
           n == Len(ss)
<1>1. /\ f \in [0..n -> Seq(Signs)] /\ f[0] = <<>> /\ f[n] = FlattenSeq(ss)
      /\ \A k \in 1..n : f[k] = f[k - 1] \o ss[k]
    BY UptoPieces DEF Pieces
<1>2. n \in Nat /\ \A k \in 1..n : ss[k] \in Seq(Signs)
    BY SeqFacts
<1> HIDE DEF f, n
<1>3. \A k \in 0..n : f[k] \in Seq(Signs) /\ Len(f[k]) \in Nat
    BY <1>1
<1>4. ASSUME NEW k \in 1..n
      PROVE  /\ f[k] = f[k - 1] \o ss[k] /\ ss[k] \in Seq(Signs) /\ Len(ss[k]) \in Nat
             /\ Len(f[k]) = Len(f[k - 1]) + Len(ss[k])
             /\ \A m \in 1..Len(f[k - 1]) : f[k][m] = f[k - 1][m]
             /\ \A m \in 1..Len(ss[k]) : f[k][Len(f[k - 1]) + m] = ss[k][m]
  <2> DEFINE a == f[k - 1]
             b == ss[k]
  <2>1. k - 1 \in 0..n
    BY <1>2
  <2>2. f[k] = a \o b /\ a \in Seq(Signs) /\ b \in Seq(Signs)
    BY <1>1, <1>2, <1>3, <2>1
  <2> HIDE DEF a, b
  <2>3. /\ Len(b) \in Nat /\ Len(f[k]) = Len(a) + Len(b)
        /\ \A m \in 1..Len(a) : f[k][m] = a[m]
        /\ \A m \in 1..Len(b) : f[k][Len(a) + m] = b[m]
    BY <2>2, Joining
  <2>4. QED BY <2>2, <2>3 DEF a, b
<1>5. ASSUME NEW k \in 0..n
      PROVE  \A j \in k..n : Len(f[k]) <= Len(f[j]) /\ \A m \in 1..Len(f[k]) : f[j][m] = f[k][m]
  <2> DEFINE d == n - k
             S == {x \in 0..d : /\ Len(f[k]) <= Len(f[k + x])
                                /\ \A m \in 1..Len(f[k]) : f[k + x][m] = f[k][m]}
  <2>1. d \in Nat
    BY <1>2
  <2>2. 0 \in S
    BY <1>2, <1>3, <2>1
  <2>3. \A x \in 1..d : x - 1 \in S => x \in S
    <3>1. SUFFICES ASSUME NEW x \in 1..d, x - 1 \in S PROVE x \in S
        OBVIOUS
    <3> DEFINE h == k + x
               xs == f[k]
               ys == f[h - 1]
               zs == f[h]
    <3>2. h \in 1..n /\ h - 1 = k + (x - 1) /\ h - 1 \in 0..n /\ h \in 0..n
        BY <1>2, <2>1
    <3>3. /\ Len(f[k]) <= Len(f[k + (x - 1)])
          /\ \A m \in 1..Len(f[k]) : f[k + (x - 1)][m] = f[k][m]
        BY <3>1
    <3> HIDE DEF h
    <3>3a. /\ Len(xs) \in Nat /\ Len(ys) \in Nat /\ Len(zs) \in Nat
        BY <1>3, <3>2
    <3>3b. Len(xs) <= Len(ys) /\ \A m \in 1..Len(xs) : ys[m] = xs[m]
        BY <3>2, <3>3
    <3>4. /\ Len(zs) = Len(ys) + Len(ss[h]) /\ Len(ss[h]) \in Nat
          /\ \A m \in 1..Len(ys) : zs[m] = ys[m]
        BY <1>4, <3>2
    <3> HIDE DEF xs, ys, zs
    <3>5. Len(xs) <= Len(zs) /\ \A m \in 1..Len(xs) : zs[m] = xs[m]
        BY <3>3a, <3>3b, <3>4
    <3>6. x \in 0..d
        BY <2>1
    <3>7. QED BY <3>5, <3>6 DEF xs, zs, h
  <2> HIDE DEF S
  <2>4. \A x \in 0..d : x \in S
    BY <2>1, <2>2, <2>3, Induction
  <2>5. \A j \in k..n : j - k \in 0..d /\ k + (j - k) = j
    BY <1>2
  <2>6. QED BY <2>4, <2>5 DEF S
<1>6. ASSUME NEW k \in 1..n PROVE \A m \in 1..Len(ss[k]) : f[n][Len(f[k - 1]) + m] = ss[k][m]
  <2> DEFINE l == Len(f[k - 1])
             b == ss[k]
  <2>1. k \in 0..n /\ n \in k..n /\ k - 1 \in 0..n
    BY <1>2
  <2>2. l \in Nat /\ Len(b) \in Nat /\ Len(f[k]) = l + Len(b) /\ \A m \in 1..Len(b) : f[k][l + m] = b[m]
    BY <1>3, <1>4, <2>1
  <2>3. \A m \in 1..Len(f[k]) : f[n][m] = f[k][m]
    BY <1>5, <2>1
  <2> HIDE DEF l, b
  <2>4. \A m \in 1..Len(b) : l + m \in 1..Len(f[k])
    BY <2>2
  <2>5. \A m \in 1..Len(b) : f[n][l + m] = b[m]
    BY <2>2, <2>3, <2>4
  <2>6. QED BY <2>5 DEF l, b
<1>7. \A j \in 0..n : \A k \in 0..j : k \in 0..n /\ j \in k..n
    BY <1>2
<1>8. \A j \in 0..n : \A k \in 0..j : /\ Len(f[k]) <= Len(f[j])
                                      /\ \A m \in 1..Len(f[k]) : f[j][m] = f[k][m]
    BY <1>5, <1>7
<1>9. QED BY <1>1, <1>2, <1>3, <1>4, <1>6, <1>8 DEF f, n

\* A path in a query.
Unencoded == {"a", "n", "b", "u", "h", ".md", "dots"} \cup Keys

EncodedAs(c) == IF c \in Unencoded THEN <<c>> ELSE <<"pct", "hex", c>>

Encodes(text) == [k \in DOMAIN text |-> EncodedAs(text[k])]

LEMMA EncodesFacts ==
    ASSUME NEW text \in Seq(Chars)
    PROVE  /\ Encodes(text) \in Seq(Seq(Signs)) /\ Len(Encodes(text)) = Len(text)
           /\ Encoded(text) = FlattenSeq(Encodes(text))
           /\ \A k \in 1..Len(text) : Encodes(text)[k] = EncodedAs(text[k])
<1> DEFINE n == Len(text)
           ss == Encodes(text)
<1>1. n \in Nat /\ DOMAIN text = 1..n /\ \A k \in 1..n : text[k] \in Signs
    BY DEF Signs
<1>2. {"pct", "hex"} \subseteq Signs
    BY DEF Signs
<1>3. \A c \in Signs : EncodedAs(c) \in Seq(Signs)
  <2>1. \A c \in Signs : <<c>> \in Seq(Signs) /\ <<"pct", "hex", c>> \in Seq(Signs)
    BY <1>2
  <2>2. QED BY <2>1 DEF EncodedAs
<1>4. Encoded(text) = FlattenSeq(ss)
    BY DEF Encoded, Each, Encodes, EncodedAs, Unencoded
<1>5. ss = [k \in 1..n |-> EncodedAs(text[k])]
    BY <1>1 DEF Encodes
<1> HIDE DEF ss, n
<1>6. ss \in Seq(Seq(Signs)) /\ Len(ss) = n /\ \A k \in 1..n : ss[k] = EncodedAs(text[k])
    BY <1>1, <1>3, <1>5
<1>7. QED BY <1>4, <1>6 DEF ss, n

\* A text stands behind a place, as far as there is something to read.
Holds(w, off, s) == \A m \in 1..Len(s) : off + m <= Len(w) => w[off + m] = s[m]

\* Where the piece behind the first k begins.
PlaceOf(off, ss, k) == off + Len(Upto(ss)[k]) + 1

NextIs(w, off, ss, k) ==
    LET q == PlaceOf(off, ss, k)
    IN  /\ k = Len(ss) => q = off + Len(FlattenSeq(ss)) + 1
        /\ q <= off + Len(FlattenSeq(ss)) + 1
        /\ k < Len(ss) => /\ PlaceOf(off, ss, k + 1) = q + Len(ss[k + 1])
                          /\ Holds(w, q - 1, ss[k + 1])

\* What is read next.
LEMMA NextPiece ==
    ASSUME NEW w \in Seq(Signs), NEW off \in Nat, NEW ss \in Seq(Seq(Signs)),
           NEW full, full = FlattenSeq(ss), Holds(w, off, full), NEW k \in 0..Len(ss)
    PROVE  /\ PlaceOf(off, ss, k) \in Nat /\ PlaceOf(off, ss, k) >= off + 1
           /\ PlaceOf(off, ss, 0) = off + 1
           /\ NextIs(w, off, ss, k)
<1> DEFINE f == Upto(ss)
           n == Len(ss)
           q == PlaceOf(off, ss, k)
<1>1. /\ n \in Nat /\ f[0] = <<>> /\ f[n] = full /\ Len(f[k]) \in Nat /\ Len(f[n]) \in Nat
      /\ Len(f[k]) <= Len(f[n])
      /\ \A j \in 1..n : /\ Len(f[j]) = Len(f[j - 1]) + Len(ss[j]) /\ Len(ss[j]) \in Nat
                         /\ Len(f[j]) <= Len(f[n])
                         /\ \A m \in 1..Len(ss[j]) : f[n][Len(f[j - 1]) + m] = ss[j][m]
  <2>1. n \in Nat /\ n \in 0..n
    BY SeqFacts
  <2>2. \A j \in 1..n : j \in 0..n
    OBVIOUS
  <2>3. QED BY <2>1, <2>2, UptoFacts
<1>2. q = off + Len(f[k]) + 1 /\ PlaceOf(off, ss, 0) = off + Len(f[0]) + 1
      /\ \A j : PlaceOf(off, ss, j) = off + Len(f[j]) + 1
    BY DEF PlaceOf
<1> HIDE DEF f, q, n
<1>3. q \in Nat /\ q >= off + 1 /\ PlaceOf(off, ss, 0) = off + 1
  <2>1. Len(f[k]) \in Nat /\ Len(f[0]) = 0 /\ q = off + Len(f[k]) + 1
    BY <1>1, <1>2
  <2>2. QED BY <1>2, <2>1
<1>4. ASSUME k < n
      PROVE  /\ PlaceOf(off, ss, k + 1) = q + Len(ss[k + 1])
             /\ Holds(w, q - 1, ss[k + 1])
  <2> DEFINE j == k + 1
             s == ss[j]
  <2>1. j \in 1..n /\ j - 1 = k
    BY <1>1, <1>4 DEF n
  <2> HIDE DEF j
  <2>2. /\ Len(f[j]) = Len(f[k]) + Len(s) /\ Len(s) \in Nat /\ Len(f[j]) <= Len(full)
        /\ \A m \in 1..Len(s) : full[Len(f[k]) + m] = s[m]
    BY <1>1, <2>1
  <2> HIDE DEF s
  <2>3. PlaceOf(off, ss, j) = q + Len(s)
    <3>1. PlaceOf(off, ss, j) = off + Len(f[j]) + 1 /\ q = off + Len(f[k]) + 1
        BY <1>2
    <3>2. Len(f[k]) \in Nat /\ off \in Nat
        BY <1>1
    <3>3. QED BY <2>2, <3>1, <3>2
  <2>4. ASSUME NEW m \in 1..Len(s), (q - 1) + m <= Len(w) PROVE w[(q - 1) + m] = s[m]
    <3> DEFINE l == Len(f[k]) + m
    <3>1. (q - 1) + m = off + l /\ l \in 1..Len(full)
        <4>1. Len(full) \in Nat /\ Len(f[k]) \in Nat /\ q = off + Len(f[k]) + 1
            BY <1>1, <1>2
        <4>2. /\ Len(f[j]) = Len(f[k]) + Len(s) /\ Len(s) \in Nat /\ Len(f[j]) <= Len(full)
              /\ m \in 1..Len(s)
            BY <2>2
        <4>3. l \in 1..Len(full)
            BY <4>1, <4>2
        <4>4. QED BY <4>1, <4>2, <4>3
    <3>2. full[l] = s[m]
        BY <2>2
    <3> HIDE DEF l
    <3>3. w[off + l] = full[l]
        BY <2>4, <3>1 DEF Holds
    <3>4. QED BY <3>1, <3>2, <3>3
  <2>5. Holds(w, q - 1, s)
    BY <2>4 DEF Holds
  <2>6. QED BY <2>3, <2>5 DEF j, s
<1>5. ASSUME k = n PROVE q = off + Len(full) + 1
    BY <1>1, <1>2, <1>5
<1>6. q <= off + Len(full) + 1
    BY <1>1, <1>2
<1>7. QED BY <1>3, <1>4, <1>5, <1>6 DEF NextIs, q, n

\* The character at a place of a text, or its end.
ReadAt(w, k) == IF k \in DOMAIN w THEN w[k] ELSE "end"

LEMMA ReadFacts ==
    ASSUME NEW w \in Seq(Signs), NEW k \in Nat, k >= 1
    PROVE  /\ k <= Len(w) => ReadAt(w, k) = w[k] /\ ReadAt(w, k) # "end" /\ ReadAt(w, k) \in Signs
           /\ k > Len(w) => ReadAt(w, k) = "end"
<1>1. "end" \notin Signs
    BY DEF Signs, Chars, Letters, Control, Keys
<1>2. Len(w) \in Nat /\ DOMAIN w = 1..Len(w) /\ \A j \in 1..Len(w) : w[j] \in Signs
    OBVIOUS
<1>3. QED BY <1>1, <1>2 DEF ReadAt

LEMMA ReadHeld ==
    ASSUME NEW w \in Seq(Signs), NEW q \in Nat, q >= 1, NEW s \in Seq(Signs), Holds(w, q - 1, s),
           NEW m \in 1..Len(s), NEW r, r = (q - 1) + m
    PROVE  ReadAt(w, r) = IF r <= Len(w) THEN s[m] ELSE "end"
<1>1. Len(s) \in Nat /\ Len(w) \in Nat /\ r \in Nat /\ r >= 1
    OBVIOUS
<1>2. r <= Len(w) => w[r] = s[m]
    BY DEF Holds
<1>3. QED BY <1>1, <1>2, ReadFacts

\* The codes of one character and of two or three.
LEMMA ReadOne ==
    ASSUME NEW w \in Seq(Signs), NEW q \in Nat, q >= 1, NEW c \in Signs, Holds(w, q - 1, <<c>>)
    PROVE  ReadAt(w, q) = IF q <= Len(w) THEN c ELSE "end"
<1> DEFINE s == <<c>>
<1>1. s \in Seq(Signs) /\ Len(s) = 1 /\ s[1] = c
    OBVIOUS
<1>2. Holds(w, q - 1, s)
    OBVIOUS
<1> HIDE DEF s
<1>3. 1 \in 1..Len(s) /\ q = (q - 1) + 1
    BY <1>1
<1>4. QED BY <1>1, <1>2, <1>3, ReadHeld

LEMMA ReadTwo ==
    ASSUME NEW w \in Seq(Signs), NEW q \in Nat, q >= 1, NEW c \in Signs, NEW d \in Signs,
           Holds(w, q - 1, <<c, d>>)
    PROVE  /\ ReadAt(w, q) = IF q <= Len(w) THEN c ELSE "end"
           /\ ReadAt(w, q + 1) = IF q + 1 <= Len(w) THEN d ELSE "end"
<1> DEFINE s == <<c, d>>
<1>1. s \in Seq(Signs) /\ Len(s) = 2 /\ s[1] = c /\ s[2] = d
    OBVIOUS
<1>2. Holds(w, q - 1, s)
    OBVIOUS
<1> HIDE DEF s
<1>3. 1 \in 1..Len(s) /\ q = (q - 1) + 1 /\ 2 \in 1..Len(s) /\ q + 1 = (q - 1) + 2
    BY <1>1
<1>4. QED BY <1>1, <1>2, <1>3, ReadHeld

LEMMA ReadThree ==
    ASSUME NEW w \in Seq(Signs), NEW q \in Nat, q >= 1, NEW c \in Signs, NEW d \in Signs,
           NEW e \in Signs, Holds(w, q - 1, <<c, d, e>>)
    PROVE  /\ ReadAt(w, q) = IF q <= Len(w) THEN c ELSE "end"
           /\ ReadAt(w, q + 1) = IF q + 1 <= Len(w) THEN d ELSE "end"
           /\ ReadAt(w, q + 2) = IF q + 2 <= Len(w) THEN e ELSE "end"
<1> DEFINE s == <<c, d, e>>
<1>1. s \in Seq(Signs) /\ Len(s) = 3 /\ s[1] = c /\ s[2] = d /\ s[3] = e
    OBVIOUS
<1>2. Holds(w, q - 1, s)
    OBVIOUS
<1> HIDE DEF s
<1>3. /\ 1 \in 1..Len(s) /\ q = (q - 1) + 1 /\ 2 \in 1..Len(s) /\ q + 1 = (q - 1) + 2
      /\ 3 \in 1..Len(s) /\ q + 2 = (q - 1) + 3
    BY <1>1
<1>4. QED BY <1>1, <1>2, <1>3, ReadHeld

LEMMA EncodedIs ==
    ASSUME NEW c \in Chars
    PROVE  /\ c \in Signs /\ "pct" \in Signs /\ "hex" \in Signs /\ c \notin {"pct", "hex", "end"}
           /\ c \in Unencoded => EncodedAs(c) = <<c>> /\ Len(EncodedAs(c)) = 1
           /\ c \notin Unencoded => EncodedAs(c) = <<"pct", "hex", c>> /\ Len(EncodedAs(c)) = 3
<1>1. c \in Signs /\ "pct" \in Signs /\ "hex" \in Signs
    BY DEF Signs
<1>2. c \notin {"pct", "hex", "end"}
    BY DEF Chars, Letters, Control, Keys
<1>3. c \in Unencoded => EncodedAs(c) = <<c>> /\ Len(EncodedAs(c)) = 1
    BY DEF EncodedAs
<1>4. c \notin Unencoded => EncodedAs(c) = <<"pct", "hex", c>> /\ Len(EncodedAs(c)) = 3
    BY DEF EncodedAs
<1>5. QED BY <1>1, <1>2, <1>3, <1>4

\* What comes next of a path that was read up to a character, as far as it was kept.
LEMMA NextEncoded ==
    ASSUME NEW t \in Seq(Chars), NEW w \in Seq(Signs), NEW full, full = Encoded(t), Holds(w, 0, full),
           NEW k \in 0..Len(t), NEW q, q = PlaceOf(0, Encodes(t), k)
    PROVE  /\ q \in Nat /\ q >= 1 /\ q <= Len(full) + 1
           /\ k = Len(t) => q = Len(full) + 1
           /\ k < Len(t) /\ t[k + 1] \in Unencoded =>
                 /\ PlaceOf(0, Encodes(t), k + 1) = q + 1
                 /\ ReadAt(w, q) = IF q <= Len(w) THEN t[k + 1] ELSE "end"
           /\ k < Len(t) /\ t[k + 1] \notin Unencoded =>
                 /\ PlaceOf(0, Encodes(t), k + 1) = q + 3
                 /\ ReadAt(w, q) = IF q <= Len(w) THEN "pct" ELSE "end"
                 /\ ReadAt(w, q + 1) = IF q + 1 <= Len(w) THEN "hex" ELSE "end"
                 /\ ReadAt(w, q + 2) = IF q + 2 <= Len(w) THEN t[k + 1] ELSE "end"
<1> DEFINE ss == Encodes(t)
           n == Len(t)
<1>1. ss \in Seq(Seq(Signs)) /\ Len(ss) = n /\ full = FlattenSeq(ss) /\ \A j \in 1..n : ss[j] = EncodedAs(t[j])
    BY EncodesFacts
<1>2. q = PlaceOf(0, ss, k) /\ n \in Nat /\ k \in 0..n /\ \A j \in 1..n : t[j] \in Chars
    OBVIOUS
<1> HIDE DEF ss
<1>3. /\ PlaceOf(0, ss, k) \in Nat /\ PlaceOf(0, ss, k) >= 0 + 1
      /\ NextIs(w, 0, ss, k)
  <2>1. 0 \in Nat /\ k \in 0..Len(ss)
    BY <1>1, <1>2
  <2>2. QED BY <1>1, <2>1, NextPiece
<1>4. q \in Nat /\ q >= 1 /\ q <= Len(full) + 1 /\ (k = n => q = Len(full) + 1)
  <2>1. (k = n => q = 0 + Len(full) + 1) /\ q <= 0 + Len(full) + 1
    BY <1>1, <1>2, <1>3 DEF NextIs
  <2>2. Len(full) \in Nat
    BY <1>1, FlatTyped
  <2>3. QED BY <1>2, <1>3, <2>1, <2>2
<1>5. ASSUME k < n
      PROVE  /\ t[k + 1] \in Chars
             /\ PlaceOf(0, ss, k + 1) = q + Len(EncodedAs(t[k + 1])) /\ Holds(w, q - 1, EncodedAs(t[k + 1]))
  <2>1. k + 1 \in 1..n
    BY <1>2, <1>5
  <2>2. QED BY <1>1, <1>2, <1>3, <1>5, <2>1 DEF NextIs
<1> HIDE DEF n
<1>6. ASSUME k < n, t[k + 1] \in Unencoded
      PROVE  PlaceOf(0, ss, k + 1) = q + 1 /\ ReadAt(w, q) = IF q <= Len(w) THEN t[k + 1] ELSE "end"
  <2> DEFINE c == t[k + 1]
  <2>1. c \in Chars /\ PlaceOf(0, ss, k + 1) = q + Len(EncodedAs(c)) /\ Holds(w, q - 1, EncodedAs(c))
    BY <1>5, <1>6
  <2>1a. c \in Unencoded
    BY <1>6
  <2> HIDE DEF c
  <2>2. EncodedAs(c) = <<c>> /\ Len(EncodedAs(c)) = 1 /\ c \in Signs
    BY <2>1, <2>1a, EncodedIs
  <2>3. Holds(w, q - 1, <<c>>)
    BY <2>1, <2>2
  <2>4. ReadAt(w, q) = IF q <= Len(w) THEN c ELSE "end"
    BY <1>4, <2>2, <2>3, ReadOne
  <2>5. QED BY <2>1, <2>2, <2>4 DEF c
<1>7. ASSUME k < n, t[k + 1] \notin Unencoded
      PROVE  /\ PlaceOf(0, ss, k + 1) = q + 3
             /\ ReadAt(w, q) = IF q <= Len(w) THEN "pct" ELSE "end"
             /\ ReadAt(w, q + 1) = IF q + 1 <= Len(w) THEN "hex" ELSE "end"
             /\ ReadAt(w, q + 2) = IF q + 2 <= Len(w) THEN t[k + 1] ELSE "end"
  <2> DEFINE c == t[k + 1]
             a == "pct"
             b == "hex"
  <2>1. c \in Chars /\ PlaceOf(0, ss, k + 1) = q + Len(EncodedAs(c)) /\ Holds(w, q - 1, EncodedAs(c))
    BY <1>5, <1>7
  <2>1a. c \notin Unencoded
    BY <1>7
  <2> HIDE DEF c
  <2>2. EncodedAs(c) = <<a, b, c>> /\ Len(EncodedAs(c)) = 3 /\ c \in Signs /\ a \in Signs /\ b \in Signs
    BY <2>1, <2>1a, EncodedIs
  <2>3. Holds(w, q - 1, <<a, b, c>>)
    BY <2>1, <2>2
  <2> HIDE DEF a, b
  <2>4. /\ ReadAt(w, q) = IF q <= Len(w) THEN a ELSE "end"
        /\ ReadAt(w, q + 1) = IF q + 1 <= Len(w) THEN b ELSE "end"
        /\ ReadAt(w, q + 2) = IF q + 2 <= Len(w) THEN c ELSE "end"
    BY <1>4, <2>2, <2>3, ReadThree
  <2>5. QED BY <2>1, <2>2, <2>4 DEF c, a, b
<1>8. QED BY <1>4, <1>6, <1>7 DEF n, ss

-----------------------------------------------------------------------------
(* What is kept of a text, and what is read back from JSON, grow by a character. *)

Kept(c, dropped) == IF c \in dropped THEN <<>> ELSE <<c>>

LEMMA WithoutGrows ==
    ASSUME NEW s \in Seq(Signs), NEW c \in Signs, NEW D
    PROVE  /\ Without(s, D) \in Seq(Signs)
           /\ Without(Append(s, c), D) = Without(s, D) \o Kept(c, D)
<1> DEFINE Pieced(t) == [k \in DOMAIN t |-> Kept(t[k], D)]
           l == Append(s, c)
           n == Len(s)
<1>1. \A t : Without(t, D) = FlattenSeq(Pieced(t))
    BY DEF Without, Each, Kept
<1>2. \A x \in Signs : Kept(x, D) \in Seq(Signs)
    BY DEF Kept
<1>3. /\ l \in Seq(Signs) /\ Len(l) = n + 1 /\ l[n + 1] = c /\ \A k \in 1..n : l[k] = s[k]
      /\ n \in Nat /\ DOMAIN s = 1..n /\ DOMAIN l = 1..(n + 1)
      /\ \A k \in 1..n : s[k] \in Signs
    BY Appending
<1> HIDE DEF l, n
<1> DEFINE a == Pieced(s)
           b == Pieced(l)
           x == Kept(c, D)
<1>4. a = [k \in 1..n |-> Kept(s[k], D)] /\ b = [k \in 1..(n + 1) |-> Kept(l[k], D)]
    BY <1>3
<1>5. x \in Seq(Signs)
    BY <1>2
<1> HIDE DEF a, b, x, Pieced
<1>6. a \in Seq(Seq(Signs)) /\ Len(a) = n /\ \A k \in 1..n : a[k] = Kept(s[k], D)
    BY <1>2, <1>3, <1>4
<1>7. b \in Seq(Seq(Signs)) /\ Len(b) = n + 1
  <2>1. \A k \in 1..(n + 1) : l[k] \in Signs
    BY <1>3
  <2>2. \A k \in 1..(n + 1) : Kept(l[k], D) \in Seq(Signs)
    BY <1>2, <2>1
  <2>3. QED BY <1>3, <1>4, <2>2
<1>8. b = Append(a, x)
  <2>1. Append(a, x) \in Seq(Seq(Signs)) /\ Len(Append(a, x)) = n + 1
        /\ Append(a, x)[n + 1] = x /\ \A k \in 1..n : Append(a, x)[k] = a[k]
    BY <1>5, <1>6, Appending
  <2>2. \A k \in 1..(n + 1) : b[k] = Kept(l[k], D)
    BY <1>4
  <2>3. n + 1 \in 1..(n + 1) /\ \A k \in 1..(n + 1) : k = n + 1 \/ k \in 1..n
    BY <1>3
  <2>4. b[n + 1] = x
    BY <1>3, <2>2, <2>3 DEF x
  <2>5. \A k \in 1..n : k \in 1..(n + 1) /\ b[k] = Kept(s[k], D)
    BY <1>3, <2>2
  <2> DEFINE e == Append(a, x)
  <2>6. \A k \in 1..(n + 1) : b[k] = e[k]
    BY <1>6, <2>1, <2>3, <2>4, <2>5
  <2> HIDE DEF e
  <2>7. e \in Seq(Seq(Signs)) /\ Len(e) = n + 1
    BY <2>1 DEF e
  <2>8. b = e
    BY <1>3, <1>7, <2>6, <2>7
  <2>9. QED BY <2>8 DEF e
<1>9. FlattenSeq(b) = FlattenSeq(a) \o x
    BY <1>5, <1>6, <1>8, FlatAppend
<1>10. FlattenSeq(a) \in Seq(Signs)
    BY <1>6, FlatTyped
<1>11. QED BY <1>1, <1>9, <1>10 DEF a, b, l, x

\* What JSON.parse takes a character for.
ParsedAs(escaped, c) ==
    IF escaped THEN IF c = "n" THEN <<"nl">> ELSE <<c>>
    ELSE IF c = "backslash" THEN <<>> ELSE <<c>>

LEMMA ParseGrows ==
    ASSUME NEW s \in Seq(Signs), NEW c \in Signs
    PROVE  /\ Parse(s) \in Seq(Signs)
           /\ Parse(Append(s, c)) = Parse(s) \o ParsedAs(Escaped(s, Len(s) + 1), c)
<1> DEFINE Pieced(t) == [k \in DOMAIN t |-> ParsedAs(Escaped(t, k), t[k])]
           l == Append(s, c)
           n == Len(s)
           x == ParsedAs(Escaped(s, Len(s) + 1), c)
<1>1. \A t : Parse(t) = FlattenSeq(Pieced(t))
  <2>1. \A t : \A k : ParsedAs(Escaped(t, k), t[k]) =
            CASE ~Escaped(t, k)                -> IF t[k] = "backslash" THEN <<>> ELSE <<t[k]>>
              [] Escaped(t, k) /\ t[k] = "n"  -> <<"nl">>
              [] Escaped(t, k) /\ t[k] # "n"  -> <<t[k]>>
    BY DEF ParsedAs
  <2>2. QED BY <2>1 DEF Parse
<1>2. \A e, y : y \in Signs => ParsedAs(e, y) \in Seq(Signs)
  <2>1. "nl" \in Signs
    BY DEF Signs, Chars, Control
  <2>2. \A y \in Signs : <<y>> \in Seq(Signs) /\ <<"nl">> \in Seq(Signs) /\ <<>> \in Seq(Signs)
    BY <2>1
  <2>3. QED BY <2>2 DEF ParsedAs
<1>3. /\ l \in Seq(Signs) /\ Len(l) = n + 1 /\ l[n + 1] = c /\ \A k \in 1..n : l[k] = s[k]
      /\ n \in Nat /\ DOMAIN s = 1..n /\ DOMAIN l = 1..(n + 1)
      /\ \A k \in 1..n : s[k] \in Signs
    BY Appending
<1>3a. \A k \in 1..(n + 1) : Escaped(l, k) = Escaped(s, k)
  <2>1. ASSUME NEW k \in 1..(n + 1) PROVE Escaped(l, k) = Escaped(s, k)
    <3>1. k \in Nat /\ \A y \in 1..(k - 1) : l[y] = s[y]
        BY <1>3
    <3> HIDE DEF l
    <3>2. QED BY <3>1, EscapedBefore
  <2>2. QED BY <2>1
<1> HIDE DEF l
<1>3b. x = ParsedAs(Escaped(l, n + 1), c)
    BY <1>3, <1>3a
<1> HIDE DEF n
<1> DEFINE a == Pieced(s)
           b == Pieced(l)
<1>4. /\ a = [k \in 1..n |-> ParsedAs(Escaped(s, k), s[k])]
      /\ b = [k \in 1..(n + 1) |-> ParsedAs(Escaped(l, k), l[k])]
    BY <1>3
<1>5. x \in Seq(Signs)
    BY <1>2
<1> HIDE DEF a, b, x, Pieced
<1>6. a \in Seq(Seq(Signs)) /\ Len(a) = n /\ \A k \in 1..n : a[k] = ParsedAs(Escaped(s, k), s[k])
    BY <1>2, <1>3, <1>4
<1>7. b \in Seq(Seq(Signs)) /\ Len(b) = n + 1
  <2>1. \A k \in 1..(n + 1) : l[k] \in Signs
    BY <1>3
  <2>2. \A k \in 1..(n + 1) : ParsedAs(Escaped(l, k), l[k]) \in Seq(Signs)
    BY <1>2, <2>1
  <2>3. QED BY <1>3, <1>4, <2>2
<1>8. b = Append(a, x)
  <2> DEFINE e == Append(a, x)
  <2>1. /\ e \in Seq(Seq(Signs)) /\ Len(e) = n + 1
        /\ e[n + 1] = x /\ \A k \in 1..n : e[k] = a[k]
    BY <1>5, <1>6, Appending
  <2> HIDE DEF e
  <2>2. \A k \in 1..(n + 1) : b[k] = ParsedAs(Escaped(l, k), l[k])
    BY <1>4
  <2>3. n + 1 \in 1..(n + 1) /\ \A k \in 1..(n + 1) : k = n + 1 \/ k \in 1..n
    BY <1>3
  <2>4. b[n + 1] = x
    BY <1>3, <1>3b, <2>2, <2>3
  <2>5. \A k \in 1..n : k \in 1..(n + 1) /\ b[k] = ParsedAs(Escaped(s, k), s[k])
    BY <1>3, <1>3a, <2>2
  <2>6. \A k \in 1..(n + 1) : b[k] = e[k]
    BY <1>6, <2>1, <2>3, <2>4, <2>5
  <2>7. b = e
    BY <1>3, <1>7, <2>1, <2>6
  <2>8. QED BY <2>7 DEF e
<1>9. FlattenSeq(b) = FlattenSeq(a) \o x
    BY <1>5, <1>6, <1>8, FlatAppend
<1>10. FlattenSeq(a) \in Seq(Signs)
    BY <1>6, FlatTyped
<1>11. QED BY <1>1, <1>9, <1>10 DEF a, b, l, x

\* What the server shows is what JSON.parse reads out of it again.
LEMMA ParseEscape ==
    ASSUME NEW s \in Seq(Signs), ~Escaped(s, Len(s) + 1), NEW c \in Signs
    PROVE  Parse(s \o Escape(c)) = Parse(s) \o Kept(c, {"bs", "ctl"})
<1> DEFINE n == Len(s)
           b == "backslash"
           t == Append(s, b)
<1>1. /\ b \in Signs /\ "n" \in Signs /\ n \in Nat
      /\ t \in Seq(Signs) /\ Len(t) = n + 1 /\ t[n + 1] = b /\ \A k \in 1..n : t[k] = s[k]
  <2>1. b \in Signs /\ "n" \in Signs
    BY DEF Signs, Chars, Letters
  <2>2. QED BY <2>1, Appending
<1>2. Parse(s) \in Seq(Signs) /\ Parse(t) = Parse(s)
  <2>1. Parse(s) \in Seq(Signs)
    BY <1>1, ParseGrows
  <2>2. Parse(t) = Parse(s) \o ParsedAs(Escaped(s, Len(s) + 1), b)
    BY <1>1, ParseGrows
  <2>3. ParsedAs(Escaped(s, Len(s) + 1), b) = <<>>
    BY DEF ParsedAs
  <2>4. QED BY <2>1, <2>2, <2>3
<1> HIDE DEF t
<1>3. Escaped(t, Len(t) + 1)
  <2>1. Escaped(t, n + 1) = Escaped(s, n + 1)
    <3>1. n + 1 \in Nat /\ \A x \in 1..((n + 1) - 1) : t[x] = s[x]
        BY <1>1
    <3> HIDE DEF n
    <3>2. QED BY <3>1, EscapedBefore
  <2>2. n + 1 \in 1..(Len(t) + 1) /\ n + 1 <= Len(t)
    BY <1>1
  <2>3. Escaped(t, (n + 1) + 1) <=> t[n + 1] = "backslash" /\ ~Escaped(t, n + 1)
    BY <1>1, <2>2, EscapedFacts
  <2>4. QED BY <1>1, <2>1, <2>3
<1>4. \A x \in Signs : Parse(s \o <<b, x>>) = Parse(s) \o ParsedAs(TRUE, x)
  <2>1. SUFFICES ASSUME NEW x \in Signs PROVE Parse(s \o <<b, x>>) = Parse(s) \o ParsedAs(TRUE, x)
    OBVIOUS
  <2>2. Parse(Append(t, x)) = Parse(t) \o ParsedAs(Escaped(t, Len(t) + 1), x)
    BY <1>1, <2>1, ParseGrows
  <2>3. ParsedAs(Escaped(t, Len(t) + 1), x) = ParsedAs(TRUE, x)
    BY <1>3 DEF ParsedAs
  <2>4. Append(t, x) = s \o <<b, x>>
    <3> DEFINE y == <<b, x>>
               u == Append(t, x)
               w == s \o y
    <3>1. y \in Seq(Signs) /\ Len(y) = 2 /\ y[1] = b /\ y[2] = x
        BY <1>1
    <3> HIDE DEF y
    <3>2. /\ w \in Seq(Signs) /\ Len(w) = n + 2 /\ w[n + 1] = b /\ w[n + 2] = x
          /\ \A k \in 1..n : w[k] = s[k]
        <4>0. s \in Seq(Signs) /\ y \in Seq(Signs)
            BY <3>1
        <4>1. /\ w \in Seq(Signs) /\ Len(w) = n + Len(y)
              /\ \A k \in 1..n : w[k] = s[k]
              /\ \A k \in 1..Len(y) : w[n + k] = y[k]
            BY <4>0, Joining
        <4>2. 1 \in 1..Len(y) /\ 2 \in 1..Len(y)
            BY <3>1
        <4>3. w[n + 1] = y[1] /\ w[n + 2] = y[2]
            BY <4>1, <4>2
        <4>4. Len(w) = n + 2 /\ w \in Seq(Signs) /\ \A k \in 1..n : w[k] = s[k]
            BY <3>1, <4>1
        <4> HIDE DEF w, n
        <4>5. QED BY <3>1, <4>3, <4>4
    <3>3. /\ u \in Seq(Signs) /\ Len(u) = n + 2 /\ u[n + 1] = b /\ u[n + 2] = x
          /\ \A k \in 1..n : u[k] = s[k]
        <4>1. /\ u \in Seq(Signs) /\ Len(u) = Len(t) + 1 /\ u[Len(t) + 1] = x
              /\ \A k \in 1..Len(t) : u[k] = t[k]
            BY <1>1, <2>1, Appending
        <4>2. n + 1 \in 1..Len(t) /\ \A k \in 1..n : k \in 1..Len(t)
            BY <1>1
        <4>3. (n + 1) + 1 = n + 2
            BY <1>1
        <4>4. QED BY <1>1, <4>1, <4>2, <4>3
    <3> HIDE DEF u, w, n
    <3>4. \A k \in 1..(n + 2) : k \in 1..n \/ k = n + 1 \/ k = n + 2
        BY <1>1
    <3>5. \A k \in 1..(n + 2) : u[k] = w[k]
        BY <3>2, <3>3, <3>4
    <3>6. u = w
        BY <1>1, <3>2, <3>3, <3>5
    <3>7. QED BY <3>6 DEF u, w, y
  <2>5. QED BY <1>2, <2>2, <2>3, <2>4
<1>5. CASE c \in {"quote", "backslash"}
  <2>1. Escape(c) = <<b, c>> /\ Kept(c, {"bs", "ctl"}) = <<c>> /\ ParsedAs(TRUE, c) = <<c>>
    BY <1>5 DEF Escape, Kept, ParsedAs
  <2>2. QED BY <1>4, <2>1
<1>6. CASE c = "nl"
  <2>1. Escape(c) = <<b, "n">> /\ Kept(c, {"bs", "ctl"}) = <<c>> /\ ParsedAs(TRUE, "n") = <<c>>
    BY <1>6 DEF Escape, Kept, ParsedAs
  <2>2. QED BY <1>1, <1>4, <2>1
<1>7. CASE c \in {"bs", "ctl"}
  <2>1. Escape(c) = <<>> /\ Kept(c, {"bs", "ctl"}) = <<>>
    BY <1>7 DEF Escape, Kept
  <2>2. s \o <<>> = s
    OBVIOUS
  <2>3. Parse(s) \o <<>> = Parse(s)
    <3> DEFINE r == Parse(s)
    <3>1. r \in Seq(Signs)
        BY <1>2
    <3> HIDE DEF r
    <3>2. r \o <<>> = r
        BY <3>1
    <3>3. QED BY <3>2 DEF r
  <2>4. QED BY <2>1, <2>2, <2>3
<1>8. CASE c \notin {"quote", "backslash", "nl", "bs", "ctl"}
  <2>1. Escape(c) = <<c>> /\ Kept(c, {"bs", "ctl"}) = <<c>>
    BY <1>8 DEF Escape, Kept
  <2>2. Append(s, c) = s \o <<c>>
    OBVIOUS
  <2>3. Parse(Append(s, c)) = Parse(s) \o ParsedAs(Escaped(s, Len(s) + 1), c)
    BY ParseGrows
  <2>4. ParsedAs(Escaped(s, Len(s) + 1), c) = <<c>>
    BY <1>8 DEF ParsedAs
  <2>5. QED BY <2>1, <2>2, <2>3, <2>4
<1>9. QED BY <1>5, <1>6, <1>7, <1>8

-----------------------------------------------------------------------------
(***************************************************************************)
(* The invariant of a file that is asked for: of its name the first k      *)
(* characters are read, or the path was cut off inside one; its text is    *)
(* written so that the client reads the same, as far as it was written.    *)
(***************************************************************************)
PathFits == Len(Encoded(job.name)) <= PathMax

Decoded(k) ==
    /\ name = SubSeq(job.name, 1, k)
    /\ pos = PlaceOf(0, Encodes(job.name), k)

\* Inside the code of a character: no name of a file ends like that.
NoFile(n) == n # <<>> /\ Last(n) \in {"pct", "hex"}

CutInside ==
    /\ NoFile(name) /\ Len(wire) < Len(Encoded(job.name))
    /\ \A m \in pos..Len(wire) : wire[m] = "hex"

Begins(n) == \E k \in 0..Len(job.name) : n = SubSeq(job.name, 1, k)

\* The text of a file, as far as there is one.
TextOf(j, n) == IF n \in DOMAIN j.disk THEN j.disk[n] ELSE <<>>

Shows(j, n) == Without(TextOf(j, n), {"bs", "ctl"})

\* What the answer names: the active file if none was asked for.
Answers(n) ==
    IF job.name = <<>> THEN n = job.active
    ELSE resolve_md_path(n) /\ (n = job.name \/ (~PathFits /\ Begins(n)))

ShownInv ==
    job.is = "get" =>
        /\ job.name \in Seq(Chars)
        /\ phase = "decode" =>
               /\ Holds(wire, 0, Encoded(job.name))
               /\ Len(wire) <= Len(Encoded(job.name))
               /\ Len(wire) < Len(Encoded(job.name)) => ~PathFits
               /\ job.name # <<>> => Len(wire) > 0
               /\ CutInside \/ \E k \in 0..Len(job.name) : Decoded(k)
        /\ phase = "resolve" =>
               /\ name = job.name \/ (~PathFits /\ (Begins(name) \/ NoFile(name)))
               /\ job.name # <<>> => name # <<>>
        /\ phase \in {"decode", "resolve"} => out = <<>>
        /\ phase \in {"escape", "ok"} => Answers(name)
        /\ phase = "escape" =>
               /\ wire = TextOf(job, name)
               /\ pos <= Len(wire) + 1
               /\ Parse(out) = Without(SubSeq(wire, 1, pos - 1), {"bs", "ctl"})
        /\ phase = "ok" => Parse(out) = Shows(job, name)
        /\ phase = "refused" => job.name # <<>> /\ (PathFits => ~resolve_md_path(job.name))

LEMMA AtIsRead == \A k : At(k) = ReadAt(wire, k)
BY DEF At, ReadAt

\* Nothing is kept of nothing, and nothing read from it.
LEMMA OfNothing == Parse(<<>>) = <<>> /\ Encoded(<<>>) = <<>> /\ \A D : Without(<<>>, D) = <<>>
<1>1. FlattenSeq(<<>>) = <<>>
  <2> DEFINE e == <<>>
             T == Seq(Signs)
  <2>1. e \in Seq(T) /\ Len(e) = 0
    OBVIOUS
  <2>2. PICK g \in [0..Len(e) -> T] : g[0] = <<>> /\ g[Len(e)] = FlattenSeq(e)
    BY <2>1, Flattening
  <2>3. QED BY <2>1, <2>2
<1>2. \A D : Without(<<>>, D) = <<>>
  <2>1. \A D : Without(<<>>, D) = FlattenSeq([k \in DOMAIN <<>> |-> IF <<>>[k] \in D THEN <<>> ELSE <<(<<>>[k])>>])
    BY DEF Without, Each
  <2>2. \A D : [k \in DOMAIN <<>> |-> IF <<>>[k] \in D THEN <<>> ELSE <<(<<>>[k])>>] = <<>>
    OBVIOUS
  <2>3. QED BY <1>1, <2>1, <2>2
<1>3. Parse(<<>>) = <<>>
  <2> DEFINE code == [k \in DOMAIN <<>> |->
        CASE ~Escaped(<<>>, k)                    -> IF <<>>[k] = "backslash" THEN <<>> ELSE <<(<<>>[k])>>
          [] Escaped(<<>>, k) /\ <<>>[k] = "n"  -> <<"nl">>
          [] Escaped(<<>>, k) /\ <<>>[k] # "n"  -> <<(<<>>[k])>>]
  <2>1. Parse(<<>>) = FlattenSeq(code)
    BY DEF Parse
  <2>2. code = <<>>
    OBVIOUS
  <2>3. QED BY <1>1, <2>1, <2>2
<1>4. Encoded(<<>>) = <<>>
  <2>1. Encoded(<<>>) = FlattenSeq(Encodes(<<>>))
    BY DEF Encoded, Each, Encodes, EncodedAs, Unencoded
  <2>2. Encodes(<<>>) = <<>>
    BY DEF Encodes
  <2>3. QED BY <1>1, <2>1, <2>2
<1>5. QED BY <1>2, <1>3, <1>4

\* No name at all is never cut.
LEMMA NoneFits == job.name = <<>> => PathFits
<1>1. Len(<<>>) <= PathMax
    BY SizesAssumption
<1>2. job.name = <<>> => Encoded(job.name) = <<>>
    BY OfNothing
<1>3. QED BY <1>1, <1>2 DEF PathFits

LEMMA NoneRead ==
    ASSUME NEW S, NEW t \in Seq(S)
    PROVE  SubSeq(t, 1, 0) = <<>>
OBVIOUS

LEMMA ShownStart ==
    ASSUME WireInit
    PROVE  ShownInv
<1> SUFFICES ASSUME job.is = "get" PROVE ShownInv
    BY DEF ShownInv
<1> DEFINE t == job.name
           full == Encoded(t)
           x == Min({PathMax, Len(full)})
<1>1. t \in Seq(Chars) /\ PathMax \in Nat
    BY JobsAssumption, SizesAssumption DEF WireInit
<1>2. full \in Seq(Signs) /\ Len(full) \in Nat
  <2>1. full \in Seq(Signs)
    BY <1>1, ClientTexts
  <2> HIDE DEF full
  <2>2. QED BY <2>1
<1>3. x \in {PathMax, Len(full)} /\ x <= PathMax /\ x <= Len(full) /\ x \in Nat
  <2> DEFINE A == {PathMax, Len(full)}
  <2>1. A \in SUBSET Nat /\ A # {}
    BY <1>1, <1>2
  <2> HIDE DEF A
  <2>2. Min(A) \in A /\ \A y \in A : Min(A) <= y
    BY <2>1, MinIsLeast
  <2>3. PathMax \in A /\ Len(full) \in A
    BY DEF A
  <2>4. QED BY <2>1, <2>2, <2>3 DEF A
<1>4. phase = "decode" /\ wire = SubSeq(full, 1, x) /\ pos = 1 /\ name = <<>> /\ out = <<>>
  <2>1. Start(job) = [at |-> "decode", reads |-> SubSeq(full, 1, x)]
    BY DEF Start
  <2>2. /\ wire = Start(job).reads /\ phase = Start(job).at /\ pos = 1 /\ name = <<>> /\ out = <<>>
    BY DEF WireInit
  <2> DEFINE r == SubSeq(full, 1, x)
  <2>3. [at |-> "decode", reads |-> r].at = "decode" /\ [at |-> "decode", reads |-> r].reads = r
    OBVIOUS
  <2>4. Start(job) = [at |-> "decode", reads |-> r]
    BY <2>1
  <2> HIDE DEF r
  <2>5. Start(job).at = "decode" /\ Start(job).reads = r
    BY <2>3, <2>4
  <2>6. QED BY <2>2, <2>5 DEF r
<1> HIDE DEF full, x
<1>5. wire \in Seq(Signs) /\ Len(wire) = x /\ \A m \in 1..x : wire[m] = full[m]
  <2>1. x \in 0..Len(full)
    BY <1>2, <1>3
  <2>2. QED BY <1>2, <1>4, <2>1, LongerPrefix
<1>6. Holds(wire, 0, full)
  <2>1. \A m \in 1..Len(full) : 0 + m <= Len(wire) => 0 + m = m /\ m \in 1..x
    BY <1>2, <1>3, <1>5
  <2>2. QED BY <1>5, <2>1 DEF Holds
<1>7. Len(wire) <= Len(full) /\ (Len(wire) < Len(full) => ~PathFits)
  <2>1. PathFits <=> Len(full) <= PathMax
    BY DEF PathFits, full
  <2>2. QED BY <1>1, <1>2, <1>3, <1>5, <2>1
<1>8. Decoded(0) /\ 0 \in 0..Len(t)
  <2> DEFINE ss == Encodes(t)
  <2>1. ss \in Seq(Seq(Signs)) /\ full = FlattenSeq(ss)
    BY <1>1, EncodesFacts DEF full
  <2> HIDE DEF ss
  <2>2. 0 \in 0..Len(ss) /\ 0 \in Nat
    BY <2>1
  <2>3. PlaceOf(0, ss, 0) = 0 + 1
    BY <1>5, <1>6, <2>1, <2>2, NextPiece
  <2>4. SubSeq(t, 1, 0) = <<>> /\ 0 \in 0..Len(t)
    BY <1>1
  <2>5. QED BY <1>4, <2>3, <2>4 DEF Decoded, ss
<1>9. t # <<>> => Len(wire) > 0
  <2> SUFFICES ASSUME t # <<>> PROVE Len(wire) > 0
    OBVIOUS
  <2> DEFINE r == PlaceOf(0, Encodes(t), 1)
  <2>1. Len(t) \in Nat /\ 0 \in 0..Len(t) /\ 1 \in 0..Len(t) /\ 0 < Len(t)
    BY <1>1
  <2>2. full = Encoded(t)
    BY DEF full
  <2>3. r <= Len(full) + 1
    BY <1>1, <1>5, <1>6, <2>1, <2>2, NextEncoded
  <2>4. 1 = PlaceOf(0, Encodes(t), 0)
    BY <1>4, <1>8 DEF Decoded
  <2>5. r = 1 + 1 \/ r = 1 + 3
    <3>1. PlaceOf(0, Encodes(t), 0 + 1) = 1 + 1 \/ PlaceOf(0, Encodes(t), 0 + 1) = 1 + 3
        BY <1>1, <1>5, <1>6, <2>1, <2>2, <2>4, NextEncoded, SMTT(30)
    <3>2. QED BY <3>1
  <2> HIDE DEF r
  <2>6. Len(full) > 0 /\ PathMax > 0
    BY <1>2, <2>3, <2>5, SizesAssumption
  <2>7. QED BY <1>2, <1>3, <1>5, <2>6
<1>10. QED BY <1>1, <1>4, <1>6, <1>7, <1>8, <1>9 DEF ShownInv, full

LEMMA LastAppended ==
    ASSUME NEW S, NEW s \in Seq(S), NEW c \in S
    PROVE  Append(s, c) # <<>> /\ Last(Append(s, c)) = c
BY DEF Last

\* What the decoder has at hand.
LEMMA AtHandOf ==
    ASSUME JsonInv, ShownInv, job.is = "get", phase = "decode"
    PROVE  /\ job.name \in Seq(Chars) /\ job.name \in Seq(Signs)
           /\ wire \in Seq(Signs) /\ Len(wire) \in Nat /\ pos \in Nat /\ pos >= 1 /\ name \in Seq(Signs)
           /\ Holds(wire, 0, Encoded(job.name)) /\ Len(Encoded(job.name)) \in Nat
           /\ Len(wire) <= Len(Encoded(job.name))
           /\ Len(wire) < Len(Encoded(job.name)) => ~PathFits
           /\ job.name # <<>> => Len(wire) > 0
           /\ CutInside \/ \E k \in 0..Len(job.name) : Decoded(k)
           /\ out = <<>>
<1>1. job.name \in Seq(Chars)
    BY DEF ShownInv
<1>2. \A t \in Seq(Chars) : t \in Seq(Signs)
  <2>1. \A x \in Chars : x \in Signs
    BY DEF Signs
  <2>2. QED BY <2>1
<1>3. wire \in Seq(Signs) /\ pos \in Nat \ {0} /\ name \in Seq(Signs)
    BY DEF JsonInv, WireTypeOK
<1>4. Len(Encoded(job.name)) \in Nat
  <2> DEFINE full == Encoded(job.name)
  <2>1. full \in Seq(Signs)
    BY <1>1, ClientTexts
  <2> HIDE DEF full
  <2>2. Len(full) \in Nat
    BY <2>1
  <2>3. QED BY <2>2 DEF full
<1>5. QED BY <1>1, <1>2, <1>3, <1>4 DEF ShownInv

LEMMA DecodeKeeps ==
    ASSUME JsonInv, ShownInv, job.is = "get", DecodeChar
    PROVE  CutInside' \/ \E k \in 0..Len(job.name) : Decoded(k)'
<1> DEFINE t == job.name
           full == Encoded(t)
           q == pos
           w == wire
<1>1. /\ phase = "decode" /\ At(q) # "end" /\ UNCHANGED <<job, wire>>
      /\ LET coded == At(q) = "pct" /\ At(q + 1) = "hex" /\ At(q + 2) # "end"
         IN  /\ name' = Append(name, IF coded THEN At(q + 2) ELSE At(q))
             /\ pos' = IF coded THEN q + 3 ELSE q + 1
    BY DEF DecodeChar
<1>2. /\ t \in Seq(Chars) /\ t \in Seq(Signs) /\ Len(t) \in Nat
      /\ w \in Seq(Signs) /\ Len(w) \in Nat /\ q \in Nat /\ q >= 1 /\ name \in Seq(Signs)
      /\ Holds(w, 0, full) /\ Len(full) \in Nat
      /\ CutInside \/ \E k \in 0..Len(t) : Decoded(k)
    BY <1>1, AtHandOf
<1>3. q <= Len(w) /\ \A k : At(k) = ReadAt(w, k)
  <2>1. q > Len(w) => At(q) = "end"
    BY <1>2, AtIsRead, ReadFacts
  <2>2. QED BY <1>1, <1>2, <2>1, AtIsRead
<1>4. CASE CutInside
  <2>1. /\ \A m \in q..Len(w) : w[m] = "hex"
        /\ Len(w) < Len(full)
    BY <1>4 DEF CutInside
  <2>2. At(q) = "hex"
    BY <1>2, <1>3, <2>1, ReadFacts
  <2>3. name' = Append(name, "hex") /\ pos' = q + 1
    BY <1>1, <2>2
  <2>4. "hex" \in Signs
    BY DEF Signs
  <2>5. NoFile(name')
    BY <1>2, <2>3, <2>4, LastAppended DEF NoFile
  <2>6. \A m \in (q + 1)..Len(w) : w[m] = "hex"
    BY <1>2, <2>1
  <2>7. QED BY <1>1, <2>1, <2>3, <2>5, <2>6 DEF CutInside
<1>5. ASSUME NEW k \in 0..Len(t), Decoded(k)
      PROVE  CutInside' \/ \E j \in 0..Len(t) : Decoded(j)'
  <2> DEFINE ss == Encodes(t)
             c == t[k + 1]
  <2>1. name = SubSeq(t, 1, k) /\ q = PlaceOf(0, ss, k)
    BY <1>5 DEF Decoded
  <2>2. /\ k = Len(t) => q = Len(full) + 1
        /\ k < Len(t) /\ c \in Unencoded =>
              PlaceOf(0, ss, k + 1) = q + 1 /\ ReadAt(w, q) = IF q <= Len(w) THEN c ELSE "end"
        /\ k < Len(t) /\ c \notin Unencoded =>
              /\ PlaceOf(0, ss, k + 1) = q + 3
              /\ ReadAt(w, q) = IF q <= Len(w) THEN "pct" ELSE "end"
              /\ ReadAt(w, q + 1) = IF q + 1 <= Len(w) THEN "hex" ELSE "end"
              /\ ReadAt(w, q + 2) = IF q + 2 <= Len(w) THEN c ELSE "end"
    BY <1>2, <2>1, NextEncoded, SMTT(40)
  <2>3. Len(w) <= Len(full)
    BY <1>1, AtHandOf
  <2>4. k < Len(t) /\ k + 1 \in 0..Len(t) /\ k + 1 \in 1..Len(t)
    BY <1>2, <1>3, <2>2, <2>3
  <2>5. c \in Chars /\ c \in Signs /\ c \notin {"pct", "hex", "end"}
    BY <1>2, <2>4, EncodedIs
  <2>6. SubSeq(t, 1, k + 1) = Append(name, c)
    BY <1>2, <2>1, <2>4, LongerPrefix
  <2> HIDE DEF ss, c
  <2>7. ASSUME name' = Append(name, c), pos' = PlaceOf(0, ss, k + 1)
        PROVE  \E j \in 0..Len(t) : Decoded(j)'
    <3> DEFINE j == k + 1
    <3>1. name' = SubSeq(t, 1, j) /\ pos' = PlaceOf(0, Encodes(t), j) /\ j \in 0..Len(t)
        BY <2>4, <2>6, <2>7 DEF ss
    <3> HIDE DEF j
    <3>2. Decoded(j)'
        BY <1>1, <3>1 DEF Decoded
    <3>3. QED BY <3>1, <3>2
  <2>8. CASE c \in Unencoded
    <3>1. At(q) = c
        BY <1>3, <2>2, <2>4, <2>8
    <3>2. name' = Append(name, c) /\ pos' = q + 1
        BY <1>1, <2>5, <3>1
    <3>3. pos' = PlaceOf(0, ss, k + 1)
        BY <2>2, <2>4, <2>8, <3>2
    <3>4. QED BY <2>7, <3>2, <3>3
  <2>9. CASE c \notin Unencoded /\ q + 2 <= Len(w)
    <3>1. At(q) = "pct" /\ At(q + 1) = "hex" /\ At(q + 2) = c
        BY <1>2, <1>3, <2>2, <2>4, <2>9
    <3>2. name' = Append(name, c) /\ pos' = q + 3
        BY <1>1, <2>5, <3>1
    <3>3. pos' = PlaceOf(0, ss, k + 1)
        BY <2>2, <2>4, <2>9, <3>2
    <3>4. QED BY <2>7, <3>2, <3>3
  <2>10. CASE c \notin Unencoded /\ ~(q + 2 <= Len(w))
    <3>1. At(q) = "pct" /\ At(q + 2) = "end"
        BY <1>3, <2>2, <2>4, <2>10
    <3>2. name' = Append(name, "pct") /\ pos' = q + 1
        BY <1>1, <3>1
    <3>3. "pct" \in Signs
        BY DEF Signs
    <3>4. NoFile(name')
        BY <1>2, <3>2, <3>3, LastAppended DEF NoFile
    <3>5. Len(w) < Len(full)
        <4> DEFINE j == k + 1
                   r == PlaceOf(0, ss, j)
        <4>1. r = q + 3
            BY <2>2, <2>4, <2>10
        <4>2. j \in 0..Len(t) /\ r = PlaceOf(0, Encodes(t), j)
            BY <2>4 DEF ss
        <4> HIDE DEF j, r
        <4>3. r <= Len(full) + 1
            BY <1>2, <4>2, NextEncoded
        <4>4. QED BY <1>2, <2>10, <4>1, <4>3
    <3>6. \A m \in (q + 1)..Len(w) : w[m] = "hex"
        <4>1. \A m \in (q + 1)..Len(w) : m = q + 1 /\ q + 1 <= Len(w)
            BY <1>2, <2>10
        <4>2. q + 1 <= Len(w) => w[q + 1] = "hex"
            <5>1. q + 1 <= Len(w) => ReadAt(w, q + 1) = w[q + 1]
                <6>1. q + 1 \in Nat /\ q + 1 >= 1
                    BY <1>2
                <6>2. QED BY <1>2, <6>1, ReadFacts
            <5>2. QED BY <2>2, <2>4, <2>10, <5>1
        <4>3. QED BY <4>1, <4>2
    <3>7. CutInside'
        BY <1>1, <3>2, <3>4, <3>5, <3>6 DEF CutInside
    <3>8. QED BY <3>7
  <2>11. QED BY <2>8, <2>9, <2>10
<1>6. QED BY <1>2, <1>4, <1>5

LEMMA NameDecoded ==
    ASSUME JsonInv, ShownInv, job.is = "get", phase = "decode", At(pos) = "end"
    PROVE  /\ name = job.name \/ (~PathFits /\ (Begins(name) \/ NoFile(name)))
           /\ job.name # <<>> => name # <<>>
<1> DEFINE t == job.name
           full == Encoded(t)
           w == wire
<1>1. /\ t \in Seq(Chars) /\ Len(t) \in Nat
      /\ w \in Seq(Signs) /\ Len(w) \in Nat /\ pos \in Nat /\ pos >= 1
      /\ Holds(w, 0, full) /\ Len(full) \in Nat
      /\ Len(w) < Len(full) => ~PathFits
      /\ t # <<>> => Len(w) > 0
      /\ CutInside \/ \E k \in 0..Len(t) : Decoded(k)
    BY AtHandOf
<1>2. pos > Len(w)
  <2>1. pos <= Len(w) => At(pos) # "end"
    BY <1>1, AtIsRead, ReadFacts
  <2>2. QED BY <1>1, <2>1
<1>3. CASE CutInside
    BY <1>1, <1>3 DEF CutInside, NoFile
<1>4. ASSUME NEW k \in 0..Len(t), Decoded(k)
      PROVE  (name = t \/ (~PathFits /\ Begins(name))) /\ (t # <<>> => name # <<>>)
  <2> DEFINE ss == Encodes(t)
  <2>1. name = SubSeq(t, 1, k) /\ pos = PlaceOf(0, ss, k)
    BY <1>4 DEF Decoded
  <2>2. k = Len(t) => name = t
    BY <1>1, <2>1, WholePrefix
  <2>3. ASSUME k # Len(t) PROVE ~PathFits /\ Begins(name)
    <3> DEFINE j == k + 1
               r == PlaceOf(0, ss, j)
    <3>1. k < Len(t) /\ j \in 0..Len(t)
        BY <1>1, <2>3
    <3>2. r = pos + 1 \/ r = pos + 3
        <4>1. full = Encoded(t) /\ pos = PlaceOf(0, Encodes(t), k)
            BY <2>1
        <4> HIDE DEF full
        <4>2. PlaceOf(0, Encodes(t), k + 1) = pos + 1 \/ PlaceOf(0, Encodes(t), k + 1) = pos + 3
            BY <1>1, <3>1, <4>1, NextEncoded, SMTT(30)
        <4>3. QED BY <4>2
    <3>3. r = PlaceOf(0, Encodes(t), j)
        OBVIOUS
    <3> HIDE DEF j, r
    <3>4. r <= Len(full) + 1
        BY <1>1, <3>1, <3>3, NextEncoded
    <3>5. Len(w) < Len(full)
        BY <1>1, <1>2, <3>2, <3>4
    <3>6. Begins(name)
        BY <2>1 DEF Begins
    <3>7. QED BY <1>1, <3>5, <3>6
  <2>4. k = 0 => pos = 1
    <3>1. Encodes(t) \in Seq(Seq(Signs)) /\ full = FlattenSeq(Encodes(t))
        BY <1>1, EncodesFacts
    <3> HIDE DEF ss, full
    <3>2. ss \in Seq(Seq(Signs)) /\ full = FlattenSeq(ss)
        BY <3>1 DEF ss
    <3>3. 0 \in 0..Len(ss) /\ 0 \in Nat
        BY <3>2
    <3>4. PlaceOf(0, ss, 0) = 0 + 1
        BY <1>1, <3>2, <3>3, NextPiece
    <3>5. QED BY <2>1, <3>4
  <2>5. t # <<>> => name # <<>>
    <3>1. t # <<>> => k > 0
        BY <1>1, <1>2, <2>4
    <3>2. k > 0 => SubSeq(t, 1, k) # <<>>
        <4>1. Len(SubSeq(t, 1, k)) = k
            BY <1>1, LongerPrefix
        <4>2. QED BY <4>1
    <3>3. QED BY <2>1, <3>1, <3>2
  <2>6. QED BY <2>2, <2>3, <2>5
<1>5. QED BY <1>1, <1>3, <1>4

\* A name that is opened is no part of one with half a character behind it.
LEMMA NameResolved ==
    ASSUME JsonInv, ShownInv, job.is = "get", OpenFile
    PROVE  ShownInv'
<1> DEFINE target == IF name = <<>> THEN job.active ELSE name
<1>1. /\ phase = "resolve" /\ MayOpen(name)
      /\ name' = target /\ wire' = TextOf(job, target)
      /\ pos' = 1 /\ phase' = "escape" /\ UNCHANGED <<job, out>>
    BY DEF OpenFile, TextOf
<1>2. /\ job.name \in Seq(Chars) /\ out = <<>> /\ Files(job)
      /\ name = job.name \/ (~PathFits /\ (Begins(name) \/ NoFile(name)))
      /\ job.name # <<>> => name # <<>>
    BY <1>1 DEF ShownInv, JsonInv
<1>3. Answers(target)
  <2>1. CASE name = <<>>
    <3>1. job.name = <<>>
        BY <1>2, <2>1
    <3>2. QED BY <2>1, <3>1 DEF Answers
  <2>2. CASE name # <<>>
    <3>1. resolve_md_path(name)
        BY <1>1, <2>2 DEF MayOpen
    <3>2. ~NoFile(name)
        BY <3>1 DEF NoFile, resolve_md_path, IsMarkdown
    <3>3. name = job.name \/ (~PathFits /\ Begins(name))
        BY <1>2, <3>2
    <3>4. job.name # <<>>
        BY <2>2, <3>3, NoneFits
    <3>5. QED BY <2>2, <3>1, <3>3, <3>4 DEF Answers
  <2>3. QED BY <2>1, <2>2
<1> HIDE DEF target
<1>4. TextOf(job, target) \in Seq(Chars)
  <2>1. <<>> \in Seq(Chars)
    OBVIOUS
  <2>2. QED BY <1>2, <2>1, Zenon DEF Files, TextOf
<1> DEFINE v == TextOf(job, target)
<1>5. v \in Seq(Chars)
    BY <1>4
<1> HIDE DEF v
<1>6. Len(v) \in Nat /\ SubSeq(v, 1, 0) = <<>>
    BY <1>5, NoneRead
<1>7. wire' = v
    BY <1>1 DEF v
<1>8. pos' <= Len(wire') + 1
  <2>1. 1 <= Len(v) + 1
    BY <1>6
  <2>2. QED BY <1>1, <1>7, <2>1
<1>9. Parse(out') = Without(SubSeq(wire', 1, pos' - 1), {"bs", "ctl"})
  <2>1. pos' - 1 = 0
    BY <1>1
  <2>2. out' = <<>>
    BY <1>1, <1>2, Zenon
  <2>3. SubSeq(wire', 1, pos' - 1) = <<>>
    BY <1>6, <1>7, <2>1, Zenon
  <2>4. Parse(<<>>) = Without(<<>>, {"bs", "ctl"})
    BY OfNothing
  <2>5. QED BY <2>2, <2>3, <2>4, Zenon
<1>10. Answers(name)'
    BY <1>1, <1>3 DEF Answers, PathFits, Begins
<1>11. wire' = TextOf(job', name') /\ job'.name \in Seq(Chars) /\ phase' = "escape"
    BY <1>1, <1>2
<1>12. QED BY <1>8, <1>9, <1>10, <1>11 DEF ShownInv

LEMMA NameRefused ==
    ASSUME ShownInv, job.is = "get", RefuseFile
    PROVE  ShownInv'
<1>1. /\ phase = "resolve" /\ ~MayOpen(name) /\ phase' = "refused" /\ UNCHANGED job
    BY DEF RefuseFile
<1>2. /\ job.name \in Seq(Chars)
      /\ name = job.name \/ (~PathFits /\ (Begins(name) \/ NoFile(name)))
    BY <1>1 DEF ShownInv
<1>3. name # <<>> /\ ~resolve_md_path(name)
    BY <1>1 DEF MayOpen
<1>4. PathFits => name = job.name
    BY <1>2
<1>5. job.name # <<>> /\ (PathFits => ~resolve_md_path(job.name))
    BY <1>3, <1>4, NoneFits
<1>6. job'.name # <<>> /\ (PathFits' => ~resolve_md_path(job'.name)) /\ job'.name \in Seq(Chars)
    BY <1>1, <1>2, <1>5 DEF PathFits
<1>7. QED BY <1>1, <1>6 DEF ShownInv

LEMMA TextShown ==
    ASSUME JsonInv, ShownInv, job.is = "get", EscapeChar
    PROVE  ShownInv'
<1> DEFINE D == {"bs", "ctl"}
           c == At(pos)
           k == pos - 1
           rest == SubSeq(wire, 1, k)
<1>1. /\ phase = "escape" /\ c # "end" /\ out' = out \o Escape(c) /\ pos' = pos + 1
      /\ UNCHANGED <<job, wire, name, phase>>
    BY DEF EscapeChar
<1>2. /\ job.name \in Seq(Chars)
      /\ Answers(name)
      /\ wire = TextOf(job, name)
      /\ pos <= Len(wire) + 1
      /\ Parse(out) = Without(rest, D)
    BY <1>1 DEF ShownInv
<1>3. wire \in Seq(Signs) /\ pos \in Nat /\ pos >= 1 /\ out \in Seq(Signs) /\ IsString(out)
  <2>1. wire \in Seq(Signs) /\ pos \in Nat \ {0} /\ out \in Seq(Signs) /\ IsString(out)
    BY DEF JsonInv, WireTypeOK
  <2>2. QED BY <2>1
<1>4. pos <= Len(wire) /\ c = wire[pos] /\ c \in Signs /\ Len(wire) \in Nat
  <2>1. pos > Len(wire) => At(pos) = "end"
    BY <1>3, AtIsRead, ReadFacts
  <2>2. Len(wire) \in Nat
    BY <1>3
  <2>3. pos <= Len(wire)
    BY <1>1, <1>3, <2>1, <2>2
  <2>4. QED BY <1>3, <2>2, <2>3, AtIsRead, ReadFacts
<1>5. k \in 0..Len(wire) /\ k < Len(wire) /\ k + 1 = pos /\ pos' - 1 = pos
    BY <1>1, <1>3, <1>4
<1>6. rest \in Seq(Signs) /\ SubSeq(wire, 1, pos) = Append(rest, c)
  <2>1. SubSeq(wire, 1, k) \in Seq(Signs) /\ SubSeq(wire, 1, k + 1) = Append(SubSeq(wire, 1, k), wire[k + 1])
    <3> HIDE DEF k
    <3>1. QED BY <1>3, <1>5, LongerPrefix
  <2>2. QED BY <1>4, <1>5, <2>1
<1> HIDE DEF c, rest
<1>7. Parse(out') = Parse(out) \o Kept(c, {"bs", "ctl"})
  <2>1. ~Escaped(out, Len(out) + 1)
    BY <1>3 DEF IsString
  <2>2. QED BY <1>1, <1>3, <1>4, <2>1, ParseEscape
<1>8. Without(Append(rest, c), D) = Without(rest, D) \o Kept(c, D)
    BY <1>4, <1>6, WithoutGrows
<1>9. Parse(out') = Without(SubSeq(wire', 1, pos' - 1), {"bs", "ctl"})
    BY <1>1, <1>2, <1>5, <1>6, <1>7, <1>8
<1>10. pos' <= Len(wire') + 1
    BY <1>1, <1>3, <1>4
<1>11. phase' = "escape" /\ wire' = TextOf(job', name') /\ job'.name \in Seq(Chars)
    BY <1>1, <1>2
<1>12. Answers(name)'
    BY <1>1, <1>2 DEF Answers, PathFits, Begins
<1>13. QED BY <1>9, <1>10, <1>11, <1>12 DEF ShownInv

LEMMA ShownStep ==
    ASSUME JsonInv, ShownInv, [WireNext]_wires
    PROVE  ShownInv'
<1>1. job' = job
    BY DEF WireNext, wires, FindKey, ReadValue, BreakOff, EndValue, DecodeChar, DecodeEnds,
           SaveUpload, OpenFile, RefuseFile, EscapeChar, EscapeEnds, ListFile, ListEnds
<1>2. CASE job.is # "get"
    BY <1>1, <1>2 DEF ShownInv
<1>3. CASE job.is = "get" /\ UNCHANGED wires
  <2>1. UNCHANGED <<job, wire, pos, name, out, phase>>
    BY <1>3 DEF wires
  <2>2. QED BY <2>1 DEF ShownInv, PathFits, CutInside, Decoded, Begins, Answers
<1>4. CASE job.is = "get" /\ WireNext
  <2>1. phase \in {"decode", "resolve", "escape", "ok", "refused"}
    BY <1>4 DEF JsonInv, PhasesOf
  <2>2. DecodeChar \/ DecodeEnds \/ OpenFile \/ RefuseFile \/ EscapeChar \/ EscapeEnds
    BY <1>4, <2>1 DEF WireNext, FindKey, ReadValue, BreakOff, EndValue, SaveUpload, ListFile, ListEnds
  <2>3. CASE DecodeChar
    <3>1. phase = "decode" /\ UNCHANGED <<job, wire, out, phase>>
        BY <2>3 DEF DecodeChar
    <3>2. CutInside' \/ \E k \in 0..Len(job.name) : Decoded(k)'
        BY <1>4, <2>3, DecodeKeeps
    <3>3. /\ job'.name \in Seq(Chars) /\ Holds(wire', 0, Encoded(job'.name))
          /\ Len(wire') <= Len(Encoded(job'.name))
          /\ Len(wire') < Len(Encoded(job'.name)) => ~PathFits'
          /\ job'.name # <<>> => Len(wire') > 0
          /\ out' = <<>>
        BY <1>4, <3>1, AtHandOf DEF PathFits
    <3>4. CutInside' \/ \E k \in 0..Len(job'.name) : Decoded(k)'
        BY <3>1, <3>2
    <3>5. phase' = "decode"
        BY <3>1
    <3>6. QED BY <3>3, <3>4, <3>5 DEF ShownInv
  <2>4. CASE DecodeEnds
    <3>1. phase = "decode" /\ At(pos) = "end" /\ phase' = "resolve" /\ UNCHANGED <<job, name, out>>
        BY <2>4 DEF DecodeEnds
    <3>2. /\ name = job.name \/ (~PathFits /\ (Begins(name) \/ NoFile(name)))
          /\ job.name # <<>> => name # <<>>
        BY <1>4, <3>1, NameDecoded
    <3>3. job.name \in Seq(Chars) /\ out = <<>>
        BY <1>4, <3>1, AtHandOf
    <3>4. /\ name' = job'.name \/ (~PathFits' /\ (Begins(name)' \/ NoFile(name)'))
          /\ job'.name # <<>> => name' # <<>>
        BY <3>1, <3>2 DEF PathFits, Begins, NoFile
    <3>5. QED BY <3>1, <3>3, <3>4 DEF ShownInv
  <2>5. CASE OpenFile
    BY <1>4, <2>5, NameResolved
  <2>6. CASE RefuseFile
    BY <1>4, <2>6, NameRefused
  <2>7. CASE EscapeChar
    BY <1>4, <2>7, TextShown
  <2>8. CASE EscapeEnds
    <3>1. phase = "escape" /\ At(pos) = "end" /\ phase' = "ok" /\ UNCHANGED <<job, wire, pos, name, out>>
        BY <2>8 DEF EscapeEnds
    <3>2. /\ job.name \in Seq(Chars)
          /\ Answers(name)
          /\ wire = TextOf(job, name)
          /\ pos <= Len(wire) + 1
          /\ Parse(out) = Without(SubSeq(wire, 1, pos - 1), {"bs", "ctl"})
        BY <1>4, <3>1 DEF ShownInv
    <3>3. wire \in Seq(Signs) /\ pos \in Nat /\ pos >= 1 /\ Len(wire) \in Nat
        <4>1. wire \in Seq(Signs) /\ pos \in Nat \ {0}
            BY DEF JsonInv, WireTypeOK
        <4>2. QED BY <4>1
    <3>4. pos - 1 = Len(wire)
        <4>1. pos <= Len(wire) => At(pos) # "end"
            BY <3>3, AtIsRead, ReadFacts
        <4>2. QED BY <3>1, <3>2, <3>3, <4>1
    <3>5. SubSeq(wire, 1, pos - 1) = wire
        BY <3>3, <3>4, WholePrefix
    <3>6. Parse(out) = Shows(job, name)
        BY <3>2, <3>5 DEF Shows
    <3>7. Parse(out') = Shows(job', name')
        BY <3>1, <3>6
    <3>8. Answers(name)'
        BY <3>1, <3>2 DEF Answers, PathFits, Begins
    <3>9. job'.name \in Seq(Chars) /\ phase' = "ok"
        BY <3>1, <3>2
    <3>10. QED BY <3>7, <3>8, <3>9 DEF ShownInv
  <2>9. QED BY <2>2, <2>3, <2>4, <2>5, <2>6, <2>7, <2>8
<1>5. QED BY <1>2, <1>3, <1>4

LEMMA ShownRight == ShownInv => ShownAsSaved
<1> SUFFICES ASSUME ShownInv, WireDone, job.is = "get"
             PROVE  /\ phase = "refused" => job.name # <<>> /\ (PathFits => ~resolve_md_path(job.name))
                    /\ phase = "ok" /\ job.name = <<>> => name = job.active
                    /\ phase = "ok" /\ job.name # <<>> =>
                           /\ IsPrefix(name, job.name) /\ resolve_md_path(name)
                           /\ PathFits => name = job.name
                    /\ phase = "ok" => Parse(out) = IF name \in DOMAIN job.disk
                                                    THEN Without(job.disk[name], {"bs", "ctl"})
                                                    ELSE <<>>
    BY DEF ShownAsSaved, PathFits
<1>1. phase = "refused" => job.name # <<>> /\ (PathFits => ~resolve_md_path(job.name))
    BY DEF ShownInv
<1>2. phase = "ok" => Answers(name) /\ Parse(out) = Shows(job, name)
    BY DEF ShownInv
<1>3. Shows(job, name) = IF name \in DOMAIN job.disk THEN Without(job.disk[name], {"bs", "ctl"}) ELSE <<>>
    BY OfNothing, Zenon DEF Shows, TextOf
<1>4. job.name \in Seq(Chars)
    BY DEF ShownInv
<1>5. ASSUME NEW t \in Seq(Chars), NEW k \in 0..Len(t)
      PROVE  IsPrefix(SubSeq(t, 1, k), t)
  <2> DEFINE s == SubSeq(t, 1, k)
  <2>1. s \in Seq(Chars) /\ Len(s) = k /\ Len(t) \in Nat
    BY <1>5, LongerPrefix
  <2> HIDE DEF s
  <2>2. SubSeq(s, 1, Len(s)) = s
    BY <2>1, WholePrefix
  <2>3. s = SubSeq(t, 1, Len(s)) /\ Len(s) <= Len(t)
    BY <2>1 DEF s
  <2>4. IsPrefix(s, t)
    BY <2>2, <2>3 DEF IsPrefix
  <2>5. QED BY <2>4 DEF s
<1>6. Begins(name) => IsPrefix(name, job.name)
    BY <1>4, <1>5 DEF Begins
<1>7. name = job.name => IsPrefix(name, job.name)
    BY DEF IsPrefix
<1>8. phase = "ok" => IF job.name = <<>> THEN name = job.active
                     ELSE /\ IsPrefix(name, job.name) /\ resolve_md_path(name)
                          /\ PathFits => name = job.name
    BY <1>2, <1>6, <1>7 DEF Answers
<1>9. QED BY <1>1, <1>2, <1>3, <1>8

-----------------------------------------------------------------------------
(***************************************************************************)
(* The invariant of a text that is saved: of the name or the text the      *)
(* first k characters are read, where what the client wrote of them ends,  *)
(* or the body was cut off inside a \u.                                    *)
(***************************************************************************)
StringifiedAs(c) ==
    CASE c \in {"quote", "backslash"} -> <<"backslash", c>>
      [] c = "nl"  -> <<"backslash", "n">>
      [] c = "bs"  -> <<"backslash", "b">>
      [] c = "ctl" -> <<"backslash", "u", "h", "h", "h", "h">>
      [] OTHER     -> <<c>>

Strings(text) == [k \in DOMAIN text |-> StringifiedAs(text[k])]

Safe == job.is = "upload" => Len(job.name) < NameMax /\ resolve_md_path(Base(job.name))

\* The text that is read, and what stands in front of it.
TextAtHand == IF field = "name" THEN job.name ELSE job.text

InFront == IF job.is = "upload" /\ field = "content" THEN Len(Stringify(job.name)) + 12 ELSE 5

Unwritten == {"ctl"}

ReadUpTo(k) ==
    /\ out = Without(SubSeq(TextAtHand, 1, k), Unwritten)
    /\ pos = PlaceOf(InFront, Strings(TextAtHand), k)

\* Inside a \u.
BrokenInside == field = "content" /\ job.cut > 0 /\ \A m \in pos..Len(wire) : wire[m] = "h"

SavedInv ==
    job.is \in {"post", "upload"} /\ "ctl" \notin Range(job.name) =>
        /\ job.name \in Seq(Chars) /\ job.cut \in Nat
        /\ wire = Arriving(job)
        /\ field = "name" => job.is = "upload" /\ phase \in {"find", "value", "refused"}
        /\ field = "content" /\ job.is = "upload" /\ phase \in {"find", "value", "resolve"} =>
               name = job.name /\ (name = <<>> \/ Len(name) < NameMax)
        /\ phase = "value" =>
               \/ BrokenInside
               \/ \E k \in 0..Len(TextAtHand) :
                     ReadUpTo(k) /\ (field = "name" => k = 0 \/ k < NameMax)
        /\ phase = "resolve" => job.cut = 0 /\ out = Without(job.text, Unwritten)
        /\ phase = "ok" =>
               /\ job.cut = 0 /\ Safe /\ out = Without(job.text, Unwritten)
               /\ job.is = "upload" => name = Base(job.name)
        /\ phase = "refused" => ~(job.cut = 0 /\ Safe)

-----------------------------------------------------------------------------
(* The body of a request. *)

\* The client writes a text character by character.
LEMMA StringsFacts ==
    ASSUME NEW text \in Seq(Chars)
    PROVE  /\ Strings(text) \in Seq(Seq(Signs)) /\ Len(Strings(text)) = Len(text)
           /\ Stringify(text) = FlattenSeq(Strings(text))
           /\ \A k \in 1..Len(text) : Strings(text)[k] = StringifiedAs(text[k])
<1> DEFINE n == Len(text)
           ss == Strings(text)
<1>1. n \in Nat /\ DOMAIN text = 1..n /\ \A k \in 1..n : text[k] \in Signs
    BY DEF Signs
<1>2. {"backslash", "n", "b", "u", "h"} \subseteq Signs
    BY DEF Signs, Chars, Letters
<1>3. \A c \in Signs : StringifiedAs(c) \in Seq(Signs)
  <2>1. \A c \in Signs : /\ <<c>> \in Seq(Signs) /\ <<"backslash", c>> \in Seq(Signs)
                         /\ <<"backslash", "n">> \in Seq(Signs) /\ <<"backslash", "b">> \in Seq(Signs)
                         /\ <<"backslash", "u", "h", "h", "h", "h">> \in Seq(Signs)
    BY <1>2
  <2>2. QED BY <2>1 DEF StringifiedAs
<1>4. Stringify(text) = FlattenSeq(ss)
    BY DEF Stringify, Each, Strings, StringifiedAs
<1>5. ss = [k \in 1..n |-> StringifiedAs(text[k])]
    BY <1>1 DEF Strings
<1> HIDE DEF ss, n
<1>6. ss \in Seq(Seq(Signs)) /\ Len(ss) = n /\ \A k \in 1..n : ss[k] = StringifiedAs(text[k])
    BY <1>1, <1>3, <1>5
<1>7. QED BY <1>4, <1>6 DEF ss, n

\* A character of a JSON string as the client writes it: itself, a letter behind a
\* backslash, or a \u.
AsItIs(c) == c \notin {"quote", "backslash", "nl", "bs", "ctl"}

LetterOf(c) == CASE c = "nl" -> "n" [] c = "bs" -> "b" [] OTHER -> c

\* It writes a character in one of three ways.
LEMMA StringifiedIs ==
    ASSUME NEW c \in Chars
    PROVE  /\ c \in Signs /\ LetterOf(c) \in Signs
           /\ {"backslash", "u", "h", "quote"} \subseteq Signs
           /\ AsItIs(c) => StringifiedAs(c) = <<c>> /\ Len(StringifiedAs(c)) = 1
           /\ ~AsItIs(c) /\ c # "ctl" =>
                 /\ StringifiedAs(c) = <<"backslash", LetterOf(c)>> /\ Len(StringifiedAs(c)) = 2
                 /\ LetterOf(c) \notin {"u", "end"} /\ Unescaped(LetterOf(c)) = <<c>>
           /\ c = "ctl" => StringifiedAs(c) = <<"backslash", "u", "h", "h", "h", "h">>
<1>1. c \in Signs /\ {"backslash", "u", "h", "quote"} \subseteq Signs
    BY DEF Signs, Chars, Letters
<1>2. LetterOf(c) \in Signs
    BY <1>1 DEF LetterOf, Signs, Chars, Letters
<1>3. AsItIs(c) => StringifiedAs(c) = <<c>> /\ Len(StringifiedAs(c)) = 1
    BY DEF AsItIs, StringifiedAs
<1>4. ASSUME ~AsItIs(c), c # "ctl"
      PROVE  /\ StringifiedAs(c) = <<"backslash", LetterOf(c)>> /\ Len(StringifiedAs(c)) = 2
             /\ LetterOf(c) \notin {"u", "end"} /\ Unescaped(LetterOf(c)) = <<c>>
  <2>1. c \in {"quote", "backslash", "nl", "bs"}
    BY <1>4 DEF AsItIs
  <2>2. QED BY <2>1 DEF StringifiedAs, LetterOf, Unescaped
<1>5. c = "ctl" => StringifiedAs(c) = <<"backslash", "u", "h", "h", "h", "h">>
    BY DEF StringifiedAs
<1>6. QED BY <1>1, <1>2, <1>3, <1>4, <1>5

\* What stands somewhere stands there part by part.
LEMMA HoldsJoined ==
    ASSUME NEW w \in Seq(Signs), NEW off \in Nat, NEW a \in Seq(Signs), NEW b \in Seq(Signs),
           NEW s, s = a \o b, Holds(w, off, s), NEW x, x = off + Len(a)
    PROVE  Holds(w, off, a) /\ Holds(w, x, b) /\ x \in Nat /\ Len(s) = Len(a) + Len(b)
<1>1. /\ Len(a) \in Nat /\ Len(b) \in Nat /\ Len(s) = Len(a) + Len(b)
      /\ \A k \in 1..Len(a) : s[k] = a[k]
      /\ \A k \in 1..Len(b) : s[Len(a) + k] = b[k]
    BY Joining
<1>2. \A m \in 1..Len(s) : off + m <= Len(w) => w[off + m] = s[m]
    BY DEF Holds
<1>3. \A m \in 1..Len(a) : m \in 1..Len(s)
    BY <1>1
<1>4. Holds(w, off, a)
    BY <1>1, <1>2, <1>3 DEF Holds
<1>5. ASSUME NEW m \in 1..Len(b), x + m <= Len(w) PROVE w[x + m] = b[m]
  <2> DEFINE l == Len(a) + m
  <2>1. l \in 1..Len(s) /\ off + l = x + m
    BY <1>1
  <2>2. s[l] = b[m]
    BY <1>1
  <2> HIDE DEF l
  <2>3. w[off + l] = s[l]
    BY <1>2, <1>5, <2>1
  <2>4. QED BY <2>1, <2>2, <2>3
<1>6. QED BY <1>1, <1>4, <1>5 DEF Holds

\* Two parts of what was sent.
LEMMA HoldsBoth ==
    ASSUME NEW w \in Seq(Signs), NEW off \in Nat, NEW a \in Seq(Signs), NEW b \in Seq(Signs),
           Holds(w, off, a \o b)
    PROVE  Holds(w, off, a) /\ Holds(w, off + Len(a), b)
<1> DEFINE s == a \o b
           x == off + Len(a)
<1>1. s = a \o b /\ x = off + Len(a) /\ Holds(w, off, s)
    OBVIOUS
<1> HIDE DEF s, x
<1>2. Holds(w, off, a) /\ Holds(w, x, b)
    BY <1>1, HoldsJoined
<1>3. QED BY <1>2 DEF x

\* A member of the body, as far as it arrives.
Opens(key) == <<"quote", key, "quote", "colon", "quote">>

MemberAt(w, off, key, s) ==
    /\ Holds(w, off, Opens(key))
    /\ Holds(w, off + 5, s)
    /\ Holds(w, off + 5 + Len(s), <<"quote">>)

\* A member is made of signs.
LEMMA MemberTyped ==
    ASSUME NEW key \in Keys, NEW text \in Seq(Chars)
    PROVE  Member(key, text) \in Seq(Signs)
<1> DEFINE o == Opens(key)
           s == Stringify(text)
           e == <<"quote">>
           a == o \o s
<1>1. o \in Seq(Signs) /\ e \in Seq(Signs)
  <2>1. {"quote", key, "colon"} \subseteq Signs
    BY DEF Signs, Chars
  <2>2. QED BY <2>1 DEF Opens
<1>2. s \in Seq(Signs)
    BY ClientTexts
<1>3. Member(key, text) = a \o e
    BY DEF Member, Opens
<1> HIDE DEF o, s, e
<1>4. a \in Seq(Signs)
    BY <1>1, <1>2, Joining
<1>5. QED BY <1>1, <1>3, <1>4, Joining

\* The three parts of a member.
LEMMA MemberHeld ==
    ASSUME NEW w \in Seq(Signs), NEW off \in Nat, NEW key \in Keys, NEW text \in Seq(Chars),
           Holds(w, off, Member(key, text))
    PROVE  /\ MemberAt(w, off, key, Stringify(text))
           /\ Len(Member(key, text)) = Len(Stringify(text)) + 6
           /\ Member(key, text) \in Seq(Signs) /\ Len(Stringify(text)) \in Nat
<1> DEFINE o == Opens(key)
           s == Stringify(text)
           e == <<"quote">>
           a == o \o s
           m == Member(key, text)
           x == off + 5
           y == off + Len(a)
<1>1. o \in Seq(Signs) /\ Len(o) = 5 /\ e \in Seq(Signs) /\ Len(e) = 1
  <2>1. {"quote", key, "colon"} \subseteq Signs
    BY DEF Signs, Chars
  <2>2. QED BY <2>1 DEF Opens
<1>2. s \in Seq(Signs)
    BY ClientTexts
<1>3. m = a \o e
    BY DEF Member, Opens
<1>4. Holds(w, off, m)
    OBVIOUS
<1> HIDE DEF o, s, e, m
<1>5. a \in Seq(Signs) /\ Len(a) = Len(o) + Len(s)
    BY <1>1, <1>2, Joining
<1>6. Len(s) \in Nat
    BY <1>2
<1>7. a = o \o s /\ x = off + Len(o) /\ y = off + Len(a)
    BY <1>1
<1>8. m \in Seq(Signs)
    BY <1>1, <1>3, <1>5, Joining
<1> HIDE DEF a, x, y
<1>9. Holds(w, off, a) /\ Holds(w, y, e) /\ Len(m) = Len(a) + Len(e)
  <2>1. a \in Seq(Signs) /\ e \in Seq(Signs) /\ m = a \o e /\ y = off + Len(a) /\ Holds(w, off, m)
    BY <1>1, <1>3, <1>4, <1>5, <1>7
  <2>2. Holds(w, off, a \o e)
    BY <2>1
  <2>3. Holds(w, off, a) /\ Holds(w, off + Len(a), e)
    BY <2>1, <2>2, HoldsBoth
  <2>4. Len(m) = Len(a) + Len(e)
    BY <2>1, Joining
  <2>5. QED BY <2>1, <2>3, <2>4
<1>10. Holds(w, off, o) /\ Holds(w, x, s)
    BY <1>1, <1>2, <1>7, <1>9, HoldsJoined
<1>11. y = off + 5 + Len(s) /\ Len(m) = Len(s) + 6
  <2>1. Len(a) = 5 + Len(s) /\ Len(e) = 1 /\ y = off + Len(a) /\ Len(m) = Len(a) + Len(e)
    BY <1>1, <1>5, <1>7, <1>9
  <2>2. QED BY <1>6, <2>1
<1>12. MemberAt(w, off, key, s)
    BY <1>9, <1>10, <1>11 DEF MemberAt, o, e, x
<1>13. QED BY <1>6, <1>8, <1>11, <1>12 DEF s, m

\* What arrives of a body is its beginning, and without a cut all of it.
LEMMA Arrived ==
    ASSUME NEW b \in Seq(Signs), NEW cut \in Nat, NEW w, w = SubSeq(b, 1, Len(b) - cut)
    PROVE  /\ w \in Seq(Signs) /\ Len(w) \in Nat /\ Len(b) \in Nat /\ Len(w) <= Len(b)
           /\ cut = 0 => Len(w) = Len(b)
           /\ Len(b) > 0 /\ cut > 0 => Len(w) < Len(b)
           /\ Holds(w, 0, b)
<1> DEFINE n == Len(b)
           k == IF n >= cut THEN n - cut ELSE 0
<1>1. n \in Nat /\ k \in 0..n
    OBVIOUS
<1>2. w = SubSeq(b, 1, k)
  <2>1. CASE n >= cut
    BY <2>1
  <2>2. CASE ~(n >= cut)
    <3>1. SubSeq(b, 1, n - cut) = <<>> /\ SubSeq(b, 1, 0) = <<>>
        BY <1>1, <2>2
    <3>2. QED BY <2>2, <3>1
  <2>3. QED BY <2>1, <2>2
<1>3. w \in Seq(Signs) /\ Len(w) = k /\ \A m \in 1..k : w[m] = b[m]
  <2> HIDE DEF k
  <2>1. QED BY <1>1, <1>2, LongerPrefix
<1>4. Holds(w, 0, b)
    BY <1>1, <1>3 DEF Holds
<1>5. QED BY <1>1, <1>3, <1>4

\* Where the members of an upload stand.
UploadStands(w, n, t, b) ==
    /\ MemberAt(w, 0, "name", Stringify(n))
    /\ Holds(w, Len(Stringify(n)) + 6, <<"comma">>)
    /\ MemberAt(w, Len(Stringify(n)) + 7, "content", Stringify(t))
    /\ b \in Seq(Signs) /\ Len(b) = Len(Stringify(n)) + Len(Stringify(t)) + 13
    /\ Len(Stringify(n)) \in Nat /\ Len(Stringify(t)) \in Nat

\* They do in what has arrived of the body.
LEMMA UploadHeld ==
    ASSUME NEW w \in Seq(Signs), NEW n \in Seq(Chars), NEW t \in Seq(Chars), NEW b,
           b = Member("name", n) \o <<"comma">> \o Member("content", t), Holds(w, 0, b)
    PROVE  UploadStands(w, n, t, b)
<1> SUFFICES
           /\ MemberAt(w, 0, "name", Stringify(n))
           /\ Holds(w, Len(Stringify(n)) + 6, <<"comma">>)
           /\ MemberAt(w, Len(Stringify(n)) + 7, "content", Stringify(t))
           /\ b \in Seq(Signs) /\ Len(b) = Len(Stringify(n)) + Len(Stringify(t)) + 13
           /\ Len(Stringify(n)) \in Nat /\ Len(Stringify(t)) \in Nat
    BY DEF UploadStands
<1> DEFINE x == Member("name", n)
           y == Member("content", t)
           c == <<"comma">>
           h == x \o c
           l1 == Len(Stringify(n))
           l2 == Len(Stringify(t))
<1>1. "name" \in Keys /\ "content" \in Keys
    BY DEF Keys
<1>2. c \in Seq(Signs) /\ Len(c) = 1
  <2>1. "comma" \in Signs
    BY DEF Signs
  <2>2. QED BY <2>1
<1>3. x \in Seq(Signs) /\ y \in Seq(Signs)
    BY <1>1, MemberTyped
<1>4. b = h \o y
    OBVIOUS
<1> HIDE DEF x, y, c
<1>5. h \in Seq(Signs) /\ Len(h) = Len(x) + Len(c)
    BY <1>2, <1>3, Joining
<1>6. h = x \o c
    OBVIOUS
<1> HIDE DEF h
<1>7. b \in Seq(Signs) /\ Len(b) = Len(h) + Len(y)
    BY <1>3, <1>4, <1>5, Joining
<1>8. Holds(w, 0, h) /\ Holds(w, 0 + Len(h), y)
  <2>1. Holds(w, 0, h \o y)
    BY <1>4
  <2>2. 0 \in Nat
    OBVIOUS
  <2>3. QED BY <1>3, <1>5, <2>1, <2>2, HoldsBoth
<1>9. Holds(w, 0, x) /\ Holds(w, 0 + Len(x), c)
  <2>1. Holds(w, 0, x \o c)
    BY <1>6, <1>8
  <2>2. 0 \in Nat
    OBVIOUS
  <2>3. QED BY <1>2, <1>3, <2>1, <2>2, HoldsBoth
<1>10. MemberAt(w, 0, "name", Stringify(n)) /\ Len(x) = l1 + 6 /\ l1 \in Nat
  <2>1. Holds(w, 0, Member("name", n)) /\ 0 \in Nat
    BY <1>9 DEF x
  <2>2. QED BY <1>1, <2>1, MemberHeld DEF x
<1> DEFINE z == l1 + 7
<1>11. z \in Nat /\ z = 0 + Len(h)
    BY <1>2, <1>5, <1>10
<1> HIDE DEF z
<1>12. MemberAt(w, z, "content", Stringify(t)) /\ Len(y) = l2 + 6 /\ l2 \in Nat
  <2>1. Holds(w, z, Member("content", t))
    BY <1>8, <1>11 DEF y
  <2>2. QED BY <1>1, <1>11, <2>1, MemberHeld DEF y
<1>13. Holds(w, l1 + 6, c)
  <2>1. 0 + Len(x) = l1 + 6
    BY <1>10
  <2>2. QED BY <1>9, <2>1
<1>14. Len(b) = l1 + l2 + 13
    BY <1>2, <1>5, <1>7, <1>10, <1>12
<1>15. QED BY <1>7, <1>10, <1>12, <1>13, <1>14 DEF z, c

\* What is read of the string of a text.
LEMMA ReadSix ==
    ASSUME NEW w \in Seq(Signs), NEW q \in Nat, q >= 1, NEW c \in Signs, NEW d \in Signs, NEW e \in Signs,
           Holds(w, q - 1, <<c, d, e, e, e, e>>)
    PROVE  /\ ReadAt(w, q) = IF q <= Len(w) THEN c ELSE "end"
           /\ ReadAt(w, q + 1) = IF q + 1 <= Len(w) THEN d ELSE "end"
           /\ \A k \in {2, 3, 4, 5} : ReadAt(w, q + k) = IF q + k <= Len(w) THEN e ELSE "end"
<1> DEFINE s == <<c, d, e, e, e, e>>
<1>1. s \in Seq(Signs) /\ Len(s) = 6 /\ s[1] = c /\ s[2] = d /\ s[3] = e /\ s[4] = e /\ s[5] = e /\ s[6] = e
    OBVIOUS
<1>2. Holds(w, q - 1, s)
    OBVIOUS
<1> HIDE DEF s
<1>3. ASSUME NEW m \in 1..6, NEW r, r = (q - 1) + m
      PROVE  ReadAt(w, r) = IF r <= Len(w) THEN s[m] ELSE "end"
  <2>1. m \in 1..Len(s)
    BY <1>1
  <2>2. QED BY <1>1, <1>2, <1>3, <2>1, ReadHeld
<1>4. 1 \in 1..6 /\ q = (q - 1) + 1 /\ 2 \in 1..6 /\ q + 1 = (q - 1) + 2
    OBVIOUS
<1>5. ReadAt(w, q) = IF q <= Len(w) THEN c ELSE "end"
    BY <1>1, <1>3, <1>4
<1>6. ReadAt(w, q + 1) = IF q + 1 <= Len(w) THEN d ELSE "end"
    BY <1>1, <1>3, <1>4
<1>7. ASSUME NEW k \in {2, 3, 4, 5} PROVE ReadAt(w, q + k) = IF q + k <= Len(w) THEN e ELSE "end"
  <2> DEFINE m == k + 1
             r == q + k
  <2>1. m \in 1..6 /\ r = (q - 1) + m /\ s[m] = e
    <3>1. m \in 1..6 /\ r = (q - 1) + m /\ m \in {3, 4, 5, 6}
        OBVIOUS
    <3>2. \A l \in {3, 4, 5, 6} : s[l] = e
        BY <1>1
    <3>3. QED BY <3>1, <3>2
  <2> HIDE DEF m, r
  <2>2. ReadAt(w, r) = IF r <= Len(w) THEN s[m] ELSE "end"
    BY <1>3, <2>1
  <2>3. QED BY <2>1, <2>2 DEF r
<1>8. QED BY <1>5, <1>6, <1>7

\* Where the first k characters of a text end, the text of the next one begins.
LEMMA NextStringified ==
    ASSUME NEW t \in Seq(Chars), NEW w \in Seq(Signs), NEW off \in Nat, NEW full, full = Stringify(t),
           Holds(w, off, full), NEW k \in 0..Len(t), NEW q, q = PlaceOf(off, Strings(t), k)
    PROVE  /\ q \in Nat /\ q >= off + 1 /\ q <= off + Len(full) + 1 /\ Len(full) \in Nat
           /\ PlaceOf(off, Strings(t), 0) = off + 1
           /\ k = Len(t) => q = off + Len(full) + 1
           /\ k < Len(t) =>
                 /\ PlaceOf(off, Strings(t), k + 1) = q + Len(StringifiedAs(t[k + 1]))
                 /\ Holds(w, q - 1, StringifiedAs(t[k + 1]))
                 /\ PlaceOf(off, Strings(t), k + 1) <= off + Len(full) + 1
<1> DEFINE ss == Strings(t)
           n == Len(t)
           e == off + Len(full) + 1
<1>1. ss \in Seq(Seq(Signs)) /\ Len(ss) = n /\ full = FlattenSeq(ss) /\ \A j \in 1..n : ss[j] = StringifiedAs(t[j])
    BY StringsFacts
<1>2. q = PlaceOf(off, ss, k) /\ n \in Nat /\ k \in 0..n
    OBVIOUS
<1>3. full \in Seq(Signs)
    BY ClientTexts
<1> HIDE DEF ss, n
<1>4. \A j \in 0..n : /\ PlaceOf(off, ss, j) \in Nat /\ PlaceOf(off, ss, j) >= off + 1
                      /\ PlaceOf(off, ss, 0) = off + 1
                      /\ NextIs(w, off, ss, j)
    BY <1>1, NextPiece
<1>5. Len(full) \in Nat
    BY <1>3
<1>6. q \in Nat /\ q >= off + 1 /\ PlaceOf(off, ss, 0) = off + 1 /\ NextIs(w, off, ss, k)
    BY <1>2, <1>4
<1>7. (k = n => q = e) /\ q <= e
    BY <1>1, <1>2, <1>6 DEF NextIs
<1>8. ASSUME k < n
      PROVE  /\ PlaceOf(off, ss, k + 1) = q + Len(StringifiedAs(t[k + 1]))
             /\ Holds(w, q - 1, StringifiedAs(t[k + 1]))
  <2>1. k + 1 \in 1..n
    BY <1>2, <1>8
  <2>2. PlaceOf(off, ss, k + 1) = q + Len(ss[k + 1]) /\ Holds(w, q - 1, ss[k + 1])
    BY <1>1, <1>2, <1>6, <1>8 DEF NextIs
  <2>3. ss[k + 1] = StringifiedAs(t[k + 1])
    BY <1>1, <2>1
  <2>4. QED BY <2>2, <2>3
<1>9. ASSUME k < n PROVE PlaceOf(off, ss, k + 1) <= e
  <2> DEFINE j == k + 1
  <2>1. j \in 0..n
    BY <1>2, <1>9
  <2> HIDE DEF j
  <2>2. NextIs(w, off, ss, j)
    BY <1>4, <2>1
  <2>3. PlaceOf(off, ss, j) <= e
    BY <1>1, <2>2 DEF NextIs
  <2>4. QED BY <2>3 DEF j
<1>10. QED BY <1>5, <1>6, <1>7, <1>8, <1>9 DEF n, ss

\* What stands at q where the text of c begins.
WrittenThere(w, q, c) ==
    /\ AsItIs(c) => Len(StringifiedAs(c)) = 1 /\ ReadAt(w, q) = IF q <= Len(w) THEN c ELSE "end"
    /\ ~AsItIs(c) => /\ Len(StringifiedAs(c)) >= 2
                     /\ ReadAt(w, q) = IF q <= Len(w) THEN "backslash" ELSE "end"
    /\ ~AsItIs(c) /\ c # "ctl" =>
          /\ Len(StringifiedAs(c)) = 2
          /\ ReadAt(w, q + 1) = IF q + 1 <= Len(w) THEN LetterOf(c) ELSE "end"
    /\ c = "ctl" =>
          /\ Len(StringifiedAs(c)) = 6
          /\ ReadAt(w, q + 1) = IF q + 1 <= Len(w) THEN "u" ELSE "end"
          /\ \A k \in {2, 3, 4, 5} : ReadAt(w, q + k) = IF q + k <= Len(w) THEN "h" ELSE "end"

\* The three ways in which the next character may be written.
LEMMA NextRead ==
    ASSUME NEW w \in Seq(Signs), NEW q \in Nat, q >= 1, NEW c \in Chars, Holds(w, q - 1, StringifiedAs(c))
    PROVE  WrittenThere(w, q, c)
<1> SUFFICES
           /\ AsItIs(c) => Len(StringifiedAs(c)) = 1 /\ ReadAt(w, q) = IF q <= Len(w) THEN c ELSE "end"
           /\ ~AsItIs(c) => /\ Len(StringifiedAs(c)) >= 2
                            /\ ReadAt(w, q) = IF q <= Len(w) THEN "backslash" ELSE "end"
           /\ ~AsItIs(c) /\ c # "ctl" =>
                 /\ Len(StringifiedAs(c)) = 2
                 /\ ReadAt(w, q + 1) = IF q + 1 <= Len(w) THEN LetterOf(c) ELSE "end"
           /\ c = "ctl" =>
                 /\ Len(StringifiedAs(c)) = 6
                 /\ ReadAt(w, q + 1) = IF q + 1 <= Len(w) THEN "u" ELSE "end"
                 /\ \A k \in {2, 3, 4, 5} : ReadAt(w, q + k) = IF q + k <= Len(w) THEN "h" ELSE "end"
    BY DEF WrittenThere
<1> DEFINE s == StringifiedAs(c)
           bs == "backslash"
           u == "u"
           h == "h"
           l == LetterOf(c)
<1>1. /\ c \in Signs /\ l \in Signs /\ bs \in Signs /\ u \in Signs /\ h \in Signs
      /\ AsItIs(c) => s = <<c>> /\ Len(s) = 1
      /\ ~AsItIs(c) /\ c # "ctl" => s = <<bs, l>> /\ Len(s) = 2
      /\ c = "ctl" => s = <<bs, u, h, h, h, h>>
    BY StringifiedIs
<1>2. Holds(w, q - 1, s)
    OBVIOUS
<1>3. AsItIs(c) \/ c = "ctl" \/ (~AsItIs(c) /\ c # "ctl")
    OBVIOUS
<1>4. c = "ctl" => ~AsItIs(c)
    BY DEF AsItIs
<1> HIDE DEF s, bs, u, h, l
<1>5. CASE AsItIs(c)
  <2>1. Holds(w, q - 1, <<c>>) /\ Len(s) = 1
    BY <1>1, <1>2, <1>5
  <2>2. ReadAt(w, q) = IF q <= Len(w) THEN c ELSE "end"
    BY <1>1, <2>1, ReadOne
  <2>3. QED BY <1>4, <1>5, <2>1, <2>2 DEF s
<1>6. CASE ~AsItIs(c) /\ c # "ctl"
  <2>1. Holds(w, q - 1, <<bs, l>>) /\ Len(s) = 2
    BY <1>1, <1>2, <1>6
  <2>2. /\ ReadAt(w, q) = IF q <= Len(w) THEN bs ELSE "end"
        /\ ReadAt(w, q + 1) = IF q + 1 <= Len(w) THEN l ELSE "end"
    BY <1>1, <2>1, ReadTwo
  <2>3. QED BY <1>6, <2>1, <2>2 DEF s, bs, l
<1>7. CASE c = "ctl"
  <2>1. Holds(w, q - 1, <<bs, u, h, h, h, h>>) /\ Len(s) = 6
    <3>1. s = <<bs, u, h, h, h, h>>
        BY <1>1, <1>7
    <3>2. QED BY <1>2, <3>1
  <2>2. /\ ReadAt(w, q) = IF q <= Len(w) THEN bs ELSE "end"
        /\ ReadAt(w, q + 1) = IF q + 1 <= Len(w) THEN u ELSE "end"
        /\ \A k \in {2, 3, 4, 5} : ReadAt(w, q + k) = IF q + k <= Len(w) THEN h ELSE "end"
    BY <1>1, <2>1, ReadSix
  <2>3. /\ Len(StringifiedAs(c)) = 6
        /\ ReadAt(w, q) = IF q <= Len(w) THEN "backslash" ELSE "end"
        /\ ReadAt(w, q + 1) = IF q + 1 <= Len(w) THEN "u" ELSE "end"
        /\ \A k \in {2, 3, 4, 5} : ReadAt(w, q + k) = IF q + k <= Len(w) THEN "h" ELSE "end"
    BY <2>1, <2>2 DEF s, bs, u, h
  <2>4. ~AsItIs(c)
    BY <1>4, <1>7, Zenon
  <2>5. Len(StringifiedAs(c)) >= 2
    BY <2>3
  <2>6. QED BY <1>7, <2>3, <2>4, <2>5, Zenon
<1>8. QED BY <1>3, <1>5, <1>6, <1>7

\* A character is joined at the end.
LEMMA OneBehind ==
    ASSUME NEW S, NEW s \in Seq(S), NEW c \in S
    PROVE  Append(s, c) = s \o <<c>>
OBVIOUS

\* Of a text without characters that JSON can only write as \u, nothing is dropped.
LEMMA NoneDropped ==
    ASSUME NEW t \in Seq(Signs), NEW D, \A k \in 1..Len(t) : t[k] \notin D, NEW k \in 0..Len(t)
    PROVE  Without(SubSeq(t, 1, k), D) = SubSeq(t, 1, k)
<1> DEFINE n == Len(t)
           S == {j \in 0..n : Without(SubSeq(t, 1, j), D) = SubSeq(t, 1, j)}
<1>1. n \in Nat
    OBVIOUS
<1>2. 0 \in S
  <2>1. SubSeq(t, 1, 0) = <<>>
    BY NoneRead
  <2>2. Without(<<>>, D) = <<>>
    BY OfNothing
  <2>3. Without(SubSeq(t, 1, 0), D) = SubSeq(t, 1, 0)
    BY <2>1, <2>2
  <2>4. QED BY <1>1, <2>3
<1>3. ASSUME NEW j \in 1..n, j - 1 \in S PROVE j \in S
  <2> DEFINE i1 == j - 1
             a == SubSeq(t, 1, i1)
             c == t[j]
  <2>1. i1 \in 0..n /\ i1 < n /\ i1 + 1 = j /\ j \in 0..n
    BY <1>1
  <2>2. c \in Signs /\ c \notin D
    OBVIOUS
  <2>3. Without(a, D) = a
    BY <1>3
  <2>4. a \in Seq(Signs) /\ SubSeq(t, 1, i1 + 1) = Append(a, t[i1 + 1])
    <3> HIDE DEF i1
    <3>1. QED BY <2>1, LongerPrefix
  <2>5. SubSeq(t, 1, j) = Append(a, c)
    BY <2>1, <2>4
  <2> HIDE DEF a, c, i1
  <2>6. Without(Append(a, c), D) = Without(a, D) \o Kept(c, D)
    BY <2>2, <2>4, WithoutGrows
  <2>7. Kept(c, D) = <<c>>
    BY <2>2 DEF Kept
  <2>8. Append(a, c) = a \o <<c>>
    BY <2>2, <2>4, OneBehind
  <2>9. Without(SubSeq(t, 1, j), D) = SubSeq(t, 1, j)
    BY <2>3, <2>5, <2>6, <2>7, <2>8
  <2>10. QED BY <2>1, <2>9
<1> HIDE DEF S
<1>5. \A j \in 0..n : j \in S
    BY <1>1, <1>2, <1>3, Induction
<1>6. QED BY <1>5 DEF S

\* A quote in a string that the client wrote stands behind a backslash.
QuotesGuarded(s) == \A k \in 1..Len(s) : s[k] = "quote" => k > 1 /\ s[k - 1] = "backslash"

\* So it is in the text of one character.
LEMMA StringifiedGuarded ==
    ASSUME NEW c \in Chars
    PROVE  StringifiedAs(c) \in Seq(Signs) /\ QuotesGuarded(StringifiedAs(c))
<1> DEFINE T == Seq(Signs)
<1>1. AsItIs(c) \/ c = "ctl" \/ (~AsItIs(c) /\ c # "ctl")
  OBVIOUS
<1>2. CASE AsItIs(c)
  <2>1. StringifiedAs(c) = <<c>> /\ c \in Signs
      BY <1>2, StringifiedIs
  <2>2. c # "quote"
      BY <1>2 DEF AsItIs
  <2>3. <<c>> \in T /\ QuotesGuarded(<<c>>)
      BY <2>1, <2>2 DEF QuotesGuarded
  <2>4. QED BY <2>1, <2>3
<1>3. CASE ~AsItIs(c) /\ c # "ctl"
  <2> DEFINE l == LetterOf(c)
  <2>1. StringifiedAs(c) = <<"backslash", l>> /\ l \in Signs /\ "backslash" \in Signs
      BY <1>3, StringifiedIs
  <2> HIDE DEF l
  <2>2. <<"backslash", l>> \in T /\ QuotesGuarded(<<"backslash", l>>)
      BY <2>1 DEF QuotesGuarded
  <2>3. QED BY <2>1, <2>2
<1>4. CASE c = "ctl"
  <2>1. StringifiedAs(c) = <<"backslash", "u", "h", "h", "h", "h">> /\ {"backslash", "u", "h"} \subseteq Signs
      BY <1>4, StringifiedIs
  <2>2. /\ <<"backslash", "u", "h", "h", "h", "h">> \in T
        /\ QuotesGuarded(<<"backslash", "u", "h", "h", "h", "h">>)
      BY <2>1 DEF QuotesGuarded
  <2>3. QED BY <2>1, <2>2
<1>5. QED BY <1>1, <1>2, <1>3, <1>4

\* And in the text of all of them.
LEMMA QuotesBehind ==
    ASSUME NEW t \in Seq(Chars)
    PROVE  QuotesGuarded(Stringify(t))
<1> DEFINE ss == Strings(t)
           T == Seq(Signs)
           G == {s \in T : QuotesGuarded(s)}
<1>1. ss \in Seq(T) /\ Len(ss) = Len(t) /\ Stringify(t) = FlattenSeq(ss)
      /\ \A k \in 1..Len(t) : ss[k] = StringifiedAs(t[k])
    BY StringsFacts
<1>2. <<>> \in G
  <2>1. QuotesGuarded(<<>>)
    BY DEF QuotesGuarded
  <2>2. QED BY <2>1
<1>3. ASSUME NEW c \in Chars PROVE StringifiedAs(c) \in T /\ QuotesGuarded(StringifiedAs(c))
    BY StringifiedGuarded
<1>4. ASSUME NEW s \in T, QuotesGuarded(s), NEW e \in T, QuotesGuarded(e) PROVE s \o e \in T /\ QuotesGuarded(s \o e)
  <2> DEFINE b == s \o e
  <2>1. /\ b \in T /\ Len(b) = Len(s) + Len(e) /\ Len(s) \in Nat /\ Len(e) \in Nat
        /\ \A k \in 1..Len(s) : b[k] = s[k]
        /\ \A k \in 1..Len(e) : b[Len(s) + k] = e[k]
    BY Joining
  <2> HIDE DEF b
  <2>2. ASSUME NEW k \in 1..Len(b), b[k] = "quote" PROVE k > 1 /\ b[k - 1] = "backslash"
    <3>1. CASE k <= Len(s)
        <4>1. k \in 1..Len(s) /\ s[k] = "quote"
            BY <2>1, <2>2, <3>1
        <4>2. k > 1 /\ s[k - 1] = "backslash"
            BY <1>4, <4>1 DEF QuotesGuarded
        <4>3. k - 1 \in 1..Len(s)
            BY <2>1, <4>1, <4>2
        <4>4. QED BY <2>1, <4>2, <4>3
    <3>2. CASE k > Len(s)
        <4> DEFINE l == k - Len(s)
        <4>1. l \in 1..Len(e) /\ k = Len(s) + l /\ l - 1 = (k - 1) - Len(s)
            BY <2>1, <3>2
        <4> HIDE DEF l
        <4>2. e[l] = "quote"
            BY <2>1, <2>2, <4>1
        <4>3. l > 1 /\ e[l - 1] = "backslash"
            BY <1>4, <4>1, <4>2 DEF QuotesGuarded
        <4>4. l - 1 \in 1..Len(e) /\ Len(s) + (l - 1) = k - 1 /\ k > 1
            BY <2>1, <4>1, <4>3
        <4>5. QED BY <2>1, <4>3, <4>4
    <3>3. QED BY <2>1, <3>1, <3>2
  <2>3. QED BY <2>1, <2>2 DEF QuotesGuarded, b
<1>5. \A s \in G : \A k \in 1..Len(ss) : s \o ss[k] \in G
  <2>1. ASSUME NEW s \in G, NEW k \in 1..Len(ss) PROVE s \o ss[k] \in G
    <3>1. t[k] \in Chars /\ ss[k] = StringifiedAs(t[k])
        BY <1>1
    <3>2. ss[k] \in T /\ QuotesGuarded(ss[k])
        BY <1>3, <3>1
    <3>3. s \in T /\ QuotesGuarded(s)
        OBVIOUS
    <3>4. s \o ss[k] \in T /\ QuotesGuarded(s \o ss[k])
        BY <1>4, <3>2, <3>3
    <3>5. QED BY <3>4
  <2>2. QED BY <2>1
<1>6. FlattenSeq(ss) \in G
  <2>1. G \in SUBSET T
    OBVIOUS
  <2> HIDE DEF G, ss
  <2>2. QED BY <1>1, <1>2, <1>5, <2>1, FlatIn
<1>7. QED BY <1>1, <1>6

\* A string ends with a key only if its text does.
LEMMA EndsWithKey ==
    ASSUME NEW t \in Seq(Chars), NEW l, l = Len(Stringify(t)), l > 0, Stringify(t)[l] = "content"
    PROVE  Len(t) > 0 /\ t[Len(t)] = "content"
<1> DEFINE ss == Strings(t)
           n == Len(t)
           f == Upto(ss)
           s == Stringify(t)
<1>1. ss \in Seq(Seq(Signs)) /\ Len(ss) = n /\ s = FlattenSeq(ss)
      /\ \A k \in 1..n : ss[k] = StringifiedAs(t[k])
    BY StringsFacts
<1>2. n \in Nat /\ \A k \in 1..n : t[k] \in Chars
    OBVIOUS
<1>3. s \in Seq(Signs) /\ l \in Nat
    BY ClientTexts
<1>4. s[l] = "content"
    OBVIOUS
<1> HIDE DEF ss, n
<1>5. /\ f[0] = <<>> /\ f[n] = s
      /\ \A k \in 0..n : f[k] \in Seq(Signs) /\ Len(f[k]) \in Nat
      /\ \A k \in 1..n : f[k] = f[k - 1] \o ss[k] /\ ss[k] \in Seq(Signs)
    BY <1>1, UptoFacts
<1> HIDE DEF f, s
<1>6. l = Len(s)
    BY DEF s
<1>7. n > 0
  <2>1. n = 0 => s = <<>>
    BY <1>5
  <2>2. s # <<>>
    BY <1>3, <1>6
  <2>3. QED BY <1>2, <2>1, <2>2
<1> DEFINE a == f[n - 1]
           c == t[n]
           e == StringifiedAs(c)
<1>8. n \in 1..n /\ n - 1 \in 0..n /\ c \in Chars
    BY <1>2, <1>7
<1>9. s = a \o e /\ a \in Seq(Signs) /\ e \in Seq(Signs)
    BY <1>1, <1>5, <1>8
<1>10. /\ AsItIs(c) => e = <<c>>
       /\ ~AsItIs(c) /\ c # "ctl" => e = <<"backslash", LetterOf(c)>>
       /\ c = "ctl" => e = <<"backslash", "u", "h", "h", "h", "h">>
    BY <1>8, StringifiedIs
<1>11. ~AsItIs(c) /\ c # "ctl" => LetterOf(c) # "content"
    BY DEF LetterOf, AsItIs
<1> HIDE DEF a, c, e
<1>12. Len(e) > 0 => s[l] = e[Len(e)]
  <2>1. Len(e) \in Nat /\ l = Len(a) + Len(e)
    BY <1>6, <1>9, Joining
  <2>2. Len(e) > 0 => Len(e) \in 1..Len(e)
    BY <2>1
  <2>3. \A k \in 1..Len(e) : s[Len(a) + k] = e[k]
    BY <1>9, Joining
  <2>4. QED BY <2>1, <2>2, <2>3
<1>13. CASE AsItIs(c)
  <2>1. Len(e) = 1 /\ e[1] = c
    BY <1>10, <1>13
  <2>2. QED BY <1>4, <1>7, <1>12, <2>1 DEF n, c
<1>14. CASE ~AsItIs(c) /\ c # "ctl"
  <2>1. Len(e) = 2 /\ e[2] = LetterOf(c)
    BY <1>10, <1>14
  <2>2. QED BY <1>4, <1>11, <1>12, <1>14, <2>1
<1>15. CASE c = "ctl"
  <2>1. Len(e) = 6 /\ e[6] = "h"
    BY <1>10, <1>15
  <2>2. QED BY <1>4, <1>12, <2>1
<1>16. QED BY <1>13, <1>14, <1>15

\* The greatest element of a set of numbers.
LEMMA HighestOf ==
    ASSUME NEW S \in SUBSET Nat, S # {}, NEW l \in Nat, \A k \in S : k <= l
    PROVE  Max(S) \in S /\ \A k \in S : k <= Max(S)
<1> DEFINE back == {l - k : k \in S}
<1>1. back \in SUBSET Nat /\ back # {}
  <2>1. \A k \in S : l - k \in Nat
    OBVIOUS
  <2>2. QED BY <2>1
<1>2. \E b \in back : \A c \in back : b <= c
  <2> HIDE DEF back
  <2>1. QED BY <1>1, LeastOf
<1>3. PICK b \in back : \A c \in back : b <= c
    BY <1>2
<1>4. PICK m \in S : b = l - m
    BY <1>3
<1>5. \A k \in S : l - m <= l - k
    BY <1>3, <1>4
<1>6. \A k \in S : k <= m
    BY <1>5
<1>7. QED BY <1>6 DEF Max

\* Of a name that ends with neither a slash nor a backslash, the last part ends like it.
LEMMA BaseEnds ==
    ASSUME NEW n \in Seq(Chars), n = <<>> \/ n[Len(n)] = "content"
    PROVE  ~resolve_md_path(Base(n))
<1> DEFINE cuts == {k \in DOMAIN n : n[k] \in {"slash", "backslash"}}
           l == Len(n)
<1>1. DOMAIN n = 1..l /\ l \in Nat
    OBVIOUS
<1>2. SUFFICES ASSUME Base(n) # <<>>, Last(Base(n)) = ".md" PROVE FALSE
    BY DEF resolve_md_path, IsMarkdown
<1>3. CASE cuts = {}
  <2>1. Base(n) = n
    BY <1>3 DEF Base
  <2>2. QED BY <1>1, <1>2, <2>1 DEF Last
<1>4. CASE cuts # {}
  <2>1. cuts \in SUBSET Nat /\ \A k \in cuts : k <= l /\ n[k] \in {"slash", "backslash"} /\ k \in 1..l
    BY <1>1
  <2> DEFINE m == Max(cuts)
             b == SubSeq(n, m + 1, l)
  <2>2. m \in cuts /\ Base(n) = b
    <3>1. m \in cuts
        <4> HIDE DEF cuts
        <4>1. QED BY <1>1, <1>4, <2>1, HighestOf
    <3>2. QED BY <1>4, <3>1 DEF Base
  <2>3. m \in 1..l /\ n[m] \in {"slash", "backslash"} /\ l > 0
    BY <1>1, <2>1, <2>2
  <2> HIDE DEF m
  <2>4. n # <<>> /\ n[l] = "content"
    <3>1. n # <<>>
        BY <2>3
    <3>2. QED BY <3>1
  <2>5. m # l
    BY <2>3, <2>4
  <2>6. m \in Nat /\ m < l /\ l \in Nat /\ l - m \in 1..(l - (m + 1) + 1)
    <3>1. m \in 1..l /\ l \in Nat
        BY <1>1, <2>3
    <3>2. QED BY <2>5, <3>1
  <2>7. Len(b) = l - m /\ b[l - m] = n[l]
    <3>1. m + 1 \in 1..l /\ l - m \in Nat /\ (m + 1) + (l - m) - 1 = l
        BY <2>6
    <3> HIDE DEF l
    <3>2. l = Len(n)
        BY DEF l
    <3>3. Len(b) = l - m /\ \A k \in 1..(l - m) : b[k] = n[(m + 1) + k - 1]
        BY <2>6, <3>1, <3>2
    <3>4. l - m \in 1..(l - m)
        BY <2>6
    <3>5. QED BY <3>1, <3>3, <3>4
  <2>8. QED BY <1>2, <2>2, <2>4, <2>7 DEF Last
<1>5. QED BY <1>3, <1>4

-----------------------------------------------------------------------------
(* The member of the body that is looked for. *)

Sends == job.is \in {"post", "upload"} /\ "ctl" \notin Range(job.name)

\* What is known of the body and of the text at hand.
LEMMA BodyAtHand ==
    ASSUME JsonInv, SavedInv, Sends
    PROVE  /\ job.name \in Seq(Chars) /\ job.text \in Seq(Chars) /\ job.cut \in Nat
           /\ wire \in Seq(Signs) /\ Len(wire) \in Nat /\ pos \in Nat /\ pos >= 1 /\ out \in Seq(Signs)
           /\ TextAtHand \in Seq(Chars) /\ Len(TextAtHand) \in Nat
           /\ field \in Keys /\ (field = "name" => job.is = "upload")
           /\ wire = Arriving(job)
<1>1. WireTypeOK /\ job.text \in Seq(Chars)
    BY DEF JsonInv
<1>2. wire \in Seq(Signs) /\ pos \in Nat \ {0} /\ out \in Seq(Signs) /\ field \in Keys
    BY <1>1 DEF WireTypeOK
<1>3. /\ job.name \in Seq(Chars) /\ job.cut \in Nat /\ wire = Arriving(job)
      /\ field = "name" => job.is = "upload"
    BY DEF SavedInv, Sends
<1>4. TextAtHand \in Seq(Chars)
    BY <1>1, <1>3 DEF TextAtHand
<1>5. Len(wire) \in Nat /\ pos \in Nat /\ pos >= 1
    BY <1>2
<1>6. Len(TextAtHand) \in Nat
  <2> DEFINE t == TextAtHand
  <2>1. t \in Seq(Chars)
    BY <1>4
  <2> HIDE DEF t
  <2>2. Len(t) \in Nat
    BY <2>1
  <2>3. QED BY <2>2 DEF t
<1>7. QED BY <1>1, <1>2, <1>3, <1>4, <1>5, <1>6

\* As much of the body as arrived.
LEMMA BodyPlaces ==
    ASSUME JsonInv, SavedInv, Sends, NEW full, full = Stringify(TextAtHand), NEW total, total = Len(Body(job))
    PROVE  /\ Len(full) \in Nat /\ full \in Seq(Signs) /\ InFront \in Nat /\ InFront >= 5 /\ total \in Nat
           /\ Holds(wire, InFront - 5, Opens(field))
           /\ Holds(wire, InFront, full)
           /\ Holds(wire, InFront + Len(full), <<"quote">>)
           /\ InFront + Len(full) + 1 <= total
           /\ field = "content" => InFront + Len(full) + 1 = total
           /\ job.cut = 0 => Len(wire) = total
           /\ job.cut > 0 => Len(wire) < total
           /\ Len(wire) <= total
<1> DEFINE b == Body(job)
           n == job.name
           t == job.text
           w == wire
           sn == Stringify(n)
           st == Stringify(t)
<1>1. /\ n \in Seq(Chars) /\ t \in Seq(Chars) /\ job.cut \in Nat /\ w \in Seq(Signs)
      /\ w = SubSeq(b, 1, Len(b) - job.cut) /\ field \in {"name", "content"}
      /\ field = "name" => job.is = "upload"
      /\ job.is \in {"post", "upload"}
    BY BodyAtHand DEF Arriving, Keys, Sends
<1>2. b \in Seq(Signs)
  <2>1. "name" \in Keys /\ "content" \in Keys
    BY DEF Keys
  <2>2. Member("name", n) \in Seq(Signs) /\ Member("content", t) \in Seq(Signs)
    BY <1>1, <2>1, MemberTyped
  <2>3. <<"comma">> \in Seq(Signs)
    BY DEF Signs
  <2>4. Member("name", n) \o <<"comma">> \in Seq(Signs)
    BY <2>2, <2>3, Joining
  <2>5. Member("name", n) \o <<"comma">> \o Member("content", t) \in Seq(Signs)
    BY <2>2, <2>4, Joining
  <2>6. QED BY <2>2, <2>5 DEF Body
<1> HIDE DEF b, n, t, w, sn, st
<1>3. /\ total = Len(b) /\ total \in Nat /\ Len(w) \in Nat
      /\ Len(w) <= total /\ (job.cut = 0 => Len(w) = total)
      /\ total > 0 /\ job.cut > 0 => Len(w) < total
      /\ Holds(w, 0, b)
  <2>1. total = Len(b)
    BY DEF b
  <2>2. b \in Seq(Signs) /\ job.cut \in Nat /\ w = SubSeq(b, 1, Len(b) - job.cut)
    BY <1>1, <1>2
  <2>3. /\ w \in Seq(Signs) /\ Len(w) \in Nat /\ Len(b) \in Nat /\ Len(w) <= Len(b)
        /\ job.cut = 0 => Len(w) = Len(b)
        /\ Len(b) > 0 /\ job.cut > 0 => Len(w) < Len(b)
        /\ Holds(w, 0, b)
    BY <2>2, Arrived, Zenon
  <2>4. QED BY <2>1, <2>3
<1>4. CASE job.is = "upload"
  <2>1. b = Member("name", n) \o <<"comma">> \o Member("content", t)
    BY <1>4 DEF Body, b, n, t
  <2>2. /\ MemberAt(w, 0, "name", Stringify(n))
        /\ MemberAt(w, Len(Stringify(n)) + 7, "content", Stringify(t))
        /\ Len(b) = Len(Stringify(n)) + Len(Stringify(t)) + 13
        /\ Len(Stringify(n)) \in Nat /\ Len(Stringify(t)) \in Nat
    <3>1. w \in Seq(Signs) /\ n \in Seq(Chars) /\ t \in Seq(Chars) /\ Holds(w, 0, b)
        BY <1>1, <1>3
    <3>2. UploadStands(w, n, t, b)
        BY <2>1, <3>1, UploadHeld
    <3>3. QED BY <3>2, Zenon DEF UploadStands
  <2>3. Stringify(n) \in Seq(Signs) /\ Stringify(t) \in Seq(Signs)
    BY <1>1, ClientTexts
  <2>4. CASE field = "name"
    <3>1. full = sn /\ InFront = 5
        BY <2>4, <1>4 DEF TextAtHand, InFront, sn, n
    <3>2. Holds(w, 0, Opens("name")) /\ Holds(w, 5, sn) /\ Holds(w, 5 + Len(sn), <<"quote">>)
        <4>1. Holds(w, 0, Opens("name")) /\ Holds(w, 0 + 5, sn) /\ Holds(w, 0 + 5 + Len(sn), <<"quote">>)
            BY <2>2 DEF MemberAt, sn
        <4>2. 0 + 5 = 5
            OBVIOUS
        <4>3. QED BY <4>1, <4>2
    <3>3. InFront - 5 = 0 /\ InFront + Len(full) = 5 + Len(sn)
        BY <3>1
    <3>4. Holds(w, InFront - 5, Opens(field)) /\ Holds(w, InFront, full) /\ Holds(w, InFront + Len(full), <<"quote">>)
        BY <2>4, <3>1, <3>2, <3>3
    <3>5. InFront + Len(full) + 1 <= total /\ Len(full) \in Nat /\ full \in Seq(Signs) /\ InFront \in Nat
          /\ InFront >= 5
        BY <1>3, <2>2, <2>3, <3>1 DEF sn, st
    <3>6. QED BY <1>3, <2>2, <2>4, <3>4, <3>5 DEF w
  <2>5. CASE field = "content"
    <3> DEFINE o == Len(sn) + 7
    <3>1. full = st /\ InFront = Len(sn) + 12 /\ Len(sn) \in Nat /\ Len(st) \in Nat
        BY <2>2, <2>5, <1>4 DEF TextAtHand, InFront, sn, st, n, t
    <3>2. o = Len(sn) + 7 /\ o \in Nat /\ InFront - 5 = o /\ o + 5 = InFront
        BY <3>1
    <3> HIDE DEF o
    <3>3. Holds(w, o, Opens("content")) /\ Holds(w, o + 5, st) /\ Holds(w, o + 5 + Len(st), <<"quote">>)
        BY <2>2, <3>2 DEF MemberAt, sn, st
    <3>4. Holds(w, InFront - 5, Opens(field)) /\ Holds(w, InFront, full) /\ Holds(w, InFront + Len(full), <<"quote">>)
        BY <2>5, <3>1, <3>2, <3>3
    <3>5. InFront + Len(full) + 1 = total /\ Len(full) \in Nat /\ full \in Seq(Signs) /\ InFront \in Nat
          /\ InFront >= 5 /\ total > 0
        BY <1>3, <2>2, <2>3, <3>1 DEF sn, st
    <3>6. QED BY <1>3, <2>2, <2>5, <3>4, <3>5 DEF w
  <2>6. QED BY <1>1, <2>4, <2>5
<1>5. CASE job.is = "post"
  <2>1. b = Member("content", t) /\ field = "content"
    BY <1>1, <1>5 DEF Body, b, t
  <2>2. MemberAt(w, 0, "content", Stringify(t)) /\ Len(b) = Len(Stringify(t)) + 6 /\ Len(Stringify(t)) \in Nat
    <3>1. 0 \in Nat /\ "content" \in Keys /\ Holds(w, 0, Member("content", t))
        BY <1>3, <2>1 DEF Keys
    <3>2. QED BY <1>1, <2>1, <3>1, MemberHeld
  <2>3. Stringify(t) \in Seq(Signs)
    BY <1>1, ClientTexts
  <2>4. full = st /\ InFront = 5
    BY <2>1, <1>5 DEF TextAtHand, InFront, st, t
  <2>5. Holds(w, 0, Opens("content")) /\ Holds(w, 5, st) /\ Holds(w, 5 + Len(st), <<"quote">>)
    <3>1. Holds(w, 0, Opens("content")) /\ Holds(w, 0 + 5, st) /\ Holds(w, 0 + 5 + Len(st), <<"quote">>)
        BY <2>2 DEF MemberAt, st
    <3>2. 0 + 5 = 5
        OBVIOUS
    <3>3. QED BY <3>1, <3>2
  <2>6. InFront - 5 = 0 /\ InFront + Len(full) = 5 + Len(st)
    BY <2>4
  <2>7. Holds(w, InFront - 5, Opens(field)) /\ Holds(w, InFront, full) /\ Holds(w, InFront + Len(full), <<"quote">>)
    BY <2>1, <2>4, <2>5, <2>6
  <2>8. InFront + Len(full) + 1 = total /\ Len(full) \in Nat /\ full \in Seq(Signs) /\ InFront \in Nat
        /\ InFront >= 5 /\ total > 0
    BY <1>3, <2>2, <2>3, <2>4 DEF st
  <2>9. QED BY <1>3, <2>1, <2>7, <2>8 DEF w
<1>6. QED BY <1>1, <1>4, <1>5

\* What is read behind the first k characters of a text.
LEMMA ReadHere ==
    ASSUME JsonInv, SavedInv, Sends, NEW k \in 0..Len(TextAtHand), ReadUpTo(k), NEW c, c = TextAtHand[k + 1],
           NEW total, total = Len(Body(job))
    PROVE  /\ total \in Nat /\ pos <= total
           /\ k = Len(TextAtHand) => /\ At(pos) = IF pos <= Len(wire) THEN "quote" ELSE "end"
                                     /\ field = "content" => pos = total
           /\ k < Len(TextAtHand) =>
                 /\ c \in Chars /\ c \in Signs /\ (field = "name" => c # "ctl")
                 /\ PlaceOf(InFront, Strings(TextAtHand), k + 1) = pos + Len(StringifiedAs(c))
                 /\ pos + Len(StringifiedAs(c)) <= total
                 /\ AsItIs(c) => /\ Len(StringifiedAs(c)) = 1
                                 /\ At(pos) = IF pos <= Len(wire) THEN c ELSE "end"
                 /\ ~AsItIs(c) => /\ Len(StringifiedAs(c)) >= 2
                                  /\ At(pos) = IF pos <= Len(wire) THEN "backslash" ELSE "end"
                 /\ ~AsItIs(c) /\ c # "ctl" =>
                       /\ Len(StringifiedAs(c)) = 2
                       /\ At(pos + 1) = IF pos + 1 <= Len(wire) THEN LetterOf(c) ELSE "end"
                 /\ c = "ctl" =>
                       /\ Len(StringifiedAs(c)) = 6
                       /\ At(pos + 1) = IF pos + 1 <= Len(wire) THEN "u" ELSE "end"
                       /\ \A m \in {2, 3, 4, 5} : At(pos + m) = IF pos + m <= Len(wire) THEN "h" ELSE "end"
<1> DEFINE t == TextAtHand
           q == pos
           w == wire
           full == Stringify(t)
           off == InFront
           e == off + Len(full)
           ss == Strings(t)
<1>1. /\ w \in Seq(Signs) /\ Len(w) \in Nat /\ q \in Nat /\ q >= 1
      /\ t \in Seq(Chars) /\ Len(t) \in Nat
      /\ field \in Keys /\ \A m : At(m) = ReadAt(w, m)
    BY BodyAtHand, AtIsRead
<1>2. /\ Len(full) \in Nat /\ off \in Nat /\ total \in Nat
      /\ Holds(w, off, full) /\ Holds(w, e, <<"quote">>)
      /\ e + 1 <= total /\ (field = "content" => e + 1 = total)
  <2>1. full = Stringify(TextAtHand)
    OBVIOUS
  <2> HIDE DEF full
  <2>2. QED BY <2>1, BodyPlaces
<1>3. k \in 0..Len(t) /\ q = PlaceOf(off, ss, k) /\ c = t[k + 1]
    BY DEF ReadUpTo
<1> HIDE DEF t, q, w, off
<1>4. /\ q <= off + Len(full) + 1
      /\ k = Len(t) => q = off + Len(full) + 1
      /\ k < Len(t) =>
            /\ PlaceOf(off, ss, k + 1) = q + Len(StringifiedAs(t[k + 1]))
            /\ Holds(w, q - 1, StringifiedAs(t[k + 1]))
            /\ PlaceOf(off, ss, k + 1) <= off + Len(full) + 1
  <2>1. full = Stringify(t)
    OBVIOUS
  <2> HIDE DEF full
  <2>2. QED BY <1>1, <1>2, <1>3, <2>1, NextStringified
<1> HIDE DEF ss, full, e
<1>5. e + 1 = off + Len(full) + 1 /\ e \in Nat
    BY <1>2 DEF e
<1>6. q <= total
    BY <1>1, <1>2, <1>4, <1>5
<1>7. ASSUME k = Len(t)
      PROVE  /\ ReadAt(w, q) = IF q <= Len(w) THEN "quote" ELSE "end"
             /\ field = "content" => q = total
  <2>1. q = e + 1
    BY <1>4, <1>5, <1>7
  <2>2. q - 1 = e
    BY <1>5, <2>1
  <2>3. Holds(w, q - 1, <<"quote">>)
    BY <1>2, <2>2
  <2>4. "quote" \in Signs
    BY DEF Signs, Chars
  <2>5. ReadAt(w, q) = IF q <= Len(w) THEN "quote" ELSE "end"
    BY <1>1, <2>3, <2>4, ReadOne
  <2>6. QED BY <1>2, <2>1, <2>5
<1>8. ASSUME k < Len(t)
      PROVE  /\ c \in Chars /\ c \in Signs /\ (field = "name" => c # "ctl")
             /\ PlaceOf(off, ss, k + 1) = q + Len(StringifiedAs(c))
             /\ q + Len(StringifiedAs(c)) <= total
             /\ Holds(w, q - 1, StringifiedAs(c))
  <2>1. k + 1 \in 1..Len(t)
    BY <1>1, <1>3, <1>8
  <2>2. c \in Chars
    BY <1>1, <1>3, <2>1
  <2>3. c \in Signs
    BY <2>2, StringifiedIs
  <2>4. ASSUME field = "name" PROVE c # "ctl"
    <3>1. t = job.name
        BY <2>4 DEF t, TextAtHand
    <3>2. c \in Range(job.name)
        BY <1>1, <1>3, <2>1, <3>1 DEF Range
    <3>3. QED BY <3>2 DEF Sends
  <2>5. PlaceOf(off, ss, k + 1) = q + Len(StringifiedAs(c)) /\ Holds(w, q - 1, StringifiedAs(c))
    BY <1>3, <1>4, <1>8
  <2>6. q + Len(StringifiedAs(c)) <= total
    <3>1. q + Len(StringifiedAs(c)) <= e + 1
        BY <1>4, <1>5, <1>8, <2>5
    <3>2. StringifiedAs(c) \in Seq(Signs)
        BY <2>2, StringifiedGuarded
    <3>3. Len(StringifiedAs(c)) \in Nat
        BY <3>2
    <3>4. QED BY <1>1, <1>2, <1>5, <3>1, <3>3
  <2>7. QED BY <2>2, <2>3, <2>4, <2>5, <2>6
<1>9. ASSUME k < Len(t)
      PROVE  /\ AsItIs(c) => /\ Len(StringifiedAs(c)) = 1
                             /\ ReadAt(w, q) = IF q <= Len(w) THEN c ELSE "end"
             /\ ~AsItIs(c) => /\ Len(StringifiedAs(c)) >= 2
                              /\ ReadAt(w, q) = IF q <= Len(w) THEN "backslash" ELSE "end"
             /\ ~AsItIs(c) /\ c # "ctl" =>
                   /\ Len(StringifiedAs(c)) = 2
                   /\ ReadAt(w, q + 1) = IF q + 1 <= Len(w) THEN LetterOf(c) ELSE "end"
             /\ c = "ctl" =>
                   /\ Len(StringifiedAs(c)) = 6
                   /\ ReadAt(w, q + 1) = IF q + 1 <= Len(w) THEN "u" ELSE "end"
                   /\ \A m \in {2, 3, 4, 5} : ReadAt(w, q + m) = IF q + m <= Len(w) THEN "h" ELSE "end"
  <2>1. c \in Chars /\ Holds(w, q - 1, StringifiedAs(c))
    BY <1>8, <1>9
  <2>2. w \in Seq(Signs) /\ q \in Nat /\ q >= 1
    BY <1>1
  <2>3. WrittenThere(w, q, c)
    BY <2>1, <2>2, NextRead
  <2>4. QED BY <2>3, <1>9, Zenon DEF WrittenThere
<1>10. /\ k = Len(t) => /\ At(q) = IF q <= Len(w) THEN "quote" ELSE "end"
                        /\ field = "content" => q = total
       /\ k < Len(t) =>
             /\ c \in Chars /\ c \in Signs /\ (field = "name" => c # "ctl")
             /\ PlaceOf(off, ss, k + 1) = q + Len(StringifiedAs(c))
             /\ q + Len(StringifiedAs(c)) <= total
    BY <1>1, <1>7, <1>8
<1>11. k < Len(t) =>
          /\ AsItIs(c) => /\ Len(StringifiedAs(c)) = 1
                          /\ At(q) = IF q <= Len(w) THEN c ELSE "end"
          /\ ~AsItIs(c) => /\ Len(StringifiedAs(c)) >= 2
                           /\ At(q) = IF q <= Len(w) THEN "backslash" ELSE "end"
          /\ ~AsItIs(c) /\ c # "ctl" =>
                /\ Len(StringifiedAs(c)) = 2
                /\ At(q + 1) = IF q + 1 <= Len(w) THEN LetterOf(c) ELSE "end"
          /\ c = "ctl" =>
                /\ Len(StringifiedAs(c)) = 6
                /\ At(q + 1) = IF q + 1 <= Len(w) THEN "u" ELSE "end"
                /\ \A m \in {2, 3, 4, 5} : At(q + m) = IF q + m <= Len(w) THEN "h" ELSE "end"
    BY <1>1, <1>9
<1>12. QED BY <1>2, <1>6, <1>10, <1>11 DEF t, q, w, off, ss

\* One more character of the value.
LEMMA ReadsOn ==
    ASSUME JsonInv, SavedInv, Sends, phase = "value", UNCHANGED <<job, wire, field>>,
           NEW k \in 0..Len(TextAtHand), k < Len(TextAtHand), ReadUpTo(k),
           NEW c, c = TextAtHand[k + 1], c \in Signs,
           out' = out \o Kept(c, Unwritten), pos' = PlaceOf(InFront, Strings(TextAtHand), k + 1),
           field = "name" => k + 1 < NameMax
    PROVE  \E j \in 0..Len(TextAtHand') : ReadUpTo(j)' /\ (field' = "name" => j = 0 \/ j < NameMax)
<1> DEFINE t == TextAtHand
           a == SubSeq(t, 1, k)
           j == k + 1
<1>1. t \in Seq(Chars) /\ Len(t) \in Nat
    BY BodyAtHand
<1>2. out = Without(a, Unwritten)
    BY DEF ReadUpTo
<1>3. k \in 0..Len(t) /\ k < Len(t) /\ c = t[k + 1]
    OBVIOUS
<1>4. TextAtHand' = t /\ InFront' = InFront
    BY DEF TextAtHand, InFront
<1> HIDE DEF t
<1>5. a \in Seq(Chars) /\ SubSeq(t, 1, k + 1) = Append(a, c)
    BY <1>1, <1>3, LongerPrefix
<1>6. a \in Seq(Signs)
  <2>1. \A x \in Chars : x \in Signs
    BY DEF Signs
  <2> HIDE DEF a
  <2>2. QED BY <1>5, <2>1
<1> HIDE DEF a
<1>7. Without(Append(a, c), Unwritten) = Without(a, Unwritten) \o Kept(c, Unwritten)
    BY <1>6, WithoutGrows
<1>8. out' = Without(SubSeq(t, 1, j), Unwritten)
    BY <1>2, <1>5, <1>7
<1>9. pos' = PlaceOf(InFront, Strings(t), j) /\ j \in 0..Len(t) /\ (field = "name" => j < NameMax)
    BY <1>1, <1>3 DEF t
<1> HIDE DEF j
<1>10. ReadUpTo(j)'
    BY <1>4, <1>8, <1>9 DEF ReadUpTo, Unwritten
<1>11. j \in 0..Len(TextAtHand') /\ (field' = "name" => j = 0 \/ j < NameMax)
    BY <1>4, <1>9
<1>12. QED BY <1>10, <1>11

\* What is read of a name is as long as what was typed of it.
LEMMA NameLength ==
    ASSUME JsonInv, SavedInv, Sends, field = "name", NEW k \in 0..Len(TextAtHand), ReadUpTo(k)
    PROVE  out = SubSeq(job.name, 1, k) /\ Len(out) = k
<1> DEFINE t == job.name
<1>1. t \in Seq(Chars) /\ TextAtHand = t
    BY BodyAtHand DEF TextAtHand
<1>2. \A m \in 1..Len(t) : t[m] \notin Unwritten
    BY <1>1 DEF Sends, Unwritten, Range
<1>3. t \in Seq(Signs)
  <2>1. \A x \in Chars : x \in Signs
    BY DEF Signs
  <2> HIDE DEF t
  <2>2. QED BY <1>1, <2>1
<1>4. out = Without(SubSeq(t, 1, k), Unwritten) /\ k \in 0..Len(t)
    BY <1>1 DEF ReadUpTo
<1> HIDE DEF t
<1>5. out = SubSeq(t, 1, k)
    BY <1>2, <1>3, <1>4, NoneDropped
<1>6. Len(SubSeq(t, 1, k)) = k
    BY <1>3, <1>4, LongerPrefix
<1>7. QED BY <1>5, <1>6 DEF t

\* A step of parse_json_string_value reads one character on, or breaks off inside a \u.
LEMMA ValueKeeps ==
    ASSUME JsonInv, SavedInv, Sends, ReadValue
    PROVE  BrokenInside' \/ \E j \in 0..Len(TextAtHand') : ReadUpTo(j)' /\ (field' = "name" => j = 0 \/ j < NameMax)
<1> DEFINE q == pos
           w == wire
<1>1. /\ phase = "value" /\ ~Full /\ UNCHANGED <<job, wire, field>>
      /\ \/ At(q) \notin {"quote", "backslash", "end"} /\ out' = Append(out, At(q)) /\ pos' = q + 1
         \/ /\ At(q) = "backslash" /\ At(q + 1) # "end"
            /\ out' = out \o Unescaped(At(q + 1))
            /\ pos' = IF At(q + 1) = "u" /\ At(q + 5) # "end" THEN q + 6 ELSE q + 2
    BY DEF ReadValue
<1>2. /\ w \in Seq(Signs) /\ Len(w) \in Nat /\ q \in Nat /\ q >= 1 /\ out \in Seq(Signs)
      /\ Len(TextAtHand) \in Nat /\ job.cut \in Nat /\ field \in {"name", "content"}
    BY BodyAtHand DEF Keys
<1>3. \/ BrokenInside
      \/ \E k \in 0..Len(TextAtHand) : ReadUpTo(k) /\ (field = "name" => k = 0 \/ k < NameMax)
    BY <1>1 DEF SavedInv, Sends
<1>4. q <= Len(w)
  <2>1. q > Len(w) => At(q) = "end"
    BY <1>2, AtIsRead, ReadFacts
  <2>2. At(q) # "end"
    BY <1>1
  <2>3. QED BY <1>2, <2>1, <2>2
<1>5. CASE BrokenInside
  <2>1. field = "content" /\ job.cut > 0 /\ \A m \in q..Len(w) : w[m] = "h"
    BY <1>5 DEF BrokenInside
  <2>2. At(q) = "h"
    BY <1>2, <1>4, <2>1, AtIsRead, ReadFacts
  <2>3. pos' = q + 1
    BY <1>1, <2>2
  <2>4. \A m \in (q + 1)..Len(w) : w[m] = "h"
    BY <1>2, <2>1
  <2>5. BrokenInside'
    BY <1>1, <2>1, <2>3, <2>4 DEF BrokenInside
  <2>6. QED BY <2>5
<1>6. ASSUME NEW k \in 0..Len(TextAtHand), ReadUpTo(k), field = "name" => k = 0 \/ k < NameMax
      PROVE  BrokenInside' \/ \E j \in 0..Len(TextAtHand') : ReadUpTo(j)' /\ (field' = "name" => j = 0 \/ j < NameMax)
  <2> DEFINE c == TextAtHand[k + 1]
             n == PlaceOf(InFront, Strings(TextAtHand), k + 1)
             l == Len(StringifiedAs(c))
             total == Len(Body(job))
  <2>1. /\ total \in Nat
        /\ k = Len(TextAtHand) => At(q) = IF q <= Len(w) THEN "quote" ELSE "end"
        /\ k < Len(TextAtHand) =>
              /\ c \in Chars /\ c \in Signs /\ (field = "name" => c # "ctl")
              /\ n = q + l /\ q + l <= total
              /\ AsItIs(c) => l = 1 /\ At(q) = IF q <= Len(w) THEN c ELSE "end"
              /\ ~AsItIs(c) => l >= 2 /\ At(q) = IF q <= Len(w) THEN "backslash" ELSE "end"
              /\ ~AsItIs(c) /\ c # "ctl" => l = 2 /\ At(q + 1) = IF q + 1 <= Len(w) THEN LetterOf(c) ELSE "end"
              /\ c = "ctl" =>
                    /\ l = 6
                    /\ At(q + 1) = IF q + 1 <= Len(w) THEN "u" ELSE "end"
                    /\ \A m \in {2, 3, 4, 5} : At(q + m) = IF q + m <= Len(w) THEN "h" ELSE "end"
    <3>1. c = TextAtHand[k + 1] /\ total = Len(Body(job))
        OBVIOUS
    <3> HIDE DEF c, total
    <3>2. QED BY <1>6, <3>1, ReadHere
  <2>2. k < Len(TextAtHand)
    <3>1. k = Len(TextAtHand) => At(q) = "quote"
        BY <1>4, <2>1
    <3>2. At(q) # "quote"
        BY <1>1
    <3>3. QED BY <1>2, <3>1, <3>2
  <2>3. field = "name" => k + 1 < NameMax
    <3>1. NameMax \in Nat
        BY SizesAssumption
    <3>2. field = "name" => Len(out) = k
        BY <1>6, NameLength
    <3>3. field = "name" => ~(Len(out) >= NameMax - 1)
        BY <1>1 DEF Full
    <3>4. QED BY <3>1, <3>2, <3>3
  <2>4. ASSUME out' = out \o Kept(c, Unwritten), pos' = n
        PROVE  \E j \in 0..Len(TextAtHand') : ReadUpTo(j)' /\ (field' = "name" => j = 0 \/ j < NameMax)
    <3>1. c = TextAtHand[k + 1] /\ c \in Signs /\ pos' = PlaceOf(InFront, Strings(TextAtHand), k + 1)
        BY <2>1, <2>2, <2>4
    <3> HIDE DEF c, n
    <3>2. QED BY <1>1, <1>6, <2>2, <2>3, <2>4, <3>1, ReadsOn
  <2> HIDE DEF c, n, l, total
  <2>5. c \notin {"end"} /\ LetterOf(c) \in Signs /\ "end" \notin Signs
    <3>1. "end" \notin Signs
        BY DEF Signs, Chars, Letters, Control, Keys
    <3>2. QED BY <2>1, <2>2, <3>1, StringifiedIs
  <2>6. CASE AsItIs(c)
    <3>1. At(q) = c /\ c \notin {"quote", "backslash", "end", "ctl"} /\ n = q + 1
        BY <1>4, <2>1, <2>2, <2>5, <2>6 DEF AsItIs
    <3>2. out' = Append(out, c) /\ pos' = n
        BY <1>1, <3>1
    <3>3. Kept(c, Unwritten) = <<c>>
        BY <3>1 DEF Kept, Unwritten
    <3>4. out' = out \o Kept(c, Unwritten)
        BY <1>2, <2>1, <2>2, <3>2, <3>3, OneBehind
    <3>5. QED BY <2>4, <3>2, <3>4
  <2>7. CASE ~AsItIs(c) /\ c # "ctl"
    <3>1. At(q) = "backslash" /\ n = q + 2 /\ At(q + 1) = IF q + 1 <= Len(w) THEN LetterOf(c) ELSE "end"
        BY <1>4, <2>1, <2>2, <2>7
    <3>2. At(q + 1) # "end"
        BY <1>1, <3>1
    <3>3. At(q + 1) = LetterOf(c)
        BY <3>1, <3>2
    <3>4. LetterOf(c) \notin {"u", "end"} /\ Unescaped(LetterOf(c)) = <<c>>
        BY <2>1, <2>2, <2>7, StringifiedIs
    <3>5. out' = out \o <<c>> /\ pos' = n
        BY <1>1, <3>1, <3>3, <3>4
    <3>6. Kept(c, Unwritten) = <<c>>
        BY <2>7 DEF Kept, Unwritten
    <3>7. out' = out \o Kept(c, Unwritten)
        BY <3>5, <3>6
    <3>8. QED BY <2>4, <3>5, <3>7
  <2>8. CASE c = "ctl"
    <3>1. /\ ~AsItIs(c) /\ n = q + 6 /\ q + 6 <= total /\ field = "content"
          /\ At(q) = "backslash" /\ At(q + 1) = IF q + 1 <= Len(w) THEN "u" ELSE "end"
          /\ \A m \in {2, 3, 4, 5} : At(q + m) = IF q + m <= Len(w) THEN "h" ELSE "end"
        <4>1. ~AsItIs(c)
            BY <2>8 DEF AsItIs
        <4>2. At(q) = "backslash"
            BY <1>4, <2>1, <2>2, <4>1
        <4>3. QED BY <1>2, <2>1, <2>2, <2>8, <4>1, <4>2
    <3>2. At(q + 1) = "u" /\ q + 1 <= Len(w)
        BY <1>1, <3>1
    <3>3. Unescaped("u") = <<>>
        BY DEF Unescaped
    <3>4. out' = out \o <<>> /\ pos' = IF At(q + 5) # "end" THEN q + 6 ELSE q + 2
        BY <1>1, <3>1, <3>2, <3>3
    <3>5. CASE q + 5 <= Len(w)
        <4>1. At(q + 5) = "h"
            BY <3>1, <3>5
        <4>2. pos' = n
            BY <3>1, <3>4, <4>1
        <4>3. Kept(c, Unwritten) = <<>>
            BY <2>8 DEF Kept, Unwritten
        <4>4. out' = out \o Kept(c, Unwritten)
            BY <3>4, <4>3
        <4>5. QED BY <2>4, <4>2, <4>4
    <3>6. CASE ~(q + 5 <= Len(w))
        <4>1. At(q + 5) = "end"
            BY <3>1, <3>6
        <4>2. pos' = q + 2
            BY <3>4, <4>1
        <4>3. job.cut > 0
            <5>1. Len(w) < total
                BY <1>2, <2>1, <3>1, <3>6
            <5>2. job.cut = 0 => Len(w) = total
                <6> DEFINE full == Stringify(TextAtHand)
                <6>1. full = Stringify(TextAtHand) /\ total = Len(Body(job))
                    BY DEF total
                <6> HIDE DEF full
                <6>2. QED BY <6>1, BodyPlaces
            <5>3. QED BY <1>2, <2>1, <5>1, <5>2
        <4>4. ASSUME NEW m \in (q + 2)..Len(w) PROVE w[m] = "h"
            <5> DEFINE d == m - q
            <5>1. d \in {2, 3, 4, 5} /\ m = q + d /\ q + d <= Len(w)
                BY <1>2, <3>6
            <5> HIDE DEF d
            <5>2. At(q + d) = "h"
                BY <3>1, <5>1
            <5>3. m \in Nat /\ m >= 1 /\ m <= Len(w)
                BY <1>2
            <5>4. ReadAt(w, m) = w[m]
                BY <1>2, <5>3, ReadFacts
            <5>5. QED BY <5>1, <5>2, <5>4, AtIsRead
        <4>5. BrokenInside'
            BY <1>1, <3>1, <4>2, <4>3, <4>4 DEF BrokenInside
        <4>6. QED BY <4>5
    <3>7. QED BY <3>5, <3>6
  <2>9. QED BY <2>6, <2>7, <2>8
<1>7. QED BY <1>3, <1>5, <1>6

\* A value is only broken off in a body that was cut, or in a name that is too long.
LEMMA BrokenOff ==
    ASSUME JsonInv, SavedInv, Sends, BreakOff
    PROVE  ~(job.cut = 0 /\ Safe)
<1> DEFINE q == pos
           w == wire
           total == Len(Body(job))
<1>1. SUFFICES ASSUME job.cut = 0, Safe PROVE FALSE
    OBVIOUS
<1>2. /\ phase = "value"
      /\ \/ At(q) = "end"
         \/ At(q) = "backslash" /\ At(q + 1) = "end"
         \/ At(q) # "quote" /\ Full
    BY DEF BreakOff
<1>3. /\ w \in Seq(Signs) /\ Len(w) \in Nat /\ q \in Nat /\ q >= 1
      /\ Len(TextAtHand) \in Nat /\ field \in {"name", "content"} /\ (field = "name" => job.is = "upload")
    BY BodyAtHand DEF Keys
<1>4. Len(w) = total
  <2> DEFINE full == Stringify(TextAtHand)
  <2>1. full = Stringify(TextAtHand) /\ total = Len(Body(job))
    OBVIOUS
  <2> HIDE DEF full, total
  <2>2. QED BY <1>1, <2>1, BodyPlaces
<1>5. ~BrokenInside
    BY <1>1, <1>3 DEF BrokenInside
<1>6. PICK k \in 0..Len(TextAtHand) : ReadUpTo(k) /\ (field = "name" => k = 0 \/ k < NameMax)
    BY <1>2, <1>5 DEF SavedInv, Sends
<1> DEFINE c == TextAtHand[k + 1]
           l == Len(StringifiedAs(c))
<1>7. /\ total \in Nat /\ q <= total
      /\ k = Len(TextAtHand) => At(q) = IF q <= Len(w) THEN "quote" ELSE "end"
      /\ k < Len(TextAtHand) =>
            /\ c \in Chars /\ c \in Signs /\ q + l <= total
            /\ AsItIs(c) => At(q) = IF q <= Len(w) THEN c ELSE "end"
            /\ ~AsItIs(c) => l >= 2 /\ At(q) = IF q <= Len(w) THEN "backslash" ELSE "end"
  <2>1. c = TextAtHand[k + 1] /\ total = Len(Body(job))
    OBVIOUS
  <2> HIDE DEF c, total
  <2>2. QED BY <1>6, <2>1, ReadHere
<1>8. k < Len(TextAtHand)
  <2>1. k = Len(TextAtHand) => At(q) = "quote"
    BY <1>4, <1>7
  <2>2. At(q) # "quote"
    BY <1>2
  <2>3. QED BY <1>3, <2>1, <2>2
<1>9. At(q) # "end" /\ ~(At(q) = "backslash" /\ At(q + 1) = "end")
  <2>1. "end" \notin Signs /\ "backslash" # "end"
    BY DEF Signs, Chars, Letters, Control, Keys
  <2> HIDE DEF c, l, total
  <2>2. CASE AsItIs(c)
    <3>1. At(q) = c
        BY <1>4, <1>7, <1>8, <2>2
    <3>2. c # "backslash"
        BY <2>2 DEF AsItIs
    <3>3. QED BY <1>7, <1>8, <2>1, <3>1, <3>2
  <2>3. CASE ~AsItIs(c)
    <3>1. At(q) = "backslash" /\ q + l <= total /\ l >= 2
        BY <1>4, <1>7, <1>8, <2>3
    <3>2. l \in Nat
        <4>1. StringifiedAs(c) \in Seq(Signs)
            BY <1>7, <1>8, StringifiedGuarded
        <4>2. QED BY <4>1 DEF l
    <3>3. q + 1 <= Len(w) /\ q + 1 \in Nat /\ q + 1 >= 1
        BY <1>3, <1>4, <1>7, <3>1, <3>2
    <3>4. At(q + 1) # "end"
        <4>1. ReadAt(w, q + 1) # "end"
            BY <1>3, <3>3, ReadFacts
        <4>2. QED BY <4>1, AtIsRead
    <3>5. QED BY <2>1, <3>1, <3>4
  <2>4. QED BY <2>2, <2>3
<1>10. Full
    BY <1>2, <1>9
<1>11. field = "name" /\ Len(out) >= NameMax - 1 /\ job.is = "upload"
    BY <1>3, <1>10 DEF Full
<1>12. Len(out) = k
    BY <1>6, <1>11, NameLength
<1>13. Len(TextAtHand) = Len(job.name) /\ Len(job.name) < NameMax
    BY <1>1, <1>11 DEF TextAtHand, Safe
<1>14. NameMax \in Nat
    BY SizesAssumption
<1>15. QED BY <1>3, <1>8, <1>11, <1>12, <1>13, <1>14

\* A value ends where its text ends, and the last one where the body ends.
LEMMA ValueRead ==
    ASSUME JsonInv, SavedInv, Sends, EndValue
    PROVE  /\ out = Without(TextAtHand, Unwritten)
           /\ field = "name" => out = job.name /\ (out = <<>> \/ Len(out) < NameMax)
           /\ field = "content" => job.cut = 0
<1> DEFINE q == pos
           w == wire
           total == Len(Body(job))
<1>1. phase = "value" /\ At(q) = "quote"
    BY DEF EndValue
<1>2. /\ w \in Seq(Signs) /\ Len(w) \in Nat /\ q \in Nat /\ q >= 1
      /\ TextAtHand \in Seq(Chars) /\ Len(TextAtHand) \in Nat /\ field \in {"name", "content"}
      /\ job.cut \in Nat
    BY BodyAtHand DEF Keys
<1>3. q <= Len(w)
  <2>1. q > Len(w) => At(q) = "end"
    BY <1>2, AtIsRead, ReadFacts
  <2>2. QED BY <1>1, <1>2, <2>1
<1>4. ~BrokenInside
  <2>1. At(q) = w[q]
    BY <1>2, <1>3, AtIsRead, ReadFacts
  <2>2. q \in q..Len(w)
    BY <1>2, <1>3
  <2>3. QED BY <1>1, <2>1, <2>2 DEF BrokenInside
<1>5. PICK k \in 0..Len(TextAtHand) : ReadUpTo(k) /\ (field = "name" => k = 0 \/ k < NameMax)
    BY <1>1, <1>4 DEF SavedInv, Sends
<1> DEFINE c == TextAtHand[k + 1]
<1>6. /\ total \in Nat
      /\ k = Len(TextAtHand) /\ field = "content" => q = total
      /\ k < Len(TextAtHand) =>
            /\ AsItIs(c) => At(q) = IF q <= Len(w) THEN c ELSE "end"
            /\ ~AsItIs(c) => At(q) = IF q <= Len(w) THEN "backslash" ELSE "end"
  <2>1. c = TextAtHand[k + 1] /\ total = Len(Body(job))
    OBVIOUS
  <2> HIDE DEF c, total
  <2>2. QED BY <1>5, <2>1, ReadHere
<1>7. k = Len(TextAtHand)
  <2>1. SUFFICES ASSUME k < Len(TextAtHand) PROVE FALSE
    BY <1>2
  <2> HIDE DEF c
  <2>2. CASE AsItIs(c)
    BY <1>1, <1>3, <1>6, <2>1, <2>2 DEF AsItIs
  <2>3. CASE ~AsItIs(c)
    BY <1>1, <1>3, <1>6, <2>1, <2>3
  <2>4. QED BY <2>2, <2>3
<1>8. out = Without(TextAtHand, Unwritten)
  <2> DEFINE t == TextAtHand
  <2>1. out = Without(SubSeq(t, 1, k), Unwritten) /\ k = Len(t) /\ t \in Seq(Chars)
    BY <1>2, <1>5, <1>7 DEF ReadUpTo
  <2> HIDE DEF t
  <2>2. SubSeq(t, 1, k) = t
    BY <2>1, WholePrefix
  <2>3. QED BY <2>1, <2>2 DEF t
<1>9. ASSUME field = "name" PROVE out = job.name /\ (out = <<>> \/ Len(out) < NameMax)
  <2> DEFINE t == job.name
  <2>1. out = SubSeq(t, 1, k) /\ Len(out) = k
    BY <1>5, <1>9, NameLength
  <2>2. t = TextAtHand
    BY <1>9 DEF TextAtHand
  <2>3. t \in Seq(Chars) /\ k = Len(t)
    BY <1>2, <1>7, <2>2
  <2> HIDE DEF t
  <2>4. out = t
    BY <2>1, <2>3, WholePrefix
  <2>5. k = 0 => out = <<>>
    <3>1. SubSeq(t, 1, 0) = <<>>
        BY <2>3, NoneRead
    <3>2. QED BY <2>1, <3>1
  <2>6. k = 0 \/ k < NameMax
    BY <1>5, <1>9
  <2>7. QED BY <2>1, <2>4, <2>5, <2>6 DEF t
<1>10. ASSUME field = "content" PROVE job.cut = 0
  <2>1. q = total
    BY <1>6, <1>7, <1>10
  <2>2. job.cut > 0 => Len(w) < total
    <3> DEFINE full == Stringify(TextAtHand)
    <3>1. full = Stringify(TextAtHand) /\ total = Len(Body(job))
        OBVIOUS
    <3> HIDE DEF full, total
    <3>2. QED BY <3>1, BodyPlaces
  <2>3. QED BY <1>2, <1>3, <1>6, <2>1, <2>2
<1>11. QED BY <1>8, <1>9, <1>10

-----------------------------------------------------------------------------
(* Where a member is found. *)

\* What stands in front of the text of a member, and what of it arrived.
LEMMA OpenedHere ==
    ASSUME NEW w \in Seq(Signs), NEW o \in Nat, NEW key \in Keys, Holds(w, o, Opens(key))
    PROVE  /\ ReadAt(w, o + 1) = IF o + 1 <= Len(w) THEN "quote" ELSE "end"
           /\ ReadAt(w, o + 2) = IF o + 2 <= Len(w) THEN key ELSE "end"
           /\ ReadAt(w, o + 3) = IF o + 3 <= Len(w) THEN "quote" ELSE "end"
           /\ ReadAt(w, o + 4) = IF o + 4 <= Len(w) THEN "colon" ELSE "end"
           /\ ReadAt(w, o + 5) = IF o + 5 <= Len(w) THEN "quote" ELSE "end"
<1> DEFINE s == Opens(key)
           q == o + 1
<1>1. s \in Seq(Signs) /\ Len(s) = 5 /\ s[1] = "quote" /\ s[2] = key /\ s[3] = "quote" /\ s[4] = "colon" /\ s[5] = "quote"
  <2>1. {"quote", key, "colon"} \subseteq Signs
    BY DEF Signs, Chars
  <2>2. QED BY <2>1 DEF Opens
<1>2. Holds(w, o, s)
    OBVIOUS
<1> HIDE DEF s
<1>3. q \in Nat /\ q >= 1 /\ q - 1 = o /\ q = o + 1
    OBVIOUS
<1> HIDE DEF q
<1>4. Holds(w, q - 1, s)
    BY <1>2, <1>3
<1>5. ASSUME NEW m \in 1..5, NEW r, r = o + m
      PROVE  ReadAt(w, r) = IF r <= Len(w) THEN s[m] ELSE "end"
  <2>1. m \in 1..Len(s) /\ r = (q - 1) + m
    BY <1>1, <1>3, <1>5
  <2>2. QED BY <1>1, <1>3, <1>4, <2>1, ReadHeld
<1>6. 1 \in 1..5 /\ 2 \in 1..5 /\ 3 \in 1..5 /\ 4 \in 1..5 /\ 5 \in 1..5
    OBVIOUS
<1>7. ReadAt(w, o + 1) = IF o + 1 <= Len(w) THEN s[1] ELSE "end"
    BY <1>5, <1>6
<1>8. ReadAt(w, o + 2) = IF o + 2 <= Len(w) THEN s[2] ELSE "end"
    BY <1>5, <1>6
<1>9. ReadAt(w, o + 3) = IF o + 3 <= Len(w) THEN s[3] ELSE "end"
    BY <1>5, <1>6
<1>10. ReadAt(w, o + 4) = IF o + 4 <= Len(w) THEN s[4] ELSE "end"
    BY <1>5, <1>6
<1>11. ReadAt(w, o + 5) = IF o + 5 <= Len(w) THEN s[5] ELSE "end"
    BY <1>5, <1>6
<1>12. QED BY <1>1, <1>7, <1>8, <1>9, <1>10, <1>11

KeyAt(w, k, key) == <<ReadAt(w, k), ReadAt(w, k + 1), ReadAt(w, k + 2)>> = <<"quote", key, "quote">>

\* The key is found where it is first seen.
FoundAt(w, o, key) ==
    LET places == {k \in DOMAIN w : KeyAt(w, k, key)}
    IN  /\ o + 5 <= Len(w) => Min(places) = o + 1
        /\ places # {} /\ ReadAt(w, Min(places) + 3) = "colon" /\ ReadAt(w, Min(places) + 4) = "quote"
               <=> o + 5 <= Len(w)

\* The least element of a set of numbers.
LEMMA LeastIs ==
    ASSUME NEW S \in SUBSET Nat, NEW m \in S, \A k \in S : m <= k
    PROVE  Min(S) = m
<1>1. \A k \in S : (\A l \in S : k <= l) => k = m
    BY SMT
<1>2. QED BY <1>1 DEF Min

\* A key that stands nowhere earlier is found where its member begins.
LEMMA FoundWhere ==
    ASSUME NEW w \in Seq(Signs), NEW o \in Nat, NEW key \in Keys, Holds(w, o, Opens(key)),
           \A k \in 1..o : ~KeyAt(w, k, key)
    PROVE  FoundAt(w, o, key)
<1> DEFINE places == {k \in DOMAIN w : KeyAt(w, k, key)}
           m == o + 1
<1>1. DOMAIN w = 1..Len(w) /\ Len(w) \in Nat
    OBVIOUS
<1>2. /\ ReadAt(w, o + 1) = IF o + 1 <= Len(w) THEN "quote" ELSE "end"
      /\ ReadAt(w, o + 2) = IF o + 2 <= Len(w) THEN key ELSE "end"
      /\ ReadAt(w, o + 3) = IF o + 3 <= Len(w) THEN "quote" ELSE "end"
      /\ ReadAt(w, o + 4) = IF o + 4 <= Len(w) THEN "colon" ELSE "end"
      /\ ReadAt(w, o + 5) = IF o + 5 <= Len(w) THEN "quote" ELSE "end"
    BY OpenedHere
<1>3. m \in Nat /\ m + 1 = o + 2 /\ m + 2 = o + 3 /\ m + 3 = o + 4 /\ m + 4 = o + 5 /\ m = o + 1
    OBVIOUS
<1>4. places \in SUBSET Nat /\ \A k \in places : k \in 1..Len(w) /\ KeyAt(w, k, key) /\ m <= k
  <2>1. ASSUME NEW k \in places PROVE k \in 1..Len(w) /\ KeyAt(w, k, key) /\ m <= k
    <3>1. k \in 1..Len(w) /\ KeyAt(w, k, key)
        BY <1>1
    <3>2. k \notin 1..o
        BY <3>1
    <3>3. m <= k
        BY <3>1, <3>2
    <3>4. QED BY <3>1, <3>3
  <2>2. places \in SUBSET Nat
    BY <1>1
  <2>3. QED BY <2>1, <2>2
<1>5. CASE o + 5 <= Len(w)
  <2>1. ReadAt(w, m) = "quote" /\ ReadAt(w, m + 1) = key /\ ReadAt(w, m + 2) = "quote"
    BY <1>1, <1>2, <1>3, <1>5
  <2>2. KeyAt(w, m, key) /\ m \in DOMAIN w
    BY <1>1, <1>3, <1>5, <2>1 DEF KeyAt
  <2>3. m \in places
    BY <2>2
  <2> HIDE DEF places, m
  <2>4. Min(places) = m
    BY <1>4, <2>3, LeastIs
  <2>5. ReadAt(w, m + 3) = "colon" /\ ReadAt(w, m + 4) = "quote"
    BY <1>2, <1>3, <1>1, <1>5
  <2>6. Min(places) = o + 1 /\ places # {} /\ ReadAt(w, Min(places) + 3) = "colon" /\ ReadAt(w, Min(places) + 4) = "quote"
    BY <1>3, <2>3, <2>4, <2>5
  <2>7. QED BY <1>5, <2>6 DEF FoundAt, places
<1>6. CASE ~(o + 5 <= Len(w))
  <2>1. SUFFICES ASSUME places # {}, ReadAt(w, Min(places) + 3) = "colon", ReadAt(w, Min(places) + 4) = "quote"
                 PROVE  FALSE
    BY <1>6 DEF FoundAt
  <2> DEFINE x == Min(places)
  <2>2. x \in places
    <3> HIDE DEF places
    <3>1. PICK l \in places : \A k \in places : l <= k
        BY <1>4, <2>1, LeastOf
    <3>2. Min(places) = l
        BY <1>4, <3>1, LeastIs
    <3>3. QED BY <3>2
  <2>3. x \in Nat /\ m <= x
    BY <1>4, <2>2
  <2> HIDE DEF x, places
  <2>4. x + 4 > Len(w) /\ x + 4 \in Nat /\ x + 4 >= 1
    BY <1>1, <1>3, <1>6, <2>3
  <2>5. ReadAt(w, x + 4) = "end"
    BY <2>4, ReadFacts
  <2>6. QED BY <2>1, <2>5 DEF x
<1>7. QED BY <1>5, <1>6

\* A key in a name is no member: the quotes of the name are escaped, but for the last.
LEMMA KeyInName ==
    ASSUME NEW w \in Seq(Signs), NEW n \in Seq(Chars), NEW s, s = Stringify(n),
           MemberAt(w, 0, "name", s), NEW l, l = Len(s), Holds(w, l + 6, <<"comma">>),
           NEW k \in 1..(l + 7), KeyAt(w, k, "content")
    PROVE  /\ k = l + 4 /\ l > 0 /\ s[l] = "content"
           /\ ReadAt(w, k + 3) # "colon"
<1>1. s \in Seq(Signs) /\ l \in Nat /\ k \in Nat /\ k >= 1 /\ k <= l + 7 /\ Len(w) \in Nat
  <2>1. s \in Seq(Signs)
    BY ClientTexts
  <2>2. QED BY <2>1
<1>2. ReadAt(w, k) = "quote" /\ ReadAt(w, k + 1) = "content" /\ ReadAt(w, k + 2) = "quote"
    BY DEF KeyAt
<1>3. k + 2 <= Len(w)
  <2>1. k + 2 \in Nat /\ k + 2 >= 1
    BY <1>1
  <2>2. k + 2 > Len(w) => ReadAt(w, k + 2) = "end"
    BY <2>1, ReadFacts
  <2>3. QED BY <1>1, <1>2, <2>2
<1>4. Holds(w, 0, Opens("name")) /\ Holds(w, 5, s) /\ Holds(w, l + 5, <<"quote">>)
  <2>1. Holds(w, 0, Opens("name")) /\ Holds(w, 0 + 5, s) /\ Holds(w, 0 + 5 + Len(s), <<"quote">>)
    BY DEF MemberAt
  <2>2. 0 + 5 = 5 /\ 0 + 5 + Len(s) = l + 5
    BY <1>1
  <2>3. QED BY <2>1, <2>2
<1>5. /\ ReadAt(w, 2) = IF 2 <= Len(w) THEN "name" ELSE "end"
      /\ ReadAt(w, 4) = IF 4 <= Len(w) THEN "colon" ELSE "end"
  <2>1. 0 \in Nat /\ "name" \in Keys
    BY DEF Keys
  <2>2. /\ ReadAt(w, 0 + 2) = IF 0 + 2 <= Len(w) THEN "name" ELSE "end"
        /\ ReadAt(w, 0 + 4) = IF 0 + 4 <= Len(w) THEN "colon" ELSE "end"
    BY <1>4, <2>1, OpenedHere
  <2>3. QED BY <2>2
<1>6. ASSUME NEW x \in 6..(l + 5), x <= Len(w) PROVE ReadAt(w, x) = s[x - 5]
  <2> DEFINE m == x - 5
             q == 6
  <2>1. m \in 1..Len(s) /\ x = (q - 1) + m /\ q \in Nat /\ q >= 1 /\ q - 1 = 5
    BY <1>1
  <2>2. Holds(w, q - 1, s)
    BY <1>4, <2>1
  <2> HIDE DEF m, q
  <2>3. ReadAt(w, x) = IF x <= Len(w) THEN s[m] ELSE "end"
    <3>1. w \in Seq(Signs) /\ q \in Nat /\ q >= 1 /\ s \in Seq(Signs) /\ m \in 1..Len(s) /\ x = (q - 1) + m
        BY <1>1, <2>1
    <3>2. QED BY <2>2, <3>1, ReadHeld, Zenon
  <2>4. QED BY <1>6, <2>3 DEF m
<1>7. ReadAt(w, l + 6) = IF l + 6 <= Len(w) THEN "quote" ELSE "end"
  <2> DEFINE q == l + 6
  <2>1. q \in Nat /\ q >= 1 /\ q - 1 = l + 5 /\ "quote" \in Signs
    BY <1>1 DEF Signs, Chars
  <2>2. Holds(w, q - 1, <<"quote">>)
    BY <1>4, <2>1
  <2> HIDE DEF q
  <2>3. ReadAt(w, q) = IF q <= Len(w) THEN "quote" ELSE "end"
    BY <2>1, <2>2, ReadOne
  <2>4. QED BY <2>3 DEF q
<1>8. ReadAt(w, l + 7) = IF l + 7 <= Len(w) THEN "comma" ELSE "end"
  <2> DEFINE q == l + 7
  <2>1. q \in Nat /\ q >= 1 /\ q - 1 = l + 6 /\ "comma" \in Signs
    BY <1>1 DEF Signs
  <2>2. Holds(w, q - 1, <<"comma">>)
    BY <2>1
  <2> HIDE DEF q
  <2>3. ReadAt(w, q) = IF q <= Len(w) THEN "comma" ELSE "end"
    BY <2>1, <2>2, ReadOne
  <2>4. QED BY <2>3 DEF q
<1>9. k \notin {1, 2, 3, 4}
  <2>1. k = 1 => FALSE
    BY <1>2, <1>5
  <2>2. k = 2 => FALSE
    BY <1>2, <1>5
  <2>3. k = 3 => FALSE
    BY <1>2, <1>5
  <2>4. k = 4 => FALSE
    BY <1>2, <1>5
  <2>5. QED BY <2>1, <2>2, <2>3, <2>4
<1>10. k # l + 6 /\ k # l + 7 /\ k # l + 5
  <2>1. k = l + 7 => FALSE
    BY <1>2, <1>8
  <2>2. k = l + 6 => FALSE
    <3>1. k = l + 6 => k + 1 = l + 7
        BY <1>1
    <3>2. QED BY <1>2, <1>8, <3>1
  <2>3. k = l + 5 => FALSE
    <3>1. k = l + 5 => k + 1 = l + 6
        BY <1>1
    <3>2. QED BY <1>2, <1>7, <3>1
  <2>4. QED BY <2>1, <2>2, <2>3
<1>11. k >= 5 /\ k + 1 \in 6..(l + 5) /\ k + 1 <= Len(w) /\ (k + 1) - 5 = k - 4 /\ k - 4 \in 1..l
    BY <1>1, <1>3, <1>9, <1>10
<1>12. s[k - 4] = "content"
  <2> DEFINE x == k + 1
  <2>1. x \in 6..(l + 5) /\ x <= Len(w) /\ x - 5 = k - 4 /\ ReadAt(w, x) = "content"
    BY <1>2, <1>11
  <2> HIDE DEF x
  <2>2. ReadAt(w, x) = s[x - 5]
    BY <1>6, <2>1
  <2>3. QED BY <2>1, <2>2
<1>13. k = l + 4
  <2>1. SUFFICES ASSUME k # l + 4 PROVE FALSE
    OBVIOUS
  <2> DEFINE x == k + 2
  <2>2. x \in 6..(l + 5) /\ x <= Len(w) /\ x - 5 = k - 3 /\ ReadAt(w, x) = "quote"
    BY <1>1, <1>2, <1>3, <1>11, <2>1
  <2>3. k - 3 \in 1..Len(s) /\ (k - 3) - 1 = k - 4
    BY <1>1, <1>11, <2>1
  <2> HIDE DEF x
  <2>4. s[k - 3] = "quote"
    BY <1>6, <2>2
  <2>5. s[(k - 3) - 1] = "backslash"
    BY <2>3, <2>4, QuotesBehind DEF QuotesGuarded
  <2>6. QED BY <1>12, <2>3, <2>5
<1>14. s[l] = "content" /\ l > 0 /\ k + 3 = l + 7
    BY <1>1, <1>11, <1>12, <1>13
<1>15. ReadAt(w, k + 3) # "colon"
    BY <1>8, <1>14
<1>16. QED BY <1>13, <1>14, <1>15

\* The text is read from where it was written; or the body is refused, and rightly.
LEMMA KeyFound ==
    ASSUME JsonInv, SavedInv, Sends, FindKey
    PROVE  /\ out' = <<>> /\ UNCHANGED <<job, wire, field, name>>
           /\ \/ phase' = "value" /\ pos' = InFront + 1
              \/ phase' = "refused" /\ ~(job.cut = 0 /\ Safe)
<1> DEFINE places == {k \in DOMAIN wire : KeyAt(wire, k, field)}
           found  == places # {} /\ ReadAt(wire, Min(places) + 3) = "colon" /\ ReadAt(wire, Min(places) + 4) = "quote"
           o == InFront - 5
           w == wire
           total == Len(Body(job))
<1>1. /\ pos' = IF found THEN Min(places) + 5 ELSE pos
      /\ phase' = IF found THEN "value" ELSE "refused"
      /\ out' = <<>> /\ UNCHANGED <<job, wire, field, name>>
      /\ phase = "find"
  <2> DEFINE seen == {k \in DOMAIN wire : <<At(k), At(k + 1), At(k + 2)>> = <<"quote", field, "quote">>}
  <2>1. seen = places
    BY AtIsRead DEF KeyAt
  <2>2. LET there == seen # {} /\ At(Min(seen) + 3) = "colon" /\ At(Min(seen) + 4) = "quote"
        IN  /\ pos' = IF there THEN Min(seen) + 5 ELSE pos
            /\ phase' = IF there THEN "value" ELSE "refused"
    BY DEF FindKey
  <2>3. out' = <<>> /\ UNCHANGED <<job, wire, field, name>> /\ phase = "find"
    BY DEF FindKey
  <2> HIDE DEF seen, places
  <2>4. At(Min(seen) + 3) = ReadAt(wire, Min(places) + 3) /\ At(Min(seen) + 4) = ReadAt(wire, Min(places) + 4)
    BY <2>1, AtIsRead
  <2>5. QED BY <2>1, <2>2, <2>3, <2>4
<1>2. /\ w \in Seq(Signs) /\ Len(w) \in Nat /\ field \in Keys /\ field \in {"name", "content"}
      /\ job.name \in Seq(Chars) /\ job.cut \in Nat /\ job.is \in {"post", "upload"}
    BY BodyAtHand DEF Keys, Sends
<1>3. /\ o \in Nat /\ InFront \in Nat /\ InFront >= 5 /\ total \in Nat
      /\ Holds(w, o, Opens(field))
      /\ job.cut = 0 => o + 5 <= Len(w)
  <2> DEFINE full == Stringify(TextAtHand)
  <2>1. full = Stringify(TextAtHand) /\ total = Len(Body(job))
    OBVIOUS
  <2> HIDE DEF full, total
  <2>2. /\ Len(full) \in Nat /\ InFront \in Nat /\ InFront >= 5 /\ total \in Nat
        /\ Holds(wire, InFront - 5, Opens(field))
        /\ InFront + Len(full) + 1 <= total
        /\ job.cut = 0 => Len(wire) = total
    BY <2>1, BodyPlaces
  <2>3. QED BY <2>2
<1>4. ASSUME \A k \in 1..o : ~KeyAt(w, k, field)
      PROVE  \/ phase' = "value" /\ pos' = InFront + 1
             \/ phase' = "refused" /\ ~(job.cut = 0 /\ Safe)
  <2>1. o \in Nat /\ field \in Keys /\ Holds(w, o, Opens(field)) /\ o + 1 + 5 = InFront + 1
    BY <1>2, <1>3
  <2> HIDE DEF w, o
  <2>2. FoundAt(w, o, field)
    BY <1>2, <1>4, <2>1, FoundWhere
  <2>3. (o + 5 <= Len(w) => Min(places) = o + 1) /\ (found <=> o + 5 <= Len(w))
    BY <2>2 DEF FoundAt, w
  <2> HIDE DEF places, found
  <2>4. CASE found
    BY <1>1, <2>1, <2>3, <2>4
  <2>5. CASE ~found
    BY <1>1, <1>3, <2>3, <2>5
  <2>6. QED BY <2>4, <2>5
<1>5. ASSUME NEW k \in 1..o, KeyAt(w, k, field)
      PROVE  phase' = "refused" /\ ~(job.cut = 0 /\ Safe)
  <2> DEFINE n == job.name
             s == Stringify(n)
             l == Len(s)
  <2>1. o > 0 /\ field = "content" /\ job.is = "upload"
    <3>1. o > 0
        BY <1>3
    <3>2. InFront # 5
        BY <1>3, <3>1
    <3>3. QED BY <3>2 DEF InFront
  <2>2. o = l + 7 /\ l \in Nat
    <3>1. s \in Seq(Signs)
        BY <1>2, ClientTexts
    <3>2. l \in Nat
        BY <3>1
    <3>3. QED BY <2>1, <3>2 DEF InFront
  <2>3. MemberAt(w, 0, "name", s) /\ Holds(w, l + 6, <<"comma">>)
    <3> DEFINE b == Body(job)
               t == job.text
    <3>1. b = Member("name", n) \o <<"comma">> \o Member("content", t) /\ t \in Seq(Chars) /\ n \in Seq(Chars)
        BY <2>1, BodyAtHand DEF Body
    <3>2. Holds(w, 0, b)
        <4>1. b \in Seq(Signs) /\ w = SubSeq(b, 1, Len(b) - job.cut)
            <5>1. wire = Arriving(job)
                BY BodyAtHand
            <5>2. "name" \in Keys /\ "content" \in Keys
                BY DEF Keys
            <5> HIDE DEF n, t
            <5>3. Member("name", n) \in Seq(Signs) /\ Member("content", t) \in Seq(Signs) /\ <<"comma">> \in Seq(Signs)
                BY <3>1, <5>2, MemberTyped DEF Signs
            <5>4. Member("name", n) \o <<"comma">> \in Seq(Signs)
                BY <5>3, Joining
            <5>5. Member("name", n) \o <<"comma">> \o Member("content", t) \in Seq(Signs)
                BY <5>3, <5>4, Joining
            <5>6. QED BY <3>1, <5>1, <5>5 DEF Arriving
        <4> HIDE DEF b, w
        <4>2. QED BY <1>2, <4>1, Arrived
    <3> HIDE DEF b, t, n
    <3>3. MemberAt(w, 0, "name", Stringify(n)) /\ Holds(w, Len(Stringify(n)) + 6, <<"comma">>)
      <4>1. UploadStands(w, n, t, b)
        BY <1>2, <3>1, <3>2, UploadHeld
      <4>2. QED BY <4>1, Zenon DEF UploadStands
    <3>4. QED BY <3>3
  <2>4. n \in Seq(Chars)
    BY <1>2
  <2> HIDE DEF n
  <2>5. ASSUME NEW j \in 1..o, KeyAt(w, j, field)
        PROVE  j = l + 4 /\ l > 0 /\ s[l] = "content" /\ ReadAt(w, j + 3) # "colon"
    <3>1. KeyAt(w, j, "content") /\ j \in 1..(l + 7) /\ s = Stringify(n) /\ l = Len(s)
        BY <2>1, <2>2, <2>5
    <3> HIDE DEF s, l, o, w
    <3>2. /\ w \in Seq(Signs) /\ n \in Seq(Chars) /\ s = Stringify(n)
          /\ MemberAt(w, 0, "name", s) /\ l = Len(s) /\ Holds(w, l + 6, <<"comma">>)
          /\ j \in 1..(l + 7) /\ KeyAt(w, j, "content")
        BY <1>2, <2>3, <2>4, <3>1
    <3>3. QED BY <3>2, KeyInName, Zenon
  <2>6. Min(places) = k
    <3>1. k \in places
        <4>1. k \in Nat /\ k >= 1
            BY <1>3
        <4>2. ReadAt(w, k) = "quote"
            BY <1>5 DEF KeyAt
        <4>3. k <= Len(w)
            <5>1. k > Len(w) => ReadAt(w, k) = "end"
                BY <1>2, <4>1, ReadFacts
            <5>2. QED BY <1>2, <4>1, <4>2, <5>1
        <4>4. k \in DOMAIN wire
            BY <1>2, <4>1, <4>3
        <4>5. QED BY <1>5, <4>4
    <3>2. \A j \in places : j \in Nat /\ k <= j
        <4>1. ASSUME NEW j \in places PROVE j \in Nat /\ k <= j
            <5>1. j \in Nat /\ j >= 1 /\ KeyAt(w, j, field)
                BY <1>2
            <5>2. CASE j <= o
                <6>1. j \in 1..o
                    BY <1>3, <5>1, <5>2
                <6>2. j = l + 4 /\ k = l + 4
                    BY <1>5, <2>5, <5>1, <6>1
                <6>3. QED BY <2>2, <6>2
            <5>3. CASE ~(j <= o)
                BY <1>3, <5>1, <5>3
            <5>4. QED BY <5>1, <5>2, <5>3
        <4>2. QED BY <4>1
    <3>3. places \in SUBSET Nat
        BY <3>2
    <3> HIDE DEF places
    <3>4. QED BY <3>1, <3>2, <3>3, LeastIs
  <2>7. k = l + 4 /\ l > 0 /\ s[l] = "content" /\ ReadAt(w, k + 3) # "colon"
    BY <1>5, <2>5
  <2>8. phase' = "refused"
    <3>1. ~found
        BY <2>6, <2>7
    <3> HIDE DEF found
    <3>2. QED BY <1>1, <3>1
  <2>9. Len(n) > 0 /\ n[Len(n)] = "content"
    <3>1. l = Len(Stringify(n)) /\ l > 0 /\ Stringify(n)[l] = "content"
        BY <2>7
    <3> HIDE DEF l
    <3>2. QED BY <2>4, <3>1, EndsWithKey
  <2>10. ~resolve_md_path(Base(n))
    BY <2>4, <2>9, BaseEnds
  <2>11. ~Safe
    BY <2>1, <2>10 DEF Safe, n
  <2>12. QED BY <2>8, <2>11
<1>6. QED BY <1>1, <1>4, <1>5

-----------------------------------------------------------------------------
\* The body arrives: nothing is read.
LEMMA SavedStart ==
    ASSUME WireInit
    PROVE  SavedInv
<1> SUFFICES ASSUME Sends PROVE SavedInv
    BY DEF SavedInv, Sends
<1>1. job \in Jobs /\ job.is \in {"post", "upload"}
    BY DEF WireInit, Sends
<1>2. job.name \in Seq(Chars) /\ job.cut \in Nat
    BY <1>1, JobsAssumption
<1>3. Start(job) = [at |-> "find", reads |-> Arriving(job)]
    BY <1>1 DEF Start
<1>4. wire = Arriving(job) /\ phase = "find"
  <2> DEFINE r == Arriving(job)
  <2>1. Start(job) = [at |-> "find", reads |-> r]
    BY <1>3
  <2> HIDE DEF r
  <2>2. wire = r /\ phase = "find"
    BY <2>1 DEF WireInit
  <2>3. QED BY <2>2 DEF r
<1>5. field = (IF job.is = "upload" THEN "name" ELSE "content") /\ name = <<>>
    BY DEF WireInit
<1>6. QED BY <1>1, <1>2, <1>4, <1>5 DEF SavedInv

\* Nothing is read of a text in front of its first character.
LEMMA FirstRead ==
    ASSUME JsonInv, SavedInv, Sends, UNCHANGED <<job, wire, field>>, out' = <<>>, pos' = InFront + 1
    PROVE  ReadUpTo(0)' /\ 0 \in 0..Len(TextAtHand')
<1> DEFINE t == TextAtHand
           ss == Strings(t)
<1>1. t \in Seq(Chars) /\ Len(t) \in Nat
    BY BodyAtHand
<1>2. TextAtHand' = t /\ InFront' = InFront
    BY DEF TextAtHand, InFront
<1>3. PlaceOf(InFront, ss, 0) = InFront + 1
  <2> DEFINE total == Len(Body(job))
             full == Stringify(t)
             q == PlaceOf(InFront, ss, 0)
  <2>1. /\ InFront \in Nat /\ Holds(wire, InFront, full) /\ wire \in Seq(Signs)
    <3>1. total = Len(Body(job)) /\ full = Stringify(TextAtHand)
        OBVIOUS
    <3> HIDE DEF total, full
    <3>2. QED BY <3>1, BodyPlaces, BodyAtHand
  <2>2. q = PlaceOf(InFront, Strings(t), 0) /\ full = Stringify(t) /\ 0 \in 0..Len(t)
    BY <1>1
  <2> HIDE DEF q, full, t
  <2>3. PlaceOf(InFront, Strings(t), 0) = InFront + 1
    BY <1>1, <2>1, <2>2, NextStringified
  <2>4. QED BY <2>3
<1> HIDE DEF t
<1>4. SubSeq(t, 1, 0) = <<>>
    BY <1>1, NoneRead
<1>5. Without(<<>>, Unwritten) = <<>>
    BY OfNothing
<1>6. out' = Without(SubSeq(t, 1, 0), Unwritten) /\ pos' = PlaceOf(InFront, Strings(t), 0)
    BY <1>3, <1>4, <1>5
<1>7. ReadUpTo(0)'
    BY <1>2, <1>6 DEF ReadUpTo, Unwritten
<1>8. QED BY <1>1, <1>2, <1>7

\* Every step of the request keeps the invariant.
LEMMA SavedStep ==
    ASSUME JsonInv, SavedInv, [WireNext]_wires
    PROVE  SavedInv'
<1>1. job' = job
    BY DEF WireNext, wires, FindKey, ReadValue, BreakOff, EndValue, DecodeChar, DecodeEnds,
           SaveUpload, OpenFile, RefuseFile, EscapeChar, EscapeEnds, ListFile, ListEnds
<1>2. CASE ~Sends
    BY <1>1, <1>2 DEF SavedInv, Sends
<1>3. CASE Sends /\ UNCHANGED wires
  <2>1. UNCHANGED <<job, wire, pos, field, name, out, phase>>
    BY <1>3 DEF wires
  <2>2. QED BY <2>1 DEF SavedInv, BrokenInside, ReadUpTo, TextAtHand, InFront, Safe
<1>4. ASSUME Sends, WireNext PROVE SavedInv'
  <2>1. /\ job.name \in Seq(Chars) /\ job.cut \in Nat /\ wire = Arriving(job)
        /\ field \in {"name", "content"} /\ job.is \in {"post", "upload"}
    BY <1>4, BodyAtHand DEF Keys, Sends
  <2>2. /\ field = "name" => job.is = "upload" /\ phase \in {"find", "value", "refused"}
        /\ field = "content" /\ job.is = "upload" /\ phase \in {"find", "value", "resolve"} =>
               name = job.name /\ (name = <<>> \/ Len(name) < NameMax)
        /\ phase = "resolve" => job.cut = 0 /\ out = Without(job.text, Unwritten)
    BY <1>4 DEF SavedInv, Sends
  <2>3. phase \in {"find", "value", "resolve", "ok", "refused"}
    BY <2>1 DEF JsonInv, PhasesOf
  <2>4. FindKey \/ ReadValue \/ BreakOff \/ EndValue \/ SaveUpload
    BY <1>4, <2>1, <2>3 DEF WireNext, DecodeChar, DecodeEnds, OpenFile, RefuseFile,
                            EscapeChar, EscapeEnds, ListFile, ListEnds
  <2>5. job'.name \in Seq(Chars) /\ job'.cut \in Nat
    BY <1>1, <2>1
  <2>6. Safe' = Safe
    BY <1>1 DEF Safe
  <2>7. CASE FindKey
    <3>1. /\ out' = <<>> /\ UNCHANGED <<job, wire, field, name>>
          /\ \/ phase' = "value" /\ pos' = InFront + 1
             \/ phase' = "refused" /\ ~(job.cut = 0 /\ Safe)
        BY <1>4, <2>7, KeyFound
    <3>2. phase = "find"
        BY <2>7 DEF FindKey
    <3>3. wire' = Arriving(job')
        BY <2>1, <3>1
    <3>4. /\ field' = "name" => job'.is = "upload" /\ phase' \in {"find", "value", "refused"}
          /\ field' = "content" /\ job'.is = "upload" /\ phase' \in {"find", "value", "resolve"} =>
                 name' = job'.name /\ (name' = <<>> \/ Len(name') < NameMax)
        BY <2>2, <3>1, <3>2
    <3>5. ASSUME phase' = "value"
          PROVE  \E k \in 0..Len(TextAtHand') : ReadUpTo(k)' /\ (field' = "name" => k = 0 \/ k < NameMax)
        <4>1. ReadUpTo(0)' /\ 0 \in 0..Len(TextAtHand')
            BY <1>4, <3>1, <3>5, FirstRead
        <4>2. QED BY <4>1
    <3>6. phase' = "refused" => ~(job'.cut = 0 /\ Safe')
        BY <2>6, <3>1
    <3>7. phase' # "resolve" /\ phase' # "ok"
        BY <3>1
    <3>8. QED BY <2>5, <3>3, <3>4, <3>5, <3>6, <3>7 DEF SavedInv
  <2>8. CASE ReadValue
    <3>1. phase = "value" /\ UNCHANGED <<job, wire, field, name, phase>>
        BY <2>8 DEF ReadValue
    <3>2. BrokenInside' \/ \E j \in 0..Len(TextAtHand') : ReadUpTo(j)' /\ (field' = "name" => j = 0 \/ j < NameMax)
        BY <1>4, <2>8, ValueKeeps
    <3>3. wire' = Arriving(job')
        BY <2>1, <3>1
    <3>4. /\ field' = "name" => job'.is = "upload" /\ phase' \in {"find", "value", "refused"}
          /\ field' = "content" /\ job'.is = "upload" /\ phase' \in {"find", "value", "resolve"} =>
                 name' = job'.name /\ (name' = <<>> \/ Len(name') < NameMax)
        BY <2>2, <3>1
    <3>5. phase' = "value"
        BY <3>1
    <3>6. QED BY <2>5, <3>2, <3>3, <3>4, <3>5 DEF SavedInv
  <2>9. CASE BreakOff
    <3>1. phase' = "refused" /\ UNCHANGED <<job, wire, field, name>> /\ phase = "value"
        BY <2>9 DEF BreakOff
    <3>2. ~(job'.cut = 0 /\ Safe')
        BY <1>1, <1>4, <2>6, <2>9, BrokenOff
    <3>3. wire' = Arriving(job')
        BY <2>1, <3>1
    <3>4. field' = "name" => job'.is = "upload"
        BY <2>2, <3>1
    <3>5. QED BY <2>5, <3>1, <3>2, <3>3, <3>4 DEF SavedInv
  <2>10. CASE EndValue
    <3>1. /\ out = Without(TextAtHand, Unwritten)
          /\ field = "name" => out = job.name /\ (out = <<>> \/ Len(out) < NameMax)
          /\ field = "content" => job.cut = 0
        BY <1>4, <2>10, ValueRead
    <3>2. /\ phase = "value" /\ UNCHANGED <<job, wire, out>>
          /\ \/ field = "name" /\ name' = out /\ field' = "content" /\ phase' = "find"
             \/ /\ field = "content" /\ UNCHANGED <<field, name>>
                /\ phase' = IF job.is = "upload" THEN "resolve" ELSE "ok"
        BY <2>10 DEF EndValue
    <3>3. wire' = Arriving(job')
        BY <2>1, <3>2
    <3>4. CASE field = "name"
        <4>1. name' = job'.name /\ (name' = <<>> \/ Len(name') < NameMax) /\ field' = "content" /\ phase' = "find"
            BY <3>1, <3>2, <3>4
        <4>2. QED BY <2>5, <3>3, <4>1 DEF SavedInv
    <3>5. CASE field = "content"
        <4>1. /\ field' = "content" /\ name' = name /\ job'.cut = 0
              /\ phase' = IF job.is = "upload" THEN "resolve" ELSE "ok"
            BY <3>1, <3>2, <3>5
        <4>2. out' = Without(job'.text, Unwritten)
            BY <3>1, <3>2, <3>5 DEF TextAtHand
        <4>3. CASE job.is = "upload"
            <5>1. phase' = "resolve" /\ job'.is = "upload"
                BY <1>1, <4>1, <4>3
            <5>2. name' = job'.name /\ (name' = <<>> \/ Len(name') < NameMax)
                BY <1>1, <2>2, <3>2, <3>5, <4>1, <4>3
            <5>3. QED BY <2>5, <3>3, <4>1, <4>2, <5>1, <5>2 DEF SavedInv, Unwritten
        <4>4. CASE job.is = "post"
            <5>1. phase' = "ok" /\ job'.is = "post" /\ Safe'
                BY <1>1, <4>1, <4>4 DEF Safe
            <5>2. QED BY <2>5, <3>3, <4>1, <4>2, <5>1 DEF SavedInv, Unwritten
        <4>5. QED BY <2>1, <4>3, <4>4
    <3>6. QED BY <2>1, <3>4, <3>5
  <2>11. CASE SaveUpload
    <3>1. /\ phase = "resolve" /\ job.is = "upload" /\ UNCHANGED <<job, wire, field, out>>
          /\ name' = Base(name)
          /\ phase' = IF resolve_md_path(Base(name)) THEN "ok" ELSE "refused"
        BY <2>11 DEF SaveUpload
    <3>2. field = "content" /\ job.is = "upload"
        BY <2>1, <2>2, <3>1
    <3>3. name = job.name /\ (name = <<>> \/ Len(name) < NameMax) /\ job.cut = 0
          /\ out = Without(job.text, Unwritten)
        BY <2>2, <3>1, <3>2
    <3>4. wire' = Arriving(job') /\ field' = "content"
        BY <2>1, <3>1, <3>2
    <3>5. CASE resolve_md_path(Base(job.name))
        <4>1. phase' = "ok" /\ name' = Base(job'.name)
            BY <1>1, <3>1, <3>2, <3>3, <3>5
        <4>2. job.name # <<>>
            BY <2>1, <3>5, BaseEnds
        <4>3. Safe'
            BY <2>6, <3>2, <3>3, <3>5, <4>2 DEF Safe
        <4>4. job'.cut = 0 /\ out' = Without(job'.text, Unwritten)
            BY <3>1, <3>3
        <4>5. QED BY <2>5, <3>4, <4>1, <4>3, <4>4 DEF SavedInv, Unwritten
    <3>6. CASE ~resolve_md_path(Base(job.name))
        <4>1. phase' = "refused"
            BY <3>1, <3>2, <3>3, <3>6
        <4>2. ~Safe'
            BY <2>6, <3>2, <3>6 DEF Safe
        <4>3. QED BY <2>5, <3>4, <4>1, <4>2 DEF SavedInv
    <3>7. QED BY <3>5, <3>6
  <2>12. QED BY <2>4, <2>7, <2>8, <2>9, <2>10, <2>11
<1>5. QED BY <1>2, <1>3, <1>4

\* What it says at the end.
LEMMA SavedRight == SavedInv => SavedAsTyped
<1> SUFFICES ASSUME SavedInv, WireDone, Sends
             PROVE  /\ phase = "ok" <=> job.cut = 0 /\ Safe
                    /\ phase = "ok" => out = Without(job.text, {"ctl"})
                    /\ phase = "ok" /\ job.is = "upload" => name = Base(job.name)
    BY DEF SavedAsTyped, Sends, Safe
<1>1. phase \in {"ok", "refused"}
    BY DEF WireDone
<1>2. /\ phase = "ok" => /\ job.cut = 0 /\ Safe /\ out = Without(job.text, {"ctl"})
                         /\ job.is = "upload" => name = Base(job.name)
      /\ phase = "refused" => ~(job.cut = 0 /\ Safe)
    BY DEF SavedInv, Sends, Unwritten
<1>3. QED BY <1>1, <1>2

-----------------------------------------------------------------------------
(***************************************************************************)
(* The theorems.                                                           *)
(***************************************************************************)
\* No diagram: empty arrays.
LEMMA NoDiagramInv == NoDiagram => ChartInv
<1> SUFFICES ASSUME NoDiagram PROVE ChartInv
    OBVIOUS
<1> USE DEF NoDiagram
<1>1. boxes \in Seq({}) /\ Len(boxes) = 0 /\ links \in Seq((1..0) \X (1..0))
    OBVIOUS
<1>2. ReadInv
    BY <1>1, BoundsAssumption DEF ReadInv, LinksInv, IsSeq
<1>3. QED BY <1>2 DEF ChartInv, RanksInBounds

\* The steps of the other converters leave the diagram alone.
THEOREM ChartInvariant == Spec => []ChartInv
<1>1. Init => ChartInv
    BY InitInv, NoDiagramInv DEF Init
<1>2. ChartInv /\ [Next]_all => ChartInv'
  <2>1. [Next]_all => [MermaidNext]_chart
    BY DEF Next, all
  <2>2. QED BY <2>1, StepInv
<1>3. QED BY <1>1, <1>2, PTL DEF Spec

\* Whatever the diagram and the sizes of the arrays, as long as no more boxes fit
\* than ranks, every rank of a flowchart without a box that is linked with itself
\* is an index of depth_counts (mermaid_svg.c 398-410, which reads it without a
\* test): ranks rise by one for each box taken from the queue, cycles included,
\* and the queue is never longer than the array of boxes.
THEOREM RanksSafe == Spec => []RanksInBounds
<1>1. ChartInv => RanksInBounds
    BY DEF ChartInv
<1>2. QED BY <1>1, ChartInvariant, PTL

\* Every link of a diagram joins two boxes that exist, and the array of boxes never
\* overflows, whatever is looked up before or after it is added (mermaid_svg.c
\* 126-156, 577-640, 833-853).
THEOREM LinksJoinBoxes == Spec => [](Len(boxes) <= MaxBoxes /\ LinksInv)
<1>1. ChartInv => Len(boxes) <= MaxBoxes /\ LinksInv
    BY DEF ChartInv, ReadInv
<1>2. QED BY <1>1, ChartInvariant, PTL

-----------------------------------------------------------------------------
\* The two invariants that lean on ChartInv, kept by every step of the server.
LEMMA DownInvariant == Spec => []DownInv
<1>1. Init => DownInv
    BY DEF Init, MermaidInit, NoDiagram, DownInv, LinksGoDown, MermaidDone
<1>2. ChartInv /\ DownInv /\ [Next]_all => DownInv'
  <2>1. [Next]_all => [MermaidNext]_chart
    BY DEF Next, all
  <2>2. QED BY <2>1, DownStep
<1>3. QED BY <1>1, <1>2, ChartInvariant, PTL DEF Spec

LEMMA OwnBoxInvariant == Spec => []OwnBoxInv
<1>1. Init => OwnBoxInv
  <2>1. SUFFICES ASSUME Init PROVE OwnBoxInv
    OBVIOUS
  <2>2. /\ diagram.kind # "pie" => diagram \in Diagrams
        /\ at = 1 /\ boxes = <<>>
    BY <2>1 DEF Init, MermaidInit, NoDiagram
  <2>3. QED BY <2>2 DEF OwnBoxInv, Shaped, Used, Distinct
<1>2. ChartInv /\ OwnBoxInv /\ [Next]_all => OwnBoxInv'
  <2>1. [Next]_all => [MermaidNext]_chart
    BY DEF Next, all
  <2>2. QED BY <2>1, OwnBoxStep
<1>3. QED BY <1>1, <1>2, ChartInvariant, PTL DEF Spec

\* Whatever the diagram and the sizes of the arrays, in a flowchart without a cycle
\* every link leads to a lower rank once the ranks are given, as long as the queue
\* was never full (mermaid_svg.c 367-395): a box joins the queue again each time its
\* rank is raised, so no link is left that does not lead down, and no box is left
\* without a rank.
THEOREM RanksDescend == Spec => []LinksGoDown
<1>1. DownInv => LinksGoDown
    BY DEF DownInv
<1>2. QED BY <1>1, DownInvariant, PTL

\* Whatever the diagram and the sizes of the arrays, no name has two boxes, except
\* in the two ways OneBoxEach names: the lookups of the three parsers find what the
\* lines before have added, also when it did not fit (mermaid_svg.c 126-139,
\* 577-640, 740-853).
THEOREM OneBoxPerName == Spec => []OneBoxEach
<1>1. OwnBoxInv => OneBoxEach
    BY DEF OwnBoxInv, OneBoxEach, Unambiguous, Distinct
<1>2. QED BY <1>1, OwnBoxInvariant, PTL

-----------------------------------------------------------------------------
LEMMA MathInvariant == Spec => []MathInv
<1>1. Init => MathInv
  <2>1. SUFFICES ASSUME Init PROVE MathInv
    OBVIOUS
  <2>2. latex \in Seq(Tokens) /\ p = 1 /\ calls = <<Call("math", "base")>>
    <3>1. CASE MathInit
        BY <3>1, FormulasAssumption DEF MathInit
    <3>2. CASE NoFormula
        BY <3>2 DEF NoFormula
    <3>3. QED BY <2>1, <3>1, <3>2 DEF Init
  <2>3. QED BY <2>2, MathStart
<1>2. MathInv /\ [Next]_all => MathInv'
  <2>1. [Next]_all => [MathNext]_formula
    BY DEF Next, all
  <2>2. QED BY <2>1, MathStep
<1>3. QED BY <1>1, <1>2, PTL DEF Spec

\* Whatever the formula, one of LaTeX's grammar or not, each of its tokens that
\* becomes an element of its own is in the MathML, once, when latex_to_mathml ends
\* (mathml.c 90-357): what a call has written is handed over when it returns, and no
\* buffer is filled that its call does not write out.
THEOREM TokensOnce == Spec => []EachTokenOnce
<1>1. QED BY MathInvariant, OnceAtTheEnd, PTL

-----------------------------------------------------------------------------
\* No document: nothing was shown, and nothing is to be shown.
LEMMA NoDocumentInv == NoDocument => BlocksInv
<1> SUFFICES ASSUME NoDocument PROVE BlocksInv
    OBVIOUS
<1>1. /\ source = <<>> /\ lines = <<>> /\ i = 1 /\ path = <<>> /\ stack = <<>>
      /\ block = [Idle EXCEPT !.loop = "done"] /\ html = <<>> /\ error = 0
    BY DEF NoDocument
<1>2. /\ block \in Blocks /\ block.loop = "done" /\ block.taken = <<>> /\ block.items = <<>>
    BY <1>1, IdleFacts DEF Loops
<1>3. LoopInv
    BY <1>1, <1>2 DEF LoopInv, In, AtEnd
<1>4. Wanted = {}
    BY <1>1 DEF Wanted
<1>5. lines \in Seq(Numbered) /\ Rising(lines)
    BY <1>1 DEF Rising
<1>6. Sound(<<>>, <<>>, <<>>, lines, 1, <<>>, Wanted)
    BY <1>4, <1>5, AtRest
<1>7. source \in Seq(Numbered) /\ path \in Seq(Containers) /\ \A k \in 1..Len(source) : FALSE
    BY <1>1
<1>8. QED BY <1>1, <1>2, <1>3, <1>6, <1>7 DEF BlocksInv

LEMMA BlocksInvariant == Spec => []BlocksInv
<1>1. Init => BlocksInv
    BY BlocksStart, NoDocumentInv DEF Init
<1>2. BlocksInv /\ [Next]_all => BlocksInv'
  <2>1. [Next]_all => [BlocksNext]_document
    BY DEF Next, all
  <2>2. QED BY <2>1, BlocksStutter
<1>3. QED BY <1>1, <1>2, PTL DEF Spec

\* Whatever the document, however its quotes and lists nest, nothing is lost, doubled
\* or moved on the way through the loops and the recursion of the parser (md_parser.c
\* 2645-3560): the lines shown are in the order of the file, and without an error
\* every line with a text of its own is among them, also one that looks like a
\* definition of a link but is code or goes on a paragraph.
THEOREM LinesOnce == Spec => []EachLineOnce
<1>1. QED BY BlocksInvariant, OnceEach, PTL

LEMMA PlainInvariant == Spec => []PlainInv
<1>1. Init => PlainInv
  <2>1. ASSUME NoDocument PROVE PlainInv
    <3>1. /\ source = <<>> /\ lines = <<>> /\ stack = <<>> /\ error = 0
          /\ block = [Idle EXCEPT !.loop = "done"]
        BY <2>1 DEF NoDocument
    <3>2. source \in Seq(Numbered) /\ Len(source) = 0
        BY <3>1
    <3>3. OpenFence(source)[0] = 0
        BY <3>2, OpenFenceFacts
    <3>4. Sent = <<>>
        BY <3>1 DEF Sent, parse_all_link_refs_from_lines
    <3>5. block.loop = "done"
        BY <3>1, IdleFacts DEF Loops
    <3>6. QED BY <3>1, <3>2, <3>3, <3>4, <3>5 DEF PlainInv, In
  <2>2. QED BY <2>1, PlainStart DEF Init
<1>2. BlocksInv /\ PlainInv /\ [Next]_all => PlainInv'
  <2>1. [Next]_all => [BlocksNext]_document
    BY DEF Next, all
  <2>2. QED BY <2>1, PlainStep
<1>3. QED BY <1>1, <1>2, BlocksInvariant, PTL DEF Spec

\* Whatever the document, as long as it has no containers and no block that may
\* swallow a fence, the parser reports an error exactly when the last fence is never
\* closed (md_parser.c 2965-2995): the loops of the other blocks pass no
\* fence, and a shorter fence inside a longer one closes nothing.
THEOREM ErrorsExact == Spec => []ErrorIffUnterminated
<1>1. QED BY PlainInvariant, ErrorRight, PTL

LEMMA HonourInvariant == Spec => []HonourInv
<1>1. Init => HonourInv
  <2>1. ASSUME NoDocument PROVE HonourInv
    <3>1. /\ lines = <<>> /\ stack = <<>> /\ html = <<>>
          /\ block.taken = <<>> /\ block.items = <<>>
        BY <2>1, IdleFacts DEF NoDocument, Loops
    <3>2. \A k \in 1..Len(<<>>) : FALSE
        OBVIOUS
    <3>3. QED BY <3>1, <3>2, EmptyHonoured
              DEF HonourInv, AllHonoured, StackHonoured, ShownHonoured
  <2>2. QED BY <2>1, HonourStart DEF Init
<1>2. BlocksInv /\ HonourInv /\ [Next]_all => HonourInv'
  <2>1. [Next]_all => [BlocksNext]_document
    BY DEF Next, all
  <2>2. QED BY <2>1, HonourStep
<1>3. QED BY <1>1, <1>2, BlocksInvariant, PTL DEF Spec

\* Whatever the document, a line that is shown is inside a quote or a list of the right
\* kind for every marker that was taken off it, in the order of the markers, keeps the
\* others, and is in no paragraph when it begins with the marker of a quote (md_parser.c
\* 3049-3450): also a line that goes on an item or a quote, one that joins an item
\* behind it, and one in a body inside a body.
THEOREM MarkersKept == Spec => []MarkersHonoured
<1>1. QED BY BlocksInvariant, HonourInvariant, MarkersRight, PTL

-----------------------------------------------------------------------------
\* No strings: an empty list is ready.
LEMMA NoStringsInv == NoStrings => JsonInv
<1> SUFFICES ASSUME NoStrings PROVE JsonInv
    OBVIOUS
<1>1. /\ job.is = "list" /\ job.text = <<>> /\ job.names = <<>>
      /\ wire = <<>> /\ pos = 1 /\ field = "content" /\ name = <<>> /\ out = <<>>
      /\ listed = <<>> /\ size = 1 /\ phase = "ok"
    BY DEF NoStrings
<1>2. <<>> \in Seq(Signs) /\ <<>> \in Seq(Chars) /\ <<>> \in Seq(Seq(Chars)) /\ \A k \in 1..Len(<<>>) : FALSE
    OBVIOUS
<1>3. WireTypeOK
    BY <1>1, <1>2 DEF WireTypeOK, Keys
<1>4. IsString(out)
    BY <1>1, EmptyString
<1>5. phase \in PhasesOf(job.is)
    BY <1>1 DEF PhasesOf
<1>6. Files(job)
  <2>1. job.disk = <<>> /\ job.active = <<>> /\ \A f \in DOMAIN <<>> : FALSE
    BY DEF NoStrings
  <2>2. QED BY <1>2, <2>1 DEF Files
<1>7. QED BY <1>1, <1>2, <1>3, <1>4, <1>5, <1>6 DEF JsonInv

LEMMA JsonInvariant == Spec => []JsonInv
<1>1. Init => JsonInv
    BY WireStart, NoStringsInv DEF Init
<1>2. JsonInv /\ [Next]_all => JsonInv'
  <2>1. [Next]_all => [WireNext]_wires
    BY DEF Next, all
  <2>2. QED BY <2>1, WireStep
<1>3. QED BY <1>1, <1>2, PTL DEF Spec

\* Whatever the texts, the names and the sizes, what the server answers is JSON (http.c
\* 251-328, 638-784, 1023-1076): in a text or an entry of the list that is escaped
\* character by character no quote, backslash or control character ends a string or
\* begins an escape that is none; a list that is cut off is never sent; and the name of
\* an upload, which is not escaped, has lost its backslashes with its folders.
THEOREM AnswersAreJson == Spec => []AnswerIsJson
<1>1. QED BY JsonInvariant, AnswersRight, PTL

LEMMA NoStringsShown == NoStrings => ShownInv
BY DEF NoStrings, ShownInv

LEMMA ShownInvariant == Spec => []ShownInv
<1>1. Init => ShownInv
    BY ShownStart, NoStringsShown DEF Init
<1>2. JsonInv /\ ShownInv /\ [Next]_all => ShownInv'
  <2>1. [Next]_all => [WireNext]_wires
    BY DEF Next, all
  <2>2. QED BY <2>1, ShownStep
<1>3. QED BY <1>1, <1>2, JsonInvariant, PTL DEF Spec

\* Whatever a file is called, whatever files there are and whatever they hold, the client
\* reads from the answer the text that is on the disk of the file the answer names, but
\* for the control characters that the server drops, or nothing if there is none.  It is
\* the file that was asked for, whose name comes out of the path as it went in, or the
\* active one if none was; exactly the names that do not resolve are refused.  From a
\* path that was cut it is at worst a file that resolves and whose name begins the one
\* asked for, never half of an encoded character (http.c 294-328, 569-634, 725-784, 887).
THEOREM ShownExactly == Spec => []ShownAsSaved
<1>1. QED BY ShownInvariant, ShownRight, PTL

LEMMA NoStringsSaved == NoStrings => SavedInv
BY DEF NoStrings, SavedInv

LEMMA SavedInvariant == Spec => []SavedInv
<1>1. Init => SavedInv
    BY SavedStart, NoStringsSaved DEF Init
<1>2. JsonInv /\ SavedInv /\ [Next]_all => SavedInv'
  <2>1. [Next]_all => [WireNext]_wires
    BY DEF Next, all
  <2>2. QED BY <2>1, SavedStep
<1>3. QED BY <1>1, <1>2, JsonInvariant, PTL DEF Spec

\* Whatever is typed or picked, also when keys, quotes and backslashes are in the text
\* or in its name, what is saved is it, under the last part of the name, but for the
\* characters that JSON writes as \u; and it is saved exactly when the body arrived
\* whole and the name is short enough and that of a Markdown file (http.c 100-248,
\* 1023-1076): what is found of a key is never a part of a name or a text, and
\* no string ends before its last character was read.
THEOREM SavedExactly == Spec => []SavedAsTyped
<1>1. QED BY SavedInvariant, SavedRight, PTL

-----------------------------------------------------------------------------
LEMMA TypedInvariant == Spec => []TypedInv
<1>1. Init => TypedInv
  <2>1. ASSUME NoDiagram PROVE TypedInv
    <3>1. /\ at = 1 /\ mention = 0 /\ src = 0 /\ boxes = <<>> /\ links = <<>> /\ open = 0
          /\ depth = <<>> /\ queue = <<>> /\ head = 0 /\ edge = 0 /\ deepest = 0
          /\ stage = "drawn"
        BY <2>1 DEF NoDiagram
    <3>2. diagram.kind = "pie" /\ diagram.lines = <<>>
        BY <2>1 DEF NoDiagram
    <3>3. diagram.lines \in Seq(Range(diagram.lines)) /\ DOMAIN diagram.lines = {}
        BY <3>2
    <3>4. diagram.kind \in Kinds
        BY <3>2 DEF Kinds
    <3>5. QED BY <3>1, <3>3, <3>4, EmptyChart
  <2>2. QED BY <2>1, TypedStart DEF Init
<1>2. ChartInv /\ OwnBoxInv /\ TypedInv /\ [Next]_all => TypedInv'
  <2>1. [Next]_all => [MermaidNext]_chart
    BY DEF Next, all
  <2>2. QED BY <2>1, TypedStep
<1>3. QED BY <1>1, <1>2, ChartInvariant, OwnBoxInvariant, PTL DEF Spec

LEMMA ArrowsInvariant == Spec => []ArrowsInv
<1>1. Init => ArrowsInv
  <2>1. ASSUME NoDiagram PROVE ArrowsInv
    <3>1. diagram.lines = <<>> /\ boxes = <<>> /\ links = <<>> /\ stage = "drawn"
        BY <2>1 DEF NoDiagram
    <3>2. QED BY <3>1, NoDiagramArrows
  <2>2. QED BY <2>1, ArrowsStart DEF Init
<1>2. ChartInv /\ OwnBoxInv /\ TypedInv /\ ArrowsInv /\ [Next]_all => ArrowsInv'
  <2>1. [Next]_all => [MermaidNext]_chart
    BY DEF Next, all
  <2>2. QED BY <2>1, ArrowsStep
<1>3. QED BY <1>1, <1>2, ChartInvariant, OwnBoxInvariant, TypedInvariant, PTL DEF Spec

\* Whatever the diagram, every link that is written is drawn, in the order of the source
\* and between the boxes of its two names, unless an array was full or a line has a "-->"
\* behind a "---" (mermaid_svg.c 260-355, 545-560, 740-790): along a chain the box found
\* for one mention is the end of the next link, what stands within the braces of a class
\* links nothing, and no box that is added later is taken for an end of a link.
THEOREM LinksDrawn == Spec => []LinksAsWritten
<1>1. QED BY ArrowsInvariant, ArrowsRight, PTL

\* Whatever is converted, the variables of the four converters keep their types: every
\* cursor stays in its text or one place behind it, no array grows beyond its size, and
\* what is kept as a place of an array is one of it or none (md_parser.c 2645-3560,
\* mathml.c 90-357, mermaid_svg.c 126-856, http.c 100-328).
THEOREM TypesKept == Spec => []TypeOK
<1>1. BlocksInv => BlocksTypeOK
    BY DEF BlocksInv, Sound, Typed, BlocksTypeOK
<1>2. TypedInv => MermaidTypeOK
    BY DEF TypedInv
<1>3. JsonInv => WireTypeOK
    BY DEF JsonInv
<1>4. MathInv => MathTypeOK
    BY MathTyped
<1>5. BlocksInv /\ MathInv /\ TypedInv /\ JsonInv => TypeOK
    BY <1>1, <1>2, <1>3, <1>4 DEF TypeOK
<1>6. QED BY <1>5, BlocksInvariant, MathInvariant, TypedInvariant, JsonInvariant, PTL
=============================================================================
