------------------------------ MODULE Emphasis ------------------------------
(***************************************************************************)
(* Emphasis in a line of Markdown (src-c/md_parser.c): tokenize_inline     *)
(* finds the runs of delimiters and what they may do, and                  *)
(* process_emphasis_tokens pairs them and puts tags in their place.        *)
(*                                                                         *)
(* A line is a sequence of symbols: a character, an escaped character or a *)
(* tag.  Of the characters, letters, the space and the delimiters are told *)
(* apart; every other one is punctuation.                                  *)
(***************************************************************************)
EXTENDS Integers, Sequences, FiniteSets, SequencesExt

CONSTANTS
    Letters  \* the characters that are no space and no punctuation

VARIABLES
    source,  \* the line that is rendered
    tokens,  \* what it is cut into
    closer   \* closer_idx, the token looked at next

emphasis == <<source, tokens, closer>>

Delimiters == {"*", "_", "~"}
Characters == Letters \cup Delimiters \cup {" ", "tick"}
TagNames   == {"em", "strong", "del", "code", "u", "p", "ul", "li", "blockquote", "pre"}

Char(c)    == [is |-> "char", of |-> c]
Escaped(c) == [is |-> "escaped", of |-> c]
Open(tag)  == [is |-> "open", of |-> tag]
Styled(tag) == [is |-> "styled", of |-> tag]  \* an opening tag with attributes
Close(tag) == [is |-> "close", of |-> tag]
Mark(tag)  == [is |-> "mark", of |-> tag]     \* the Markdown a block begins with

Symbols ==
    [is : {"char", "escaped"}, of : Characters] \cup
    [is : {"open", "styled", "close", "mark"}, of : TagNames]

Tokens == [type : {"text", "delim", "tag"}, val : Symbols, len : Nat,
           can_open : BOOLEAN, can_close : BOOLEAN]

EmphasisTypeOK ==
    /\ source \in Seq(Symbols)
    /\ tokens \in Seq(Tokens)
    /\ closer \in 1..(Len(tokens) + 1)

-----------------------------------------------------------------------------
(* tokenize_inline. *)

\* The ends of the line count as spaces.
is_unicode_ws(s)    == s = Char(" ")
is_unicode_punct(s) == s.is # "char" \/ s.of \notin Letters \cup {" "}

Before(line, k)   == IF k = 1 THEN Char(" ") ELSE line[k - 1]
Behind(line, k)   == IF k > Len(line) THEN Char(" ") ELSE line[k]

is_left_flanking(prev, next) ==
    /\ ~is_unicode_ws(next)
    /\ is_unicode_punct(next) => is_unicode_ws(prev) \/ is_unicode_punct(prev)

is_right_flanking(prev, next) ==
    /\ ~is_unicode_ws(prev)
    /\ is_unicode_punct(prev) => is_unicode_ws(next) \/ is_unicode_punct(next)

IsDelimiter(s) == s.is = "char" /\ s.of \in Delimiters

Token(type, val) ==
    [type |-> type, val |-> val, len |-> 0, can_open |-> FALSE, can_close |-> FALSE]

\* The run of n equal delimiters that starts at k.  "_" neither opens nor
\* closes inside a word.
Delimiter(line, k, n) ==
    LET prev  == Before(line, k)
        next  == Behind(line, k + n)
        left  == is_left_flanking(prev, next)
        right == is_right_flanking(prev, next)
        word  == line[k].of = "_"
    IN  [type      |-> "delim",
         val       |-> line[k],
         len       |-> n,
         can_open  |-> left /\ (word => ~right \/ is_unicode_punct(prev)),
         can_close |-> right /\ (word => ~left \/ is_unicode_punct(next))]

RunLength(line, k) ==
    Cardinality({m \in k..Len(line) : \A n \in k..m : line[n] = line[k]})

TokenAt(line, k) ==
    CASE IsDelimiter(line[k])              -> Delimiter(line, k, RunLength(line, k))
      [] line[k].is \in {"open", "styled", "close"} -> Token("tag", line[k])
      [] OTHER                               -> Token("text", line[k])

\* A text has a token for each of its characters.
tokenize_inline(line) ==
    LET begins(k) == IsDelimiter(line[k]) => line[k] # Before(line, k)
        upto[k \in 0..Len(line)] ==
            IF k = 0 THEN <<>>
            ELSE IF begins(k) THEN Append(upto[k - 1], TokenAt(line, k)) ELSE upto[k - 1]
    IN  upto[Len(line)]

-----------------------------------------------------------------------------
(* process_emphasis_tokens. *)

Scanning  == closer <= Len(tokens)
CanClose(t) == t.type = "delim" /\ t.can_close /\ t.len > 0

\* The rule of three, on what is left of the runs.
OddMatch(o, c) ==
    /\ o.can_close \/ c.can_open
    /\ o.len % 3 # 0 \/ c.len % 3 # 0
    /\ (o.len + c.len) % 3 = 0

Opens(o, c) ==
    /\ o.type = "delim" /\ o.can_open /\ o.len > 0
    /\ o.val = c.val
    /\ ~OddMatch(o, c)

Openers == {k \in 1..(closer - 1) : Opens(tokens[k], tokens[closer])}

\* Mutant of Used: only the closer is asked.
UsedByCloser(o, c) == IF c.len >= 2 THEN 2 ELSE 1

Used(o, c) == IF o.len >= 2 /\ c.len >= 2 THEN 2 ELSE 1

TagOf(c, num) == IF c.val.of = "~" THEN "del" ELSE IF num = 2 THEN "strong" ELSE "em"

Shortened(t, num) == IF t.len > num THEN <<[t EXCEPT !.len = @ - num]>> ELSE <<>>

\* Mutant of Deactivated: what stands between a pair may still be paired.
DeactivatedNot(t) == t

Deactivated(t) ==
    IF t.type = "delim" THEN [t EXCEPT !.can_open = FALSE, !.can_close = FALSE] ELSE t

\* The nearest opener is paired with the closer: both lose the delimiters of a
\* tag, which stands on their inner side.
Pair ==
    /\ Scanning
    /\ CanClose(tokens[closer])
    /\ Openers # {}
    /\ LET opener  == Max(Openers)
           num     == Used(tokens[opener], tokens[closer])
           tag     == TagOf(tokens[closer], num)
           opening == Append(Shortened(tokens[opener], num), Token("tag", Open(tag)))
           closing == <<Token("tag", Close(tag))>> \o Shortened(tokens[closer], num)
           between == SubSeq(tokens, opener + 1, closer - 1)
       IN  /\ tokens' = SubSeq(tokens, 1, opener - 1) \o opening
                        \o [k \in DOMAIN between |-> Deactivated(between[k])]
                        \o closing \o SubSeq(tokens, closer + 1, Len(tokens))
           /\ closer' = closer + Len(opening) + Len(closing) - 2
    /\ UNCHANGED source

\* A closer without an opener never closes anything, unless it may open.
Skip ==
    /\ Scanning
    /\ ~(CanClose(tokens[closer]) /\ Openers # {})
    /\ closer' = closer + 1
    /\ tokens' = IF CanClose(tokens[closer]) /\ ~tokens[closer].can_open
                 THEN [tokens EXCEPT ![closer].can_close = FALSE]
                 ELSE tokens
    /\ UNCHANGED source

\* What is left of a run is text, and so is an escaped character.
HtmlOf(t) ==
    CASE t.type = "tag"   -> <<t.val>>
      [] t.type = "text"  -> <<Char(t.val.of)>>
      [] t.type = "delim" -> [k \in 1..t.len |-> t.val]

Rendered == FlattenSeq([k \in DOMAIN tokens |-> HtmlOf(tokens[k])])

-----------------------------------------------------------------------------
(* What the properties of a rendering are stated with. *)

\* The tags still open behind a symbol; <<"crossed">> when one was closed inside
\* another.
Follow(open, s) ==
    CASE s.is \in {"open", "styled"} -> Append(open, s.of)
      [] s.is = "close" /\ open # <<>> /\ Last(open) = s.of -> Front(open)
      [] s.is = "close" /\ ~(open # <<>> /\ Last(open) = s.of) -> <<"crossed">>
      [] OTHER -> open

\* The tags open behind each symbol of a sequence.
OpenTags(line) ==
    LET open[k \in 0..Len(line)] == IF k = 0 THEN <<>> ELSE Follow(open[k - 1], line[k])
    IN  open

WellNested == OpenTags(Rendered)[Len(Rendered)] = <<>>

Weight(s) ==
    CASE s.is = "char"              -> IF s.of \in {"*", "_"} THEN 1 ELSE 0
      [] s.is \in {"open", "close"} -> IF s.of = "strong" THEN 2
                                       ELSE IF s.of = "em" THEN 1 ELSE 0
      [] OTHER -> 0

\* What the numbers of a sequence up to each of them add up to.
Sums(v) ==
    LET sum[k \in 0..Len(v)] == IF k = 0 THEN 0 ELSE sum[k - 1] + v[k]
    IN  sum

\* The delimiters that a sequence of symbols stands for.
Delimiting(line) == Sums([k \in DOMAIN line |-> Weight(line[k])])[Len(line)]

\* The line with the tags put in, where an escaped character is one still.
Unrendered ==
    FlattenSeq([k \in DOMAIN tokens |->
        IF tokens[k].type = "text" THEN <<tokens[k].val>> ELSE HtmlOf(tokens[k])])

=============================================================================
