------------------------------- MODULE MathML -------------------------------
(***************************************************************************)
(* latex_to_mathml (src-c/mathml.c): a recursive descent over the LaTeX of *)
(* one formula, which writes MathML.                                       *)
(*                                                                         *)
(* A formula is a sequence of tokens: "x" is anything that becomes one     *)
(* element of its own (a letter, a number, an operator, a Greek letter, a  *)
(* space command, a command that is not known), "text" is \text or         *)
(* \mathrm, "open" and "close" are braces, "upper" and "lower" the marks ^  *)
(* and _ of scripts; square brackets, "frac" and "sqrt" stand for          *)
(* themselves.  White space is skipped wherever the code looks at the      *)
(* next character, but in a \text, and is left out.  What is written is a  *)
(* sequence of tags and leaves; a leaf is known by its place in the        *)
(* formula.                                                                *)
(***************************************************************************)
EXTENDS Integers, Sequences, FiniteSets, SequencesExt, FiniteSetsExt

CONSTANTS
    Formulas  \* the formulas, each with the MathML it stands for or none

Tokens == {"x", "open", "close", "[", "]", "upper", "lower", "frac", "sqrt", "text"}

ASSUME FormulasAssumption ==
    \A f \in Formulas : f.tok \in Seq(Tokens)

VARIABLES
    latex,  \* the formula
    meant,  \* history: the MathML it stands for, empty for a formula without
    p,      \* the cursor, which every function of the parser shares
    calls   \* the C stack: the calls under way, latex_to_mathml first

formula == <<latex, meant, p, calls>>

Elements == {"leaf", "mrow", "mtext", "mfrac", "msqrt", "mroot", "msup", "msub", "msubsup"}
Marks    == [el : Elements, at : Int]

Leaf(k)          == [el |-> "leaf", at |-> k]
Tag(el)          == [el |-> el, at |-> 0]
EndTag(el)       == [el |-> el, at |-> -1]
Wrap(el, inside) == <<Tag(el)>> \o inside \o <<EndTag(el)>>

\* A call fills its buffers one after the other; the numerator of a fraction
\* and the radicand are a "base", the denominator a "sub", the degree a "sup".
Buffers    == {"base", "sub", "sup"}
Procedures == {"math", "expr", "group", "frac", "sqrt", "root"}
Calls      == [proc : Procedures, fills : Buffers \cup {"none"}, text : [Buffers -> Seq(Marks)]]

Call(proc, fills) == [proc |-> proc, fills |-> fills, text |-> [b \in Buffers |-> <<>>]]

MathTypeOK ==
    /\ latex \in Seq(Tokens)
    /\ p \in 1..(Len(latex) + 1)
    /\ calls \in Seq(Calls)
    /\ calls # <<>>

-----------------------------------------------------------------------------
Peek(i) == IF i \in DOMAIN latex THEN latex[i] ELSE "end"

Running == Last(calls)
Written(b) == Running.text[b]

\* mml_append to the buffer that the last of the calls fills.
mml_append(stack, text) ==
    LET top == Last(stack)
    IN  Append(Front(stack), [top EXCEPT !.text[top.fills] = @ \o text])

Filling(b) == [calls EXCEPT ![Len(calls)].fills = b]

HandUp(text) == calls' = mml_append(Front(calls), text)

\* The first closing brace from i on, or the end.
EndOfText(i) ==
    Min({k \in i..Len(latex) : latex[k] = "close"} \cup {Len(latex) + 1})

LeavesOf(from, to) == [k \in 1..(to - from) |-> Leaf(from + k - 1)]

\* mathml_parse_atom at token i, for the last call of the stack.
mathml_parse_atom(stack, i) ==
    \/ /\ Peek(i) \in {"x", "[", "]", "close"}
       /\ calls' = mml_append(stack, <<Leaf(i)>>)
       /\ p' = i + 1
    \/ /\ Peek(i) \in {"upper", "lower"}
       /\ calls' = stack
       /\ p' = i + 1
    \/ /\ Peek(i) = "text" /\ Peek(i + 1) = "open"
       /\ LET end == EndOfText(i + 2)
          IN  /\ calls' = mml_append(stack, Wrap("mtext", LeavesOf(i + 2, end)))
              /\ p' = IF end \in DOMAIN latex THEN end + 1 ELSE end
    \/ /\ Peek(i) = "text" /\ Peek(i + 1) # "open"
       /\ calls' = stack
       /\ p' = i + 1
    \/ /\ Peek(i) = "frac"
       /\ calls' = Append(stack, Call("frac", "none"))
       /\ p' = i + 1
    \/ /\ Peek(i) = "sqrt" /\ Peek(i + 1) = "["
       /\ calls' = Append(stack, Call("root", "sup"))
       /\ p' = i + 2
    \/ /\ Peek(i) = "sqrt" /\ Peek(i + 1) # "["
       /\ calls' = Append(stack, Call("sqrt", "none"))
       /\ p' = i + 1

mathml_parse_single(stack, i) ==
    \/ /\ Peek(i) = "end"
       /\ calls' = stack
       /\ p' = i
    \/ /\ Peek(i) = "open"
       /\ calls' = Append(stack, Call("group", "base"))
       /\ p' = i + 1
    \/ mathml_parse_atom(stack, i)

CallExpr ==
    /\ calls' = Append(calls, Call("expr", "none"))
    /\ p' = p

-----------------------------------------------------------------------------
\* The loop of latex_to_mathml.
MathGoesOn ==
    /\ Running.proc = "math"
    /\ Peek(p) # "end"
    /\ CallExpr

Grouped ==
    /\ Running.proc = "group"
    /\ \/ Peek(p) \notin {"close", "end"} /\ CallExpr
       \/ /\ Peek(p) \in {"close", "end"}
          /\ p' = IF Peek(p) = "close" THEN p + 1 ELSE p
          /\ HandUp(IF Written("base") = <<>> THEN <<>> ELSE Wrap("mrow", Written("base")))

\* Mutant of Fraction: the denominator is written first.
FractionSwapped ==
    /\ Running.proc = "frac"
    /\ \/ Running.fills = "none" /\ mathml_parse_single(Filling("base"), p)
       \/ Running.fills = "base" /\ mathml_parse_single(Filling("sub"), p)
       \/ /\ Running.fills = "sub"
          /\ HandUp(Wrap("mfrac", Written("sub") \o Written("base")))
          /\ p' = p

Fraction ==
    /\ Running.proc = "frac"
    /\ \/ Running.fills = "none" /\ mathml_parse_single(Filling("base"), p)
       \/ Running.fills = "base" /\ mathml_parse_single(Filling("sub"), p)
       \/ /\ Running.fills = "sub"
          /\ HandUp(Wrap("mfrac", Written("base") \o Written("sub")))
          /\ p' = p

Root ==
    /\ Running.proc \in {"sqrt", "root"}
    /\ \/ Running.fills = "none" /\ mathml_parse_single(Filling("base"), p)
       \/ /\ Running.fills = "sup"
          /\ \/ Peek(p) \notin {"]", "end"} /\ CallExpr
             \/ Peek(p) = "]" /\ mathml_parse_single(Filling("base"), p + 1)
             \/ Peek(p) = "end" /\ mathml_parse_single(Filling("base"), p)
       \/ /\ Running.fills = "base"
          /\ p' = p
          /\ HandUp(IF Running.proc = "sqrt" THEN Wrap("msqrt", Written("base"))
                    ELSE Wrap("mroot", Written("base") \o Written("sup")))

\* The script that the mark at hand begins, if it has none yet.
Script ==
    CASE Peek(p) = "upper" /\ Written("sup") = <<>> -> "sup"
      [] Peek(p) = "lower" /\ Written("sub") = <<>> -> "sub"
      [] OTHER -> "none"

\* Mutant of Scripted: of two scripts only the upper one is written.
ScriptedOnce ==
    CASE Written("sup") # <<>> -> Wrap("msup", Written("base") \o Written("sup"))
      [] Written("sup") = <<>> /\ Written("sub") # <<>> -> Wrap("msub", Written("base") \o Written("sub"))
      [] OTHER -> Written("base")

Scripted ==
    LET scripts == Written("sub") \o Written("sup")
        element == CASE Written("sub") # <<>> /\ Written("sup") # <<>> -> "msubsup"
                     [] Written("sub") = <<>> /\ Written("sup") # <<>> -> "msup"
                     [] OTHER -> "msub"
    IN  IF scripts = <<>> THEN Written("base") ELSE Wrap(element, Written("base") \o scripts)

mathml_parse_expr ==
    /\ Running.proc = "expr"
    /\ \/ /\ Running.fills = "none" /\ Peek(p) \in {"close", "]", "end"}
          /\ HandUp(<<>>)
          /\ p' = p
       \/ /\ Running.fills = "none" /\ Peek(p) \notin {"close", "]", "end"}
          /\ mathml_parse_single(Filling("base"), p)
       \/ /\ Running.fills # "none" /\ Script # "none"
          /\ mathml_parse_single(Filling(Script), p + 1)
       \/ /\ Running.fills # "none" /\ Script = "none"
          /\ HandUp(Scripted)
          /\ p' = p

MathInit ==
    /\ \E f \in Formulas : latex = f.tok /\ meant = f.out
    /\ p = 1
    /\ calls = <<Call("math", "base")>>

MathNext ==
    /\ MathGoesOn \/ Grouped \/ Fraction \/ Root \/ mathml_parse_expr
    /\ UNCHANGED <<latex, meant>>

MathDone == Running.proc = "math" /\ Peek(p) = "end"

-----------------------------------------------------------------------------
\* What each bracket opens and whether it is closed, in the order of the
\* formula: braces and the "[" of a root nest, a \text ends at the first closing
\* brace.
Brackets(f) ==
    LET Opens(k) == CASE f[k] = "open" /\ (k = 1 \/ f[k - 1] # "text") -> "group"
                      [] f[k] = "open" /\ k > 1 /\ f[k - 1] = "text"   -> "text"
                      [] f[k] = "[" /\ k > 1 /\ f[k - 1] = "sqrt"   -> "degree"
                      [] OTHER -> "none"
        Shuts(open, k) == \/ f[k] = "close" /\ open \in {"group", "text"}
                          \/ f[k] = "]" /\ open = "degree"
        open[k \in 0..Len(f)] ==
            IF k = 0 THEN <<>>
            ELSE LET before == open[k - 1]
                     inner  == IF before = <<>> THEN "none" ELSE Last(before)
                 IN  IF inner = "stray" THEN before
                     ELSE IF Shuts(inner, k) THEN Front(before)
                     ELSE IF inner = "text" THEN before
                     ELSE IF f[k] \in {"close", "]"} THEN Append(before, "stray")
                     ELSE IF Opens(k) # "none" THEN Append(before, Opens(k))
                     ELSE before
    IN  open[Len(f)]

\* No closing bracket stands where it closes nothing.
ClosersMatch(f) == ~Contains(Brackets(f), "stray")

\* A formula and what it stands for, joined with what stands beside it.
Shift(out, n) == [k \in DOMAIN out |-> IF out[k].el = "leaf" THEN Leaf(out[k].at + n) ELSE out[k]]

Put(before, s, after) ==
    [tok |-> before \o s.tok \o after, out |-> Shift(s.out, Len(before))]

Beside(s, t) == [tok |-> s.tok \o t.tok, out |-> s.out \o Shift(t.out, Len(s.tok))]

Enclosed(el, s) == [s EXCEPT !.out = Wrap(el, @)]

Root2(degree, s) ==
    LET start == Put(<<"sqrt", "[">>, degree, <<"]">>)
    IN  [tok |-> start.tok \o s.tok,
         out |-> Wrap("mroot", Shift(s.out, Len(start.tok)) \o start.out)]

\* Both scripts, the upper one typed first: the lower one is written first.
Scripts(base, sup, sub) ==
    LET upper == Put(base.tok \o <<"upper">>, sup, <<"lower">>)
    IN  [tok |-> upper.tok \o sub.tok,
         out |-> Wrap("msubsup", base.out \o Shift(sub.out, Len(upper.tok)) \o upper.out)]

\* The formulas of LaTeX's grammar of at most n tokens, nested at most depth
\* deep, each with its MathML: every element has the children it is to have.
Grammar(depth, n) ==
    LET Short(S) == {s \in S : Len(s.tok) <= n}
        x        == [tok |-> <<"x">>, out |-> <<Leaf(1)>>]
        text     == Enclosed("mtext", Put(<<"text", "open">>, x, <<"close">>))
        Lower(b, s) == Enclosed("msub", Beside(b, Put(<<"lower">>, s, <<>>)))
        Exprs(S) == Short(S \cup {Enclosed("msup", Beside(b, Put(<<"upper">>, s, <<>>))) : b, s \in S}
                            \cup {Lower(b, s) : b, s \in S}
                            \cup {Scripts(b, s, t) : b, s, t \in S})
        Rows(S)  == Short(Exprs(S) \cup {Beside(e, f) : e, f \in Exprs(S)})
        singles[d \in 0..depth] ==
            IF d = 0 THEN {x, text}
            ELSE LET S == singles[d - 1]
                 IN  Short(S \cup {Enclosed("mrow", Put(<<"open">>, r, <<"close">>)) : r \in Rows(S)}
                             \cup {Enclosed("mfrac", Put(<<"frac">>, Beside(s, t), <<>>)) : s, t \in S}
                             \cup {Enclosed("msqrt", Put(<<"sqrt">>, s, <<>>)) : s \in S}
                             \cup {Root2(e, s) : e \in Exprs(S), s \in S})
    IN  Rows(singles[depth])

Converted == Running.text["base"]

\* A formula of LaTeX's grammar becomes the MathML that it stands for: every
\* fraction, root and script has its children, in MathML's order, and every
\* group is one row (mathml.c 90-334).
Faithful == MathDone /\ meant # <<>> => Converted = meant

\* Nothing that was written is lost on the way up the stack: when the formula is
\* converted, each token that becomes an element of its own, the content of a
\* \text included, is in the output, once.  The buffers of nested calls are
\* handed over at each return (mathml.c 90-357), and some are only written if
\* another one is not empty.
EachTokenOnce ==
    MathDone =>
        /\ \A m, n \in DOMAIN Converted :
              Converted[m].el = "leaf" /\ Converted[n] = Converted[m] => m = n
        /\ \A k \in DOMAIN latex : latex[k] = "x" => Leaf(k) \in Range(Converted)

=============================================================================
