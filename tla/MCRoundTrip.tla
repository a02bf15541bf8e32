----------------------------- MODULE MCRoundTrip -----------------------------
(* Bounded instances of RoundTrip: lines and fragments up to a length. *)
EXTENDS RoundTrip

CONSTANTS
    Mixed,  \* the symbols of a line of both kinds of emphasis
    Plain,  \* the symbols of a line of one kind
    Size    \* the symbols of a fragment

MCLetters == {"a"}

Words(S, n) == UNION {[1..m -> S] : m \in 1..n}

\* The others begin a list or a fence, or are a rule.
IsParagraph(w) ==
    /\ w[1] # Char(" ") /\ Last(w) # Char(" ")
    /\ \E k \in DOMAIN w : w[k].is = "escaped" \/ w[k].of \in Letters
    /\ Len(w) > 1 => <<w[1], w[2]>> \notin {<<Char("*"), Char(" ")>>, <<Char("~"), Char("~")>>}

Both == {Char("a"), Char("*"), Char("_")}

MCSources ==
    {w \in Words(Both \cup {Char(" "), Escaped("*")}, Mixed) : IsParagraph(w)}
    \cup {w \in Words({Char("a"), Char("~"), Char("*")}, Mixed) : IsParagraph(w)}
    \cup {w \in Words({Char("a"), Char(" "), Char("*")}, Plain) : IsParagraph(w)}
    \cup {w \in Words({Char("a"), Char(" "), Char("_")}, Plain) : IsParagraph(w)}

MixedSources == {w \in Words(Both, Mixed) : IsParagraph(w)}

Tagged(tags) == {Char("a"), Char("*")} \cup {Open(t) : t \in tags} \cup {Close(t) : t \in tags}

MCFragments ==
    Words(Tagged({"em", "strong", "code"}) \cup {Styled("em")}, Size)
    \cup Words(Tagged({"p", "ul", "li", "em"}), Size)
    \cup Words(Tagged({"pre", "code", "blockquote"}), Size)
=============================================================================
