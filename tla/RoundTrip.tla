------------------------------ MODULE RoundTrip ------------------------------
(***************************************************************************)
(* The two directions of the editor: a line of Markdown is rendered, the   *)
(* preview is serialized and what comes of that is rendered again          *)
(* (src-c/http.c, POST /render and POST /serialize); or the preview is     *)
(* edited, and what the browser leaves of it is serialized.                *)
(***************************************************************************)
EXTENDS HtmlFragment

CONSTANTS
    Sources,    \* lines of Markdown
    Fragments   \* fragments of HTML

Text   == [is : {"char", "escaped"}, of : Characters]
Markup == [is : {"char"}, of : Characters] \cup [is : {"open", "styled", "close"}, of : TagNames]

\* A line is typed as characters, some of them behind a backslash; the browser
\* escapes what is not a tag.
ASSUME InputsAssumption == Sources \subseteq Seq(Text) /\ Fragments \subseteq Seq(Markup)

VARIABLES
    phase,      \* which of the converters runs
    trip        \* history: the line typed and the HTML of each rendering

vars == <<emphasis, fragment, phase, trip>>

Phases == {"render", "serialize", "end"}

TypeOK ==
    /\ EmphasisTypeOK
    /\ FragmentTypeOK
    /\ phase \in Phases
    /\ trip \in Seq(Seq(Symbols))

Root == [node |-> 0, form |-> "root", last |-> 0, out |-> <<>>, saved |-> NoContext]

md_to_html(line) ==
    /\ source' = line
    /\ tokens' = tokenize_inline(line)
    /\ closer' = 1
    /\ phase' = "render"

html_to_md(preview) ==
    /\ html' = preview
    /\ pos' = 1
    /\ nodes' = <<>>
    /\ curr' = 0
    /\ walk' = <<Root>>
    /\ ctx' = NoContext
    /\ phase' = "serialize"

Typed ==
    /\ source \in Sources
    /\ tokens = tokenize_inline(source)
    /\ html = <<>>
    /\ phase = "render"
    /\ trip = <<source>>

Edited ==
    /\ source = <<>>
    /\ tokens = <<>>
    /\ html \in Fragments
    /\ phase = "serialize"
    /\ trip = <<>>

Init ==
    /\ Typed \/ Edited
    /\ closer = 1
    /\ pos = 1
    /\ nodes = <<>>
    /\ curr = 0
    /\ walk = <<Root>>
    /\ ctx = NoContext

FirstRendering == phase = "render" /\ Len(trip) = 1

Render == phase = "render" /\ (Pair \/ Skip) /\ UNCHANGED <<fragment, phase, trip>>

\* POST /render is answered; the first preview is serialized.
ShowPreview ==
    /\ phase = "render"
    /\ ~Scanning
    /\ trip' = Append(trip, Rendered)
    /\ IF FirstRendering
         THEN html_to_md(Rendered)
         ELSE phase' = "end" /\ UNCHANGED fragment
    /\ UNCHANGED emphasis

Serialize == phase = "serialize" /\ (Parse \/ Walk) /\ UNCHANGED <<emphasis, phase, trip>>

\* POST /serialize is answered.  The client does not render what comes of an
\* edited preview.
ShowSource ==
    /\ phase = "serialize"
    /\ Serialized
    /\ IF trip = <<>>
         THEN phase' = "end" /\ UNCHANGED emphasis
         ELSE md_to_html(Markdown)
    /\ UNCHANGED <<fragment, trip>>

Ended == phase = "end" /\ UNCHANGED vars

Step == Render \/ ShowPreview \/ Serialize \/ ShowSource

Next == Step \/ Ended

Spec == Init /\ [][Next]_vars

-----------------------------------------------------------------------------
(* Properties. *)

\* At every moment of the pairing the tags put in so far are nested, whatever
\* runs were split in between: no pair reaches over the end of another.
PairsNest == FirstRendering => WellNested

\* Of the delimiters "*" and "_" that are typed none is lost or doubled while runs
\* are split: each is text still, or part of a tag.  A "~" has no weight: a run of
\* them becomes one tag, whatever its length.
DelimitersKept == FirstRendering => Delimiting(Unrendered) = Delimiting(source)

\* Where the walk goes past a node: in a list beside its items, and in a <pre>
\* beside its first <code>.
Inner(n)    == \E m \in Lineage[nodes[n].parent] : TagOfNode(m) = "p"
Skipped(n)  ==
    LET m    == nodes[n].parent
        code == {k \in ChildrenOf(m) : IsElement(k) /\ TagOfNode(k) = "code"}
    IN  /\ m # 0
        /\ ~Inner(m)
        /\ \/ TagOfNode(m) = "ul" /\ nodes[m].has_closing_tag /\ nodes[n].val.of # "li"
           \/ TagOfNode(m) = "pre" /\ code # {} /\ n # Min(code)

Typing(s) == s.is = "char" /\ s.of \in Letters

\* However tags are nested, missing or left open, the letters of the preview
\* reach the Markdown in order and once: all but those the walk goes past.
OnlySkippedLost ==
    LET shown == SelectSeq([n \in DOMAIN nodes |-> n],
                           LAMBDA n : \A m \in Lineage[n] : ~Skipped(m))
    IN  phase = "serialize" /\ Serialized =>
            SelectSeq(Markdown, Typing)
                = SelectSeq([k \in DOMAIN shown |-> nodes[shown[k]].val], Typing)

\* "after one full round trip through both directions, a second round trip is
\* a no-op": rendering what the first preview is serialized to gives that
\* preview.  The code does not ensure it.
FixedPoint == Len(trip) = 3 => trip[3] = trip[2]

\* It is ensured for a line that emphasises with "*" only or with "_" only, and
\* has no "~", which is not escaped.
OneKindFixed ==
    LET line == trip[1]
        used == {line[k].of : k \in {k \in DOMAIN line : IsDelimiter(line[k])}}
    IN  /\ Len(trip) = 3
        /\ used = {"*"} \/ used = {"_"}
        /\ \A k \in DOMAIN line : line[k].of # "~"
        => trip[3] = trip[2]

=============================================================================
