---------------------------- MODULE HtmlFragment ----------------------------
(***************************************************************************)
(* The HTML serializer (src-c/html_serializer.c): ser_parse_html_fragment  *)
(* builds a tree from whatever the preview pane holds, and ser_walk_node   *)
(* walks it to Markdown, with what an element has to know about those      *)
(* around it in a context that the walk changes and restores, or copies.   *)
(*                                                                         *)
(* A fragment is a sequence of characters and tags.  The recursion of the  *)
(* walk is a stack of the elements entered, with what each has written; of *)
(* the layout of blocks only the mark at their start is kept.              *)
(***************************************************************************)
EXTENDS Emphasis

VARIABLES
    html,   \* the fragment
    pos,    \* i, the next symbol of it
    nodes,  \* the tree: a node has a higher number than its parent
    curr,   \* the open element that takes the next node, 0 for the root
    walk,   \* the elements entered and not left, outermost first
    ctx     \* the context of the innermost

fragment == <<html, pos, nodes, curr, walk, ctx>>

Nodes    == [val : Symbols, parent : Nat, has_closing_tag : BOOLEAN]
Contexts == [p_level : Nat, list_level : Nat, em_level : Nat, strong_level : Nat,
             in_code : BOOLEAN, in_pre : BOOLEAN]
Forms    == {"root", "emphasis", "code", "raw", "p", "list", "item", "quote", "pre"}
Frames   == [node : Nat, form : Forms, last : Nat, out : Seq(Symbols), saved : Contexts]

NoContext == [p_level |-> 0, list_level |-> 0, em_level |-> 0, strong_level |-> 0,
              in_code |-> FALSE, in_pre |-> FALSE]

FragmentTypeOK ==
    /\ html \in Seq(Symbols)
    /\ pos \in 1..(Len(html) + 1)
    /\ nodes \in Seq(Nodes)
    /\ curr \in 0..Len(nodes)
    /\ walk \in Seq(Frames)
    /\ ctx \in Contexts

-----------------------------------------------------------------------------
(* ser_parse_html_fragment. *)

Parsing == pos <= Len(html)
Here    == html[pos]

Child(val) == [val |-> val, parent |-> curr, has_closing_tag |-> FALSE]

\* Lineage[n] is n and the elements around it, without the root.
Lineage ==
    LET of[n \in 0..Len(nodes)] == IF n = 0 THEN {} ELSE {n} \cup of[nodes[n].parent]
    IN  of

ParseText ==
    /\ Parsing /\ Here.is = "char"
    /\ nodes' = Append(nodes, Child(Here))
    /\ pos' = pos + 1
    /\ UNCHANGED <<html, curr, walk, ctx>>

ParseOpen ==
    /\ Parsing /\ Here.is \in {"open", "styled"}
    /\ nodes' = Append(nodes, Child(Here))
    /\ curr' = Len(nodes')
    /\ pos' = pos + 1
    /\ UNCHANGED <<html, walk, ctx>>

Matching == {n \in Lineage[curr] : nodes[n].val.of = Here.of}

Outer(n) == nodes[n].parent

\* A closing tag closes the innermost element of its name, with everything that
\* is open inside; without one it is dropped.
ParseClose ==
    /\ Parsing /\ Here.is = "close"
    /\ IF Matching = {}
         THEN UNCHANGED <<nodes, curr>>
         ELSE /\ nodes' = [nodes EXCEPT ![Max(Matching)].has_closing_tag = TRUE]
              /\ curr' = Outer(Max(Matching))
    /\ pos' = pos + 1
    /\ UNCHANGED <<html, walk, ctx>>

Parse == ParseText \/ ParseOpen \/ ParseClose

-----------------------------------------------------------------------------
(* ser_walk_node. *)

Walking == ~Parsing /\ walk # <<>>
Frame   == Last(walk)
TagOfNode(n) == nodes[n].val.of
IsElement(n) == nodes[n].val.is # "char"
ChildrenOf(n) == {k \in DOMAIN nodes : nodes[k].parent = n}

\* The children an element shows: a list its items, a <pre> what is in its
\* first <code>, if it has one.
ShownBy(frame) ==
    LET children == ChildrenOf(frame.node)
        code     == {n \in children : IsElement(n) /\ TagOfNode(n) = "code"}
    IN  CASE frame.form = "list" -> {n \in children : IsElement(n) /\ TagOfNode(n) = "li"}
          [] frame.form = "pre"  -> IF code = {} THEN children ELSE ChildrenOf(Min(code))
          [] OTHER               -> children

Left    == {n \in ShownBy(Frame) : n > Frame.last}
Current == Min(Left)

Blocks == {"p", "ul", "li", "blockquote", "pre"}

\* Mutant of Bounded: a list or a quote that is left open is not told apart.
BoundedNot(n) == TRUE

Bounded(n) == nodes[n].has_closing_tag

\* A block in a paragraph stays HTML.  So do emphasis in emphasis of its kind,
\* inline elements with attributes, lists and quotes that are left open, and
\* what has no form in Markdown.
FormOf(n) ==
    LET val   == nodes[n].val
        plain == val.is = "open"
    IN  IF val.of \in Blocks /\ ctx.p_level > 0 THEN "raw"
        ELSE CASE val.of = "p"                                       -> "p"
               [] val.of = "pre"                                     -> "pre"
               [] val.of = "li" /\ Frame.form = "list"               -> "item"
               [] val.of = "ul" /\ Bounded(n)                        -> "list"
               [] val.of = "blockquote" /\ Bounded(n)                -> "quote"
               [] val.of = "strong" /\ plain /\ ctx.strong_level = 0 -> "emphasis"
               [] val.of = "em" /\ plain /\ ctx.em_level = 0         -> "emphasis"
               [] val.of = "del" /\ plain                            -> "emphasis"
               [] val.of = "code" /\ plain /\ ~ctx.in_pre            -> "code"
               [] OTHER                                              -> "raw"

\* The context inside an element.  Lists and quotes give their children a copy
\* and <pre> does, the others change the one they share with all around them.
Inside(around, form, tag) ==
    [around EXCEPT !.p_level      = @ + (IF form = "p" THEN 1 ELSE 0),
                   !.list_level   = @ + (IF form = "item" THEN 1 ELSE 0),
                   !.em_level     = @ + (IF form = "emphasis" /\ tag = "em" THEN 1 ELSE 0),
                   !.strong_level = @ + (IF form = "emphasis" /\ tag = "strong" THEN 1 ELSE 0),
                   !.in_code      = @ \/ form \in {"code", "pre"},
                   !.in_pre       = @ \/ form = "pre"]

Copying == {"item", "quote", "pre"}

\* Mutant of Counted: an element that stays HTML is left like the others.
CountedRaw == {"emphasis", "raw"}

Counted == {"emphasis"}

\* What the element puts back when it is left.
Outside(form, tag, saved) ==
    CASE form \in Copying                      -> saved
      [] form = "p"                            -> [ctx EXCEPT !.p_level = @ - 1]
      [] form = "code"                         -> [ctx EXCEPT !.in_code = saved.in_code]
      [] form \in Counted /\ tag = "em"        -> [ctx EXCEPT !.em_level = @ - 1]
      [] form \in Counted /\ tag = "strong"    -> [ctx EXCEPT !.strong_level = @ - 1]
      [] OTHER                                 -> ctx

\* Mutant of Special: "*" is taken for a letter.
SpecialNoStar == {"_", "tick"}

Special == {"*", "_", "tick"}

\* The characters that could be taken for markup; "~" is not among them.
ser_emit_escaped_text(c) ==
    IF ctx.in_code \/ ctx.in_pre \/ c.of \notin Special THEN c ELSE Escaped(c.of)

Top(frame) == [walk EXCEPT ![Len(walk)] = frame]

WalkText ==
    /\ Walking /\ Left # {} /\ ~IsElement(Current)
    /\ walk' = Top([Frame EXCEPT !.last = Current,
                                 !.out = Append(@, ser_emit_escaped_text(nodes[Current].val))])
    /\ UNCHANGED <<html, pos, nodes, curr, ctx>>

WalkEnter ==
    /\ Walking /\ Left # {} /\ IsElement(Current)
    /\ LET form == FormOf(Current)
       IN  /\ walk' = Append(Top([Frame EXCEPT !.last = Current]),
                             [node |-> Current, form |-> form, last |-> 0, out |-> <<>>,
                              saved |-> ctx])
           /\ ctx' = Inside(ctx, form, TagOfNode(Current))
    /\ UNCHANGED <<html, pos, nodes, curr>>

Marker(tag) ==
    CASE tag = "em"     -> <<Char("*")>>
      [] tag = "strong" -> <<Char("*"), Char("*")>>
      [] tag = "del"    -> <<Char("~"), Char("~")>>

\* The markers go inside the spaces at both ends, and around nothing else.
Emphasized(out, marker) ==
    LET inner == {k \in DOMAIN out : out[k] # Char(" ")}
    IN  IF inner = {} THEN out
        ELSE SubSeq(out, 1, Min(inner) - 1)
             \o marker \o SubSeq(out, Min(inner), Max(inner)) \o marker
             \o SubSeq(out, Max(inner) + 1, Len(out))

Written(frame) ==
    LET node == nodes[frame.node]
        tag  == node.val.of
        mark == <<Mark(tag)>>
    IN  CASE frame.form = "emphasis"            -> Emphasized(frame.out, Marker(tag))
          [] frame.form = "code"                -> <<Char("tick")>> \o frame.out \o <<Char("tick")>>
          [] frame.form \in {"p", "list"}       -> frame.out
          [] frame.form \in {"item", "quote"}   -> mark \o frame.out
          [] frame.form = "pre"                 -> mark \o frame.out \o mark
          [] frame.form = "raw"                 ->
                 <<node.val>> \o frame.out
                 \o (IF node.has_closing_tag THEN <<Close(tag)>> ELSE <<>>)

\* What the element has written goes into the text of the one around it.
WalkLeave ==
    /\ Walking /\ Left = {} /\ Len(walk) > 1
    /\ LET outer == walk[Len(walk) - 1]
       IN  walk' = Append(SubSeq(walk, 1, Len(walk) - 2),
                          [outer EXCEPT !.out = @ \o Written(Frame)])
    /\ ctx' = Outside(Frame.form, TagOfNode(Frame.node), Frame.saved)
    /\ UNCHANGED <<html, pos, nodes, curr>>

Walk == WalkText \/ WalkEnter \/ WalkLeave

Serialized == ~Parsing /\ Len(walk) = 1 /\ Left = {}
Markdown   == walk[1].out

=============================================================================
