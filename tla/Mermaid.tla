------------------------------- MODULE Mermaid -------------------------------
(***************************************************************************)
(* mermaid_to_svg (src-c/mermaid_svg.c): a diagram is read line by line    *)
(* into arrays of fixed size, a flowchart is laid out in ranks, and what   *)
(* the arrays hold is drawn.                                               *)
(*                                                                         *)
(* A line is what the code finds in it.  A name is the sequence of words   *)
(* it is made of, because a flowchart's line that is cut at the wrong      *)
(* arrow gives a name with an arrow in it.  Shapes, edge labels and        *)
(* coordinates are left out; boxes stand for nodes, participants, classes  *)
(* and slices, links for edges, messages and relations.                    *)
(***************************************************************************)
EXTENDS Integers, Sequences, FiniteSets, SequencesExt, FiniteSetsExt

CONSTANTS
    Diagrams,    \* the diagrams that are drawn
    MaxBoxes,    \* MSVG_MAX_NODES, _PARTICIPANTS, _CLASSES, _PIE_SLICES
    MaxLinks,    \* MSVG_MAX_EDGES, _MESSAGES
    MaxMembers,  \* MSVG_MAX_CLASS_MEMBERS
    MaxDepth     \* MSVG_MAX_BFS_DEPTH

Kinds == {"flowchart", "sequence", "class", "pie"}
Arrows == {"-->", "---"}

\* "chain": mentions with an arrow between each two; "link": a message or a
\* relation; "box": a participant, class or slice; "opening": a class with a
\* brace; "member": a line of other text; "closing": a brace.
LineKinds == {"chain", "link", "box", "opening", "member", "closing"}

ASSUME DiagramsAssumption ==
    \A d \in Diagrams :
        /\ d.kind \in Kinds
        /\ d.lines \in Seq(Range(d.lines))
        /\ \A k \in DOMAIN d.lines :
              LET l == d.lines[k]
              IN  /\ l.is \in LineKinds
                  /\ l.names \in Seq(Range(l.names)) /\ l.arrows \in Seq(Arrows)
                  /\ l.is = "chain" => Len(l.arrows) = Len(l.names) - 1
                  /\ l.is = "link" => Len(l.names) = 2
                  /\ l.is \in {"box", "opening"} => Len(l.names) = 1

ASSUME BoundsAssumption ==
    /\ MaxBoxes \in Nat \ {0} /\ MaxLinks \in Nat /\ MaxMembers \in Nat
    /\ MaxDepth \in Nat /\ MaxBoxes <= MaxDepth

VARIABLES
    diagram,  \* the source
    at,       \* the line at hand, the next one to read between two lines
    mention,  \* the place in a chain that is read next, 0 at its beginning
    src,      \* src_idx, 0 for none
    boxes,    \* what has a box: its name and the number of its members
    links,    \* pairs of places in boxes
    open,     \* cur_class_idx, 0 for none
    depth,    \* the rank of each box, -1 for none
    queue,    \* the boxes whose links are followed, those already taken too
    head,     \* how many of them are taken
    edge,     \* the link that is followed next, 0 between two boxes; before that,
              \* the box that was looked at last
    deepest,  \* max_depth
    stage     \* "read", "roots", "rank" or "drawn"

reading == <<diagram, at, mention, src, boxes, links, open>>
ranking == <<depth, queue, head, edge, deepest>>
chart   == <<reading, ranking, stage>>

NoName == <<>>

MermaidTypeOK ==
    /\ diagram.kind \in Kinds
    /\ at \in 1..(Len(diagram.lines) + 1)
    /\ mention \in Nat
    /\ src \in 0..Len(boxes)
    /\ Len(boxes) <= MaxBoxes
    /\ \A i \in DOMAIN boxes : boxes[i].members \in 0..MaxMembers
    /\ links \in Seq((DOMAIN boxes) \X (DOMAIN boxes)) /\ Len(links) <= MaxLinks
    /\ open \in 0..Len(boxes)
    /\ depth \in Seq(Int) /\ Len(depth) \in {0, Len(boxes)}
    /\ queue \in Seq(DOMAIN boxes) /\ Len(queue) <= MaxBoxes
    /\ head \in 0..Len(queue)
    /\ edge \in 0..(IF stage = "roots" THEN Len(boxes) ELSE Len(links))
    /\ deepest \in Nat
    /\ stage \in {"read", "roots", "rank", "drawn"}

-----------------------------------------------------------------------------
Box(name) == [name |-> name, members |-> 0]

Named(bs, name) == {i \in DOMAIN bs : bs[i].name = name}
First(bs, name) == IF Named(bs, name) = {} THEN 0 ELSE Min(Named(bs, name))
Latest(bs, name) == IF Named(bs, name) = {} THEN 0 ELSE Max(Named(bs, name))

AddBox(bs, name) == IF Len(bs) < MaxBoxes THEN Append(bs, Box(name)) ELSE bs

\* Mutant of AddLink: the second of two links between the same boxes is left out.
AddLinkOnce(ls, i, j) ==
    IF i > 0 /\ j > 0 /\ Len(ls) < MaxLinks /\ ~Contains(ls, <<i, j>>)
    THEN Append(ls, <<i, j>>) ELSE ls

AddLink(ls, i, j) ==
    IF i > 0 /\ j > 0 /\ Len(ls) < MaxLinks THEN Append(ls, <<i, j>>) ELSE ls

Reads(kind, is) ==
    /\ stage = "read"
    /\ at <= Len(diagram.lines)
    /\ diagram.kind = kind
    /\ diagram.lines[at].is \in is
    /\ UNCHANGED <<diagram, ranking, stage>>

Text  == diagram.lines[at]
Names == Text.names

EndOfLine ==
    /\ at' = at + 1
    /\ mention' = 0 /\ src' = 0

\* The arrow a line is cut at first: a "-->" goes before a "---" that stands in
\* front of it.
FirstCut ==
    LET pointed == {k \in DOMAIN Text.arrows : Text.arrows[k] = "-->"}
    IN  IF pointed = {} THEN 1 ELSE Min(pointed)

\* What stands in front of that arrow is one name.
LeftOfCut ==
    FlattenSeq([k \in 1..(2 * FirstCut - 1) |->
                   IF k % 2 = 1 THEN Names[(k + 1) \div 2] ELSE <<Text.arrows[k \div 2]>>])

\* Mutant of FlowNode: a name is not looked up.
FlowNodeAlways(bs, name) == IF name = NoName THEN bs ELSE AddBox(bs, name)

\* msvg_parse_flow_node and msvg_find_or_add_node.
FlowNode(bs, name) ==
    IF name = NoName \/ Named(bs, name) # {} THEN bs ELSE AddBox(bs, name)

\* The next mention of a chain: first what stands left of the cut, then one name
\* at a time; a name that has no box, or stands alone, links nothing.
ReadFlowLine ==
    /\ Reads("flowchart", {"chain"})
    /\ LET name == IF mention = 0 THEN LeftOfCut ELSE Names[mention]
           next == IF mention = 0 THEN FirstCut + 1 ELSE mention + 1
       IN  /\ boxes' = FlowNode(boxes, name)
           /\ links' = IF mention = 0 THEN links ELSE AddLink(links, src, First(boxes', name))
           /\ \/ next > Len(Names) /\ EndOfLine
              \/ /\ next <= Len(Names)
                 /\ mention' = next /\ src' = First(boxes', name)
                 /\ UNCHANGED at
    /\ UNCHANGED open

\* Both ends are looked up before either is added.
LinkLine ==
    LET from == Latest(boxes, Names[1])
        to   == Latest(boxes, Names[2])
        bs   == IF from = 0 THEN AddBox(boxes, Names[1]) ELSE boxes
        i    == IF from = 0 /\ bs # boxes THEN Len(bs) ELSE from
        bt   == IF to = 0 THEN AddBox(bs, Names[2]) ELSE bs
        j    == IF to = 0 /\ bt # bs THEN Len(bt) ELSE to
    IN  boxes' = bt /\ links' = AddLink(links, i, j)

\* A participant is added whether or not it has a box; a message is not read
\* when there is no room for it.
ReadSequenceLine ==
    /\ Reads("sequence", {"box", "link", "member"})
    /\ \/ /\ Text.is = "box"
          /\ boxes' = IF Names[1] = NoName THEN boxes ELSE AddBox(boxes, Names[1])
          /\ UNCHANGED links
       \/ Text.is = "link" /\ Len(links) < MaxLinks /\ LinkLine
       \/ Text.is = "link" /\ Len(links) >= MaxLinks /\ UNCHANGED <<boxes, links>>
       \/ Text.is = "member" /\ UNCHANGED <<boxes, links>>
    /\ EndOfLine
    /\ UNCHANGED open

Declares == Text.is \in {"box", "opening"}

ReadClassLine ==
    /\ Reads("class", LineKinds \ {"chain"})
    /\ \/ /\ open > 0 /\ Text.is = "closing"
          /\ open' = 0
          /\ UNCHANGED <<boxes, links>>
       \/ /\ Declares
          /\ boxes' = IF Named(boxes, Names[1]) = {} THEN AddBox(boxes, Names[1]) ELSE boxes
          /\ open' = IF Text.is = "opening" THEN First(boxes', Names[1]) ELSE open
          /\ UNCHANGED links
       \/ /\ open > 0 /\ ~Declares /\ Text.is # "closing"
          /\ boxes' = IF boxes[open].members < MaxMembers
                      THEN [boxes EXCEPT ![open].members = @ + 1] ELSE boxes
          /\ UNCHANGED <<open, links>>
       \/ /\ open = 0 /\ Text.is = "link"
          /\ LinkLine
          /\ UNCHANGED open
       \/ /\ open = 0 /\ Text.is \in {"member", "closing"}
          /\ UNCHANGED <<boxes, links, open>>
    /\ EndOfLine

\* A pie's line with a label and a value above 0.
ReadSlice ==
    /\ Reads("pie", {"box", "member"})
    /\ boxes' = IF Text.is = "box" THEN AddBox(boxes, Names[1]) ELSE boxes
    /\ EndOfLine
    /\ UNCHANGED <<links, open>>

-----------------------------------------------------------------------------
\* The end of the source.  Without a box nothing is drawn; only a flowchart has
\* ranks.
EndSource ==
    /\ stage = "read"
    /\ at = Len(diagram.lines) + 1
    /\ \/ /\ diagram.kind = "flowchart" /\ boxes # <<>>
          /\ depth' = [i \in DOMAIN boxes |-> -1]
          /\ stage' = "roots"
       \/ /\ diagram.kind # "flowchart" \/ boxes = <<>>
          /\ stage' = "drawn"
          /\ UNCHANGED depth
    /\ UNCHANGED <<reading, queue, head, edge, deepest>>

IsRoot(i) == \A k \in DOMAIN links : links[k][2] # i

\* The boxes without an incoming link come first, or the first box if none is.
QueueRoot ==
    /\ stage = "roots" /\ edge < Len(boxes)
    /\ edge' = edge + 1
    /\ \/ /\ IsRoot(edge + 1)
          /\ depth' = [depth EXCEPT ![edge + 1] = 0]
          /\ queue' = Append(queue, edge + 1)
       \/ ~IsRoot(edge + 1) /\ UNCHANGED <<depth, queue>>
    /\ UNCHANGED <<reading, head, deepest, stage>>

StartRanks ==
    /\ stage = "roots" /\ edge = Len(boxes)
    /\ edge' = 0
    /\ \/ /\ queue = <<>>
          /\ depth' = [depth EXCEPT ![1] = 0]
          /\ queue' = <<1>>
       \/ queue # <<>> /\ UNCHANGED <<depth, queue>>
    /\ stage' = "rank"
    /\ UNCHANGED <<reading, head, deepest>>

RankingEnds == edge = 0 /\ (head < Len(queue) => depth[queue[head + 1]] > MaxDepth)

TakeBox ==
    /\ stage = "rank" /\ edge = 0 /\ ~RankingEnds
    /\ head' = head + 1
    /\ deepest' = Max({deepest, depth[queue[head + 1]]})
    /\ edge' = IF links = <<>> THEN 0 ELSE 1
    /\ UNCHANGED <<reading, depth, queue, stage>>

\* Mutant of FollowLink: a rank, once given, is not raised.
FollowLinkOnce ==
    /\ stage = "rank" /\ edge > 0
    /\ LET u == queue[head]
           v == links[edge][2]
           new == links[edge][1] = u /\ depth[v] = -1
       IN  /\ depth' = IF new THEN [depth EXCEPT ![v] = depth[u] + 1] ELSE depth
           /\ queue' = IF new THEN Append(queue, v) ELSE queue
    /\ edge' = (edge + 1) % (Len(links) + 1)
    /\ UNCHANGED <<reading, head, deepest, stage>>

FollowLink ==
    /\ stage = "rank" /\ edge > 0
    /\ LET u == queue[head]
           v == links[edge][2]
       IN  \/ /\ links[edge][1] = u /\ depth[v] < depth[u] + 1
              /\ depth' = [depth EXCEPT ![v] = depth[u] + 1]
              /\ queue' = IF Len(queue) < MaxBoxes THEN Append(queue, v) ELSE queue
           \/ /\ links[edge][1] # u \/ depth[v] >= depth[u] + 1
              /\ UNCHANGED <<depth, queue>>
    /\ edge' = (edge + 1) % (Len(links) + 1)
    /\ UNCHANGED <<reading, head, deepest, stage>>

\* Mutant of Draw: what was not reached keeps no rank.
DrawAsIs ==
    /\ stage = "rank" /\ RankingEnds
    /\ stage' = "drawn"
    /\ UNCHANGED <<reading, ranking>>

\* What was not reached goes below all the rest.
Draw ==
    /\ stage = "rank" /\ RankingEnds
    /\ depth' = [i \in DOMAIN depth |-> IF depth[i] = -1 THEN deepest + 1 ELSE depth[i]]
    /\ stage' = "drawn"
    /\ UNCHANGED <<reading, queue, head, edge, deepest>>

MermaidInit ==
    /\ diagram \in Diagrams
    /\ at = 1 /\ mention = 0 /\ src = 0
    /\ boxes = <<>> /\ links = <<>> /\ open = 0
    /\ depth = <<>> /\ queue = <<>> /\ head = 0 /\ edge = 0 /\ deepest = 0
    /\ stage = "read"

MermaidNext ==
    \/ ReadFlowLine \/ ReadSequenceLine \/ ReadClassLine \/ ReadSlice
    \/ EndSource \/ QueueRoot \/ StartRanks \/ TakeBox \/ FollowLink \/ Draw

MermaidDone == stage = "drawn"

-----------------------------------------------------------------------------
SelfLinks == {k \in DOMAIN links : links[k][1] = links[k][2]}

\* The names around each arrow, line by line; a class's braces hold members.
InClass(k) ==
    \E o \in 1..(k - 1) : /\ diagram.lines[o].is = "opening"
                          /\ \A c \in o..k : diagram.lines[c].is # "closing"

Linked(l, n) ==
    IF l.is = "link" \/ (l.names[n] # NoName /\ l.names[n + 1] # NoName)
    THEN << <<l.names[n], l.names[n + 1]>> >> ELSE <<>>

Pairs(k) ==
    LET l == diagram.lines[k]
    IN  IF l.is = "chain" \/ (l.is = "link" /\ ~InClass(k))
        THEN FlattenSeq([n \in 1..(Len(l.names) - 1) |-> Linked(l, n)])
        ELSE <<>>

\* A "-->" behind a "---" in one line: the line is cut at the wrong arrow.
Mixed(l) == /\ l.is = "chain"
            /\ \E j, k \in DOMAIN l.arrows : j < k /\ l.arrows[j] = "---" /\ l.arrows[k] = "-->"

\* Every link that is written is drawn between the boxes of its two names, in
\* the order of the source, unless an array is full (mermaid_svg.c 260-355,
\* 545-560, 740-790: three parsers, each with a lookup of its own).
LinksAsWritten ==
    /\ MermaidDone /\ Len(boxes) < MaxBoxes /\ Len(links) < MaxLinks
    /\ \A k \in DOMAIN diagram.lines : ~Mixed(diagram.lines[k])
    => [k \in DOMAIN links |-> <<boxes[links[k][1]].name, boxes[links[k][2]].name>>]
         = FlattenSeq([k \in DOMAIN diagram.lines |-> Pairs(k)])

\* Nothing has two boxes, also when the arrays are full, unless a line links it
\* with itself before it has one (both ends are looked up before either is
\* added) or a participant is declared after it was used.
OneBoxEach ==
    /\ MermaidDone /\ diagram.kind # "pie"
    /\ \A k \in DOMAIN diagram.lines :
          LET l == diagram.lines[k]
          IN  /\ l.is = "link" => l.names[1] # l.names[2]
              /\ l.is = "box" /\ diagram.kind = "sequence" =>
                    \A j \in 1..(k - 1) :
                        \A m \in Range(diagram.lines[j].names) : m # l.names[1]
    => \A i, j \in DOMAIN boxes : boxes[i].name = boxes[j].name => i = j

\* The rank of a box is an index of depth_counts, which is read without a test
\* (mermaid_svg.c 410): in a cycle ranks grow until the queue is full.  Several
\* links of a box to itself raise it in one turn, so there are none here.
RanksInBounds ==
    MermaidDone /\ SelfLinks = {} => \A i \in DOMAIN depth : depth[i] \in 0..(MaxDepth + 1)

Acyclic ==
    ~\E S \in SUBSET DOMAIN boxes :
        /\ S # {}
        /\ \A i \in S : \E k \in DOMAIN links : links[k][1] = i /\ links[k][2] \in S

\* Without a cycle every link leads to a lower rank, unless the queue, which a
\* box joins again each time its rank grows, was full (mermaid_svg.c 375-390).
LinksGoDown ==
    MermaidDone /\ diagram.kind = "flowchart" /\ Acyclic /\ Len(queue) < MaxBoxes =>
        \A k \in DOMAIN links : depth[links[k][1]] < depth[links[k][2]]
=============================================================================
