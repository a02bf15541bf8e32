---------------------------- MODULE MermaidProofs ----------------------------
(***************************************************************************)
(* mermaid_svg.c, whatever the sizes of its arrays and the diagram: ranks  *)
(* are indices of depth_counts unless a box is linked with itself; without *)
(* a cycle they go down along every link; no name has two boxes; and the   *)
(* links that are drawn are those that are written.                        *)
(***************************************************************************)
EXTENDS Mermaid, SequenceLemmas

-----------------------------------------------------------------------------
(***************************************************************************)
(* Sets and sequences.                                                     *)
(***************************************************************************)
\* A sequence stays one when something is put at its end or one place of it changes.
IsSeq(s) == \E S : s \in Seq(S)

LEMMA AppendIsSeq ==
    ASSUME NEW s, NEW e, IsSeq(s)
    PROVE  /\ IsSeq(Append(s, e))
           /\ Len(Append(s, e)) = Len(s) + 1
           /\ Len(s) \in Nat
<1>1. PICK S : s \in Seq(S)
    BY DEF IsSeq
<1>2. s \in Seq(S \cup {e})
    BY <1>1
<1>3. Append(s, e) \in Seq(S \cup {e}) /\ Len(Append(s, e)) = Len(s) + 1 /\ Len(s) \in Nat
    BY <1>2
<1>4. QED BY <1>3 DEF IsSeq

LEMMA ExceptIsSeq ==
    ASSUME NEW s, NEW i, NEW e, IsSeq(s)
    PROVE  IsSeq([s EXCEPT ![i] = e]) /\ Len([s EXCEPT ![i] = e]) = Len(s)
<1> DEFINE t == [s EXCEPT ![i] = e]
<1>1. PICK S : s \in Seq(S)
    BY DEF IsSeq
<1>2. s \in [1..Len(s) -> S] /\ Len(s) \in Nat
    BY <1>1
<1>3. t \in [1..Len(s) -> S \cup {e}]
    BY <1>2
<1>4. t \in Seq(S \cup {e}) /\ Len(t) = Len(s)
    <2> HIDE DEF t
    <2> QED BY <1>2, <1>3
<1>5. QED BY <1>4 DEF IsSeq

LEMMA SeqGrows ==
    ASSUME NEW m \in Nat, NEW n \in Nat, m <= n, NEW s \in Seq((1..m) \X (1..m))
    PROVE  s \in Seq((1..n) \X (1..n))
<1>1. (1..m) \X (1..m) \subseteq (1..n) \X (1..n)
    OBVIOUS
<1>2. QED BY <1>1

-----------------------------------------------------------------------------
(***************************************************************************)
(* The source is read.                                                     *)
(***************************************************************************)
\* Where a name is looked up is a box, or 0.
LEMMA Lookups ==
    ASSUME NEW bs, NEW id, IsSeq(bs)
    PROVE  First(bs, id) \in 0..Len(bs) /\ Latest(bs, id) \in 0..Len(bs)
<1>1. DOMAIN bs = 1..Len(bs) /\ Len(bs) \in Nat
    BY DEF IsSeq
<1>2. Named(bs, id) \in SUBSET (1..Len(bs))
    BY <1>1 DEF Named
<1>3. CASE Named(bs, id) = {}
    BY <1>1, <1>3 DEF First, Latest
<1>4. CASE Named(bs, id) # {}
  <2>1. Min(Named(bs, id)) \in Named(bs, id)
    <3>1. Named(bs, id) \in SUBSET Nat
        BY <1>2
    <3>2. QED BY <3>1, <1>4, MinIsLeast
  <2>2. Max(Named(bs, id)) \in Named(bs, id)
    <3>1. Named(bs, id) \in SUBSET (0..Len(bs))
        BY <1>1, <1>2
    <3>2. QED BY <3>1, <1>1, <1>4, MaxIsGreatest
  <2>3. QED BY <1>2, <1>4, <2>1, <2>2 DEF First, Latest
<1>5. QED BY <1>3, <1>4

\* A box is put at the end of the array while there is room.
LEMMA BoxesGrow ==
    ASSUME NEW bs, NEW id, IsSeq(bs), Len(bs) <= MaxBoxes
    PROVE  /\ IsSeq(AddBox(bs, id))
           /\ Len(AddBox(bs, id)) \in Len(bs)..MaxBoxes
           /\ AddBox(bs, id) # bs => Len(AddBox(bs, id)) = Len(bs) + 1
<1>1. CASE Len(bs) < MaxBoxes
    BY <1>1, AppendIsSeq, BoundsAssumption DEF AddBox
<1>2. CASE ~(Len(bs) < MaxBoxes)
    <2>1. Len(bs) \in Nat
        BY DEF IsSeq
    <2>2. QED BY <1>2, <2>1, BoundsAssumption DEF AddBox
<1>3. QED BY <1>1, <1>2

\* A link joins two boxes of the array.
LEMMA LinksGrow ==
    ASSUME NEW n \in Nat, NEW ls \in Seq((1..n) \X (1..n)), NEW i \in 0..n, NEW j \in 0..n
    PROVE  AddLink(ls, i, j) \in Seq((1..n) \X (1..n))
<1>1. CASE i > 0 /\ j > 0
  <2>1. <<i, j>> \in (1..n) \X (1..n)
    BY <1>1
  <2>2. QED BY <2>1 DEF AddLink
<1>2. CASE ~(i > 0 /\ j > 0)
    BY <1>2 DEF AddLink
<1>3. QED BY <1>1, <1>2

\* What a line needs: the boxes and the links as they were, and what is kept of
\* the line before.
LinksInv == links \in Seq((1..Len(boxes)) \X (1..Len(boxes)))

ReadInv == IsSeq(boxes) /\ Len(boxes) <= MaxBoxes /\ LinksInv /\ src \in 0..Len(boxes)

LEMMA BoxesOrNone ==
    ASSUME IsSeq(boxes)
    PROVE  Len(boxes) \in Nat /\ DOMAIN boxes = 1..Len(boxes)
BY DEF IsSeq

LEMMA EmptyBoxes ==
    ASSUME IsSeq(boxes), boxes # <<>>
    PROVE  Len(boxes) > 0
BY DEF IsSeq

LEMMA FlowLineInv ==
    ASSUME ReadInv, ReadFlowLine
    PROVE  ReadInv'
<1> DEFINE name == IF mention = 0 THEN LeftOfCut ELSE Names[mention]
           next == IF mention = 0 THEN FirstCut + 1 ELSE mention + 1
<1>1. /\ boxes' = FlowNode(boxes, name)
      /\ links' = IF mention = 0 THEN links ELSE AddLink(links, src, First(boxes', name))
      /\ \/ src' = 0
         \/ src' = First(boxes', name)
    BY DEF ReadFlowLine, EndOfLine
<1>2. /\ IsSeq(boxes') /\ Len(boxes') \in Len(boxes)..MaxBoxes
      /\ Len(boxes) \in Nat /\ Len(boxes') \in Nat
  <2>1. Len(boxes) \in Nat
    BY BoxesOrNone DEF ReadInv
  <2>2. boxes' = boxes \/ boxes' = AddBox(boxes, name)
    BY <1>1 DEF FlowNode
  <2>3. IsSeq(boxes') /\ Len(boxes') \in Len(boxes)..MaxBoxes
    BY <2>1, <2>2, BoxesGrow, BoundsAssumption DEF ReadInv
  <2>4. QED BY <2>1, <2>3, BoundsAssumption
<1>3. First(boxes', name) \in 0..Len(boxes')
    BY <1>2, Lookups
<1>4. links \in Seq((1..Len(boxes')) \X (1..Len(boxes'))) /\ src \in 0..Len(boxes')
    BY <1>2, SeqGrows DEF ReadInv, LinksInv
<1>5. LinksInv'
    BY <1>1, <1>2, <1>3, <1>4, LinksGrow DEF LinksInv
<1>6. QED BY <1>1, <1>2, <1>3, <1>5 DEF ReadInv

\* The ends of a message or relation, found or added.
LEMMA LinkLineInv ==
    ASSUME ReadInv, LinkLine
    PROVE  /\ IsSeq(boxes') /\ Len(boxes') <= MaxBoxes /\ LinksInv'
<1> DEFINE from == Latest(boxes, Names[1])
           to   == Latest(boxes, Names[2])
           bs   == IF from = 0 THEN AddBox(boxes, Names[1]) ELSE boxes
           i    == IF from = 0 /\ bs # boxes THEN Len(bs) ELSE from
           bt   == IF to = 0 THEN AddBox(bs, Names[2]) ELSE bs
           j    == IF to = 0 /\ bt # bs THEN Len(bt) ELSE to
<1>1. boxes' = bt /\ links' = AddLink(links, i, j)
    BY DEF LinkLine
<1>2. Len(boxes) \in Nat /\ from \in 0..Len(boxes) /\ to \in 0..Len(boxes)
    BY BoxesOrNone, Lookups DEF ReadInv
<1> HIDE DEF from, to
<1>3. IsSeq(bs) /\ Len(bs) \in Len(boxes)..MaxBoxes
    BY <1>2, BoxesGrow, BoundsAssumption DEF ReadInv
<1>4. i \in 0..Len(bs)
    BY <1>2, <1>3, BoundsAssumption
<1> HIDE DEF bs, i
<1>5. IsSeq(bt) /\ Len(bt) \in Len(bs)..MaxBoxes
    BY <1>2, <1>3, BoxesGrow, BoundsAssumption
<1>6. j \in 0..Len(bt)
    BY <1>2, <1>3, <1>5, BoundsAssumption
<1> HIDE DEF bt, j
<1>7. Len(bt) \in Nat /\ Len(boxes) <= Len(bt) /\ i \in 0..Len(bt)
    BY <1>2, <1>3, <1>4, <1>5, BoundsAssumption
<1>8. links \in Seq((1..Len(bt)) \X (1..Len(bt)))
    BY <1>2, <1>7, SeqGrows DEF ReadInv, LinksInv
<1>9. AddLink(links, i, j) \in Seq((1..Len(bt)) \X (1..Len(bt)))
    BY <1>6, <1>7, <1>8, LinksGrow
<1>10. QED BY <1>1, <1>5, <1>9, BoundsAssumption DEF LinksInv

\* A line that adds at most one box, and no link.
LEMMA BoxLineInv ==
    ASSUME ReadInv, NEW id, boxes' = boxes \/ boxes' = AddBox(boxes, id), links' = links
    PROVE  IsSeq(boxes') /\ Len(boxes') <= MaxBoxes /\ LinksInv'
<1>1. Len(boxes) \in Nat
    BY BoxesOrNone DEF ReadInv
<1>2. IsSeq(boxes') /\ Len(boxes') \in Len(boxes)..MaxBoxes
    BY <1>1, BoxesGrow, BoundsAssumption DEF ReadInv
<1>3. Len(boxes') \in Nat
    BY <1>1, <1>2, BoundsAssumption
<1>4. QED BY <1>1, <1>2, <1>3, SeqGrows DEF ReadInv, LinksInv

LEMMA SequenceLineInv ==
    ASSUME ReadInv, ReadSequenceLine
    PROVE  ReadInv'
<1>1. src' = 0
    BY DEF ReadSequenceLine, EndOfLine
<1>2. IsSeq(boxes') /\ Len(boxes') <= MaxBoxes /\ LinksInv'
  <2>1. CASE LinkLine
    BY <2>1, LinkLineInv
  <2>2. CASE (boxes' = boxes \/ boxes' = AddBox(boxes, Names[1])) /\ links' = links
    BY <2>2, BoxLineInv
  <2>3. QED BY <2>1, <2>2 DEF ReadSequenceLine
<1>3. Len(boxes') \in Nat
    BY <1>2 DEF IsSeq
<1>4. QED BY <1>1, <1>2, <1>3 DEF ReadInv

LEMMA ClassLineInv ==
    ASSUME ReadInv, ReadClassLine
    PROVE  ReadInv'
<1>1. src' = 0
    BY DEF ReadClassLine, EndOfLine
<1>2. IsSeq(boxes') /\ Len(boxes') <= MaxBoxes /\ LinksInv'
  <2>1. CASE LinkLine
    BY <2>1, LinkLineInv
  <2>2. CASE (boxes' = boxes \/ boxes' = AddBox(boxes, Names[1])) /\ links' = links
    BY <2>2, BoxLineInv
  <2>3. CASE /\ boxes' = [boxes EXCEPT ![open].members = @ + 1]
             /\ links' = links
    <3>1. PICK box : boxes' = [boxes EXCEPT ![open] = box]
        BY <2>3
    <3>2. IsSeq(boxes') /\ Len(boxes') = Len(boxes)
        BY <3>1, ExceptIsSeq DEF ReadInv
    <3>3. QED BY <2>3, <3>2 DEF ReadInv, LinksInv
  <2>4. QED BY <2>1, <2>2, <2>3 DEF ReadClassLine
<1>3. Len(boxes') \in Nat
    BY <1>2 DEF IsSeq
<1>4. QED BY <1>1, <1>2, <1>3 DEF ReadInv

LEMMA SliceInv ==
    ASSUME ReadInv, ReadSlice
    PROVE  ReadInv'
<1>1. src' = 0 /\ links' = links /\ (boxes' = boxes \/ boxes' = AddBox(boxes, Names[1]))
    BY DEF ReadSlice, EndOfLine
<1>2. IsSeq(boxes') /\ Len(boxes') <= MaxBoxes /\ LinksInv'
    BY <1>1, BoxLineInv
<1>3. Len(boxes') \in Nat
    BY <1>2 DEF IsSeq
<1>4. QED BY <1>1, <1>2, <1>3 DEF ReadInv

-----------------------------------------------------------------------------
(***************************************************************************)
(* The ranks.                                                              *)
(***************************************************************************)
\* Boxes have a rank or -1, and what is in the queue has one.
QueueInv ==
    /\ boxes # <<>>
    /\ depth \in [1..Len(boxes) -> Int]
    /\ queue \in Seq(1..Len(boxes)) /\ Len(queue) <= MaxBoxes
    /\ head \in 0..Len(queue)
    /\ edge \in Nat
    /\ deepest \in 0..MaxDepth
    /\ \A i \in 1..Len(boxes) : depth[i] >= -1
    /\ \A k \in 1..Len(queue) : depth[queue[k]] >= 0

RootsInv ==
    /\ head = 0
    /\ edge <= Len(boxes) /\ Len(queue) <= edge
    /\ \A i \in 1..Len(boxes) : depth[i] <= 0

\* No rank is higher than the number of boxes taken from the queue, and that of the
\* box at hand, whose links raise others by one, is lower.
Climbing ==
    /\ \A i \in 1..Len(boxes) : depth[i] <= head
    /\ edge > 0 => depth[queue[head]] <= head - 1

RankInv ==
    /\ edge <= Len(links)
    /\ edge > 0 => head > 0
    /\ SelfLinks = {} => Climbing

ChartInv ==
    /\ ReadInv
    /\ stage \in {"read", "roots", "rank", "drawn"}
    /\ stage = "read" => depth = <<>> /\ queue = <<>> /\ head = 0 /\ edge = 0 /\ deepest = 0
    /\ stage \in {"roots", "rank"} => QueueInv
    /\ stage = "roots" => RootsInv
    /\ stage = "rank" => RankInv
    /\ RanksInBounds

LEMMA InitInv == MermaidInit => ChartInv
<1> SUFFICES ASSUME MermaidInit PROVE ChartInv
    OBVIOUS
<1> USE DEF MermaidInit
<1>1. boxes \in Seq({}) /\ Len(boxes) = 0 /\ links \in Seq((1..0) \X (1..0))
    OBVIOUS
<1>2. ReadInv
    BY <1>1, BoundsAssumption DEF ReadInv, LinksInv, IsSeq
<1>3. QED BY <1>2 DEF ChartInv, RanksInBounds, MermaidDone

LEMMA ReadingInv ==
    ASSUME ChartInv, ReadFlowLine \/ ReadSequenceLine \/ ReadClassLine \/ ReadSlice
    PROVE  ChartInv'
<1>1. ReadInv'
    BY FlowLineInv, SequenceLineInv, ClassLineInv, SliceInv DEF ChartInv
<1>2. stage = "read" /\ UNCHANGED <<ranking, stage>>
    BY DEF ReadFlowLine, ReadSequenceLine, ReadClassLine, ReadSlice, Reads
<1>3. QED BY <1>1, <1>2 DEF ChartInv, ranking, RanksInBounds, MermaidDone

LEMMA EndSourceInv ==
    ASSUME ChartInv, EndSource
    PROVE  ChartInv'
<1>1. /\ UNCHANGED <<boxes, links, src, queue, head, edge, deepest>>
      /\ stage = "read" /\ depth = <<>> /\ queue = <<>> /\ head = 0 /\ edge = 0 /\ deepest = 0
    BY DEF EndSource, reading, ChartInv
<1>2. ReadInv'
    BY <1>1 DEF ChartInv, ReadInv, LinksInv
<1>3. CASE /\ boxes # <<>>
           /\ depth' = [i \in DOMAIN boxes |-> -1]
           /\ stage' = "roots"
  <2>1. Len(boxes) \in Nat /\ DOMAIN boxes = 1..Len(boxes)
    BY BoxesOrNone DEF ChartInv, ReadInv
  <2>2. depth' \in [1..Len(boxes) -> Int] /\ \A i \in 1..Len(boxes) : depth'[i] = -1
    BY <1>3, <2>1
  <2>3. QueueInv'
    BY <1>1, <1>3, <2>1, <2>2, BoundsAssumption DEF QueueInv
  <2>4. RootsInv'
    BY <1>1, <2>1, <2>2 DEF RootsInv
  <2>5. QED BY <1>2, <1>3, <2>3, <2>4 DEF ChartInv, RanksInBounds, MermaidDone
<1>4. CASE stage' = "drawn" /\ UNCHANGED depth
    BY <1>1, <1>2, <1>4 DEF ChartInv, RanksInBounds
<1>5. QED BY <1>3, <1>4 DEF EndSource

LEMMA QueueRootInv ==
    ASSUME ChartInv, QueueRoot
    PROVE  ChartInv'
<1>1. /\ stage = "roots" /\ stage' = "roots" /\ edge < Len(boxes) /\ edge' = edge + 1
      /\ UNCHANGED <<boxes, links, src, head, deepest>>
      /\ \/ depth' = [depth EXCEPT ![edge + 1] = 0] /\ queue' = Append(queue, edge + 1)
         \/ UNCHANGED <<depth, queue>>
    BY DEF QueueRoot, reading
<1>2. ReadInv' /\ Len(boxes) \in Nat /\ Len(boxes) <= MaxBoxes
    BY <1>1, BoxesOrNone DEF ChartInv, ReadInv, LinksInv
<1>3. QueueInv /\ RootsInv
    BY <1>1 DEF ChartInv
<1>4. CASE depth' = [depth EXCEPT ![edge + 1] = 0] /\ queue' = Append(queue, edge + 1)
  <2>1. edge + 1 \in 1..Len(boxes)
    BY <1>1, <1>2, <1>3 DEF QueueInv
  <2>2. /\ queue' \in Seq(1..Len(boxes)) /\ Len(queue') = Len(queue) + 1
        /\ \A k \in 1..Len(queue) : queue'[k] = queue[k]
        /\ queue'[Len(queue) + 1] = edge + 1
        /\ Len(queue) \in Nat
    BY <1>3, <1>4, <2>1 DEF QueueInv
  <2>3. /\ depth' \in [1..Len(boxes) -> Int]
        /\ \A i \in 1..Len(boxes) : depth'[i] = IF i = edge + 1 THEN 0 ELSE depth[i]
    BY <1>3, <1>4, <2>1 DEF QueueInv
  <2>4. \A k \in 1..Len(queue') : depth'[queue'[k]] >= 0
    <3>1. SUFFICES ASSUME NEW k \in 1..Len(queue') PROVE depth'[queue'[k]] >= 0
        OBVIOUS
    <3>2. CASE k = Len(queue) + 1
        BY <2>1, <2>2, <2>3, <3>2
    <3>3. CASE k \in 1..Len(queue)
      <4>1. queue[k] \in 1..Len(boxes) /\ depth[queue[k]] >= 0
        BY <1>3, <3>3 DEF QueueInv
      <4>2. queue'[k] = queue[k]
        BY <2>2, <3>3
      <4>3. depth'[queue[k]] \in {0, depth[queue[k]]}
        BY <2>3, <4>1
      <4>4. QED BY <4>1, <4>2, <4>3
    <3>4. QED BY <2>2, <3>2, <3>3
  <2>5. \A i \in 1..Len(boxes) : depth'[i] >= -1 /\ depth'[i] <= 0
    BY <1>3, <2>3 DEF QueueInv, RootsInv
  <2>6. QueueInv'
    BY <1>1, <1>2, <1>3, <2>2, <2>3, <2>4, <2>5, BoundsAssumption DEF QueueInv, RootsInv
  <2>7. RootsInv'
    BY <1>1, <1>2, <1>3, <2>2, <2>5 DEF QueueInv, RootsInv
  <2>8. QED BY <1>1, <1>2, <2>6, <2>7 DEF ChartInv, RanksInBounds, MermaidDone
<1>5. CASE UNCHANGED <<depth, queue>>
  <2>1. QueueInv' /\ RootsInv'
    BY <1>1, <1>2, <1>3, <1>5 DEF QueueInv, RootsInv
  <2>2. QED BY <1>1, <1>2, <2>1 DEF ChartInv, RanksInBounds, MermaidDone
<1>6. QED BY <1>1, <1>4, <1>5

LEMMA StartRanksInv ==
    ASSUME ChartInv, StartRanks
    PROVE  ChartInv'
<1>1. /\ stage = "roots" /\ stage' = "rank" /\ edge' = 0
      /\ UNCHANGED <<boxes, links, src, head, deepest>>
      /\ \/ queue = <<>> /\ depth' = [depth EXCEPT ![1] = 0] /\ queue' = <<1>>
         \/ UNCHANGED <<depth, queue>>
    BY DEF StartRanks, reading
<1>2. ReadInv' /\ Len(boxes) \in Nat /\ Len(links) \in Nat
    BY <1>1, BoxesOrNone DEF ChartInv, ReadInv, LinksInv
<1>3. QueueInv /\ RootsInv
    BY <1>1 DEF ChartInv
<1>4. CASE queue = <<>> /\ depth' = [depth EXCEPT ![1] = 0] /\ queue' = <<1>>
  <2>1. 1 \in 1..Len(boxes)
    BY <1>2, <1>3, EmptyBoxes DEF QueueInv, ChartInv, ReadInv
  <2>2. /\ queue' \in Seq(1..Len(boxes)) /\ Len(queue') = 1 /\ queue'[1] = 1
    BY <1>4, <2>1
  <2>3. /\ depth' \in [1..Len(boxes) -> Int]
        /\ \A i \in 1..Len(boxes) : depth'[i] = IF i = 1 THEN 0 ELSE depth[i]
    BY <1>3, <1>4, <2>1 DEF QueueInv
  <2>4. /\ \A k \in 1..Len(queue') : depth'[queue'[k]] >= 0
        /\ \A i \in 1..Len(boxes) : depth'[i] >= -1 /\ depth'[i] <= 0
    BY <1>3, <2>1, <2>2, <2>3 DEF QueueInv, RootsInv
  <2>5. QueueInv'
    BY <1>1, <1>3, <2>2, <2>3, <2>4, BoundsAssumption DEF QueueInv, RootsInv
  <2>6. RankInv'
    BY <1>1, <1>2, <1>3, <2>4 DEF RankInv, RootsInv, Climbing
  <2>7. QED BY <1>1, <1>2, <2>5, <2>6 DEF ChartInv, RanksInBounds, MermaidDone
<1>5. CASE UNCHANGED <<depth, queue>>
  <2>1. QueueInv'
    BY <1>1, <1>3, <1>5 DEF QueueInv
  <2>2. RankInv'
    BY <1>1, <1>2, <1>3, <1>5 DEF RankInv, RootsInv, Climbing
  <2>3. QED BY <1>1, <1>2, <2>1, <2>2 DEF ChartInv, RanksInBounds, MermaidDone
<1>6. QED BY <1>1, <1>4, <1>5

LEMMA TakeBoxInv ==
    ASSUME ChartInv, TakeBox
    PROVE  ChartInv'
<1> DEFINE u == queue[head + 1]
<1>1. /\ stage = "rank" /\ stage' = "rank" /\ edge = 0 /\ head < Len(queue)
      /\ ~(depth[u] > MaxDepth)
      /\ head' = head + 1
      /\ deepest' = Max({deepest, depth[u]})
      /\ edge' \in {0, 1} /\ (links = <<>> => edge' = 0)
      /\ UNCHANGED <<boxes, links, src, depth, queue>>
    BY DEF TakeBox, RankingEnds, reading
<1>2. QueueInv /\ RankInv
    BY <1>1 DEF ChartInv
<1>3. head \in Nat /\ Len(queue) \in Nat /\ head + 1 \in 1..Len(queue)
    BY <1>1, <1>2 DEF QueueInv
<1>4. u \in 1..Len(boxes) /\ depth[u] \in Int /\ depth[u] >= 0
    BY <1>2, <1>3 DEF QueueInv
<1>5. depth[u] \in 0..MaxDepth
    BY <1>1, <1>4, BoundsAssumption
<1>6. deepest' \in 0..MaxDepth
  <2>1. {deepest, depth[u]} \in SUBSET (0..MaxDepth)
    BY <1>2, <1>5 DEF QueueInv
  <2>2. Max({deepest, depth[u]}) \in {deepest, depth[u]}
    BY <2>1, MaxIsGreatest, BoundsAssumption
  <2>3. QED BY <1>1, <2>1, <2>2
<1>7. QueueInv'
    BY <1>1, <1>2, <1>3, <1>6 DEF QueueInv
<1>8. edge' <= Len(links)
    BY <1>1 DEF ChartInv, ReadInv, LinksInv
<1>9. ASSUME SelfLinks = {} PROVE Climbing'
  <2>1. Climbing
    BY <1>2, <1>9 DEF RankInv
  <2>2. ASSUME NEW i \in 1..Len(boxes) PROVE depth[i] <= head + 1
    <3>1. depth[i] \in Int
        BY <1>2 DEF QueueInv
    <3>2. depth[i] <= head
        BY <2>1 DEF Climbing
    <3>3. QED BY <1>3, <3>1, <3>2
  <2>3. depth[u] <= (head + 1) - 1
    BY <1>3, <1>4, <2>1 DEF Climbing
  <2>4. queue'[head'] = u /\ depth' = depth /\ boxes' = boxes /\ head' = head + 1
    BY <1>1
  <2> HIDE DEF u
  <2>5. QED BY <2>2, <2>3, <2>4 DEF Climbing
<1>10. RankInv'
    BY <1>1, <1>3, <1>8, <1>9 DEF RankInv, SelfLinks
<1>11. ReadInv'
    BY <1>1 DEF ChartInv, ReadInv, LinksInv
<1>12. QED BY <1>1, <1>7, <1>10, <1>11 DEF ChartInv, RanksInBounds, MermaidDone

\* The place of the next link, or 0 behind the last.
LEMMA NextEdge ==
    ASSUME NEW e \in Nat, NEW n \in Nat, e <= n
    PROVE  (e + 1) % (n + 1) \in 0..n
OBVIOUS

LEMMA FollowLinkInv ==
    ASSUME ChartInv, FollowLink
    PROVE  ChartInv'
<1> DEFINE u == queue[head]
           v == links[edge][2]
<1>1. /\ stage = "rank" /\ stage' = "rank" /\ edge > 0
      /\ edge' = (edge + 1) % (Len(links) + 1)
      /\ UNCHANGED <<boxes, links, src, head, deepest>>
    BY DEF FollowLink, reading
<1>2. \/ /\ links[edge][1] = u
         /\ depth' = [depth EXCEPT ![v] = depth[u] + 1]
         /\ (queue' = Append(queue, v) /\ Len(queue) < MaxBoxes) \/ queue' = queue
      \/ UNCHANGED <<depth, queue>>
    BY DEF FollowLink
<1>3. QueueInv /\ RankInv /\ ReadInv
    BY <1>1 DEF ChartInv
<1>4. /\ Len(links) \in Nat /\ edge \in 1..Len(links)
      /\ Len(queue) \in Nat /\ head \in 1..Len(queue)
  <2>1. Len(links) \in Nat /\ Len(queue) \in Nat
    BY <1>3 DEF QueueInv, ReadInv, LinksInv
  <2>2. edge \in Nat /\ edge <= Len(links) /\ head > 0 /\ head \in 0..Len(queue)
    BY <1>1, <1>3 DEF QueueInv, RankInv
  <2>3. QED BY <1>1, <2>1, <2>2
<1>5. u \in 1..Len(boxes) /\ depth[u] \in Int /\ depth[u] >= 0
    BY <1>3, <1>4 DEF QueueInv
<1>6. v \in 1..Len(boxes)
  <2>1. links[edge] \in (1..Len(boxes)) \X (1..Len(boxes))
    BY <1>3, <1>4 DEF ReadInv, LinksInv
  <2>2. QED BY <2>1
<1>7. edge' \in 0..Len(links)
    BY <1>1, <1>4, NextEdge
<1>8. ReadInv'
    BY <1>1, <1>3 DEF ReadInv, LinksInv
<1>9. CASE /\ links[edge][1] = u
           /\ depth' = [depth EXCEPT ![v] = depth[u] + 1]
           /\ (queue' = Append(queue, v) /\ Len(queue) < MaxBoxes) \/ queue' = queue
  <2>1. /\ depth' \in [1..Len(boxes) -> Int]
        /\ \A i \in 1..Len(boxes) : depth'[i] = IF i = v THEN depth[u] + 1 ELSE depth[i]
    BY <1>3, <1>5, <1>6, <1>9 DEF QueueInv
  <2>2. ASSUME NEW i \in 1..Len(boxes)
        PROVE  depth'[i] >= -1 /\ (depth[i] >= 0 => depth'[i] >= 0)
    <3>1. depth[i] >= -1
        BY <1>3 DEF QueueInv
    <3>2. depth'[i] = IF i = v THEN depth[u] + 1 ELSE depth[i]
        BY <2>1
    <3>3. QED BY <1>5, <3>1, <3>2
  <2>3. depth'[v] >= 0
    BY <1>5, <1>6, <2>1
  <2>4. /\ queue' \in Seq(1..Len(boxes)) /\ Len(queue') <= MaxBoxes
        /\ Len(queue') \in Nat /\ Len(queue) <= Len(queue')
        /\ \A k \in 1..Len(queue) : queue'[k] = queue[k]
        /\ \A k \in 1..Len(queue') : k \in 1..Len(queue) \/ queue'[k] = v
    <3>1. queue \in Seq(1..Len(boxes)) /\ Len(queue) <= MaxBoxes
        BY <1>3 DEF QueueInv
    <3>2. CASE queue' = Append(queue, v) /\ Len(queue) < MaxBoxes
      <4> HIDE DEF v
      <4>1. /\ queue' \in Seq(1..Len(boxes)) /\ Len(queue') = Len(queue) + 1
            /\ \A k \in 1..Len(queue) : queue'[k] = queue[k]
            /\ queue'[Len(queue) + 1] = v
        BY <1>6, <3>1, <3>2
      <4>2. Len(queue') \in Nat /\ Len(queue) <= Len(queue') /\ Len(queue') <= MaxBoxes
        BY <1>4, <3>2, <4>1, BoundsAssumption
      <4>3. \A k \in 1..Len(queue') : k \in 1..Len(queue) \/ k = Len(queue) + 1
        BY <1>4, <4>1
      <4>4. QED BY <4>1, <4>2, <4>3
    <3>3. CASE queue' = queue
        BY <1>4, <3>1, <3>3
    <3>4. QED BY <1>9, <3>2, <3>3
  <2>5. \A k \in 1..Len(queue') : depth'[queue'[k]] >= 0
    <3>1. SUFFICES ASSUME NEW k \in 1..Len(queue') PROVE depth'[queue'[k]] >= 0
        OBVIOUS
    <3>2. CASE k \in 1..Len(queue)
      <4>1. queue[k] \in 1..Len(boxes) /\ depth[queue[k]] >= 0
        BY <1>3, <3>2 DEF QueueInv
      <4>2. QED BY <2>2, <2>4, <3>2, <4>1
    <3>3. CASE queue'[k] = v
        BY <2>3, <3>3
    <3>4. QED BY <2>4, <3>2, <3>3
  <2>6. QueueInv'
    <3>1. head' \in 0..Len(queue') /\ edge' \in Nat
        BY <1>1, <1>4, <1>7, <2>4
    <3>2. boxes' # <<>> /\ deepest' \in 0..MaxDepth /\ Len(boxes') = Len(boxes)
        BY <1>1, <1>3 DEF QueueInv
    <3>3. QED BY <2>1, <2>2, <2>4, <2>5, <3>1, <3>2 DEF QueueInv
  <2>7. ASSUME SelfLinks = {} PROVE Climbing'
    <3>1. Climbing /\ depth[u] <= head - 1
        BY <1>1, <1>3, <2>7 DEF RankInv, Climbing
    <3>2. u # v
      <4>1. edge \in DOMAIN links
        BY <1>3, <1>4 DEF ReadInv, LinksInv
      <4>2. QED BY <1>9, <2>7, <4>1 DEF SelfLinks
    <3>3. depth'[u] = depth[u] /\ queue'[head] = u
        BY <1>4, <1>5, <2>1, <2>4, <3>2
    <3>4. ASSUME NEW i \in 1..Len(boxes) PROVE depth'[i] <= head
      <4>1. depth[i] <= head
        BY <3>1 DEF Climbing
      <4>2. depth'[i] = IF i = v THEN depth[u] + 1 ELSE depth[i]
        BY <2>1
      <4>3. QED BY <1>4, <1>5, <3>1, <4>1, <4>2
    <3>5. QED BY <1>1, <3>1, <3>3, <3>4 DEF Climbing
  <2>8. RankInv'
    BY <1>1, <1>4, <1>7, <2>7 DEF RankInv, SelfLinks
  <2>9. QED BY <1>1, <1>8, <2>6, <2>8 DEF ChartInv, RanksInBounds, MermaidDone
<1>10. CASE UNCHANGED <<depth, queue>>
  <2>1. QueueInv'
    BY <1>1, <1>3, <1>7, <1>10 DEF QueueInv
  <2>2. ASSUME SelfLinks = {} PROVE Climbing'
    BY <1>1, <1>3, <1>10, <2>2 DEF RankInv, Climbing
  <2>3. RankInv'
    BY <1>1, <1>4, <1>7, <2>2 DEF RankInv, SelfLinks
  <2>4. QED BY <1>1, <1>8, <2>1, <2>3 DEF ChartInv, RanksInBounds, MermaidDone
<1>11. QED BY <1>2, <1>9, <1>10

LEMMA DrawInv ==
    ASSUME ChartInv, Draw
    PROVE  ChartInv'
<1>1. /\ stage = "rank" /\ stage' = "drawn"
      /\ depth' = [i \in DOMAIN depth |-> IF depth[i] = -1 THEN deepest + 1 ELSE depth[i]]
      /\ UNCHANGED <<boxes, links, src>>
    BY DEF Draw, reading
<1>2. QueueInv /\ RankInv /\ ReadInv
    BY <1>1 DEF ChartInv
<1>3. ReadInv'
    BY <1>1, <1>2 DEF ReadInv, LinksInv
<1>4. ASSUME SelfLinks = {}, NEW i \in DOMAIN depth'
      PROVE  depth'[i] \in 0..(MaxDepth + 1)
  <2>1. i \in 1..Len(boxes) /\ depth[i] \in Int /\ depth[i] >= -1
    BY <1>1, <1>2, <1>4 DEF QueueInv
  <2>2. depth[i] <= MaxDepth
    BY <1>2, <1>4, <2>1, BoundsAssumption DEF RankInv, Climbing, QueueInv
  <2>3. depth'[i] = IF depth[i] = -1 THEN deepest + 1 ELSE depth[i]
    BY <1>1, <1>2, <2>1 DEF QueueInv
  <2>4. QED BY <1>2, <2>1, <2>2, <2>3, BoundsAssumption DEF QueueInv
<1>5. RanksInBounds'
    BY <1>1, <1>4 DEF RanksInBounds, SelfLinks
<1>6. QED BY <1>1, <1>3, <1>5 DEF ChartInv

LEMMA StepInv == ChartInv /\ [MermaidNext]_chart => ChartInv'
<1> SUFFICES ASSUME ChartInv, [MermaidNext]_chart PROVE ChartInv'
    OBVIOUS
<1>1. CASE ReadFlowLine \/ ReadSequenceLine \/ ReadClassLine \/ ReadSlice
    BY <1>1, ReadingInv
<1>2. CASE EndSource
    BY <1>2, EndSourceInv
<1>3. CASE QueueRoot
    BY <1>3, QueueRootInv
<1>4. CASE StartRanks
    BY <1>4, StartRanksInv
<1>5. CASE TakeBox
    BY <1>5, TakeBoxInv
<1>6. CASE FollowLink
    BY <1>6, FollowLinkInv
<1>7. CASE Draw
    BY <1>7, DrawInv
<1>8. CASE UNCHANGED chart
    BY <1>8 DEF chart, reading, ranking, ChartInv, ReadInv, LinksInv, QueueInv, RootsInv,
                RankInv, Climbing, SelfLinks, RanksInBounds, MermaidDone
<1>9. QED BY <1>1, <1>2, <1>3, <1>4, <1>5, <1>6, <1>7, <1>8 DEF MermaidNext

-----------------------------------------------------------------------------
(***************************************************************************)
(* Ranks go down along links.                                              *)
(***************************************************************************)
Entered(S, L) == \A i \in S : \E l \in L : l[2] = i
Circled(T, L) == T # {} /\ \A i \in T : \E l \in L : l[1] = i /\ l[2] \in T

\* A set of places each of which some link of the set leads to holds a set of places
\* each of which some link of that set leaves: what can be reached backwards for
\* ever runs in a cycle.
LEMMA NoEndlessWayBack ==
    ASSUME NEW n \in Nat, NEW S \in SUBSET (1..n), S # {}, NEW L \in SUBSET (S \X S),
           Entered(S, L)
    PROVE  \E T \in SUBSET S : Circled(T, L)
<1> DEFINE Closed(T) == T # {} /\ \A i \in T : \E l \in L : l[2] = i /\ l[1] \in T
           Sizes == {Cardinality(T) : T \in {U \in SUBSET S : Closed(U)}}
<1>1. IsFiniteSet(S)
  <2>1. IsFiniteSet(1..n)
    BY FS_Interval
  <2>2. QED BY <2>1, FS_Subset
<1>2. \A T \in SUBSET S : IsFiniteSet(T) /\ Cardinality(T) \in Nat
    BY <1>1, FS_Subset, FS_CardinalityType
<1>3. Sizes \in SUBSET Nat
    BY <1>2
<1>4. Closed(S)
    BY DEF Entered
<1>5. Sizes # {}
    BY <1>4
<1>6. Min(Sizes) \in Sizes /\ \A k \in Sizes : Min(Sizes) <= k
    <2> HIDE DEF Sizes
    <2> QED BY <1>3, <1>5, MinIsLeast
<1>7. PICK T \in SUBSET S : Closed(T) /\ Min(Sizes) = Cardinality(T)
    BY <1>6
<1> DEFINE U == {i \in T : \E l \in L : l[1] = i /\ l[2] \in T}
<1>8. Closed(U)
  <2>1. U # {}
    <3>1. PICK i \in T : TRUE
        BY <1>7
    <3>2. PICK l \in L : l[2] = i /\ l[1] \in T
        BY <1>7
    <3>3. QED BY <3>1, <3>2
  <2>2. ASSUME NEW i \in U PROVE \E l \in L : l[2] = i /\ l[1] \in U
    <3>1. PICK l \in L : l[2] = i /\ l[1] \in T
        BY <1>7
    <3>2. l[2] \in T
        BY <3>1
    <3>3. QED BY <3>1, <3>2
  <2>3. QED BY <2>1, <2>2
<1>9. U \in SUBSET S /\ U \subseteq T
    OBVIOUS
<1>10. Cardinality(U) \in Sizes
    BY <1>8, <1>9
<1>11. Cardinality(T) <= Cardinality(U)
    BY <1>6, <1>7, <1>10
<1>12. U = T
  <2>1. IsFiniteSet(T) /\ Cardinality(U) \in Nat /\ Cardinality(T) \in Nat
    BY <1>2, <1>9
  <2>2. U \in SUBSET T
    BY <1>9
  <2> HIDE DEF U
  <2>3. Cardinality(U) <= Cardinality(T) /\ (Cardinality(T) = Cardinality(U) => T = U)
    BY <2>1, <2>2, FS_Subset
  <2>4. QED BY <1>11, <2>1, <2>3
<1>13. \A i \in U : \E l \in L : l[1] = i /\ l[2] \in T
    OBVIOUS
<1>14. T # {} /\ T \in SUBSET S
    BY <1>7
<1> HIDE DEF U, Sizes, Closed
<1>15. \A i \in T : \E l \in L : l[1] = i /\ l[2] \in T
    BY <1>12, <1>13
<1>16. QED BY <1>14, <1>15, Zenon DEF Circled

\* A box that is still to be taken from the queue; a link that is followed before
\* the next one is; a link that leads down.
Pending(i) == \E m \in (head + 1)..Len(queue) : queue[m] = i
Due(k)     == edge > 0 /\ edge <= k /\ links[k][1] = queue[head]
Lower(k)   == depth[links[k][1]] < depth[links[k][2]]

RootsFirst ==
    /\ \A i \in 1..Len(boxes) : depth[i] >= 0 => Pending(i)
    /\ \A i \in 1..edge : IsRoot(i) => depth[i] >= 0

\* Every root has a rank.  A link of a box with a rank leads down already, or it will
\* be followed: its box is in the queue, or at hand.
ToFollow ==
    /\ \A i \in 1..Len(boxes) : IsRoot(i) => depth[i] >= 0
    /\ Len(queue) < MaxBoxes =>
          \A k \in 1..Len(links) :
             depth[links[k][1]] >= 0 => Lower(k) \/ Pending(links[k][1]) \/ Due(k)

DownInv ==
    /\ stage = "roots" => RootsFirst
    /\ stage = "rank" => ToFollow
    /\ LinksGoDown

LEMMA LinkEnds ==
    ASSUME ReadInv
    PROVE  /\ Len(boxes) \in Nat /\ DOMAIN boxes = 1..Len(boxes)
           /\ Len(links) \in Nat /\ DOMAIN links = 1..Len(links)
           /\ \A k \in 1..Len(links) :
                 links[k][1] \in 1..Len(boxes) /\ links[k][2] \in 1..Len(boxes)
<1>1. Len(boxes) \in Nat /\ DOMAIN boxes = 1..Len(boxes)
    BY BoxesOrNone DEF ReadInv
<1>2. Len(links) \in Nat /\ DOMAIN links = 1..Len(links)
    BY DEF ReadInv, LinksInv
<1>3. \A k \in 1..Len(links) : links[k] \in (1..Len(boxes)) \X (1..Len(boxes))
    BY DEF ReadInv, LinksInv
<1>4. QED BY <1>1, <1>2, <1>3

LEMMA EndSourceDown ==
    ASSUME ChartInv, EndSource
    PROVE  DownInv'
<1>1. /\ UNCHANGED <<diagram, boxes, links, queue, edge>>
      /\ stage = "read" /\ edge = 0
    BY DEF EndSource, reading, ChartInv
<1>2. CASE /\ depth' = [i \in DOMAIN boxes |-> -1]
           /\ stage' = "roots"
  <2>1. \A i \in 1..Len(boxes) : depth'[i] = -1
    BY <1>2, LinkEnds DEF ChartInv
  <2>2. RootsFirst'
    BY <1>1, <2>1 DEF RootsFirst
  <2>3. QED BY <1>2, <2>2 DEF DownInv, LinksGoDown, MermaidDone
<1>3. CASE stage' = "drawn" /\ (diagram.kind # "flowchart" \/ boxes = <<>>)
  <2>1. CASE diagram.kind # "flowchart"
    BY <1>1, <1>3, <2>1 DEF DownInv, LinksGoDown
  <2>2. CASE boxes = <<>>
    <3>1. DOMAIN links' = {}
        BY <1>1, <2>2, LinkEnds DEF ChartInv
    <3>2. QED BY <1>3, <3>1 DEF DownInv, LinksGoDown
  <2>3. QED BY <1>3, <2>1, <2>2
<1>4. QED BY <1>2, <1>3 DEF EndSource

LEMMA QueueRootDown ==
    ASSUME ChartInv, DownInv, QueueRoot
    PROVE  DownInv'
<1>1. /\ stage = "roots" /\ stage' = "roots" /\ edge < Len(boxes) /\ edge' = edge + 1
      /\ UNCHANGED <<boxes, links, head>>
      /\ \/ /\ depth' = [depth EXCEPT ![edge + 1] = 0]
            /\ queue' = Append(queue, edge + 1)
         \/ ~IsRoot(edge + 1) /\ UNCHANGED <<depth, queue>>
    BY DEF QueueRoot, reading
<1>2. QueueInv /\ head = 0 /\ RootsFirst /\ ReadInv
    BY <1>1 DEF ChartInv, RootsInv, DownInv
<1>3. /\ Len(boxes) \in Nat /\ edge \in Nat /\ edge + 1 \in 1..Len(boxes)
      /\ depth \in [1..Len(boxes) -> Int] /\ Len(queue) \in Nat
    BY <1>1, <1>2, LinkEnds DEF QueueInv
<1>4. \A i : IsRoot(i)' <=> IsRoot(i)
    BY <1>1 DEF IsRoot
<1>5. CASE depth' = [depth EXCEPT ![edge + 1] = 0] /\ queue' = Append(queue, edge + 1)
  <2>1. /\ Len(queue') = Len(queue) + 1
        /\ \A k \in 1..Len(queue) : queue'[k] = queue[k]
        /\ queue'[Len(queue) + 1] = edge + 1
    BY <1>2, <1>3, <1>5 DEF QueueInv
  <2>2. \A i \in 1..Len(boxes) : depth'[i] = IF i = edge + 1 THEN 0 ELSE depth[i]
    BY <1>3, <1>5
  <2>3. ASSUME NEW i \in 1..Len(boxes), depth'[i] >= 0
        PROVE  \E m \in 1..Len(queue') : queue'[m] = i
    <3>1. CASE i = edge + 1
        BY <1>3, <2>1, <3>1
    <3>2. CASE i # edge + 1
      <4>1. PICK m \in 1..Len(queue) : queue[m] = i
        BY <1>2, <2>2, <2>3, <3>2 DEF RootsFirst, Pending
      <4>2. QED BY <1>3, <2>1, <4>1
    <3>3. QED BY <3>1, <3>2
  <2>4. ASSUME NEW i \in 1..(edge + 1), IsRoot(i)
        PROVE  depth'[i] >= 0
    BY <1>2, <1>3, <2>2, <2>4 DEF RootsFirst
  <2>5. RootsFirst'
    BY <1>1, <1>2, <1>4, <2>3, <2>4 DEF RootsFirst, Pending
  <2>6. QED BY <1>1, <2>5 DEF DownInv, LinksGoDown, MermaidDone
<1>6. CASE ~IsRoot(edge + 1) /\ UNCHANGED <<depth, queue>>
  <2>1. ASSUME NEW i \in 1..(edge + 1), IsRoot(i)
        PROVE  depth'[i] >= 0
    BY <1>2, <1>3, <1>6, <2>1 DEF RootsFirst
  <2>2. RootsFirst'
    BY <1>1, <1>2, <1>4, <1>6, <2>1 DEF RootsFirst, Pending
  <2>3. QED BY <1>1, <2>2 DEF DownInv, LinksGoDown, MermaidDone
<1>7. QED BY <1>1, <1>5, <1>6

LEMMA StartRanksDown ==
    ASSUME ChartInv, DownInv, StartRanks
    PROVE  DownInv'
<1>1. /\ stage = "roots" /\ stage' = "rank" /\ edge = Len(boxes) /\ edge' = 0
      /\ UNCHANGED <<boxes, links, head>>
      /\ \/ queue = <<>> /\ depth' = [depth EXCEPT ![1] = 0] /\ queue' = <<1>>
         \/ UNCHANGED <<depth, queue>>
    BY DEF StartRanks, reading
<1>2. QueueInv /\ head = 0 /\ RootsFirst /\ ReadInv
    BY <1>1 DEF ChartInv, RootsInv, DownInv
<1>3. \A k \in 1..Len(links) : links[k][1] \in 1..Len(boxes)
    BY <1>2, LinkEnds
<1>4. \A i : IsRoot(i)' <=> IsRoot(i)
    BY <1>1 DEF IsRoot
<1>5. ASSUME NEW i \in 1..Len(boxes)
      PROVE  /\ IsRoot(i) => depth'[i] >= 0
             /\ depth'[i] >= 0 => \E m \in 1..Len(queue') : queue'[m] = i
  <2>1. CASE queue = <<>> /\ depth' = [depth EXCEPT ![1] = 0] /\ queue' = <<1>>
    <3>1. depth'[i] = IF i = 1 THEN 0 ELSE depth[i]
        BY <1>2, <2>1 DEF QueueInv
    <3>2. ~(depth[i] >= 0)
        BY <1>2, <2>1 DEF RootsFirst, Pending
    <3>3. IsRoot(i) => depth[i] >= 0
        BY <1>1, <1>2 DEF RootsFirst
    <3>4. Len(queue') = 1 /\ queue'[1] = 1
        BY <2>1
    <3>5. QED BY <3>1, <3>2, <3>3, <3>4
  <2>2. CASE UNCHANGED <<depth, queue>>
    BY <1>1, <1>2, <2>2 DEF RootsFirst, Pending
  <2>3. QED BY <1>1, <2>1, <2>2
<1>6. \A k \in 1..Len(links) :
         depth'[links[k][1]] >= 0 => \E m \in 1..Len(queue') : queue'[m] = links[k][1]
    BY <1>3, <1>5
<1>7. ToFollow'
    BY <1>1, <1>2, <1>4, <1>5, <1>6 DEF ToFollow, Pending
<1>8. QED BY <1>1, <1>7 DEF DownInv, LinksGoDown, MermaidDone

LEMMA TakeBoxDown ==
    ASSUME ChartInv, DownInv, TakeBox
    PROVE  DownInv'
<1>1. /\ stage = "rank" /\ stage' = "rank" /\ edge = 0
      /\ head' = head + 1 /\ head < Len(queue)
      /\ edge' = IF links = <<>> THEN 0 ELSE 1
      /\ UNCHANGED <<boxes, links, depth, queue>>
    BY DEF TakeBox, RankingEnds, reading
<1>2. QueueInv /\ ToFollow /\ ReadInv
    BY <1>1 DEF ChartInv, DownInv
<1>3. head \in Nat /\ Len(queue) \in Nat
    BY <1>2 DEF QueueInv
<1>4. \A i : IsRoot(i)' <=> IsRoot(i)
    BY <1>1 DEF IsRoot
<1>5. ASSUME Len(queue) < MaxBoxes, NEW k \in 1..Len(links), depth[links[k][1]] >= 0
      PROVE  (Lower(k) \/ Pending(links[k][1]) \/ Due(k))'
  <2>1. edge' = 1
    BY <1>1, <1>5
  <2>2. CASE Lower(k)
    BY <1>1, <2>2 DEF Lower
  <2>3. CASE Pending(links[k][1])
    <3>1. PICK m \in (head + 1)..Len(queue) : queue[m] = links[k][1]
        BY <2>3 DEF Pending
    <3>2. CASE m = head + 1
      <4>1. Due(k)'
        BY <1>1, <1>2, <2>1, <3>1, <3>2, LinkEnds DEF Due
      <4>2. QED BY <4>1
    <3>3. CASE m # head + 1
      <4>1. m \in (head' + 1)..Len(queue')
        BY <1>1, <1>3, <3>3
      <4>2. Pending(links[k][1])'
        BY <1>1, <3>1, <4>1 DEF Pending
      <4>3. QED BY <4>2
    <3>4. QED BY <3>2, <3>3
  <2>4. QED BY <1>1, <1>2, <1>5, <2>2, <2>3 DEF ToFollow, Due
<1>6. ToFollow'
    BY <1>1, <1>2, <1>4, <1>5 DEF ToFollow
<1>7. QED BY <1>1, <1>6 DEF DownInv, LinksGoDown, MermaidDone

\* The links behind the one at hand are still due behind it.
LEMMA StillDue ==
    ASSUME NEW e \in Nat, NEW n \in Nat, NEW k \in 1..n, e < k
    PROVE  (e + 1) % (n + 1) = e + 1
OBVIOUS

LEMMA FollowLinkDown ==
    ASSUME ChartInv, DownInv, FollowLink
    PROVE  DownInv'
<1> DEFINE u == queue[head]
           v == links[edge][2]
<1>1. /\ stage = "rank" /\ stage' = "rank" /\ edge > 0
      /\ edge' = (edge + 1) % (Len(links) + 1)
      /\ UNCHANGED <<boxes, links, head>>
    BY DEF FollowLink, reading
<1>2. \/ /\ links[edge][1] = u /\ depth[v] < depth[u] + 1
         /\ depth' = [depth EXCEPT ![v] = depth[u] + 1]
         /\ queue' = IF Len(queue) < MaxBoxes THEN Append(queue, v) ELSE queue
      \/ /\ links[edge][1] # u \/ depth[v] >= depth[u] + 1
         /\ UNCHANGED <<depth, queue>>
    BY DEF FollowLink
<1>3. QueueInv /\ RankInv /\ ReadInv /\ ToFollow
    BY <1>1 DEF ChartInv, DownInv
<1>4. /\ Len(links) \in Nat /\ edge \in Nat /\ edge \in 1..Len(links)
      /\ Len(queue) \in Nat /\ head \in 1..Len(queue)
  <2>1. Len(links) \in Nat /\ Len(queue) \in Nat
    BY <1>3, LinkEnds DEF QueueInv
  <2>2. edge \in Nat /\ edge <= Len(links) /\ head > 0 /\ head \in 0..Len(queue)
    BY <1>1, <1>3 DEF QueueInv, RankInv
  <2>3. QED BY <1>1, <2>1, <2>2
<1>5. /\ u \in 1..Len(boxes) /\ depth[u] \in Int /\ depth[u] >= 0
      /\ v \in 1..Len(boxes) /\ depth[v] \in Int
  <2>1. u \in 1..Len(boxes) /\ depth[u] \in Int /\ depth[u] >= 0
    BY <1>3, <1>4 DEF QueueInv
  <2>2. v \in 1..Len(boxes)
    BY <1>3, <1>4, LinkEnds
  <2>3. QED BY <1>3, <2>1, <2>2 DEF QueueInv
<1>6. \A i : IsRoot(i)' <=> IsRoot(i)
    BY <1>1 DEF IsRoot
<1>7. \A k \in 1..Len(links) : edge < k => edge' = edge + 1
    BY <1>1, <1>4, StillDue
<1>8. \A k \in 1..Len(links) :
         links[k][1] \in 1..Len(boxes) /\ links[k][2] \in 1..Len(boxes)
    BY <1>3, LinkEnds
<1>9. CASE /\ links[edge][1] = u /\ depth[v] < depth[u] + 1
           /\ depth' = [depth EXCEPT ![v] = depth[u] + 1]
           /\ queue' = IF Len(queue) < MaxBoxes THEN Append(queue, v) ELSE queue
  <2>1. \A i \in 1..Len(boxes) : depth'[i] = IF i = v THEN depth[u] + 1 ELSE depth[i]
    BY <1>3, <1>5, <1>9 DEF QueueInv
  <2>2. \A i \in 1..Len(boxes) : depth[i] \in Int /\ depth'[i] \in Int /\ depth[i] <= depth'[i]
    <3>1. \A i \in 1..Len(boxes) : depth[i] \in Int
        BY <1>3 DEF QueueInv
    <3> HIDE DEF u, v
    <3>2. QED BY <1>5, <1>9, <2>1, <3>1
  <2>3. \A i \in 1..Len(boxes) : IsRoot(i) => depth'[i] >= 0
    <3>1. SUFFICES ASSUME NEW i \in 1..Len(boxes), IsRoot(i) PROVE depth'[i] >= 0
        OBVIOUS
    <3>2. depth[i] >= 0
        BY <1>3, <3>1 DEF ToFollow
    <3>3. QED BY <2>2, <3>2
  <2>4. ASSUME Len(queue') < MaxBoxes, NEW k \in 1..Len(links), depth'[links[k][1]] >= 0
        PROVE  (Lower(k) \/ Pending(links[k][1]) \/ Due(k))'
    <3> DEFINE w == links[k][1]
               x == links[k][2]
    <3>1. w \in 1..Len(boxes) /\ x \in 1..Len(boxes)
        BY <1>8
    <3>2. Len(queue) < MaxBoxes
        BY <1>4, <1>9, <2>4
    <3>3. /\ Len(queue') = Len(queue) + 1
          /\ \A m \in 1..Len(queue) : queue'[m] = queue[m]
          /\ queue'[Len(queue) + 1] = v
      <4> HIDE DEF v
      <4>1. queue' = Append(queue, v)
        BY <1>9, <3>2
      <4>2. QED BY <1>3, <1>5, <4>1 DEF QueueInv
    <3>4. CASE w = v
      <4>1. Len(queue) + 1 \in (head' + 1)..Len(queue')
        BY <1>1, <1>4, <3>3
      <4>2. Pending(w)'
        BY <1>1, <3>3, <3>4, <4>1 DEF Pending
      <4>3. QED BY <1>1, <4>2
    <3>5. CASE w # v
      <4>1. depth'[w] = depth[w] /\ depth[w] >= 0
        BY <2>1, <2>4, <3>1, <3>5
      <4>2. CASE Lower(k)
        <5>1. depth[w] < depth[x] /\ depth[x] <= depth'[x]
            BY <2>2, <3>1, <4>2 DEF Lower
        <5>2. depth'[w] < depth'[x]
            BY <2>2, <3>1, <4>1, <5>1
        <5>3. Lower(k)'
            BY <1>1, <5>2 DEF Lower
        <5>4. QED BY <5>3
      <4>3. CASE Pending(w)
        <5>1. PICK m \in (head + 1)..Len(queue) : queue[m] = w
            BY <4>3 DEF Pending
        <5>2. m \in (head' + 1)..Len(queue') /\ m \in 1..Len(queue)
            BY <1>1, <1>4, <3>3
        <5>3. Pending(w)'
            BY <1>1, <3>3, <5>1, <5>2 DEF Pending
        <5>4. QED BY <1>1, <5>3
      <4>4. CASE Due(k)
        <5>1. w = u /\ edge <= k /\ queue'[head'] = u
            BY <1>1, <1>4, <3>3, <4>4 DEF Due
        <5>2. CASE k = edge
          <6>1. depth'[x] = depth[u] + 1
            BY <1>5, <2>1, <5>2
          <6>2. depth'[w] < depth'[x]
            BY <1>5, <4>1, <5>1, <6>1
          <6>3. Lower(k)'
            BY <1>1, <6>2 DEF Lower
          <6>4. QED BY <6>3
        <5>3. CASE k # edge
          <6>1. edge < k
            BY <1>4, <5>1, <5>3
          <6>2. edge' = edge + 1
            BY <1>7, <6>1
          <6>3. edge' > 0 /\ edge' <= k
            BY <1>4, <6>1, <6>2
          <6>4. Due(k)'
            BY <1>1, <5>1, <6>3 DEF Due
          <6>5. QED BY <6>4
        <5>4. QED BY <5>2, <5>3
      <4>5. QED BY <1>3, <3>2, <4>1, <4>2, <4>3, <4>4 DEF ToFollow
    <3>6. QED BY <3>4, <3>5
  <2>5. ToFollow'
    BY <1>1, <1>6, <2>3, <2>4 DEF ToFollow
  <2>6. QED BY <1>1, <2>5 DEF DownInv, LinksGoDown, MermaidDone
<1>10. CASE (links[edge][1] # u \/ depth[v] >= depth[u] + 1) /\ UNCHANGED <<depth, queue>>
  <2>1. ASSUME Len(queue) < MaxBoxes, NEW k \in 1..Len(links), depth[links[k][1]] >= 0
        PROVE  (Lower(k) \/ Pending(links[k][1]) \/ Due(k))'
    <3>1. CASE Lower(k)
        BY <1>1, <1>10, <3>1 DEF Lower
    <3>2. CASE Pending(links[k][1])
        BY <1>1, <1>10, <3>2 DEF Pending
    <3>3. CASE Due(k) /\ k = edge
      <4>1. links[k][1] = u /\ depth[v] >= depth[u] + 1
        BY <1>10, <3>3 DEF Due
      <4>2. depth[u] < depth[v]
        BY <1>5, <4>1
      <4>3. Lower(k)
        BY <3>3, <4>1, <4>2 DEF Lower
      <4>4. QED BY <3>1, <4>3
    <3>4. CASE Due(k) /\ k # edge
      <4>1. edge < k /\ links[k][1] = queue[head]
        BY <1>4, <3>4 DEF Due
      <4>2. edge' > 0 /\ edge' <= k
        BY <1>4, <1>7, <4>1
      <4>3. Due(k)'
        BY <1>1, <1>10, <4>1, <4>2 DEF Due
      <4>4. QED BY <4>3
    <3>5. QED BY <1>3, <2>1, <3>1, <3>2, <3>3, <3>4 DEF ToFollow
  <2>2. ToFollow'
    BY <1>1, <1>3, <1>6, <1>10, <2>1 DEF ToFollow
  <2>3. QED BY <1>1, <2>2 DEF DownInv, LinksGoDown, MermaidDone
<1>11. QED BY <1>2, <1>9, <1>10

\* Without a cycle, nothing is left when the queue is empty: a box without a rank has
\* no root above it, so a way back from it never ends.
LEMMA DrawDown ==
    ASSUME ChartInv, DownInv, Draw
    PROVE  DownInv'
<1>1. /\ stage = "rank" /\ stage' = "drawn" /\ RankingEnds
      /\ depth' = [i \in DOMAIN depth |-> IF depth[i] = -1 THEN deepest + 1 ELSE depth[i]]
      /\ UNCHANGED <<boxes, links, queue>>
    BY DEF Draw, reading
<1>2. QueueInv /\ RankInv /\ ReadInv /\ ToFollow
    BY <1>1 DEF ChartInv, DownInv
<1>3. ASSUME Acyclic, Len(queue) < MaxBoxes, NEW k \in DOMAIN links
      PROVE  depth'[links[k][1]] < depth'[links[k][2]]
  <2>1. /\ Len(boxes) \in Nat /\ DOMAIN boxes = 1..Len(boxes)
        /\ Len(links) \in Nat /\ DOMAIN links = 1..Len(links)
    BY <1>2, LinkEnds
  <2>2. \A l \in 1..Len(links) :
           links[l][1] \in 1..Len(boxes) /\ links[l][2] \in 1..Len(boxes)
    BY <1>2, LinkEnds
  <2>3. SelfLinks = {}
    <3>1. SUFFICES ASSUME NEW l \in DOMAIN links, links[l][1] = links[l][2] PROVE FALSE
        BY DEF SelfLinks
    <3>2. {links[l][1]} \in SUBSET DOMAIN boxes
        BY <2>1, <2>2
    <3>3. QED BY <1>3, <3>1, <3>2 DEF Acyclic
  <2>4. edge = 0 /\ head = Len(queue)
    <3>1. Climbing /\ edge = 0
        BY <1>1, <1>2, <2>3 DEF RankInv, RankingEnds
    <3>2. SUFFICES ASSUME head # Len(queue) PROVE FALSE
        BY <3>1
    <3>3. /\ head \in Nat /\ Len(queue) \in Nat /\ head < Len(queue)
          /\ head + 1 \in 1..Len(queue)
        BY <1>2, <3>2 DEF QueueInv
    <3>4. depth[queue[head + 1]] > MaxDepth
        BY <1>1, <3>3 DEF RankingEnds
    <3>5. queue[head + 1] \in 1..Len(boxes)
        BY <1>2, <3>3 DEF QueueInv
    <3>6. depth[queue[head + 1]] \in Int /\ depth[queue[head + 1]] <= head
        BY <1>2, <3>1, <3>5 DEF QueueInv, Climbing
    <3>7. QED BY <1>3, <3>3, <3>4, <3>6, BoundsAssumption
  <2>5. \A l \in 1..Len(links) :
           depth[links[l][1]] >= 0 => depth[links[l][1]] < depth[links[l][2]]
    <3>1. SUFFICES ASSUME NEW l \in 1..Len(links), depth[links[l][1]] >= 0
                   PROVE  Lower(l)
        BY DEF Lower
    <3>2. ~Pending(links[l][1])
        BY <1>2, <2>4 DEF Pending, QueueInv
    <3>3. ~Due(l)
        BY <2>4 DEF Due
    <3>4. QED BY <1>2, <1>3, <3>1, <3>2, <3>3 DEF ToFollow
  <2> DEFINE S == {i \in 1..Len(boxes) : ~(depth[i] >= 0)}
             L == {l \in S \X S : \E m \in 1..Len(links) : links[m] = l}
  <2>6. Entered(S, L)
    <3>1. SUFFICES ASSUME NEW i \in S PROVE \E l \in L : l[2] = i
        BY DEF Entered
    <3>2. ~IsRoot(i)
        BY <1>2 DEF ToFollow
    <3>3. PICK m \in 1..Len(links) : links[m][2] = i
        BY <2>1, <3>2 DEF IsRoot
    <3>4. ~(depth[links[m][1]] >= 0)
      <4>1. depth[links[m][1]] \in Int /\ depth[i] \in Int
        BY <1>2, <2>2 DEF QueueInv
      <4>2. QED BY <2>5, <3>3, <4>1
    <3>5. links[m] \in (1..Len(boxes)) \X (1..Len(boxes))
        BY <1>2 DEF ReadInv, LinksInv
    <3>6. links[m] \in L
        BY <2>2, <3>3, <3>4, <3>5
    <3>7. QED BY <3>3, <3>6
  <2>7. S = {}
    <3>1. SUFFICES ASSUME S # {} PROVE FALSE
        OBVIOUS
    <3>2. S \in SUBSET (1..Len(boxes)) /\ L \in SUBSET (S \X S)
        OBVIOUS
    <3>3. \A l \in L : \E m \in 1..Len(links) : links[m] = l
        OBVIOUS
    <3> HIDE DEF S, L
    <3>4. PICK T \in SUBSET S : Circled(T, L)
      <4>1. Len(boxes) \in Nat
        BY <2>1
      <4>2. QED BY <2>6, <3>1, <3>2, <4>1, NoEndlessWayBack, ZenonT(60)
    <3>5. T \in SUBSET DOMAIN boxes
        BY <2>1, <3>2
    <3>6. \A i \in T : \E m \in DOMAIN links : links[m][1] = i /\ links[m][2] \in T
        BY <2>1, <3>3, <3>4 DEF Circled
    <3>7. QED BY <1>3, <3>4, <3>5, <3>6 DEF Acyclic, Circled
  <2>8. \A i \in 1..Len(boxes) : depth'[i] = depth[i] /\ depth[i] >= 0
    <3>1. SUFFICES ASSUME NEW i \in 1..Len(boxes)
                   PROVE  depth'[i] = depth[i] /\ depth[i] >= 0
        OBVIOUS
    <3>2. depth[i] \in Int /\ i \in DOMAIN depth /\ depth[i] >= 0
        BY <1>2, <2>7 DEF QueueInv
    <3>3. QED BY <1>1, <3>2
  <2>9. QED BY <2>1, <2>2, <2>5, <2>8
<1>4. LinksGoDown'
    BY <1>1, <1>3 DEF LinksGoDown, Acyclic
<1>5. QED BY <1>1, <1>4 DEF DownInv

LEMMA DownStep == ChartInv /\ DownInv /\ [MermaidNext]_chart => DownInv'
<1> SUFFICES ASSUME ChartInv, DownInv, [MermaidNext]_chart PROVE DownInv'
    OBVIOUS
<1>1. CASE ReadFlowLine \/ ReadSequenceLine \/ ReadClassLine \/ ReadSlice
  <2>1. stage = "read" /\ stage' = stage
    BY <1>1 DEF ReadFlowLine, ReadSequenceLine, ReadClassLine, ReadSlice, Reads
  <2>2. QED BY <2>1 DEF DownInv, LinksGoDown, MermaidDone
<1>2. CASE EndSource
    BY <1>2, EndSourceDown
<1>3. CASE QueueRoot
    BY <1>3, QueueRootDown
<1>4. CASE StartRanks
    BY <1>4, StartRanksDown
<1>5. CASE TakeBox
    BY <1>5, TakeBoxDown
<1>6. CASE FollowLink
    BY <1>6, FollowLinkDown
<1>7. CASE Draw
    BY <1>7, DrawDown
<1>8. CASE UNCHANGED chart
    BY <1>8 DEF chart, reading, ranking, DownInv, RootsFirst, ToFollow, Lower, Pending, Due,
                IsRoot, LinksGoDown, Acyclic, MermaidDone
<1>9. QED BY <1>1, <1>2, <1>3, <1>4, <1>5, <1>6, <1>7, <1>8 DEF MermaidNext

-----------------------------------------------------------------------------
(***************************************************************************)
(* No name has two boxes.                                                  *)
(***************************************************************************)
Shaped(bs)   == \A i \in DOMAIN bs : DOMAIN bs[i] = {"name", "members"}
Distinct(bs) == \A i, j \in DOMAIN bs : bs[i].name = bs[j].name => i = j

\* The names in front of line n.
Mentioned(n) == UNION {Range(diagram.lines[j].names) : j \in 1..(n - 1)}
Used(bs, n)  == \A i \in DOMAIN bs : bs[i].name \in Mentioned(n)

\* The diagrams OneBoxEach is about.
Unambiguous ==
    /\ diagram.kind # "pie"
    /\ \A k \in DOMAIN diagram.lines :
          LET l == diagram.lines[k]
          IN  /\ l.is = "link" => l.names[1] # l.names[2]
              /\ l.is = "box" /\ diagram.kind = "sequence" =>
                    \A j \in 1..(k - 1) :
                        \A m \in Range(diagram.lines[j].names) : m # l.names[1]

\* A participant is looked for in no list when it is declared: that it has no box
\* follows from the names of the lines before.
OwnBoxInv ==
    /\ diagram.kind # "pie" => diagram \in Diagrams
    /\ at \in Nat \ {0}
    /\ Shaped(boxes)
    /\ diagram.kind = "sequence" => Used(boxes, at)
    /\ Unambiguous => Distinct(boxes)

LEMMA LatestNone ==
    ASSUME NEW bs, NEW id, IsSeq(bs), Latest(bs, id) = 0
    PROVE  Named(bs, id) = {}
<1>1. DOMAIN bs = 1..Len(bs) /\ Len(bs) \in Nat
    BY DEF IsSeq
<1>2. Named(bs, id) \in SUBSET (1..Len(bs))
    BY <1>1 DEF Named
<1>3. SUFFICES ASSUME Named(bs, id) # {} PROVE FALSE
    OBVIOUS
<1>4. Max(Named(bs, id)) \in Named(bs, id)
  <2>1. Named(bs, id) \in SUBSET (0..Len(bs))
    BY <1>1, <1>2
  <2>2. QED BY <2>1, <1>1, <1>3, MaxIsGreatest
<1>5. Max(Named(bs, id)) = 0
    BY <1>3 DEF Latest
<1>6. QED BY <1>2, <1>4, <1>5

\* What AddBox leaves and what it adds.
LEMMA AddedBox ==
    ASSUME NEW bs, NEW id, IsSeq(bs)
    PROVE  /\ DOMAIN bs \subseteq DOMAIN AddBox(bs, id)
           /\ \A i \in DOMAIN bs : AddBox(bs, id)[i] = bs[i]
           /\ \A i \in DOMAIN AddBox(bs, id) :
                 i \in DOMAIN bs \/ (i = Len(bs) + 1 /\ AddBox(bs, id)[i] = Box(id))
<1>1. DOMAIN bs = 1..Len(bs) /\ Len(bs) \in Nat
    BY DEF IsSeq
<1>2. CASE Len(bs) < MaxBoxes
  <2> DEFINE bt == Append(bs, Box(id))
  <2>1. PICK S : bs \in Seq(S)
    BY DEF IsSeq
  <2>2. bs \in Seq(S \cup {Box(id)}) /\ Box(id) \in S \cup {Box(id)}
    BY <2>1
  <2>3. /\ DOMAIN bt = 1..(Len(bs) + 1)
        /\ \A i \in 1..Len(bs) : bt[i] = bs[i]
        /\ bt[Len(bs) + 1] = Box(id)
    BY <2>2
  <2>4. AddBox(bs, id) = bt
    BY <1>2 DEF AddBox
  <2> HIDE DEF bt
  <2>5. \A i \in 1..(Len(bs) + 1) : i \in 1..Len(bs) \/ i = Len(bs) + 1
    BY <1>1
  <2>6. QED BY <1>1, <2>3, <2>4, <2>5
<1>3. CASE ~(Len(bs) < MaxBoxes)
    BY <1>3 DEF AddBox
<1>4. QED BY <1>2, <1>3

LEMMA BoxFields ==
    ASSUME NEW id
    PROVE  DOMAIN Box(id) = {"name", "members"} /\ Box(id).name = id
BY DEF Box

LEMMA ShapeKept ==
    ASSUME NEW bs, NEW id, IsSeq(bs), Shaped(bs)
    PROVE  Shaped(AddBox(bs, id))
<1> DEFINE bt == AddBox(bs, id)
<1>1. /\ \A i \in DOMAIN bs : bt[i] = bs[i]
      /\ \A i \in DOMAIN bt : i \in DOMAIN bs \/ bt[i] = Box(id)
    BY AddedBox
<1>2. DOMAIN Box(id) = {"name", "members"}
    BY BoxFields
<1> HIDE DEF bt
<1>3. Shaped(bt)
    BY <1>1, <1>2 DEF Shaped
<1>4. QED BY <1>3 DEF bt

\* A name that has no box gets one.
LEMMA FreshBox ==
    ASSUME NEW bs, NEW id, IsSeq(bs), Distinct(bs), Named(bs, id) = {}
    PROVE  Distinct(AddBox(bs, id))
<1> DEFINE bt == AddBox(bs, id)
<1>1. /\ \A i \in DOMAIN bs : bt[i] = bs[i]
      /\ \A i \in DOMAIN bt : i \in DOMAIN bs \/ (i = Len(bs) + 1 /\ bt[i] = Box(id))
    BY AddedBox
<1>2. Box(id).name = id
    BY BoxFields
<1>3. \A i \in DOMAIN bs : bs[i].name # id
    BY DEF Named
<1> HIDE DEF bt
<1>4. Distinct(bt)
    BY <1>1, <1>2, <1>3 DEF Distinct
<1>5. QED BY <1>4 DEF bt

\* A box for another name does not give this one a box.
LEMMA OtherBox ==
    ASSUME NEW bs, NEW id, NEW other, IsSeq(bs), Named(bs, id) = {}, other # id
    PROVE  Named(AddBox(bs, other), id) = {}
<1> DEFINE bt == AddBox(bs, other)
<1>1. /\ \A i \in DOMAIN bs : bt[i] = bs[i]
      /\ \A i \in DOMAIN bt : i \in DOMAIN bs \/ bt[i] = Box(other)
    BY AddedBox
<1>2. Box(other).name = other
    BY BoxFields
<1>3. \A i \in DOMAIN bs : bs[i].name # id
    BY DEF Named
<1> HIDE DEF bt
<1>4. Named(bt, id) = {}
    BY <1>1, <1>2, <1>3 DEF Named
<1>5. QED BY <1>4 DEF bt

LEMMA MentionedLater ==
    ASSUME NEW n \in Nat \ {0}
    PROVE  /\ Mentioned(n) \subseteq Mentioned(n + 1)
           /\ Range(diagram.lines[n].names) \subseteq Mentioned(n + 1)
<1>1. 1..(n - 1) \subseteq 1..((n + 1) - 1) /\ n \in 1..((n + 1) - 1)
    OBVIOUS
<1>2. QED BY <1>1 DEF Mentioned

LEMMA UseKept ==
    ASSUME NEW bs, NEW id, IsSeq(bs), NEW n, Used(bs, n), id \in Mentioned(n)
    PROVE  Used(AddBox(bs, id), n)
<1> DEFINE bt == AddBox(bs, id)
<1>1. /\ \A i \in DOMAIN bs : bt[i] = bs[i]
      /\ \A i \in DOMAIN bt : i \in DOMAIN bs \/ bt[i] = Box(id)
    BY AddedBox
<1>2. Box(id).name = id
    BY BoxFields
<1> HIDE DEF bt
<1>3. Used(bt, n)
    BY <1>1, <1>2 DEF Used
<1>4. QED BY <1>3 DEF bt

\* Both ends of a link, with n the place behind the line.
LEMMA LinkLineOwn ==
    ASSUME ReadInv, LinkLine, Shaped(boxes)
    PROVE  /\ Shaped(boxes')
           /\ Distinct(boxes) /\ Names[1] # Names[2] => Distinct(boxes')
           /\ \A n : Used(boxes, n) /\ Names[1] \in Mentioned(n) /\ Names[2] \in Mentioned(n)
                        => Used(boxes', n)
<1> DEFINE from == Latest(boxes, Names[1])
           to   == Latest(boxes, Names[2])
           bs   == IF from = 0 THEN AddBox(boxes, Names[1]) ELSE boxes
           bt   == IF to = 0 THEN AddBox(bs, Names[2]) ELSE bs
<1>1. boxes' = bt
    BY DEF LinkLine
<1>2. IsSeq(boxes) /\ Len(boxes) <= MaxBoxes
    BY DEF ReadInv
<1>3. from = 0 => Named(boxes, Names[1]) = {}
    BY <1>2, LatestNone
<1>4. to = 0 => Named(boxes, Names[2]) = {}
    BY <1>2, LatestNone
<1> HIDE DEF from, to
<1>5. /\ IsSeq(bs) /\ Shaped(bs)
      /\ Distinct(boxes) => Distinct(bs)
      /\ \A n : Used(boxes, n) /\ Names[1] \in Mentioned(n) => Used(bs, n)
      /\ to = 0 /\ Names[1] # Names[2] => Named(bs, Names[2]) = {}
  <2>1. CASE from = 0
    <3> DEFINE ba == AddBox(boxes, Names[1])
    <3>1. bs = ba
        BY <2>1
    <3>2. IsSeq(ba)
        BY <1>2, BoxesGrow
    <3>3. Shaped(ba)
        BY <1>2, ShapeKept
    <3>4. Distinct(boxes) => Distinct(ba)
        BY <1>2, <1>3, <2>1, FreshBox
    <3>5. \A n : Used(boxes, n) /\ Names[1] \in Mentioned(n) => Used(ba, n)
        BY <1>2, UseKept
    <3>6. to = 0 /\ Names[1] # Names[2] => Named(ba, Names[2]) = {}
        BY <1>2, <1>4, OtherBox
    <3> HIDE DEF ba
    <3>7. QED BY <3>1, <3>2, <3>3, <3>4, <3>5, <3>6
  <2>2. CASE from # 0
    BY <1>2, <1>4, <2>2
  <2>3. QED BY <2>1, <2>2
<1> HIDE DEF bs
<1>6. CASE to = 0
  <2> DEFINE ba == AddBox(bs, Names[2])
  <2>1. boxes' = ba
    BY <1>1, <1>6
  <2>2. Shaped(ba)
    BY <1>5, ShapeKept
  <2>3. Distinct(boxes) /\ Names[1] # Names[2] => Distinct(ba)
    BY <1>5, <1>6, FreshBox
  <2>4. \A n : Used(bs, n) /\ Names[2] \in Mentioned(n) => Used(ba, n)
    BY <1>5, UseKept
  <2> HIDE DEF ba
  <2>5. QED BY <1>5, <2>1, <2>2, <2>3, <2>4
<1>7. CASE to # 0
  <2>1. boxes' = bs
    BY <1>1, <1>7
  <2>2. QED BY <1>5, <2>1
<1>8. QED BY <1>6, <1>7

\* A box that is added, or not.
LEMMA BoxLineOwn ==
    ASSUME ReadInv, Shaped(boxes), NEW id, boxes' = boxes \/ boxes' = AddBox(boxes, id)
    PROVE  /\ Shaped(boxes')
           /\ Distinct(boxes) /\ (boxes' # boxes => Named(boxes, id) = {}) => Distinct(boxes')
           /\ \A n : Used(boxes, n) /\ id \in Mentioned(n) => Used(boxes', n)
<1>1. IsSeq(boxes)
    BY DEF ReadInv
<1>2. CASE boxes' = boxes
    BY <1>2
<1>3. CASE boxes' # boxes /\ boxes' = AddBox(boxes, id)
  <2> DEFINE ba == AddBox(boxes, id)
  <2>1. Shaped(ba)
    BY <1>1, ShapeKept
  <2>2. Distinct(boxes) /\ Named(boxes, id) = {} => Distinct(ba)
    BY <1>1, FreshBox
  <2>3. \A n : Used(boxes, n) /\ id \in Mentioned(n) => Used(ba, n)
    BY <1>1, UseKept
  <2>4. boxes' = ba
    BY <1>3
  <2> HIDE DEF ba
  <2>5. QED BY <1>3, <2>1, <2>2, <2>3, <2>4
<1>4. QED BY <1>2, <1>3

\* The line at hand, and the names on it.
LEMMA LineAtHand ==
    ASSUME OwnBoxInv, diagram.kind # "pie", at <= Len(diagram.lines)
    PROVE  /\ at \in DOMAIN diagram.lines
           /\ Text.is = "link" => Names[1] \in Range(Names) /\ Names[2] \in Range(Names)
           /\ Text.is = "box" => Names[1] \in Range(Names)
<1>1. diagram \in Diagrams /\ at \in Nat \ {0}
    BY DEF OwnBoxInv
<1>2. diagram.lines \in Seq(Range(diagram.lines))
    BY <1>1, DiagramsAssumption
<1>3. at \in DOMAIN diagram.lines
    BY <1>1, <1>2
<1>4. /\ Names \in Seq(Range(Names))
      /\ Text.is = "link" => Len(Names) = 2
      /\ Text.is \in {"box", "opening"} => Len(Names) = 1
    BY <1>1, <1>3, DiagramsAssumption DEF Text, Names
<1>5. DOMAIN Names = 1..Len(Names)
    BY <1>4
<1>6. \A k \in DOMAIN Names : Names[k] \in Range(Names)
    BY DEF Range
<1>7. QED BY <1>3, <1>4, <1>5, <1>6

LEMMA FlowLineOwn ==
    ASSUME ReadInv, OwnBoxInv, ReadFlowLine
    PROVE  OwnBoxInv'
<1> DEFINE id == IF mention = 0 THEN LeftOfCut ELSE Names[mention]
<1>1. /\ UNCHANGED diagram /\ diagram.kind = "flowchart"
      /\ boxes' = FlowNode(boxes, id)
      /\ at' \in {at, at + 1}
    BY DEF ReadFlowLine, Reads, EndOfLine
<1> HIDE DEF id
<1>2. (boxes' = boxes \/ boxes' = AddBox(boxes, id)) /\ (boxes' # boxes => Named(boxes, id) = {})
    BY <1>1 DEF FlowNode
<1>3. Shaped(boxes') /\ (Distinct(boxes) => Distinct(boxes'))
    BY <1>2, BoxLineOwn DEF OwnBoxInv
<1>4. at' \in Nat \ {0}
    BY <1>1 DEF OwnBoxInv
<1>5. Unambiguous' <=> Unambiguous
    BY <1>1 DEF Unambiguous
<1>6. QED BY <1>1, <1>3, <1>4, <1>5 DEF OwnBoxInv

LEMMA SequenceLineOwn ==
    ASSUME ReadInv, OwnBoxInv, ReadSequenceLine
    PROVE  OwnBoxInv'
<1>1. /\ UNCHANGED diagram /\ diagram.kind = "sequence" /\ at <= Len(diagram.lines)
      /\ at' = at + 1 /\ at \in Nat \ {0}
    BY DEF ReadSequenceLine, Reads, EndOfLine, OwnBoxInv
<1>2. Mentioned(at) \subseteq Mentioned(at + 1) /\ Range(Names) \subseteq Mentioned(at + 1)
    BY <1>1, MentionedLater DEF Names, Text
<1>3. Used(boxes, at + 1) /\ Shaped(boxes) /\ Used(boxes, at)
    BY <1>1, <1>2 DEF OwnBoxInv, Used
<1>4. /\ at \in DOMAIN diagram.lines
      /\ Text.is = "link" => Names[1] \in Mentioned(at + 1) /\ Names[2] \in Mentioned(at + 1)
      /\ Text.is = "box" => Names[1] \in Mentioned(at + 1)
    BY <1>1, <1>2, LineAtHand
<1>5. Shaped(boxes') /\ Used(boxes', at + 1) /\ (Unambiguous => Distinct(boxes'))
  <2>1. CASE Text.is = "link" /\ LinkLine
    <3>1. Unambiguous => Names[1] # Names[2]
        BY <1>4, <2>1 DEF Unambiguous, Names, Text
    <3>2. QED BY <1>3, <1>4, <2>1, <3>1, LinkLineOwn DEF OwnBoxInv
  <2>2. CASE Text.is = "box" /\ (boxes' = boxes \/ boxes' = AddBox(boxes, Names[1]))
    <3>1. ASSUME Unambiguous PROVE Named(boxes, Names[1]) = {}
      <4>1. \A j \in 1..(at - 1) : \A m \in Range(diagram.lines[j].names) : m # Names[1]
        BY <1>1, <1>4, <2>2, <3>1 DEF Unambiguous, Names, Text
      <4>2. Names[1] \notin Mentioned(at)
        BY <4>1 DEF Mentioned
      <4>3. QED BY <1>3, <4>2 DEF Used, Named
    <3>2. QED BY <1>3, <1>4, <2>2, <3>1, BoxLineOwn DEF OwnBoxInv
  <2>3. CASE boxes' = boxes
    BY <1>3, <2>3 DEF OwnBoxInv
  <2>4. QED BY <2>1, <2>2, <2>3 DEF ReadSequenceLine
<1>6. Unambiguous' <=> Unambiguous
    BY <1>1 DEF Unambiguous
<1>7. Used(boxes, at)' <=> Used(boxes', at + 1)
    BY <1>1 DEF Used, Mentioned
<1>8. QED BY <1>1, <1>5, <1>6, <1>7 DEF OwnBoxInv

LEMMA ClassLineOwn ==
    ASSUME ReadInv, OwnBoxInv, ReadClassLine
    PROVE  OwnBoxInv'
<1>1. /\ UNCHANGED diagram /\ diagram.kind = "class" /\ at <= Len(diagram.lines)
      /\ at' = at + 1 /\ at \in Nat \ {0}
    BY DEF ReadClassLine, Reads, EndOfLine, OwnBoxInv
<1>2. at \in DOMAIN diagram.lines
    BY <1>1, LineAtHand
<1>3. Shaped(boxes') /\ (Unambiguous => Distinct(boxes'))
  <2>1. CASE Text.is = "link" /\ LinkLine
    <3>1. Unambiguous => Names[1] # Names[2]
        BY <1>2, <2>1 DEF Unambiguous, Names, Text
    <3>2. QED BY <2>1, <3>1, LinkLineOwn DEF OwnBoxInv
  <2>2. CASE boxes' = IF Named(boxes, Names[1]) = {} THEN AddBox(boxes, Names[1]) ELSE boxes
    BY <2>2, BoxLineOwn DEF OwnBoxInv
  <2>3. CASE boxes' = [boxes EXCEPT ![open].members = @ + 1]
    <3>1. DOMAIN boxes' = DOMAIN boxes
        BY <2>3
    <3>2. \A i \in DOMAIN boxes : DOMAIN boxes[i] = {"name", "members"}
        BY DEF OwnBoxInv, Shaped
    <3>3. ASSUME NEW i \in DOMAIN boxes
          PROVE  DOMAIN boxes'[i] = {"name", "members"} /\ boxes'[i].name = boxes[i].name
      <4>1. CASE i = open
        <5>1. boxes'[i] = [boxes[i] EXCEPT !.members = @ + 1]
            BY <2>3, <4>1
        <5>2. QED BY <3>2, <5>1
      <4>2. CASE i # open
        BY <2>3, <3>2, <4>2
      <4>3. QED BY <4>1, <4>2
    <3>4. QED BY <3>1, <3>3 DEF OwnBoxInv, Shaped, Distinct
  <2>4. CASE boxes' = boxes
    BY <2>4 DEF OwnBoxInv
  <2>5. QED BY <2>1, <2>2, <2>3, <2>4 DEF ReadClassLine
<1>4. Unambiguous' <=> Unambiguous
    BY <1>1 DEF Unambiguous
<1>5. QED BY <1>1, <1>3, <1>4 DEF OwnBoxInv

LEMMA SliceOwn ==
    ASSUME ReadInv, OwnBoxInv, ReadSlice
    PROVE  OwnBoxInv'
<1>1. /\ UNCHANGED diagram /\ diagram.kind = "pie" /\ at' = at + 1
      /\ boxes' = boxes \/ boxes' = AddBox(boxes, Names[1])
    BY DEF ReadSlice, Reads, EndOfLine
<1>2. Shaped(boxes')
    BY <1>1, BoxLineOwn DEF OwnBoxInv
<1>3. QED BY <1>1, <1>2 DEF OwnBoxInv, Unambiguous

LEMMA OwnBoxStep == ChartInv /\ OwnBoxInv /\ [MermaidNext]_chart => OwnBoxInv'
<1> SUFFICES ASSUME ChartInv, OwnBoxInv, [MermaidNext]_chart PROVE OwnBoxInv'
    OBVIOUS
<1>1. ReadInv
    BY DEF ChartInv
<1>2. CASE ReadFlowLine
    BY <1>1, <1>2, FlowLineOwn
<1>3. CASE ReadSequenceLine
    BY <1>1, <1>3, SequenceLineOwn
<1>4. CASE ReadClassLine
    BY <1>1, <1>4, ClassLineOwn
<1>5. CASE ReadSlice
    BY <1>1, <1>5, SliceOwn
<1>6. CASE UNCHANGED <<diagram, at, boxes>>
  <2>1. Unambiguous' <=> Unambiguous
    BY <1>6 DEF Unambiguous
  <2>2. Used(boxes, at)' <=> Used(boxes, at)
    BY <1>6 DEF Used, Mentioned
  <2>3. (Shaped(boxes)' <=> Shaped(boxes)) /\ (Distinct(boxes)' <=> Distinct(boxes))
    BY <1>6 DEF Shaped, Distinct
  <2>4. QED BY <1>6, <2>1, <2>2, <2>3, Zenon DEF OwnBoxInv
<1>7. QED
    BY <1>2, <1>3, <1>4, <1>5, <1>6 DEF MermaidNext, EndSource, QueueRoot, StartRanks, TakeBox,
       FollowLink, Draw, chart, reading

-----------------------------------------------------------------------------
(***************************************************************************)
(* The types, which lean on ChartInv: what is left are the counters of the *)
(* readers, and what the arrays hold when the diagram is drawn.            *)
(***************************************************************************)
\* A class has no more members than fit.
Filled(bs) == \A i \in DOMAIN bs : bs[i].members \in 0..MaxMembers

TypedInv ==
    /\ MermaidTypeOK
    /\ diagram.lines \in Seq(Range(diagram.lines))
    /\ \A k \in DOMAIN diagram.lines : diagram.lines[k].arrows \in Seq(Arrows)

LEMMA FillKept ==
    ASSUME NEW bs, NEW id, IsSeq(bs), Filled(bs)
    PROVE  Filled(AddBox(bs, id))
<1> DEFINE bt == AddBox(bs, id)
<1>1. /\ \A i \in DOMAIN bs : bt[i] = bs[i]
      /\ \A i \in DOMAIN bt : i \in DOMAIN bs \/ bt[i] = Box(id)
    BY AddedBox
<1>2. Box(id).members \in 0..MaxMembers
    BY BoundsAssumption DEF Box
<1> HIDE DEF bt
<1>3. Filled(bt)
    BY <1>1, <1>2 DEF Filled
<1>4. QED BY <1>3 DEF bt

LEMMA LinksFit ==
    ASSUME NEW S, NEW ls \in Seq(S \X S), Len(ls) <= MaxLinks, NEW a, NEW b
    PROVE  Len(AddLink(ls, a, b)) <= MaxLinks
<1>1. CASE a > 0 /\ b > 0 /\ Len(ls) < MaxLinks
  <2>1. ls \in Seq((S \X S) \cup {<<a, b>>}) /\ <<a, b>> \in (S \X S) \cup {<<a, b>>}
    OBVIOUS
  <2>2. Len(Append(ls, <<a, b>>)) = Len(ls) + 1 /\ Len(ls) \in Nat
    BY <2>1
  <2>3. QED BY <1>1, <2>2, BoundsAssumption DEF AddLink
<1>2. CASE ~(a > 0 /\ b > 0 /\ Len(ls) < MaxLinks)
    BY <1>2 DEF AddLink
<1>3. QED BY <1>1, <1>2

\* Boxes that are only added, up to two of them.
LEMMA Adds ==
    ASSUME NEW bs, NEW id, IsSeq(bs), Len(bs) <= MaxBoxes, Filled(bs), NEW bt \in {bs, AddBox(bs, id)}
    PROVE  IsSeq(bt) /\ Len(bs) <= Len(bt) /\ Len(bt) <= MaxBoxes /\ Filled(bt) /\ Len(bt) \in Nat
<1>1. IsSeq(bs) /\ Len(bs) \in Nat
    BY DEF IsSeq
<1>2. CASE bt = bs
    BY <1>1, <1>2
<1>3. CASE bt = AddBox(bs, id)
  <2>1. IsSeq(bt) /\ Len(bt) \in Len(bs)..MaxBoxes
    BY <1>3, BoxesGrow
  <2>2. QED BY <1>1, <1>3, <2>1, FillKept, BoundsAssumption
<1>4. QED BY <1>2, <1>3

LEMMA LinkLineTyped ==
    ASSUME ReadInv, Filled(boxes), Len(links) <= MaxLinks, LinkLine
    PROVE  Filled(boxes') /\ Len(boxes) <= Len(boxes') /\ Len(links') <= MaxLinks
<1> DEFINE from == Latest(boxes, Names[1])
           to   == Latest(boxes, Names[2])
           bs   == IF from = 0 THEN AddBox(boxes, Names[1]) ELSE boxes
           a    == IF from = 0 /\ bs # boxes THEN Len(bs) ELSE from
           bt   == IF to = 0 THEN AddBox(bs, Names[2]) ELSE bs
           b    == IF to = 0 /\ bt # bs THEN Len(bt) ELSE to
<1>1. boxes' = bt /\ links' = AddLink(links, a, b)
    BY DEF LinkLine
<1>2. bs \in {boxes, AddBox(boxes, Names[1])} /\ bt \in {bs, AddBox(bs, Names[2])}
    OBVIOUS
<1> HIDE DEF from, to, bs, a, bt, b
<1>3. IsSeq(bs) /\ Len(boxes) <= Len(bs) /\ Len(bs) <= MaxBoxes /\ Filled(bs) /\ Len(bs) \in Nat
    BY <1>2, Adds DEF ReadInv
<1>4. Len(bs) <= Len(bt) /\ Filled(bt) /\ Len(bt) \in Nat
    BY <1>2, <1>3, Adds
<1>5. Len(boxes) \in Nat /\ links \in Seq((1..Len(boxes)) \X (1..Len(boxes)))
    BY DEF ReadInv, LinksInv, IsSeq
<1>6. Len(AddLink(links, a, b)) <= MaxLinks
    BY <1>5, LinksFit
<1>7. QED BY <1>1, <1>3, <1>4, <1>5, <1>6

\* What the four readers do to the arrays and to the class at hand.
LEMMA ReadersTyped ==
    ASSUME ReadInv, Shaped(boxes), Filled(boxes), Len(links) <= MaxLinks, open \in 0..Len(boxes),
           ReadFlowLine \/ ReadSequenceLine \/ ReadClassLine \/ ReadSlice
    PROVE  Filled(boxes') /\ Len(links') <= MaxLinks /\ open' \in 0..Len(boxes')
<1>1. /\ IsSeq(boxes) /\ Len(boxes) \in Nat /\ Len(boxes) <= MaxBoxes
      /\ links \in Seq((1..Len(boxes)) \X (1..Len(boxes)))
    BY DEF ReadInv, LinksInv, IsSeq
<1> DEFINE Grown == Filled(boxes') /\ Len(boxes) <= Len(boxes') /\ IsSeq(boxes')
<1>2. ASSUME NEW id, boxes' = boxes \/ boxes' = AddBox(boxes, id)
      PROVE  Grown
  <2>1. boxes' \in {boxes, AddBox(boxes, id)}
    BY <1>2
  <2> DEFINE bt == boxes'
  <2>2. bt \in {boxes, AddBox(boxes, id)}
    BY <2>1
  <2> HIDE DEF bt
  <2>3. IsSeq(bt) /\ Len(boxes) <= Len(bt) /\ Filled(bt)
    BY <1>1, <2>2, Adds
  <2>4. QED BY <2>3 DEF bt
<1>3. ASSUME Grown, open' = open PROVE open' \in 0..Len(boxes')
  <2>1. Len(boxes') \in Nat
    BY <1>3 DEF IsSeq
  <2>2. QED BY <1>1, <1>3, <2>1
<1>4. CASE ReadFlowLine
  <2> DEFINE id == IF mention = 0 THEN LeftOfCut ELSE Names[mention]
  <2>1. /\ boxes' = FlowNode(boxes, id) /\ open' = open
        /\ links' = IF mention = 0 THEN links ELSE AddLink(links, src, First(boxes', id))
    BY <1>4 DEF ReadFlowLine
  <2> HIDE DEF id
  <2>2. boxes' = boxes \/ boxes' = AddBox(boxes, id)
    BY <2>1 DEF FlowNode
  <2>3. Grown
    BY <1>2, <2>2
  <2> DEFINE f == First(boxes', id)
  <2>4. links' = links \/ links' = AddLink(links, src, f)
    BY <2>1
  <2> HIDE DEF f
  <2>5. Len(AddLink(links, src, f)) <= MaxLinks
    BY <1>1, LinksFit
  <2>6. QED BY <1>3, <2>1, <2>3, <2>4, <2>5
<1>5. CASE LinkLine /\ open' = open
  <2>1. Filled(boxes') /\ Len(boxes) <= Len(boxes') /\ Len(links') <= MaxLinks
    BY <1>5, LinkLineTyped
  <2>2. IsSeq(boxes')
    BY <1>5, LinkLineInv
  <2>3. QED BY <1>3, <1>5, <2>1, <2>2
<1>6. CASE /\ boxes' = boxes \/ boxes' = AddBox(boxes, Names[1])
           /\ links' = links
           /\ open' \in {0, open, First(boxes', Names[1])}
  <2>1. Grown
    BY <1>2, <1>6
  <2>2. Len(boxes') \in Nat /\ IsSeq(boxes')
    BY <2>1 DEF IsSeq
  <2> DEFINE bt == boxes'
  <2>3. IsSeq(bt) /\ open' \in {0, open, First(bt, Names[1])}
    BY <1>6, <2>2
  <2> HIDE DEF bt
  <2>4. First(bt, Names[1]) \in 0..Len(bt)
    BY <2>3, Lookups
  <2>5. open' \in 0..Len(bt)
    BY <1>1, <2>1, <2>2, <2>3, <2>4 DEF bt
  <2>6. QED BY <1>6, <2>1, <2>5 DEF bt
<1>7. CASE /\ open > 0 /\ boxes[open].members < MaxMembers
           /\ boxes' = [boxes EXCEPT ![open].members = @ + 1]
           /\ links' = links /\ open' = open
  <2>1. DOMAIN boxes = 1..Len(boxes) /\ open \in 1..Len(boxes)
    BY <1>1, <1>7 DEF IsSeq
  <2>2. DOMAIN boxes' = DOMAIN boxes
    BY <1>7
  <2>3. Len(boxes') = Len(boxes)
    <3>1. PICK box : boxes' = [boxes EXCEPT ![open] = box]
        BY <1>7
    <3>2. QED BY <1>1, <3>1, ExceptIsSeq
  <2>4. ASSUME NEW k \in DOMAIN boxes PROVE boxes'[k].members \in 0..MaxMembers
    <3>1. DOMAIN boxes[k] = {"name", "members"} /\ boxes[k].members \in 0..MaxMembers
        BY DEF Shaped, Filled
    <3>2. CASE k = open
      <4>1. boxes'[k] = [boxes[k] EXCEPT !.members = @ + 1]
        BY <1>7, <3>2
      <4>2. boxes'[k].members = boxes[k].members + 1
        BY <3>1, <4>1
      <4>3. QED BY <1>7, <3>1, <3>2, <4>2, BoundsAssumption
    <3>3. CASE k # open
        BY <1>7, <3>1, <3>3
    <3>4. QED BY <3>2, <3>3
  <2>5. QED BY <1>7, <2>2, <2>3, <2>4 DEF Filled
<1>8. CASE ReadSequenceLine
    BY <1>5, <1>6, <1>8 DEF ReadSequenceLine
<1>9. CASE ReadClassLine
    BY <1>5, <1>6, <1>7, <1>9 DEF ReadClassLine
<1>10. CASE ReadSlice
    BY <1>6, <1>10 DEF ReadSlice
<1>11. QED BY <1>4, <1>8, <1>9, <1>10

\* The place in the source.
LEMMA PlaceTyped ==
    ASSUME TypedInv, ReadFlowLine \/ ReadSequenceLine \/ ReadClassLine \/ ReadSlice
    PROVE  at' \in 1..(Len(diagram.lines) + 1) /\ mention' \in Nat
<1>1. at \in 1..(Len(diagram.lines) + 1) /\ at <= Len(diagram.lines) /\ Len(diagram.lines) \in Nat
    BY DEF TypedInv, MermaidTypeOK, ReadFlowLine, ReadSequenceLine, ReadClassLine, ReadSlice, Reads
<1>2. mention \in Nat
    BY DEF TypedInv, MermaidTypeOK
<1>3. \/ at' = at + 1 /\ mention' = 0
      \/ at' = at /\ mention' = (IF mention = 0 THEN FirstCut + 1 ELSE mention + 1)
    BY DEF EndOfLine, ReadFlowLine, ReadSequenceLine, ReadClassLine, ReadSlice
<1>4. FirstCut \in Nat
  <2> DEFINE S == {k \in DOMAIN Text.arrows : Text.arrows[k] = "-->"}
  <2>1. at \in DOMAIN diagram.lines
    BY <1>1 DEF TypedInv
  <2>2. Text.arrows \in Seq(Arrows)
    BY <2>1 DEF TypedInv, Text
  <2>3. S \in SUBSET Nat
    BY <2>2
  <2>4. FirstCut = IF S = {} THEN 1 ELSE Min(S)
    BY DEF FirstCut
  <2> HIDE DEF S
  <2>5. CASE S = {}
    BY <2>4, <2>5
  <2>6. CASE S # {}
    <3>1. Min(S) \in S
        BY <2>3, <2>6, MinIsLeast
    <3>2. QED BY <2>3, <2>4, <2>6, <3>1
  <2>7. QED BY <2>5, <2>6
<1>5. QED BY <1>1, <1>2, <1>3, <1>4

\* What the ranks are while they are given.
RanksTyped ==
    /\ depth \in Seq(Int) /\ Len(depth) \in {0, Len(boxes)}
    /\ queue \in Seq(DOMAIN boxes) /\ Len(queue) <= MaxBoxes
    /\ head \in 0..Len(queue)
    /\ edge \in 0..(IF stage = "roots" THEN Len(boxes) ELSE Len(links))
    /\ deepest \in Nat

LEMMA RanksType == ChartInv /\ stage # "drawn" => RanksTyped
<1> SUFFICES ASSUME ChartInv, stage # "drawn" PROVE RanksTyped
    OBVIOUS
<1>1. /\ Len(boxes) \in Nat /\ DOMAIN boxes = 1..Len(boxes) /\ Len(links) \in Nat
    BY LinkEnds DEF ChartInv
<1>2. CASE stage = "read"
  <2>1. <<>> \in Seq(Int) /\ <<>> \in Seq(DOMAIN boxes) /\ Len(<<>>) = 0
    OBVIOUS
  <2>2. depth = <<>> /\ queue = <<>> /\ head = 0 /\ edge = 0 /\ deepest = 0
    BY <1>2 DEF ChartInv
  <2>3. QED BY <1>1, <1>2, <2>1, <2>2, BoundsAssumption DEF RanksTyped
<1>3. CASE stage \in {"roots", "rank"}
  <2>1. /\ depth \in [1..Len(boxes) -> Int]
        /\ queue \in Seq(1..Len(boxes)) /\ Len(queue) <= MaxBoxes
        /\ head \in 0..Len(queue) /\ edge \in Nat /\ deepest \in 0..MaxDepth
    BY <1>3 DEF ChartInv, QueueInv
  <2>2. depth \in Seq(Int) /\ Len(depth) = Len(boxes)
    BY <1>1, <2>1
  <2>3. edge \in 0..(IF stage = "roots" THEN Len(boxes) ELSE Len(links))
    BY <1>1, <1>3, <2>1 DEF ChartInv, RootsInv, RankInv
  <2>4. deepest \in Nat
    BY <2>1, BoundsAssumption
  <2>5. QED BY <1>1, <2>1, <2>2, <2>3, <2>4 DEF RanksTyped
<1>4. QED BY <1>2, <1>3 DEF ChartInv

LEMMA TypedStep == ChartInv /\ OwnBoxInv /\ TypedInv /\ [MermaidNext]_chart => TypedInv'
<1> SUFFICES ASSUME ChartInv, OwnBoxInv, TypedInv, [MermaidNext]_chart PROVE TypedInv'
    OBVIOUS
<1>1. UNCHANGED diagram
    BY DEF MermaidNext, ReadFlowLine, ReadSequenceLine, ReadClassLine, ReadSlice, Reads, EndSource,
       QueueRoot, StartRanks, TakeBox, FollowLink, Draw, chart, reading
<1>2. ChartInv'
    BY StepInv
<1>3. /\ at' \in 1..(Len(diagram.lines) + 1) /\ mention' \in Nat
      /\ Filled(boxes') /\ Len(links') <= MaxLinks /\ open' \in 0..Len(boxes')
  <2>1. CASE ReadFlowLine \/ ReadSequenceLine \/ ReadClassLine \/ ReadSlice
    <3>1. /\ ReadInv /\ Shaped(boxes) /\ Filled(boxes)
          /\ Len(links) <= MaxLinks /\ open \in 0..Len(boxes)
        BY DEF ChartInv, OwnBoxInv, TypedInv, MermaidTypeOK, Filled
    <3>2. QED BY <2>1, <3>1, ReadersTyped, PlaceTyped
  <2>2. CASE UNCHANGED reading
    BY <2>2 DEF reading, TypedInv, MermaidTypeOK, Filled
  <2>3. QED BY <2>1, <2>2 DEF MermaidNext, EndSource, QueueRoot, StartRanks, TakeBox, FollowLink, Draw, chart
<1>4. RanksTyped'
  <2>1. CASE stage' # "drawn"
    <3>1. (ChartInv /\ stage # "drawn" => RanksTyped)'
        BY RanksType, PTL
    <3>2. QED BY <1>2, <2>1, <3>1
  <2>2. CASE stage' = "drawn" /\ stage = "drawn"
    <3>1. UNCHANGED chart
        BY <2>2 DEF MermaidNext, ReadFlowLine, ReadSequenceLine, ReadClassLine, ReadSlice, Reads,
           EndSource, QueueRoot, StartRanks, TakeBox, FollowLink, Draw
    <3>2. RanksTyped
        BY DEF TypedInv, MermaidTypeOK, RanksTyped
    <3>3. QED BY <3>1, <3>2 DEF RanksTyped, chart, reading, ranking
  <2>3. CASE stage' = "drawn" /\ stage # "drawn"
    <3>1. RanksTyped /\ (EndSource \/ Draw)
      <4>1. RanksTyped
        BY <2>3, RanksType
      <4>2. stage' # stage
        BY <2>3
      <4>3. ~(ReadFlowLine \/ ReadSequenceLine \/ ReadClassLine \/ ReadSlice)
        BY <4>2 DEF ReadFlowLine, ReadSequenceLine, ReadClassLine, ReadSlice, Reads
      <4>4. ~(QueueRoot \/ StartRanks \/ TakeBox \/ FollowLink)
        BY <2>3, <4>2 DEF QueueRoot, StartRanks, TakeBox, FollowLink
      <4>5. EndSource \/ Draw
        BY <4>2, <4>3, <4>4 DEF MermaidNext, chart
      <4>6. QED BY <4>1, <4>5
    <3>2. CASE EndSource
      <4>1. UNCHANGED <<boxes, links, depth, queue, head, edge, deepest>> /\ stage = "read"
        BY <2>3, <3>2 DEF EndSource, reading
      <4>2. edge = 0 /\ Len(links) \in Nat
        BY <4>1, LinkEnds DEF ChartInv
      <4>3. QED BY <2>3, <3>1, <4>1, <4>2 DEF RanksTyped
    <3>3. CASE Draw
      <4>1. /\ UNCHANGED <<boxes, links, queue, head, edge, deepest>> /\ stage = "rank"
            /\ depth' = [k \in DOMAIN depth |-> IF depth[k] = -1 THEN deepest + 1 ELSE depth[k]]
        BY <3>3 DEF Draw, reading
      <4>2. depth \in Seq(Int) /\ Len(depth) \in {0, Len(boxes)} /\ deepest \in Nat
        BY <3>1 DEF RanksTyped
      <4>3. depth' \in Seq(Int) /\ Len(depth') = Len(depth)
        <5>1. depth \in [1..Len(depth) -> Int] /\ Len(depth) \in Nat
            BY <4>2
        <5> DEFINE d == depth'
        <5>2. d \in [1..Len(depth) -> Int]
            BY <4>1, <4>2, <5>1
        <5> HIDE DEF d
        <5>3. d \in Seq(Int) /\ Len(d) = Len(depth)
            BY <5>1, <5>2
        <5>4. QED BY <5>3 DEF d
      <4>4. QED BY <2>3, <3>1, <4>1, <4>2, <4>3 DEF RanksTyped
    <3>4. QED BY <3>1, <3>2, <3>3
  <2>4. QED BY <2>1, <2>2, <2>3
<1>5. /\ src' \in 0..Len(boxes') /\ Len(boxes') <= MaxBoxes
      /\ links' \in Seq((DOMAIN boxes') \X (DOMAIN boxes'))
      /\ stage' \in {"read", "roots", "rank", "drawn"}
  <2>1. /\ IsSeq(boxes') /\ Len(boxes') <= MaxBoxes /\ src' \in 0..Len(boxes')
        /\ links' \in Seq((1..Len(boxes')) \X (1..Len(boxes')))
        /\ stage' \in {"read", "roots", "rank", "drawn"}
    BY <1>2 DEF ChartInv, ReadInv, LinksInv
  <2>2. DOMAIN boxes' = 1..Len(boxes')
    BY <2>1 DEF IsSeq
  <2>3. QED BY <2>1, <2>2
<1>6. /\ diagram.kind \in Kinds
      /\ diagram.lines \in Seq(Range(diagram.lines))
      /\ \A k \in DOMAIN diagram.lines : diagram.lines[k].arrows \in Seq(Arrows)
    BY DEF TypedInv, MermaidTypeOK
<1>7. MermaidTypeOK'
    BY <1>1, <1>3, <1>4, <1>5, <1>6 DEF MermaidTypeOK, RanksTyped, Filled
<1>8. QED BY <1>1, <1>6, <1>7 DEF TypedInv

LEMMA EmptyChart ==
    ASSUME at = 1, mention = 0, src = 0, boxes = <<>>, links = <<>>, open = 0,
           depth = <<>>, queue = <<>>, head = 0, edge = 0, deepest = 0, stage \in {"read", "drawn"},
           diagram.kind \in Kinds, diagram.lines \in Seq(Range(diagram.lines)),
           \A k \in DOMAIN diagram.lines : diagram.lines[k].arrows \in Seq(Arrows)
    PROVE  TypedInv
<1>1. Len(<<>>) = 0 /\ DOMAIN <<>> = {} /\ <<>> \in Seq(Int) /\ <<>> \in Seq(DOMAIN <<>>)
      /\ <<>> \in Seq((DOMAIN <<>>) \X (DOMAIN <<>>))
    OBVIOUS
<1>2. Len(diagram.lines) \in Nat
    OBVIOUS
<1>3. QED BY <1>1, <1>2, BoundsAssumption DEF TypedInv, MermaidTypeOK

LEMMA TypedStart == MermaidInit => TypedInv
<1> SUFFICES ASSUME MermaidInit PROVE TypedInv
    OBVIOUS
<1>1. /\ diagram.kind \in Kinds /\ diagram.lines \in Seq(Range(diagram.lines))
      /\ \A k \in DOMAIN diagram.lines : diagram.lines[k].arrows \in Seq(Arrows)
    BY DiagramsAssumption DEF MermaidInit
<1>2. QED BY <1>1, EmptyChart DEF MermaidInit

-----------------------------------------------------------------------------
(***************************************************************************)
(* The links that are written are those that are drawn: after each line    *)
(* that is read, and within a chain after each mention.                    *)
(***************************************************************************)
\* What is written, line by line.
ToDraw == [k \in DOMAIN diagram.lines |-> Pairs(k)]

\* The names at both ends of each link.
Drawn(bs, ls) == [k \in DOMAIN ls |-> <<bs[ls[k][1]].name, bs[ls[k][2]].name>>]

\* What the arrows of the line at hand link.
OnLine == [n \in 1..(Len(Names) - 1) |-> Linked(Text, n)]

\* The diagrams LinksAsWritten is about, as long as no array is full.
Roomy ==
    /\ Len(boxes) < MaxBoxes /\ Len(links) < MaxLinks
    /\ \A k \in DOMAIN diagram.lines : ~Mixed(diagram.lines[k])

\* In front of line n a class has been opened and not closed.
Opened(n) ==
    \E o \in 1..(n - 1) : /\ diagram.lines[o].is = "opening"
                          /\ \A c \in o..(n - 1) : diagram.lines[c].is # "closing"

\* What is drawn, or nothing at all.
DiagramOrNone == diagram \in Diagrams \/ diagram.lines = <<>>

\* Within a chain: what is drawn goes up to the arrow in front of the next mention, and
\* src is where the mention before it has its box.
AtMention ==
    /\ diagram.kind = "flowchart" /\ at <= Len(diagram.lines) /\ mention \in 2..Len(Names)
    /\ Drawn(boxes, links) = Upto(ToDraw)[at - 1] \o Upto(OnLine)[mention - 2]
    /\ src = 0 => Names[mention - 1] = NoName
    /\ src # 0 => Names[mention - 1] # NoName /\ boxes[src].name = Names[mention - 1]

\* Between two lines, what is drawn is what the lines so far link; no box of a flowchart
\* has an empty name, a class is at hand exactly while its brace is open, and a sequence
\* has no brace.
ArrowsInv ==
    /\ DiagramOrNone
    /\ Roomy =>
           /\ stage = "read" =>
                  /\ AtMention \/ (mention = 0 /\ Drawn(boxes, links) = Upto(ToDraw)[at - 1])
                  /\ diagram.kind = "flowchart" => Named(boxes, NoName) = {}
                  /\ diagram.kind = "class" => (open # 0 <=> Opened(at))
                  /\ diagram.kind = "sequence" => ~Opened(at)
           /\ stage # "read" => Drawn(boxes, links) = FlattenSeq(ToDraw)

\* The names on the lines, and what an arrow links.
AllNames == UNION {Range(diagram.lines[k].names) : k \in DOMAIN diagram.lines}
Couples  == AllNames \X AllNames

-----------------------------------------------------------------------------
\* What stands on a line.
LEMMA LineFacts ==
    ASSUME DiagramOrNone
    PROVE  /\ Len(diagram.lines) \in Nat /\ DOMAIN diagram.lines = 1..Len(diagram.lines)
           /\ \A k \in DOMAIN diagram.lines :
                 LET l == diagram.lines[k]
                 IN  /\ l.is \in {"chain", "link"} =>
                           /\ Len(l.names) \in Nat /\ Len(l.names) >= 1
                           /\ \A n \in 1..Len(l.names) : l.names[n] \in AllNames
                     /\ l.is = "link" => Len(l.names) = 2
                     /\ l.is = "chain" => l.arrows \in Seq(Arrows) /\ Len(l.arrows) = Len(l.names) - 1
<1>1. CASE diagram.lines = <<>>
    BY <1>1
<1>2. CASE diagram \in Diagrams
  <2>1. diagram.lines \in Seq(Range(diagram.lines))
    BY <1>2, DiagramsAssumption
  <2>2. Len(diagram.lines) \in Nat /\ DOMAIN diagram.lines = 1..Len(diagram.lines)
    BY <2>1
  <2>3. ASSUME NEW k \in DOMAIN diagram.lines
        PROVE  LET l == diagram.lines[k]
               IN  /\ l.is \in {"chain", "link"} =>
                         /\ Len(l.names) \in Nat /\ Len(l.names) >= 1
                         /\ \A n \in 1..Len(l.names) : l.names[n] \in AllNames
                   /\ l.is = "link" => Len(l.names) = 2
                   /\ l.is = "chain" => l.arrows \in Seq(Arrows) /\ Len(l.arrows) = Len(l.names) - 1
    <3> DEFINE l == diagram.lines[k]
    <3>1. /\ l.names \in Seq(Range(l.names)) /\ l.arrows \in Seq(Arrows)
          /\ l.is = "chain" => Len(l.arrows) = Len(l.names) - 1
          /\ l.is = "link" => Len(l.names) = 2
        BY <1>2, <2>3, DiagramsAssumption
    <3>2. Range(l.names) \subseteq AllNames
        BY <2>3 DEF AllNames
    <3> HIDE DEF l
    <3>3. Len(l.names) \in Nat /\ \A n \in 1..Len(l.names) : l.names[n] \in AllNames
        BY <3>1, <3>2
    <3>4. Len(l.arrows) \in Nat
        BY <3>1
    <3>5. l.is \in {"chain", "link"} => Len(l.names) >= 1
        <4>1. ASSUME l.is = "link" PROVE Len(l.names) >= 1
            <5>1. Len(l.names) = 2
                BY <3>1, <4>1, Zenon
            <5>2. QED BY <5>1
        <4>2. ASSUME l.is = "chain" PROVE Len(l.names) >= 1
            <5>1. Len(l.arrows) = Len(l.names) - 1
                BY <3>1, <4>2, Zenon
            <5>2. QED BY <3>3, <3>4, <5>1
        <4>3. QED BY <4>1, <4>2, Zenon
    <3>6. QED BY <3>1, <3>3, <3>5 DEF l
  <2>4. QED BY <2>2, <2>3, Zenon
<1>3. QED BY <1>1, <1>2, Zenon DEF DiagramOrNone

LEMMA LinkedTyped ==
    ASSUME DiagramOrNone, NEW k \in DOMAIN diagram.lines,
           NEW l, l = diagram.lines[k], l.is \in {"chain", "link"},
           NEW ps, ps = [n \in 1..(Len(l.names) - 1) |-> Linked(l, n)]
    PROVE  ps \in Seq(Seq(Couples)) /\ Len(ps) = Len(l.names) - 1
<1>1. Len(l.names) \in Nat /\ Len(l.names) >= 1 /\ \A n \in 1..Len(l.names) : l.names[n] \in AllNames
    BY LineFacts
<1>2. ASSUME NEW n \in 1..(Len(l.names) - 1) PROVE Linked(l, n) \in Seq(Couples)
  <2>1. n \in 1..Len(l.names) /\ n + 1 \in 1..Len(l.names)
    BY <1>1
  <2>2. <<l.names[n], l.names[n + 1]>> \in Couples
    BY <1>1, <2>1 DEF Couples
  <2>3. QED BY <2>2 DEF Linked
<1>3. QED BY <1>1, <1>2

LEMMA PairsTyped ==
    ASSUME DiagramOrNone
    PROVE  ToDraw \in Seq(Seq(Couples)) /\ Len(ToDraw) = Len(diagram.lines)
<1>1. ASSUME NEW k \in DOMAIN diagram.lines PROVE Pairs(k) \in Seq(Couples)
  <2> DEFINE l == diagram.lines[k]
             ps == [n \in 1..(Len(l.names) - 1) |-> Linked(l, n)]
  <2>1. CASE l.is \in {"chain", "link"}
    <3>1. ps \in Seq(Seq(Couples))
        BY <1>1, <2>1, LinkedTyped
    <3>2. FlattenSeq(ps) \in Seq(Couples)
      <4> HIDE DEF ps
      <4>1. QED BY <3>1, FlatTyped
    <3>3. Pairs(k) = FlattenSeq(ps) \/ Pairs(k) = <<>>
        BY DEF Pairs
    <3>4. <<>> \in Seq(Couples)
        OBVIOUS
    <3> HIDE DEF ps, l
    <3>5. QED BY <3>2, <3>3, <3>4
  <2>2. CASE l.is \notin {"chain", "link"}
    BY <2>2 DEF Pairs
  <2>3. QED BY <2>1, <2>2
<1>2. QED BY <1>1, LineFacts DEF ToDraw

\* What is written up to a line, that line included.
LEMMA LinePairs ==
    ASSUME DiagramOrNone
    PROVE  /\ Upto(ToDraw)[0] = <<>>
           /\ Upto(ToDraw)[Len(diagram.lines)] = FlattenSeq(ToDraw)
           /\ \A k \in 1..Len(diagram.lines) :
                 /\ Upto(ToDraw)[k] = Upto(ToDraw)[k - 1] \o Pairs(k)
                 /\ Upto(ToDraw)[k] \in Seq(Couples) /\ Upto(ToDraw)[k - 1] \in Seq(Couples)
                 /\ Pairs(k) \in Seq(Couples)
<1> DEFINE ss == ToDraw
           n == Len(diagram.lines)
<1>1. ss \in Seq(Seq(Couples)) /\ Len(ss) = n /\ n \in Nat
    BY PairsTyped, LineFacts
<1>2. \A k \in 1..n : ss[k] = Pairs(k)
    BY LineFacts DEF ToDraw
<1> HIDE DEF ss, n
<1>3. /\ Upto(ss) \in [0..Len(ss) -> Seq(Couples)]
      /\ Upto(ss)[0] = <<>> /\ Upto(ss)[Len(ss)] = FlattenSeq(ss)
      /\ \A k \in 1..Len(ss) : Upto(ss)[k] = Upto(ss)[k - 1] \o ss[k]
    BY <1>1, UptoBuilt
<1>4. ASSUME NEW k \in 1..n
      PROVE  /\ Upto(ss)[k] = Upto(ss)[k - 1] \o Pairs(k)
             /\ Upto(ss)[k] \in Seq(Couples) /\ Upto(ss)[k - 1] \in Seq(Couples)
             /\ Pairs(k) \in Seq(Couples)
  <2>1. k \in 1..Len(ss) /\ k \in 0..Len(ss) /\ k - 1 \in 0..Len(ss)
    BY <1>1
  <2>2. ss[k] \in Seq(Couples)
    BY <1>1, <2>1
  <2>3. QED BY <1>2, <1>3, <2>1, <2>2
<1>5. QED BY <1>1, <1>3, <1>4 DEF ss, n

\* The same along a chain.
LEMMA ChainPairs ==
    ASSUME DiagramOrNone, at \in DOMAIN diagram.lines,
           Text.is = "chain" \/ (Text.is = "link" /\ ~InClass(at))
    PROVE  /\ Upto(OnLine)[0] = <<>>
           /\ Pairs(at) = Upto(OnLine)[Len(Names) - 1]
           /\ \A n \in 1..(Len(Names) - 1) :
                 /\ Upto(OnLine)[n] = Upto(OnLine)[n - 1] \o Linked(Text, n)
                 /\ Upto(OnLine)[n - 1] \in Seq(Couples)
                 /\ Linked(Text, n) \in Seq(Couples)
<1> DEFINE ps == OnLine
           m == Len(Names) - 1
<1>1. ps \in Seq(Seq(Couples)) /\ Len(ps) = m
    BY LinkedTyped DEF OnLine, Text, Names
<1>2. \A n \in 1..m : ps[n] = Linked(Text, n)
    BY DEF OnLine
<1>3. Pairs(at) = FlattenSeq(ps)
    BY DEF Pairs, OnLine, Text, Names
<1> HIDE DEF ps, m
<1>4. m \in Nat
    BY <1>1
<1>5. /\ Upto(ps) \in [0..Len(ps) -> Seq(Couples)]
      /\ Upto(ps)[0] = <<>> /\ Upto(ps)[Len(ps)] = FlattenSeq(ps)
      /\ \A n \in 1..Len(ps) : Upto(ps)[n] = Upto(ps)[n - 1] \o ps[n]
    BY <1>1, UptoBuilt
<1>6. ASSUME NEW n \in 1..m
      PROVE  /\ Upto(ps)[n] = Upto(ps)[n - 1] \o Linked(Text, n)
             /\ Upto(ps)[n - 1] \in Seq(Couples)
             /\ Linked(Text, n) \in Seq(Couples)
  <2>1. n \in 1..Len(ps) /\ n - 1 \in 0..Len(ps)
    BY <1>1, <1>4
  <2>2. ps[n] \in Seq(Couples)
    BY <1>1, <2>1
  <2>3. QED BY <1>2, <1>5, <2>1, <2>2
<1>7. QED BY <1>1, <1>3, <1>5, <1>6 DEF ps, m

-----------------------------------------------------------------------------
\* What is looked up is found where it is.
LEMMA LookedUp ==
    ASSUME NEW bs, NEW id, IsSeq(bs)
    PROVE  /\ First(bs, id) = 0 <=> Named(bs, id) = {}
           /\ First(bs, id) # 0 => First(bs, id) \in 1..Len(bs) /\ bs[First(bs, id)].name = id
           /\ Latest(bs, id) = 0 <=> Named(bs, id) = {}
           /\ Latest(bs, id) # 0 => Latest(bs, id) \in 1..Len(bs) /\ bs[Latest(bs, id)].name = id
<1>1. DOMAIN bs = 1..Len(bs) /\ Len(bs) \in Nat
    BY DEF IsSeq
<1>2. Named(bs, id) \in SUBSET (1..Len(bs)) /\ \A i \in Named(bs, id) : bs[i].name = id
    BY <1>1 DEF Named
<1>3. CASE Named(bs, id) = {}
    BY <1>3 DEF First, Latest
<1>4. CASE Named(bs, id) # {}
  <2>1. Min(Named(bs, id)) \in Named(bs, id)
    <3>1. Named(bs, id) \in SUBSET Nat
        BY <1>2
    <3>2. QED BY <3>1, <1>4, MinIsLeast
  <2>2. Max(Named(bs, id)) \in Named(bs, id)
    <3>1. Named(bs, id) \in SUBSET (0..Len(bs))
        BY <1>1, <1>2
    <3>2. QED BY <3>1, <1>1, <1>4, MaxIsGreatest
  <2>3. First(bs, id) \in Named(bs, id) /\ Latest(bs, id) \in Named(bs, id)
    BY <1>4, <2>1, <2>2 DEF First, Latest
  <2>4. First(bs, id) # 0 /\ Latest(bs, id) # 0
    BY <1>2, <2>3
  <2>5. QED BY <1>2, <1>4, <2>3, <2>4
<1>5. QED BY <1>3, <1>4

\* The boxes keep their names when one is added, and while there is room it is.
LEMMA NamesKept ==
    ASSUME NEW bs, NEW id, IsSeq(bs), NEW bt, bt = AddBox(bs, id)
    PROVE  /\ IsSeq(bt) /\ Len(bs) \in Nat /\ Len(bt) \in Nat /\ Len(bs) <= Len(bt)
           /\ \A i \in 1..Len(bs) : bt[i].name = bs[i].name
           /\ Len(bs) < MaxBoxes =>
                 Len(bt) = Len(bs) + 1 /\ bt # bs /\ bt[Len(bt)].name = id
<1>1. DOMAIN bs = 1..Len(bs) /\ Len(bs) \in Nat
    BY DEF IsSeq
<1>2. CASE Len(bs) < MaxBoxes
  <2> DEFINE b == Box(id)
  <2>1. PICK S : bs \in Seq(S)
    BY DEF IsSeq
  <2>2. bs \in Seq(S \cup {b}) /\ b \in S \cup {b}
    BY <2>1
  <2>3. bt = Append(bs, b)
    BY <1>2 DEF AddBox
  <2>4. b.name = id
    BY BoxFields
  <2> HIDE DEF b
  <2>5. /\ bt \in Seq(S \cup {b}) /\ Len(bt) = Len(bs) + 1 /\ bt[Len(bs) + 1] = b
        /\ \A i \in 1..Len(bs) : bt[i] = bs[i]
    BY <2>2, <2>3, Appending
  <2>6. IsSeq(bt)
    BY <2>5 DEF IsSeq
  <2>7. Len(bt) # Len(bs)
    <3> DEFINE n == Len(bs)
               l == Len(bt)
    <3>1. n \in Nat /\ l = n + 1
        BY <1>1, <2>5
    <3> HIDE DEF n, l
    <3>2. l # n
        BY <3>1
    <3>3. QED BY <3>2 DEF n, l
  <2>8. bt # bs
    BY <2>7
  <2>9. bt[Len(bt)].name = id
    BY <2>4, <2>5
  <2>10. QED BY <1>1, <2>5, <2>6, <2>8, <2>9
<1>3. CASE ~(Len(bs) < MaxBoxes)
  <2>1. bt = bs
    BY <1>3 DEF AddBox
  <2>2. QED BY <1>1, <1>3, <2>1
<1>4. QED BY <1>2, <1>3

\* So what is drawn stays.
LEMMA DrawnKept ==
    ASSUME NEW bs, NEW bt, NEW m \in Nat, NEW ls \in Seq((1..m) \X (1..m)),
           \A i \in 1..m : bt[i].name = bs[i].name
    PROVE  Drawn(bt, ls) = Drawn(bs, ls)
<1>1. \A k \in DOMAIN ls : ls[k][1] \in 1..m /\ ls[k][2] \in 1..m
    OBVIOUS
<1>2. \A k \in DOMAIN ls : bt[ls[k][1]].name = bs[ls[k][1]].name /\ bt[ls[k][2]].name = bs[ls[k][2]].name
    BY <1>1
<1>3. QED BY <1>2, Zenon DEF Drawn

\* One more link.
LEMMA DrawnMore ==
    ASSUME NEW bs, NEW m \in Nat, NEW ls \in Seq((1..m) \X (1..m)), NEW a \in 1..m, NEW b \in 1..m
    PROVE  Drawn(bs, Append(ls, <<a, b>>)) = Append(Drawn(bs, ls), <<bs[a].name, bs[b].name>>)
<1> DEFINE pair == <<a, b>>
           new  == <<bs[a].name, bs[b].name>>
           lt   == Append(ls, pair)
           n    == Len(ls)
           Ends(k, l) == <<bs[l[k][1]].name, bs[l[k][2]].name>>
           x    == Drawn(bs, lt)
           y    == Drawn(bs, ls)
           S    == {Ends(k, ls) : k \in 1..n} \cup {new}
<1>1. pair \in (1..m) \X (1..m) /\ pair[1] = a /\ pair[2] = b
    OBVIOUS
<1>2. /\ n \in Nat /\ lt \in Seq((1..m) \X (1..m)) /\ Len(lt) = n + 1 /\ lt[n + 1] = pair
      /\ \A k \in 1..n : lt[k] = ls[k]
      /\ DOMAIN ls = 1..n /\ DOMAIN lt = 1..(n + 1)
  <2> HIDE DEF pair
  <2>1. lt \in Seq((1..m) \X (1..m)) /\ Len(lt) = n + 1 /\ lt[n + 1] = pair /\ \A k \in 1..n : lt[k] = ls[k]
    BY <1>1, Appending
  <2> HIDE DEF lt
  <2>2. QED BY <2>1
<1>3. x = [k \in 1..(n + 1) |-> Ends(k, lt)] /\ y = [k \in 1..n |-> Ends(k, ls)]
  <2> HIDE DEF lt, n
  <2>1. QED BY <1>2 DEF Drawn
<1>4. Ends(n + 1, lt) = new /\ \A k \in 1..n : Ends(k, lt) = Ends(k, ls)
  <2> HIDE DEF lt, pair, n
  <2>1. QED BY <1>1, <1>2
<1> HIDE DEF lt, pair, x, y, new, Ends
<1>5. y \in Seq(S) /\ new \in S /\ Len(y) = n
  <2>1. new \in S /\ \A k \in 1..n : Ends(k, ls) \in S
    OBVIOUS
  <2> HIDE DEF S, n
  <2>2. QED BY <1>2, <1>3, <2>1
<1>6. x = [k \in 1..(n + 1) |-> IF k = n + 1 THEN new ELSE y[k]]
  <2> HIDE DEF S, n
  <2>1. \A k \in 1..(n + 1) : k = n + 1 \/ k \in 1..n
    BY <1>2
  <2>2. \A k \in 1..(n + 1) : Ends(k, lt) = IF k = n + 1 THEN new ELSE y[k]
    BY <1>2, <1>3, <1>4, <2>1
  <2>3. QED BY <1>3, <2>2, Zenon
<1>7. x = Append(y, new)
  <2> HIDE DEF S, n
  <2>1. /\ Append(y, new) \in Seq(S) /\ Len(Append(y, new)) = n + 1 /\ Append(y, new)[n + 1] = new
        /\ \A k \in 1..n : Append(y, new)[k] = y[k]
    BY <1>5, Appending
  <2>2. /\ x \in Seq(S) /\ Len(x) = n + 1
        /\ x[n + 1] = new /\ \A k \in 1..n : x[k] = y[k]
    <3>1. \A k \in 1..n : k # n + 1 /\ k \in 1..(n + 1)
        BY <1>2
    <3>2. \A k \in 1..n : y[k] \in S
        BY <1>5
    <3>3. \A k \in 1..(n + 1) : k = n + 1 \/ k \in 1..n
        BY <1>2
    <3>4. \A k \in 1..(n + 1) : x[k] \in S
        BY <1>5, <1>6, <3>2, <3>3
    <3>5. x \in Seq(S) /\ Len(x) = n + 1
        BY <1>2, <1>6, <3>4
    <3>6. n + 1 \in 1..(n + 1)
        BY <1>2
    <3>7. QED BY <1>6, <3>1, <3>5, <3>6
  <2>3. \A k \in 1..(n + 1) : k = n + 1 \/ k \in 1..n
    BY <1>2
  <2>4. \A k \in 1..(n + 1) : x[k] = Append(y, new)[k]
    BY <2>1, <2>2, <2>3
  <2> DEFINE z == Append(y, new)
  <2>5. z \in Seq(S) /\ Len(z) = n + 1 /\ \A k \in 1..(n + 1) : x[k] = z[k]
    BY <2>1, <2>4
  <2> HIDE DEF z
  <2>6. x = z
    BY <1>2, <2>2, <2>5
  <2>7. QED BY <2>6 DEF z
<1>8. QED BY <1>7 DEF x, y, lt, pair, new, Ends

\* What AddLink adds to what is drawn.
OneLinkMore(bs, ls, a, b, lt) ==
    /\ Len(ls) \in Nat /\ Len(lt) \in Nat /\ Len(ls) <= Len(lt)
    /\ a = 0 \/ b = 0 => lt = ls
    /\ a # 0 /\ b # 0 /\ Len(ls) < MaxLinks =>
          Drawn(bs, lt) = Append(Drawn(bs, ls), <<bs[a].name, bs[b].name>>)

LEMMA LinkAdded ==
    ASSUME NEW bs, NEW m \in Nat, NEW ls \in Seq((1..m) \X (1..m)), NEW a \in 0..m, NEW b \in 0..m
    PROVE  OneLinkMore(bs, ls, a, b, AddLink(ls, a, b))
<1> DEFINE lt == AddLink(ls, a, b)
<1>1. Len(ls) \in Nat
    OBVIOUS
<1>2. CASE a = 0 \/ b = 0 \/ ~(Len(ls) < MaxLinks)
  <2>1. ~(a > 0 /\ b > 0 /\ Len(ls) < MaxLinks)
    BY <1>2
  <2>2. lt = ls
    BY <2>1 DEF AddLink
  <2>3. QED BY <1>1, <1>2, <2>2 DEF OneLinkMore
<1>3. CASE a # 0 /\ b # 0 /\ Len(ls) < MaxLinks
  <2> DEFINE pair == <<a, b>>
  <2>1. a \in 1..m /\ b \in 1..m /\ a > 0 /\ b > 0
    BY <1>3
  <2>2. pair \in (1..m) \X (1..m)
    BY <2>1
  <2>3. lt = Append(ls, pair)
    BY <1>3, <2>1 DEF AddLink
  <2>4. Drawn(bs, lt) = Append(Drawn(bs, ls), <<bs[a].name, bs[b].name>>)
    <3>1. a \in 1..m /\ b \in 1..m
        BY <2>1
    <3>2. Drawn(bs, Append(ls, <<a, b>>)) = Append(Drawn(bs, ls), <<bs[a].name, bs[b].name>>)
        BY <3>1, DrawnMore, Zenon
    <3>3. QED BY <2>3, <3>2, Zenon
  <2> HIDE DEF pair
  <2>5. Len(lt) = Len(ls) + 1
    BY <2>2, <2>3, Appending
  <2>6. Len(lt) \in Nat /\ Len(ls) <= Len(lt)
    BY <1>1, <2>5
  <2> HIDE DEF lt
  <2>7. OneLinkMore(bs, ls, a, b, lt)
    BY <1>1, <1>3, <2>4, <2>6, Zenon DEF OneLinkMore
  <2>8. QED BY <2>7 DEF lt
<1>4. QED BY <1>2, <1>3

\* A message or a relation is drawn between the boxes of its two names.
LEMMA LinkLineDrawn ==
    ASSUME ReadInv, LinkLine
    PROVE  /\ Len(boxes) \in Nat /\ Len(boxes') \in Nat /\ Len(boxes) <= Len(boxes')
           /\ Len(links) \in Nat /\ Len(links') \in Nat /\ Len(links) <= Len(links')
           /\ Len(boxes') < MaxBoxes /\ Len(links) < MaxLinks =>
                 Drawn(boxes', links') = Append(Drawn(boxes, links), <<Names[1], Names[2]>>)
<1> DEFINE from == Latest(boxes, Names[1])
           to   == Latest(boxes, Names[2])
           ba   == AddBox(boxes, Names[1])
           bs   == IF from = 0 THEN ba ELSE boxes
           a    == IF from = 0 /\ bs # boxes THEN Len(bs) ELSE from
           bb   == AddBox(bs, Names[2])
           bt   == IF to = 0 THEN bb ELSE bs
           b    == IF to = 0 /\ bt # bs THEN Len(bt) ELSE to
           lt   == AddLink(links, a, b)
           o    == Len(boxes)
           n    == Len(bs)
           m    == Len(bt)
           one  == Names[1]
           two  == Names[2]
<1>1. boxes' = bt /\ links' = lt
    BY DEF LinkLine
<1>2. /\ IsSeq(boxes) /\ o \in Nat /\ links \in Seq((1..o) \X (1..o))
      /\ from \in 0..o /\ (from # 0 => boxes[from].name = one)
      /\ to \in 0..o /\ (to # 0 => boxes[to].name = two)
    BY BoxesOrNone, Lookups, LookedUp DEF ReadInv, LinksInv
<1>3. /\ IsSeq(ba) /\ Len(ba) \in Nat /\ o <= Len(ba)
      /\ \A k \in 1..o : ba[k].name = boxes[k].name
      /\ o < MaxBoxes => Len(ba) = o + 1 /\ ba # boxes /\ ba[Len(ba)].name = one
    BY <1>2, NamesKept
<1> HIDE DEF from, to, ba, one
<1>4. /\ IsSeq(bs) /\ n \in Nat /\ o <= n
      /\ \A k \in 1..o : bs[k].name = boxes[k].name
  <2>1. CASE from = 0
    <3>1. bs = ba
        BY <2>1
    <3> HIDE DEF bs
    <3>2. QED BY <1>3, <3>1
  <2>2. CASE from # 0
    <3>1. bs = boxes
        BY <2>2
    <3> HIDE DEF bs
    <3>2. QED BY <1>2, <3>1
  <2>3. QED BY <2>1, <2>2
<1>5. /\ a \in 0..n
      /\ n < MaxBoxes => a # 0 /\ bs[a].name = one
  <2>1. CASE from = 0
    <3>1. bs = ba /\ a = IF bs # boxes THEN n ELSE 0
        BY <2>1
    <3> HIDE DEF bs, n, a, o
    <3>2. a \in 0..n
        BY <1>4, <3>1
    <3>3. ASSUME n < MaxBoxes PROVE a # 0 /\ bs[a].name = one
      <4>1. o < MaxBoxes
        BY <1>2, <1>4, <3>3, BoundsAssumption
      <4>2. Len(ba) = o + 1 /\ ba # boxes /\ ba[Len(ba)].name = one
        BY <1>3, <4>1, Zenon
      <4>3. n = Len(ba)
        BY <3>1 DEF n
      <4>4. a = n
        BY <3>1, <4>2
      <4>5. QED BY <1>2, <3>1, <4>2, <4>3, <4>4
    <3>4. QED BY <3>2, <3>3
  <2>2. CASE from # 0
    <3>1. bs = boxes /\ a = from
        BY <2>2
    <3>2. from \in 0..n
        BY <1>2, <1>4
    <3> HIDE DEF bs, n, a, o
    <3>3. QED BY <1>2, <2>2, <3>1, <3>2
  <2>3. QED BY <2>1, <2>2
<1> HIDE DEF bs, a, o
<1>6. /\ IsSeq(bb) /\ Len(bb) \in Nat /\ n <= Len(bb)
      /\ \A k \in 1..n : bb[k].name = bs[k].name
      /\ n < MaxBoxes => Len(bb) = n + 1 /\ bb # bs /\ bb[Len(bb)].name = two
    BY <1>4, NamesKept
<1> HIDE DEF bb, two, n
<1>7. /\ IsSeq(bt) /\ m \in Nat /\ n <= m
      /\ \A k \in 1..n : bt[k].name = bs[k].name
  <2>1. CASE to = 0
    <3>1. bt = bb
        BY <2>1
    <3> HIDE DEF bt
    <3>2. QED BY <1>6, <3>1
  <2>2. CASE to # 0
    <3>1. bt = bs /\ m = n
        BY <2>2 DEF n
    <3> HIDE DEF bt, m
    <3>2. QED BY <1>4, <3>1
  <2>3. QED BY <2>1, <2>2
<1>8. /\ b \in 0..m
      /\ m < MaxBoxes => b # 0 /\ bt[b].name = two
  <2>1. CASE to = 0
    <3>1. bt = bb /\ b = IF bt # bs THEN m ELSE 0
        BY <2>1
    <3> HIDE DEF bt, b
    <3>2. b \in 0..m
        BY <1>7, <3>1
    <3>3. ASSUME m < MaxBoxes PROVE b # 0 /\ bt[b].name = two
      <4> HIDE DEF m
      <4>1. n < MaxBoxes
        BY <1>4, <1>7, <3>3, BoundsAssumption
      <4>2. Len(bb) = n + 1 /\ bb # bs /\ bb[Len(bb)].name = two
        BY <1>6, <4>1, Zenon
      <4>3. m = Len(bb)
        BY <3>1 DEF m
      <4>4. b = m
        BY <3>1, <4>2
      <4>5. QED BY <1>4, <3>1, <4>2, <4>3, <4>4
    <3>4. QED BY <3>2, <3>3
  <2>2. CASE to # 0
    <3>1. bt = bs /\ b = to
        BY <2>2
    <3> HIDE DEF bt, b, m
    <3>2. to \in 1..o
        BY <1>2, <2>2
    <3>3. bs[to].name = two
        BY <1>2, <1>4, <2>2, <3>2
    <3>4. to \in 0..m
        BY <1>2, <1>4, <1>7
    <3>5. QED BY <2>2, <3>1, <3>3, <3>4
  <2>3. QED BY <2>1, <2>2
<1> HIDE DEF bt, b, m
<1>9. links \in Seq((1..m) \X (1..m)) /\ a \in 0..m /\ o <= m
  <2>1. o <= m /\ a \in 0..m
    BY <1>2, <1>4, <1>5, <1>7
  <2>2. QED BY <1>2, <1>7, <2>1, SeqGrows
<1>10. /\ Len(links) \in Nat /\ Len(lt) \in Nat /\ Len(links) <= Len(lt)
       /\ a # 0 /\ b # 0 /\ Len(links) < MaxLinks =>
             Drawn(bt, lt) = Append(Drawn(bt, links), <<bt[a].name, bt[b].name>>)
  <2>1. m \in Nat /\ links \in Seq((1..m) \X (1..m)) /\ a \in 0..m /\ b \in 0..m /\ lt = AddLink(links, a, b)
    BY <1>7, <1>8, <1>9
  <2> HIDE DEF lt
  <2>2. OneLinkMore(bt, links, a, b, lt)
    BY <2>1, LinkAdded
  <2>3. QED BY <2>2, Zenon DEF OneLinkMore
<1> HIDE DEF lt
<1>11. ASSUME m < MaxBoxes, Len(links) < MaxLinks
       PROVE  Drawn(bt, lt) = Append(Drawn(boxes, links), <<one, two>>)
  <2>1. n < MaxBoxes
    BY <1>4, <1>7, <1>11, BoundsAssumption
  <2>2. a # 0 /\ bs[a].name = one /\ b # 0 /\ bt[b].name = two
    BY <1>5, <1>8, <1>11, <2>1, Zenon
  <2>3. bt[a].name = one
    <3>1. a \in 1..n
        BY <1>4, <1>5, <2>2
    <3>2. QED BY <1>7, <2>2, <3>1
  <2>4. \A k \in 1..o : bt[k].name = boxes[k].name
    <3>1. \A k \in 1..o : k \in 1..n
        BY <1>2, <1>4
    <3>2. QED BY <1>4, <1>7, <3>1
  <2>5. Drawn(bt, links) = Drawn(boxes, links)
    BY <1>2, <2>4, DrawnKept
  <2>6. QED BY <1>10, <1>11, <2>2, <2>3, <2>5, Zenon
<1>12. boxes' = bt /\ links' = lt /\ Len(boxes) = o /\ Len(boxes') = m
    BY <1>1 DEF o, m
<1>13. QED BY <1>2, <1>7, <1>9, <1>10, <1>11, <1>12 DEF one, two

-----------------------------------------------------------------------------
\* A line that is read.
LEMMA ToDrawStays ==
    ASSUME UNCHANGED diagram
    PROVE  ToDraw' = ToDraw /\ (DiagramOrNone' <=> DiagramOrNone)
           /\ \A n : (Opened(n)' <=> Opened(n))
<1>1. \A k : Pairs(k)' = Pairs(k)
    BY DEF Pairs, InClass
<1>2. ToDraw' = ToDraw
    BY <1>1, Zenon DEF ToDraw
<1>3. QED BY <1>2 DEF DiagramOrNone, Opened

LEMMA StillRoomy ==
    ASSUME UNCHANGED diagram, Len(boxes) \in Nat, Len(boxes') \in Nat, Len(boxes) <= Len(boxes'),
           Len(links) \in Nat, Len(links') \in Nat, Len(links) <= Len(links'), Roomy'
    PROVE  Roomy
<1>1. Len(boxes) < MaxBoxes /\ Len(links) < MaxLinks
    BY BoundsAssumption DEF Roomy
<1>2. QED BY <1>1, Zenon DEF Roomy

LEMMA LineDone ==
    ASSUME DiagramOrNone, at \in Nat \ {0}, at <= Len(diagram.lines), UNCHANGED diagram, at' = at + 1,
           Drawn(boxes, links) = Upto(ToDraw)[at - 1],
           Drawn(boxes', links') = Drawn(boxes, links) \o Pairs(at)
    PROVE  (Drawn(boxes, links) = Upto(ToDraw)[at - 1])'
<1>1. at \in 1..Len(diagram.lines)
    BY LineFacts
<1>2. Upto(ToDraw)[at] = Upto(ToDraw)[at - 1] \o Pairs(at)
    BY <1>1, LinePairs
<1>3. ToDraw' = ToDraw
    BY ToDrawStays
<1>4. at' - 1 = at
    OBVIOUS
<1>5. QED BY <1>2, <1>3, <1>4, Zenon

\* A line that draws nothing.
LEMMA LinePassed ==
    ASSUME DiagramOrNone, at \in Nat \ {0}, at <= Len(diagram.lines), UNCHANGED diagram, at' = at + 1,
           Drawn(boxes, links) = Upto(ToDraw)[at - 1],
           Drawn(boxes', links') = Drawn(boxes, links), Pairs(at) = <<>>
    PROVE  (Drawn(boxes, links) = Upto(ToDraw)[at - 1])'
<1> DEFINE d == Drawn(boxes, links)
<1>1. at \in 1..Len(diagram.lines)
    BY LineFacts
<1>2. d \in Seq(Couples)
    BY <1>1, LinePairs
<1> HIDE DEF d
<1>3. d \o <<>> = d
    BY <1>2
<1>4. Drawn(boxes', links') = Drawn(boxes, links) \o Pairs(at)
    BY <1>3, Zenon DEF d
<1>5. QED BY <1>4, LineDone

\* Braces.
LEMMA OpenedNext ==
    ASSUME at \in Nat \ {0}
    PROVE  /\ Text.is = "closing" => ~Opened(at + 1)
           /\ Text.is = "opening" => Opened(at + 1)
           /\ Text.is \notin {"closing", "opening"} => (Opened(at + 1) <=> Opened(at))
           /\ Text.is # "closing" => (InClass(at) <=> Opened(at))
<1> DEFINE Opens(o) == diagram.lines[o].is = "opening"
           Closes(o) == diagram.lines[o].is = "closing"
<1>1. Text.is = "closing" <=> Closes(at)
    BY DEF Text
<1>2. Text.is = "opening" <=> Opens(at)
    BY DEF Text
<1>3. Opened(at + 1) <=> \E o \in 1..at : Opens(o) /\ \A c \in o..at : ~Closes(c)
  <2>1. (at + 1) - 1 = at
    OBVIOUS
  <2>2. QED BY <2>1 DEF Opened
<1>4. Opened(at) <=> \E o \in 1..(at - 1) : Opens(o) /\ \A c \in o..(at - 1) : ~Closes(c)
    BY DEF Opened
<1>5. InClass(at) <=> \E o \in 1..(at - 1) : Opens(o) /\ \A c \in o..at : ~Closes(c)
    BY DEF InClass
<1>6. Opens(at) => ~Closes(at)
    OBVIOUS
<1> HIDE DEF Opens, Closes
<1>7. /\ at \in 1..at /\ at \in at..at
      /\ \A o \in 1..at : at \in o..at
      /\ \A c \in at..at : c = at
      /\ \A o \in 1..at : o = at \/ o \in 1..(at - 1)
      /\ \A o \in 1..(at - 1) : o \in 1..at
      /\ \A o \in 1..at : \A c \in o..at : c = at \/ c \in o..(at - 1)
      /\ \A o \in 1..at : \A c \in o..(at - 1) : c \in o..at
    OBVIOUS
<1>8. Closes(at) => ~Opened(at + 1)
    BY <1>3, <1>7, Zenon
<1>9. Opens(at) => Opened(at + 1)
    BY <1>3, <1>6, <1>7, Zenon
<1>10. ~Closes(at) => (InClass(at) <=> Opened(at))
  <2>1. ASSUME ~Closes(at), NEW o \in 1..(at - 1)
        PROVE  (\A c \in o..at : ~Closes(c)) <=> (\A c \in o..(at - 1) : ~Closes(c))
    <3>1. o \in 1..at
        BY <1>7
    <3>2. QED BY <1>7, <2>1, <3>1, Zenon
  <2>2. QED BY <1>4, <1>5, <2>1, Zenon
<1>11. ~Closes(at) /\ ~Opens(at) => (Opened(at + 1) <=> InClass(at))
    BY <1>3, <1>5, <1>7, Zenon
<1>12. QED BY <1>1, <1>2, <1>8, <1>9, <1>10, <1>11

\* A message or a relation, outside of a class.
LEMMA LinkLineRead ==
    ASSUME ReadInv, DiagramOrNone, at \in Nat \ {0}, at <= Len(diagram.lines), UNCHANGED diagram,
           at' = at + 1, Drawn(boxes, links) = Upto(ToDraw)[at - 1], Text.is = "link", ~InClass(at),
           LinkLine, Len(boxes') < MaxBoxes, Len(links) < MaxLinks
    PROVE  (Drawn(boxes, links) = Upto(ToDraw)[at - 1])'
<1> DEFINE d    == Drawn(boxes, links)
           pair == <<Names[1], Names[2]>>
           one  == <<pair>>
<1>1. at \in 1..Len(diagram.lines) /\ at \in DOMAIN diagram.lines
    BY LineFacts
<1>2. d \in Seq(Couples)
    BY <1>1, LinePairs
<1>3. Len(Names) = 2 /\ \A n \in 1..2 : Names[n] \in AllNames
    BY <1>1, LineFacts DEF Text, Names
<1>4. pair \in Couples
    BY <1>3 DEF Couples
<1>5. Pairs(at) = one
  <2>1. 1 \in 1..(Len(Names) - 1) /\ Len(Names) - 1 = 1 /\ 1 - 1 = 0
    BY <1>3
  <2>2. /\ Upto(OnLine)[0] = <<>> /\ Pairs(at) = Upto(OnLine)[Len(Names) - 1]
        /\ \A n \in 1..(Len(Names) - 1) : Upto(OnLine)[n] = Upto(OnLine)[n - 1] \o Linked(Text, n)
    BY <1>1, ChainPairs
  <2>3. Pairs(at) = Upto(OnLine)[1] /\ Upto(OnLine)[1] = Upto(OnLine)[1 - 1] \o Linked(Text, 1)
    BY <2>1, <2>2
  <2>4. Linked(Text, 1) = one
    <3>1. Linked(Text, 1) = << <<Text.names[1], Text.names[1 + 1]>> >>
        BY DEF Linked
    <3>2. QED BY <3>1 DEF Names
  <2>5. one \in Seq(Couples)
    BY <1>4
  <2> HIDE DEF one
  <2>6. <<>> \o one = one
    BY <2>5
  <2>7. QED BY <2>1, <2>2, <2>3, <2>4, <2>6
<1>6. Drawn(boxes', links') = Append(d, pair)
    BY LinkLineDrawn
<1> HIDE DEF d
<1>7. Append(d, pair) = d \o one
  <2> HIDE DEF pair
  <2>1. QED BY <1>2, <1>4
<1>8. Drawn(boxes', links') = Drawn(boxes, links) \o Pairs(at)
    BY <1>5, <1>6, <1>7, Zenon DEF d
<1>9. QED BY <1>8, LineDone

-----------------------------------------------------------------------------
\* The next mention of a chain.
LEMMA FlowNodeNamed ==
    ASSUME NEW bs, NEW id, IsSeq(bs), Named(bs, NoName) = {}, NEW bt, bt = FlowNode(bs, id)
    PROVE  /\ IsSeq(bt) /\ Len(bs) \in Nat /\ Len(bt) \in Nat /\ Len(bs) <= Len(bt)
           /\ \A k \in 1..Len(bs) : bt[k].name = bs[k].name
           /\ Named(bt, NoName) = {}
           /\ First(bt, id) \in 0..Len(bt)
           /\ Len(bt) < MaxBoxes => (First(bt, id) = 0 <=> id = NoName)
           /\ First(bt, id) # 0 => bt[First(bt, id)].name = id
<1>1. DOMAIN bs = 1..Len(bs) /\ Len(bs) \in Nat
    BY DEF IsSeq
<1>2. CASE id = NoName \/ Named(bs, id) # {}
  <2>1. bt = bs
    BY <1>2 DEF FlowNode
  <2>2. First(bs, id) = 0 <=> id = NoName
    BY <1>2, LookedUp
  <2>3. First(bs, id) # 0 => bs[First(bs, id)].name = id
    BY LookedUp
  <2>4. QED BY <1>1, <2>1, <2>2, <2>3, Lookups
<1>3. CASE id # NoName /\ Named(bs, id) = {}
  <2>1. bt = AddBox(bs, id)
    BY <1>3 DEF FlowNode
  <2>2. /\ IsSeq(bt) /\ Len(bt) \in Nat /\ Len(bs) <= Len(bt)
        /\ \A k \in 1..Len(bs) : bt[k].name = bs[k].name
        /\ Len(bs) < MaxBoxes => Len(bt) = Len(bs) + 1 /\ bt[Len(bt)].name = id
    BY <2>1, NamesKept
  <2>3. Named(bt, NoName) = {}
    BY <1>3, <2>1, OtherBox
  <2>4. ASSUME Len(bt) < MaxBoxes PROVE First(bt, id) # 0
    <3>1. Len(bs) < MaxBoxes
        BY <1>1, <2>2, <2>4, BoundsAssumption
    <3>2. Len(bt) = Len(bs) + 1 /\ bt[Len(bt)].name = id
        BY <2>2, <3>1
    <3>3. DOMAIN bt = 1..Len(bt)
        BY <2>2 DEF IsSeq
    <3>4. Len(bt) \in 1..Len(bt)
        BY <1>1, <3>2
    <3>5. Len(bt) \in Named(bt, id)
        BY <3>2, <3>3, <3>4 DEF Named
    <3>6. QED BY <2>2, <3>5, LookedUp
  <2>5. First(bt, id) # 0 => bt[First(bt, id)].name = id
    BY <2>2, LookedUp
  <2>6. QED BY <1>1, <1>3, <2>2, <2>3, <2>4, <2>5, Lookups
<1>4. QED BY <1>2, <1>3

\* What stands left of the cut is the first name.
LEMMA FlatOne ==
    ASSUME NEW x, NEW ss, ss = [k \in 1..1 |-> x]
    PROVE  FlattenSeq(ss) = x
<1> DEFINE P(f) == f = [k \in 1..1 |-> IF k = 1 THEN ss[k] ELSE f[k - 1] \o ss[k]]
           g == [k \in 1..1 |-> x]
           h == CHOOSE f : P(f)
<1>1. Len(ss) = 1
    OBVIOUS
<1>2. P(g)
    OBVIOUS
<1>3. P(h)
    BY <1>2
<1>4. FlattenSeq(ss) = h[Len(ss)]
    BY <1>1 DEF FlattenSeq
<1> HIDE DEF h
<1>5. h[1] = ss[1]
    BY <1>3
<1>6. QED BY <1>1, <1>4, <1>5

LEMMA FirstName ==
    ASSUME DiagramOrNone, at \in DOMAIN diagram.lines, Text.is = "chain", ~Mixed(Text)
    PROVE  FirstCut = 1 /\ LeftOfCut = Names[1]
<1> DEFINE pointed == {k \in DOMAIN Text.arrows : Text.arrows[k] = "-->"}
<1>1. Text.arrows \in Seq(Arrows)
    BY LineFacts DEF Text
<1>2. FirstCut = 1
  <2>1. CASE pointed = {}
    BY <2>1 DEF FirstCut
  <2>2. CASE pointed # {}
    <3> DEFINE m == Min(pointed)
    <3>1. pointed \in SUBSET Nat
        BY <1>1
    <3>2. m \in pointed /\ \A k \in pointed : m <= k
        BY <2>2, <3>1, MinIsLeast
    <3>3. FirstCut = m
        BY <2>2 DEF FirstCut
    <3>4. m \in DOMAIN Text.arrows /\ Text.arrows[m] = "-->" /\ m \in Nat /\ m >= 1
        BY <1>1, <3>2
    <3> HIDE DEF m
    <3>5. ASSUME m # 1 PROVE FALSE
      <4>1. 1 \in DOMAIN Text.arrows /\ 1 < m
        BY <1>1, <3>4, <3>5
      <4>2. 1 \notin pointed
        BY <3>2, <3>4, <4>1
      <4>3. Text.arrows[1] # "-->" /\ Text.arrows[1] \in Arrows
        BY <1>1, <4>1, <4>2
      <4>4. Text.arrows[1] = "---"
        BY <4>3 DEF Arrows
      <4>5. Mixed(Text)
        BY <3>4, <4>1, <4>4 DEF Mixed
      <4>6. QED BY <4>5
    <3>6. QED BY <3>3, <3>5
  <2>3. QED BY <2>1, <2>2
<1>3. LeftOfCut = Names[1]
  <2> DEFINE ss == [k \in 1..(2 * FirstCut - 1) |->
                      IF k % 2 = 1 THEN Names[(k + 1) \div 2] ELSE <<Text.arrows[k \div 2]>>]
             x == Names[1]
  <2>1. 2 * FirstCut - 1 = 1
    BY <1>2
  <2>2. \A k \in 1..1 : k = 1 /\ k % 2 = 1 /\ (k + 1) \div 2 = 1
    OBVIOUS
  <2>3. ss = [k \in 1..1 |-> x]
    BY <2>1, <2>2
  <2>4. LeftOfCut = FlattenSeq(ss)
    BY DEF LeftOfCut
  <2> HIDE DEF ss, x
  <2>5. FlattenSeq(ss) = x
    BY <2>3, FlatOne
  <2>6. QED BY <2>4, <2>5 DEF x
<1>4. QED BY <1>2, <1>3

Regrouped(a, b, c) == (a \o b) \o c = a \o (b \o c)

LEMMA Regroup ==
    ASSUME NEW S, NEW a \in Seq(S), NEW b \in Seq(S), NEW c \in Seq(S)
    PROVE  Regrouped(a, b, c)
BY DEF Regrouped

\* What a mention adds to a chain.
MentionMore(bs, ls, a, b, n) ==
    Drawn(bs, AddLink(ls, a, b)) = Upto(ToDraw)[at - 1] \o Upto(OnLine)[n - 1]

LEMMA MentionDrawn ==
    ASSUME DiagramOrNone, at \in DOMAIN diagram.lines, Text.is = "chain", NEW n \in 2..Len(Names),
           NEW bs, Len(bs) \in Nat, NEW ls \in Seq((1..Len(bs)) \X (1..Len(bs))),
           NEW a \in 0..Len(bs), NEW b \in 0..Len(bs), Len(ls) < MaxLinks,
           Drawn(bs, ls) = Upto(ToDraw)[at - 1] \o Upto(OnLine)[n - 2],
           a = 0 => Names[n - 1] = NoName,
           a # 0 => Names[n - 1] # NoName /\ bs[a].name = Names[n - 1],
           b = 0 <=> Names[n] = NoName, b # 0 => bs[b].name = Names[n]
    PROVE  MentionMore(bs, ls, a, b, n)
<1> DEFINE lt == AddLink(ls, a, b)
           u == Upto(ToDraw)[at - 1]
           r == Upto(OnLine)[n - 2]
           t == Linked(Text, n - 1)
           d == Drawn(bs, ls)
           pair == <<Names[n - 1], Names[n]>>
           one  == <<pair>>
<1>1. Len(Names) \in Nat /\ \A k \in 1..Len(Names) : Names[k] \in AllNames
    BY LineFacts DEF Text, Names
<1>2. at \in 1..Len(diagram.lines)
    BY LineFacts
<1>3. u \in Seq(Couples)
    BY <1>2, LinePairs
<1>4. n - 1 \in 1..(Len(Names) - 1) /\ (n - 1) - 1 = n - 2 /\ (n - 1) + 1 = n
    BY <1>1
<1>5. r \in Seq(Couples) /\ t \in Seq(Couples) /\ Upto(OnLine)[n - 1] = r \o t
  <2> DEFINE k == n - 1
  <2>1. k \in 1..(Len(Names) - 1) /\ k - 1 = n - 2
    BY <1>4
  <2> HIDE DEF k
  <2>2. /\ Upto(OnLine)[k] = Upto(OnLine)[k - 1] \o Linked(Text, k)
        /\ Upto(OnLine)[k - 1] \in Seq(Couples)
        /\ Linked(Text, k) \in Seq(Couples)
    BY <2>1, ChainPairs
  <2>3. r = Upto(OnLine)[k - 1] /\ t = Linked(Text, k)
    <3>1. k - 1 = n - 2 /\ k = n - 1
        BY <2>1 DEF k
    <3>2. QED BY <3>1, Zenon
  <2> HIDE DEF r, t
  <2>4. QED BY <2>2, <2>3, Zenon DEF k
<1>6. Names[n - 1] \in AllNames /\ Names[n] \in AllNames
  <2>1. n - 1 \in 1..Len(Names) /\ n \in 1..Len(Names)
    <3> DEFINE l == Len(Names)
    <3>1. l \in Nat /\ n \in 2..l
        BY <1>1
    <3> HIDE DEF l
    <3>2. n - 1 \in 1..l /\ n \in 1..l
        BY <3>1
    <3>3. QED BY <3>2 DEF l
  <2>2. QED BY <1>1, <2>1, Zenon
<1>7. d = u \o r
    OBVIOUS
<1>8. OneLinkMore(bs, ls, a, b, lt)
    BY LinkAdded
<1>9. Linked(Text, n - 1) = IF Names[n - 1] # NoName /\ Names[n] # NoName THEN one ELSE <<>>
  <2>1. Linked(Text, n - 1) = IF Text.names[n - 1] # NoName /\ Text.names[(n - 1) + 1] # NoName
                              THEN << <<Text.names[n - 1], Text.names[(n - 1) + 1]>> >> ELSE <<>>
    BY DEF Linked
  <2>2. QED BY <1>4, <2>1 DEF Names
<1>10. Drawn(bs, lt) = d \o t
  <2>1. CASE a = 0 \/ b = 0
    <3>1. lt = ls
        BY <1>8, <2>1 DEF OneLinkMore
    <3>2. t = <<>>
        BY <1>9, <2>1
    <3>3. d \o <<>> = d
      <4>1. d \in Seq(Couples)
        BY <1>3, <1>5, <1>7, Joining
      <4> HIDE DEF d
      <4>2. QED BY <4>1
    <3> HIDE DEF d, t
    <3>4. QED BY <3>1, <3>2, <3>3, Zenon DEF d
  <2>2. CASE a # 0 /\ b # 0
    <3>1. Drawn(bs, lt) = Append(Drawn(bs, ls), <<bs[a].name, bs[b].name>>)
        BY <1>8, <2>2, Zenon DEF OneLinkMore
    <3>2. bs[a].name = Names[n - 1] /\ bs[b].name = Names[n] /\ t = one
        BY <1>9, <2>2
    <3>3. Drawn(bs, lt) = Append(d, pair)
        BY <3>1, <3>2
    <3>4. pair \in Couples
        BY <1>6 DEF Couples
    <3>5. d \in Seq(Couples)
        BY <1>3, <1>5, <1>7, Joining
    <3> HIDE DEF d, pair
    <3>6. Append(d, pair) = d \o one
        BY <3>4, <3>5
    <3> HIDE DEF one, t
    <3>7. QED BY <3>2, <3>3, <3>6
  <2>3. QED BY <2>1, <2>2
<1> HIDE DEF u, r, t, d, lt
<1>11. (u \o r) \o t = u \o (r \o t)
  <2>1. u \in Seq(Couples) /\ r \in Seq(Couples) /\ t \in Seq(Couples)
    BY <1>3, <1>5
  <2>2. Regrouped(u, r, t)
    BY <2>1, Regroup
  <2>3. QED BY <2>2, Zenon DEF Regrouped
<1>12. Drawn(bs, lt) = u \o Upto(OnLine)[n - 1]
    BY <1>5, <1>7, <1>10, <1>11
<1>13. QED BY <1>12, Zenon DEF u, lt, MentionMore

LEMMA FlowLineArrows ==
    ASSUME ReadInv, OwnBoxInv, ArrowsInv, ReadFlowLine
    PROVE  ArrowsInv'
<1> DEFINE id == IF mention = 0 THEN LeftOfCut ELSE Names[mention]
           next == IF mention = 0 THEN FirstCut + 1 ELSE mention + 1
           bt == boxes'
           lt == links'
           f  == First(bt, id)
           o  == Len(boxes)
<1>1. /\ stage = "read" /\ stage' = "read" /\ UNCHANGED diagram /\ diagram.kind = "flowchart"
      /\ at \in Nat \ {0} /\ at <= Len(diagram.lines) /\ Text.is = "chain"
      /\ bt = FlowNode(boxes, id)
      /\ lt = IF mention = 0 THEN links ELSE AddLink(links, src, f)
      /\ \/ next > Len(Names) /\ at' = at + 1 /\ mention' = 0
         \/ next <= Len(Names) /\ mention' = next /\ src' = f /\ at' = at
    BY DEF ReadFlowLine, Reads, EndOfLine, Text, OwnBoxInv
<1>2. DiagramOrNone /\ DiagramOrNone' /\ at \in DOMAIN diagram.lines /\ at \in 1..Len(diagram.lines)
    BY <1>1, LineFacts DEF ArrowsInv, DiagramOrNone
<1>3. IsSeq(boxes) /\ o \in Nat /\ links \in Seq((1..o) \X (1..o)) /\ src \in 0..o
    BY BoxesOrNone DEF ReadInv, LinksInv
<1> HIDE DEF id, next, o
<1>4. IsSeq(bt) /\ Len(bt) \in Nat /\ o <= Len(bt)
  <2> HIDE DEF bt
  <2>1. bt = boxes \/ bt = AddBox(boxes, id)
    BY <1>1 DEF FlowNode
  <2>2. CASE bt = boxes
    BY <1>3, <2>2 DEF o
  <2>3. CASE bt = AddBox(boxes, id)
    BY <1>3, <2>3, NamesKept DEF o
  <2>4. QED BY <2>1, <2>2, <2>3
<1>5. f \in 0..Len(bt)
    BY <1>4, Lookups
<1>6. links \in Seq((1..Len(bt)) \X (1..Len(bt))) /\ src \in 0..Len(bt)
  <2> HIDE DEF bt
  <2>1. src \in 0..Len(bt)
    BY <1>3, <1>4
  <2>2. QED BY <1>3, <1>4, <2>1, SeqGrows
<1>7. Len(links) \in Nat /\ Len(lt) \in Nat /\ Len(links) <= Len(lt)
  <2>1. CASE mention = 0
    <3>1. lt = links
        BY <1>1, <2>1
    <3>2. Len(links) \in Nat
        BY <1>3
    <3>3. QED BY <3>1, <3>2
  <2>2. CASE mention # 0
    <3> HIDE DEF bt, lt, f
    <3>1. OneLinkMore(bt, links, src, f, AddLink(links, src, f))
        BY <1>4, <1>5, <1>6, LinkAdded
    <3>2. lt = AddLink(links, src, f)
        BY <1>1, <2>2
    <3>3. OneLinkMore(bt, links, src, f, lt)
        BY <3>1, <3>2
    <3>4. QED BY <3>3, Zenon DEF OneLinkMore
  <2>3. QED BY <2>1, <2>2
<1>8. SUFFICES ASSUME Roomy'
               PROVE  /\ AtMention' \/ (mention' = 0 /\ (Drawn(boxes, links) = Upto(ToDraw)[at - 1])')
                      /\ Named(bt, NoName) = {}
    BY <1>1, <1>2 DEF ArrowsInv
<1>9. Roomy
    BY <1>1, <1>3, <1>4, <1>7, <1>8, StillRoomy DEF o
<1>10. /\ AtMention \/ (mention = 0 /\ Drawn(boxes, links) = Upto(ToDraw)[at - 1])
       /\ Named(boxes, NoName) = {}
    BY <1>1, <1>9 DEF ArrowsInv
<1>11. Len(bt) < MaxBoxes /\ Len(links) < MaxLinks /\ ~Mixed(Text)
    BY <1>2, <1>8, <1>9 DEF Roomy, Text
<1>12. /\ \A k \in 1..o : bt[k].name = boxes[k].name
       /\ Named(bt, NoName) = {}
       /\ f = 0 <=> id = NoName
       /\ f # 0 => bt[f].name = id
  <2> HIDE DEF bt
  <2>1. bt = FlowNode(boxes, id)
    BY <1>1
  <2>2. /\ \A k \in 1..Len(boxes) : bt[k].name = boxes[k].name
        /\ Named(bt, NoName) = {}
        /\ Len(bt) < MaxBoxes => (First(bt, id) = 0 <=> id = NoName)
        /\ First(bt, id) # 0 => bt[First(bt, id)].name = id
    BY <1>3, <1>10, <2>1, FlowNodeNamed
  <2>3. QED BY <1>11, <2>2 DEF o
<1> HIDE DEF bt, lt, f
<1>13. Drawn(bt, links) = Drawn(boxes, links)
    BY <1>3, <1>12, DrawnKept
<1>14. Len(Names) \in Nat /\ Len(Names) >= 1
    BY <1>1, <1>2, LineFacts DEF Text, Names
<1>15. ToDraw' = ToDraw /\ (at' = at => Names' = Names /\ OnLine' = OnLine)
    BY <1>1, ToDrawStays DEF OnLine, Text, Names
<1>16. /\ Upto(OnLine)[0] = <<>> /\ Pairs(at) = Upto(OnLine)[Len(Names) - 1]
    BY <1>1, <1>2, ChainPairs
<1>17. CASE mention = 0
  <2>1. id = Names[1] /\ next = 2 /\ lt = links
    BY <1>1, <1>2, <1>11, <1>17, FirstName DEF id, next
  <2>2. Drawn(boxes', links') = Drawn(boxes, links) /\ Drawn(boxes, links) = Upto(ToDraw)[at - 1]
    <3>1. ~AtMention
        BY <1>14, <1>17 DEF AtMention
    <3>2. QED BY <1>10, <1>13, <2>1, <3>1 DEF bt, lt
  <2>3. CASE next > Len(Names)
    <3>1. Len(Names) - 1 = 0 /\ ~(next <= Len(Names))
      <4> DEFINE l == Len(Names)
      <4>1. l \in Nat /\ l >= 1 /\ next = 2 /\ next > l
        BY <1>14, <2>1, <2>3
      <4> HIDE DEF l
      <4>2. l - 1 = 0 /\ ~(next <= l)
        BY <4>1
      <4>3. QED BY <4>2 DEF l
    <3>2. Pairs(at) = <<>> /\ at' = at + 1 /\ mention' = 0
        BY <1>1, <1>16, <3>1
    <3>3. (Drawn(boxes, links) = Upto(ToDraw)[at - 1])'
        BY <1>1, <1>2, <2>2, <3>2, LinePassed
    <3>4. QED BY <1>12, <3>2, <3>3
  <2>4. CASE next <= Len(Names)
    <3>1. mention' = 2 /\ src' = f /\ at' = at
        BY <1>1, <1>14, <2>1, <2>4
    <3> DEFINE u == Upto(ToDraw)[at - 1]
    <3>2. u \in Seq(Couples)
        BY <1>2, LinePairs
    <3>3. u \o <<>> = u
      <4> HIDE DEF u
      <4>1. QED BY <3>2
    <3>4. Drawn(boxes', links') = u \o Upto(OnLine)[0]
        BY <1>16, <2>2, <3>3
    <3>5. 2 \in 2..Len(Names) /\ 2 - 2 = 0 /\ 2 - 1 = 1
        BY <1>14, <2>1, <2>4
    <3>6. (Drawn(boxes, links) = Upto(ToDraw)[at - 1] \o Upto(OnLine)[mention - 2])'
        BY <1>15, <3>1, <3>4, <3>5
    <3>7. /\ (src = 0 => Names[mention - 1] = NoName)'
          /\ (src # 0 => Names[mention - 1] # NoName /\ boxes[src].name = Names[mention - 1])'
        BY <1>12, <1>15, <2>1, <3>1, <3>5 DEF bt
    <3>8. AtMention'
        BY <1>1, <1>15, <3>1, <3>5, <3>6, <3>7 DEF AtMention
    <3>9. QED BY <1>12, <3>8
  <2>5. QED BY <1>14, <2>1, <2>3, <2>4
<1>18. CASE AtMention
  <2> DEFINE n == mention
             u == Upto(ToDraw)[at - 1]
  <2>1. /\ n \in 2..Len(Names)
        /\ Drawn(boxes, links) = u \o Upto(OnLine)[n - 2]
        /\ src = 0 => Names[n - 1] = NoName
        /\ src # 0 => Names[n - 1] # NoName /\ boxes[src].name = Names[n - 1]
    BY <1>18 DEF AtMention
  <2>2. n # 0 /\ id = Names[n] /\ next = n + 1 /\ lt = AddLink(links, src, f)
    <3>1. n # 0
        BY <1>14, <2>1
    <3>2. QED BY <1>1, <3>1 DEF id, next
  <2>3. src # 0 => bt[src].name = boxes[src].name
    <3>1. src # 0 => src \in 1..o
        BY <1>3
    <3>2. QED BY <1>12, <3>1
  <2>4. Drawn(bt, lt) = u \o Upto(OnLine)[n - 1]
    <3>1. /\ DiagramOrNone /\ at \in DOMAIN diagram.lines /\ Text.is = "chain" /\ n \in 2..Len(Names)
          /\ Len(bt) \in Nat /\ links \in Seq((1..Len(bt)) \X (1..Len(bt)))
          /\ src \in 0..Len(bt) /\ f \in 0..Len(bt) /\ lt = AddLink(links, src, f) /\ Len(links) < MaxLinks
          /\ Drawn(bt, links) = Upto(ToDraw)[at - 1] \o Upto(OnLine)[n - 2]
          /\ src = 0 => Names[n - 1] = NoName
          /\ src # 0 => Names[n - 1] # NoName /\ bt[src].name = Names[n - 1]
          /\ (f = 0 <=> Names[n] = NoName) /\ (f # 0 => bt[f].name = Names[n])
        BY <1>1, <1>2, <1>4, <1>5, <1>6, <1>11, <1>12, <1>13, <2>1, <2>2, <2>3
    <3> HIDE DEF n
    <3>2. MentionMore(bt, links, src, f, n)
        BY <3>1, MentionDrawn
    <3>3. QED BY <3>1, <3>2, Zenon DEF MentionMore
  <2>5. CASE next > Len(Names)
    <3>1. n = Len(Names) /\ ~(next <= Len(Names))
        BY <1>14, <2>1, <2>2, <2>5
    <3>2. at' = at + 1 /\ mention' = 0
        BY <1>1, <3>1
    <3>3. Drawn(bt, lt) = u \o Pairs(at)
        BY <1>16, <2>4, <3>1
    <3>4. Upto(ToDraw)[at] = u \o Pairs(at)
        BY <1>2, LinePairs
    <3>5. at' - 1 = at
        BY <1>1, <3>2
    <3>6. (Drawn(boxes, links) = Upto(ToDraw)[at - 1])'
        BY <1>15, <3>3, <3>4, <3>5 DEF bt, lt
    <3>7. QED BY <1>12, <3>2, <3>6
  <2>6. CASE next <= Len(Names)
    <3>1. mention' = n + 1 /\ src' = f /\ at' = at /\ n + 1 \in 2..Len(Names)
        BY <1>1, <1>14, <2>1, <2>2, <2>6
    <3>2. (n + 1) - 1 = n /\ (n + 1) - 2 = n - 1
        BY <2>1, <1>14
    <3>3. (Drawn(boxes, links) = Upto(ToDraw)[at - 1] \o Upto(OnLine)[mention - 2])'
        BY <1>15, <2>4, <3>1, <3>2 DEF bt, lt
    <3>4. /\ (src = 0 => Names[mention - 1] = NoName)'
          /\ (src # 0 => Names[mention - 1] # NoName /\ boxes[src].name = Names[mention - 1])'
        BY <1>12, <1>15, <2>2, <3>1, <3>2 DEF bt
    <3>5. AtMention'
        BY <1>1, <1>15, <3>1, <3>3, <3>4 DEF AtMention
    <3>6. QED BY <1>12, <3>5
  <2>7. QED BY <1>14, <2>1, <2>2, <2>5, <2>6
<1>19. QED BY <1>10, <1>17, <1>18

-----------------------------------------------------------------------------
\* The lines of the other three kinds, which are read in one step each.
Passing ==
    /\ stage = "read" /\ UNCHANGED <<diagram, stage>> /\ diagram.kind # "flowchart"
    /\ at \in Nat \ {0} /\ at <= Len(diagram.lines) /\ at' = at + 1 /\ mention' = 0

LEMMA BetweenLines ==
    ASSUME ArrowsInv, Roomy, Passing
    PROVE  /\ DiagramOrNone /\ Drawn(boxes, links) = Upto(ToDraw)[at - 1]
           /\ diagram.kind = "class" => (open # 0 <=> Opened(at))
           /\ diagram.kind = "sequence" => ~Opened(at)
BY DEF ArrowsInv, AtMention, Passing

LEMMA LineGone ==
    ASSUME ArrowsInv, Passing,
           Roomy' => /\ (Drawn(boxes, links) = Upto(ToDraw)[at - 1])'
                     /\ diagram.kind = "class" => (open' # 0 <=> Opened(at + 1))
                     /\ diagram.kind = "sequence" => ~Opened(at + 1)
    PROVE  ArrowsInv'
<1>1. DiagramOrNone' <=> DiagramOrNone
    BY DEF Passing, DiagramOrNone
<1>2. Opened(at)' <=> Opened(at + 1)
    BY DEF Passing, Opened
<1>3. QED BY <1>1, <1>2 DEF ArrowsInv, Passing

\* A line with a link, and one without.
LEMMA WithLink ==
    ASSUME ReadInv, ArrowsInv, Passing, LinkLine, Text.is = "link", Roomy => ~InClass(at), Roomy'
    PROVE  Roomy /\ (Drawn(boxes, links) = Upto(ToDraw)[at - 1])'
<1>1. /\ Len(boxes) \in Nat /\ Len(boxes') \in Nat /\ Len(boxes) <= Len(boxes')
      /\ Len(links) \in Nat /\ Len(links') \in Nat /\ Len(links) <= Len(links')
    BY LinkLineDrawn
<1>2. Roomy
    BY <1>1, StillRoomy DEF Passing
<1>3. Len(boxes') < MaxBoxes /\ Len(links) < MaxLinks
    BY <1>2 DEF Roomy
<1>4. /\ DiagramOrNone /\ at \in Nat \ {0} /\ at <= Len(diagram.lines) /\ UNCHANGED diagram
      /\ at' = at + 1 /\ Drawn(boxes, links) = Upto(ToDraw)[at - 1] /\ ~InClass(at)
    BY <1>2, BetweenLines DEF Passing
<1>5. QED BY <1>2, <1>3, <1>4, LinkLineRead

LEMMA WithoutLink ==
    ASSUME ReadInv, ArrowsInv, Passing, Len(boxes') \in Nat, Len(boxes) <= Len(boxes'), links' = links,
           \A k \in 1..Len(boxes) : boxes'[k].name = boxes[k].name,
           Roomy => Pairs(at) = <<>>, Roomy'
    PROVE  Roomy /\ (Drawn(boxes, links) = Upto(ToDraw)[at - 1])'
<1> DEFINE o  == Len(boxes)
           bt == boxes'
<1>1. o \in Nat /\ links \in Seq((1..o) \X (1..o)) /\ Len(links) \in Nat
    BY BoxesOrNone DEF ReadInv, LinksInv
<1>2. Roomy
    BY <1>1, StillRoomy DEF Passing
<1>3. Drawn(boxes', links') = Drawn(boxes, links)
  <2>1. \A k \in 1..o : bt[k].name = boxes[k].name
    OBVIOUS
  <2> HIDE DEF bt, o
  <2>2. Drawn(bt, links) = Drawn(boxes, links)
    BY <1>1, <2>1, DrawnKept
  <2>3. QED BY <2>2 DEF bt
<1>4. /\ DiagramOrNone /\ at \in Nat \ {0} /\ at <= Len(diagram.lines) /\ UNCHANGED diagram
      /\ at' = at + 1 /\ Drawn(boxes, links) = Upto(ToDraw)[at - 1] /\ Pairs(at) = <<>>
    BY <1>2, BetweenLines DEF Passing
<1>5. QED BY <1>2, <1>3, <1>4, LinePassed

\* A box that is added, or not.
LEMMA NamesStay ==
    ASSUME ReadInv, NEW id, boxes' = boxes \/ boxes' = AddBox(boxes, id)
    PROVE  /\ Len(boxes') \in Nat /\ Len(boxes) <= Len(boxes')
           /\ \A k \in 1..Len(boxes) : boxes'[k].name = boxes[k].name
<1> DEFINE bt == boxes'
<1>1. IsSeq(boxes) /\ Len(boxes) \in Nat
    BY BoxesOrNone DEF ReadInv
<1>2. CASE bt = boxes
    BY <1>1, <1>2
<1>3. CASE bt = AddBox(boxes, id)
  <2> HIDE DEF bt
  <2>1. /\ Len(bt) \in Nat /\ Len(boxes) <= Len(bt)
        /\ \A k \in 1..Len(boxes) : bt[k].name = boxes[k].name
    BY <1>1, <1>3, NamesKept
  <2>2. QED BY <2>1 DEF bt
<1>4. QED BY <1>2, <1>3

LEMMA SequenceLineArrows ==
    ASSUME ReadInv, OwnBoxInv, ArrowsInv, ReadSequenceLine
    PROVE  ArrowsInv'
<1>1. /\ Passing /\ diagram.kind = "sequence"
      /\ Text.is \in {"box", "link", "member"}
      /\ \/ Text.is = "box" /\ boxes' \in {boxes, AddBox(boxes, Names[1])} /\ UNCHANGED links
         \/ Text.is = "link" /\ Len(links) < MaxLinks /\ LinkLine
         \/ Text.is = "link" /\ Len(links) >= MaxLinks /\ UNCHANGED <<boxes, links>>
         \/ Text.is = "member" /\ UNCHANGED <<boxes, links>>
    BY DEF ReadSequenceLine, Reads, EndOfLine, OwnBoxInv, Text, Passing
<1>2. at \in Nat \ {0}
    BY <1>1 DEF Passing
<1>3. ASSUME Roomy PROVE ~Opened(at + 1) /\ ~InClass(at)
  <2>1. ~Opened(at)
    BY <1>1, <1>3, BetweenLines
  <2>2. Text.is \notin {"closing", "opening"} /\ Text.is # "closing"
    BY <1>1
  <2>3. QED BY <1>2, <2>1, <2>2, OpenedNext
<1>4. Text.is # "link" => Pairs(at) = <<>>
    BY <1>1 DEF Pairs, Text
<1>5. ASSUME Roomy' PROVE Roomy /\ (Drawn(boxes, links) = Upto(ToDraw)[at - 1])'
  <2>1. CASE Text.is = "box" /\ boxes' \in {boxes, AddBox(boxes, Names[1])} /\ UNCHANGED links
    <3>1. boxes' = boxes \/ boxes' = AddBox(boxes, Names[1])
        BY <2>1
    <3>2. /\ Len(boxes') \in Nat /\ Len(boxes) <= Len(boxes')
          /\ \A k \in 1..Len(boxes) : boxes'[k].name = boxes[k].name
        BY <3>1, NamesStay
    <3>3. Pairs(at) = <<>>
        BY <1>4, <2>1
    <3>4. QED BY <1>1, <1>5, <2>1, <3>2, <3>3, WithoutLink
  <2>2. CASE Text.is = "link" /\ Len(links) < MaxLinks /\ LinkLine
    BY <1>1, <1>3, <1>5, <2>2, WithLink
  <2>3. CASE Text.is = "link" /\ Len(links) >= MaxLinks /\ UNCHANGED <<boxes, links>>
    <3>1. Len(links) \in Nat
        BY DEF ReadInv, LinksInv
    <3>2. Len(links) < MaxLinks
        BY <1>5, <2>3 DEF Roomy
    <3>3. QED BY <2>3, <3>1, <3>2, BoundsAssumption
  <2>4. CASE Text.is = "member" /\ UNCHANGED <<boxes, links>>
    <3>1. /\ Len(boxes') \in Nat /\ Len(boxes) <= Len(boxes')
          /\ \A k \in 1..Len(boxes) : boxes'[k].name = boxes[k].name
        BY <2>4, NamesStay
    <3>2. Pairs(at) = <<>>
        BY <1>4, <2>4
    <3>3. QED BY <1>1, <1>5, <2>4, <3>1, <3>2, WithoutLink
  <2>5. QED BY <1>1, <2>1, <2>2, <2>3, <2>4
<1>6. QED BY <1>1, <1>3, <1>5, LineGone

\* A class that is opened has a box.
LEMMA ClassFound ==
    ASSUME ReadInv, NEW id, boxes' = IF Named(boxes, id) = {} THEN AddBox(boxes, id) ELSE boxes,
           Len(boxes') < MaxBoxes
    PROVE  First(boxes', id) # 0
<1> DEFINE bt == boxes'
           l  == Len(bt)
<1>1. IsSeq(boxes) /\ Len(boxes) \in Nat
    BY BoxesOrNone DEF ReadInv
<1>2. CASE Named(boxes, id) # {}
  <2>1. bt = boxes
    BY <1>2
  <2>2. First(boxes, id) # 0
    BY <1>1, <1>2, LookedUp
  <2>3. QED BY <2>1, <2>2
<1>3. CASE Named(boxes, id) = {}
  <2>1. bt = AddBox(boxes, id) /\ l < MaxBoxes
    BY <1>3
  <2> HIDE DEF bt
  <2>2. /\ IsSeq(bt) /\ l \in Nat /\ Len(boxes) <= l
        /\ Len(boxes) < MaxBoxes => l = Len(boxes) + 1 /\ bt[l].name = id
    BY <1>1, <2>1, NamesKept
  <2>3. Len(boxes) < MaxBoxes
    BY <1>1, <2>1, <2>2, BoundsAssumption
  <2>4. l = Len(boxes) + 1 /\ bt[l].name = id /\ DOMAIN bt = 1..l
    BY <2>2, <2>3 DEF IsSeq
  <2> HIDE DEF l
  <2>5. l \in 1..l
    BY <1>1, <2>4
  <2>6. l \in Named(bt, id)
    BY <2>4, <2>5 DEF Named
  <2>7. First(bt, id) # 0
    BY <2>2, <2>6, LookedUp
  <2>8. QED BY <2>7 DEF bt
<1>4. QED BY <1>2, <1>3

\* Counting a member changes no name.
LEMMA MemberCounted ==
    ASSUME ReadInv, Shaped(boxes), boxes' \in {boxes, [boxes EXCEPT ![open].members = @ + 1]}
    PROVE  /\ Len(boxes') \in Nat /\ Len(boxes) <= Len(boxes')
           /\ \A k \in 1..Len(boxes) : boxes'[k].name = boxes[k].name
<1>1. IsSeq(boxes) /\ Len(boxes) \in Nat /\ DOMAIN boxes = 1..Len(boxes)
    BY BoxesOrNone DEF ReadInv
<1>2. CASE boxes' = boxes
    BY <1>1, <1>2
<1>3. CASE boxes' = [boxes EXCEPT ![open].members = @ + 1]
  <2>1. Len(boxes') = Len(boxes)
    <3>1. PICK box : boxes' = [boxes EXCEPT ![open] = box]
        BY <1>3
    <3>2. QED BY <1>1, <3>1, ExceptIsSeq
  <2>2. ASSUME NEW k \in 1..Len(boxes) PROVE boxes'[k].name = boxes[k].name
    <3>1. k \in DOMAIN boxes /\ DOMAIN boxes[k] = {"name", "members"}
        BY <1>1 DEF Shaped
    <3>2. CASE k = open
      <4>1. boxes'[k] = [boxes[k] EXCEPT !.members = @ + 1]
        BY <1>3, <3>1, <3>2
      <4>2. QED BY <3>1, <4>1
    <3>3. CASE k # open
        BY <1>3, <3>1, <3>3
    <3>4. QED BY <3>2, <3>3
  <2>3. QED BY <1>1, <2>1, <2>2
<1>4. QED BY <1>2, <1>3

LEMMA ClassLineArrows ==
    ASSUME ReadInv, OwnBoxInv, open \in 0..Len(boxes), ArrowsInv, ReadClassLine
    PROVE  ArrowsInv'
<1> DEFINE is == Text.is
           id == Names[1]
<1>1. /\ Passing /\ diagram.kind = "class" /\ is \in LineKinds \ {"chain"}
      /\ at \in Nat \ {0} /\ open \in Nat /\ Shaped(boxes)
    BY BoxesOrNone DEF ReadClassLine, Reads, EndOfLine, OwnBoxInv, Text, Passing, ReadInv
<1>2. /\ is = "closing" => ~Opened(at + 1)
      /\ is = "opening" => Opened(at + 1)
      /\ is \notin {"closing", "opening"} => (Opened(at + 1) <=> Opened(at))
      /\ is # "closing" => (InClass(at) <=> Opened(at))
    BY <1>1, OpenedNext
<1>3. Roomy => (open # 0 <=> Opened(at))
    BY <1>1, BetweenLines
<1>4. is # "link" \/ InClass(at) => Pairs(at) = <<>>
    BY <1>1 DEF Pairs, Text
<1>5. SUFFICES ASSUME Roomy'
               PROVE  /\ (Drawn(boxes, links) = Upto(ToDraw)[at - 1])'
                      /\ open' # 0 <=> Opened(at + 1)
    BY <1>1, LineGone
<1>6. CASE open > 0 /\ is = "closing" /\ open' = 0 /\ UNCHANGED <<boxes, links>>
  <2>1. /\ Len(boxes') \in Nat /\ Len(boxes) <= Len(boxes')
        /\ \A k \in 1..Len(boxes) : boxes'[k].name = boxes[k].name
    BY <1>6, NamesStay
  <2>2. Pairs(at) = <<>>
    BY <1>4, <1>6
  <2>3. (Drawn(boxes, links) = Upto(ToDraw)[at - 1])'
    BY <1>1, <1>5, <1>6, <2>1, <2>2, WithoutLink
  <2>4. QED BY <1>2, <1>6, <2>3
<1>7. CASE /\ is \in {"box", "opening"}
           /\ boxes' = IF Named(boxes, id) = {} THEN AddBox(boxes, id) ELSE boxes
           /\ open' = IF is = "opening" THEN First(boxes', id) ELSE open
           /\ UNCHANGED links
  <2>1. /\ Len(boxes') \in Nat /\ Len(boxes) <= Len(boxes')
        /\ \A k \in 1..Len(boxes) : boxes'[k].name = boxes[k].name
    BY <1>7, NamesStay
  <2>2. Pairs(at) = <<>>
    BY <1>4, <1>7
  <2>3. Roomy /\ (Drawn(boxes, links) = Upto(ToDraw)[at - 1])'
    BY <1>1, <1>5, <1>7, <2>1, <2>2, WithoutLink
  <2>4. First(boxes', id) # 0
    <3>1. Len(boxes') < MaxBoxes
        BY <1>5 DEF Roomy
    <3>2. QED BY <1>7, <3>1, ClassFound
  <2>5. open' # 0 <=> Opened(at + 1)
    BY <1>2, <1>3, <1>7, <2>3, <2>4
  <2>6. QED BY <2>3, <2>5
<1>8. CASE /\ open > 0 /\ is \notin {"box", "opening", "closing"}
           /\ boxes' \in {boxes, [boxes EXCEPT ![open].members = @ + 1]}
           /\ UNCHANGED <<open, links>>
  <2>1. /\ Len(boxes') \in Nat /\ Len(boxes) <= Len(boxes')
        /\ \A k \in 1..Len(boxes) : boxes'[k].name = boxes[k].name
    BY <1>1, <1>8, MemberCounted
  <2>2. Roomy => Pairs(at) = <<>>
    BY <1>2, <1>3, <1>4, <1>8
  <2>3. Roomy /\ (Drawn(boxes, links) = Upto(ToDraw)[at - 1])'
    BY <1>1, <1>5, <1>8, <2>1, <2>2, WithoutLink
  <2>4. QED BY <1>2, <1>3, <1>8, <2>3
<1>9. CASE open = 0 /\ is = "link" /\ LinkLine /\ UNCHANGED open
  <2>1. Roomy => ~InClass(at)
    BY <1>2, <1>3, <1>9
  <2>2. Roomy /\ (Drawn(boxes, links) = Upto(ToDraw)[at - 1])'
    BY <1>1, <1>5, <1>9, <2>1, WithLink
  <2>3. QED BY <1>2, <1>3, <1>9, <2>2
<1>10. CASE open = 0 /\ is \in {"member", "closing"} /\ UNCHANGED <<boxes, links, open>>
  <2>1. /\ Len(boxes') \in Nat /\ Len(boxes) <= Len(boxes')
        /\ \A k \in 1..Len(boxes) : boxes'[k].name = boxes[k].name
    BY <1>10, NamesStay
  <2>2. Pairs(at) = <<>>
    BY <1>4, <1>10
  <2>3. Roomy /\ (Drawn(boxes, links) = Upto(ToDraw)[at - 1])'
    BY <1>1, <1>5, <1>10, <2>1, <2>2, WithoutLink
  <2>4. QED BY <1>2, <1>3, <1>10, <2>3
<1>11. QED BY <1>6, <1>7, <1>8, <1>9, <1>10 DEF ReadClassLine, Declares

LEMMA SliceArrows ==
    ASSUME ReadInv, ArrowsInv, at \in Nat \ {0}, ReadSlice
    PROVE  ArrowsInv'
<1>1. /\ Passing /\ diagram.kind = "pie" /\ Text.is \in {"box", "member"}
      /\ boxes' = boxes \/ boxes' = AddBox(boxes, Names[1])
      /\ links' = links
    BY DEF ReadSlice, Reads, EndOfLine, Text, Passing
<1>2. /\ Len(boxes') \in Nat /\ Len(boxes) <= Len(boxes')
      /\ \A k \in 1..Len(boxes) : boxes'[k].name = boxes[k].name
    BY <1>1, NamesStay
<1>3. Pairs(at) = <<>>
    BY <1>1 DEF Pairs, Text
<1>4. ASSUME Roomy' PROVE (Drawn(boxes, links) = Upto(ToDraw)[at - 1])'
    BY <1>1, <1>2, <1>3, <1>4, WithoutLink
<1>5. QED BY <1>1, <1>4, LineGone

\* Behind the last line all is drawn that is written.
LEMMA EndArrows ==
    ASSUME ArrowsInv, EndSource
    PROVE  ArrowsInv'
<1>1. /\ stage = "read" /\ at = Len(diagram.lines) + 1 /\ UNCHANGED <<diagram, boxes, links>>
      /\ stage' # "read"
    BY DEF EndSource, reading
<1>2. DiagramOrNone /\ DiagramOrNone' /\ ToDraw' = ToDraw
    BY <1>1, ToDrawStays DEF ArrowsInv
<1>3. ASSUME Roomy PROVE Drawn(boxes, links) = FlattenSeq(ToDraw)
  <2>1. Len(diagram.lines) \in Nat
    BY <1>2, LineFacts
  <2>2. ~(at <= Len(diagram.lines)) /\ at - 1 = Len(diagram.lines)
    <3> DEFINE l == Len(diagram.lines)
    <3>1. l \in Nat /\ at = l + 1
        BY <1>1, <2>1
    <3> HIDE DEF l
    <3>2. ~(at <= l) /\ at - 1 = l
        BY <3>1
    <3>3. QED BY <3>2 DEF l
  <2>3. Drawn(boxes, links) = Upto(ToDraw)[at - 1]
    BY <1>1, <1>3, <2>2 DEF ArrowsInv, AtMention
  <2>4. Upto(ToDraw)[Len(diagram.lines)] = FlattenSeq(ToDraw)
    BY <1>2, LinePairs
  <2>5. QED BY <2>2, <2>3, <2>4
<1>4. Roomy' => Roomy
    BY <1>1 DEF Roomy
<1>5. Drawn(boxes', links') = Drawn(boxes, links)
    BY <1>1
<1>6. QED BY <1>1, <1>2, <1>3, <1>4, <1>5 DEF ArrowsInv

LEMMA LaterArrows ==
    ASSUME ArrowsInv, UNCHANGED reading, stage # "read", stage' # "read"
    PROVE  ArrowsInv'
<1>1. UNCHANGED <<diagram, boxes, links>>
    BY DEF reading
<1>2. DiagramOrNone' /\ ToDraw' = ToDraw
    BY <1>1, ToDrawStays DEF ArrowsInv
<1>3. Roomy' => Roomy
    BY <1>1 DEF Roomy
<1>4. Drawn(boxes', links') = Drawn(boxes, links)
    BY <1>1
<1>5. QED BY <1>2, <1>3, <1>4 DEF ArrowsInv

LEMMA SameArrows ==
    ASSUME ArrowsInv, UNCHANGED chart
    PROVE  ArrowsInv'
<1>1. UNCHANGED <<diagram, at, mention, src, boxes, links, open, stage>>
    BY DEF chart, reading
<1>2. DiagramOrNone' /\ ToDraw' = ToDraw
    BY <1>1, ToDrawStays DEF ArrowsInv
<1>3. (Opened(at)' <=> Opened(at)) /\ (Roomy' <=> Roomy) /\ Text' = Text /\ Names' = Names
    BY <1>1 DEF Opened, Roomy, Text, Names
<1>4. OnLine' = OnLine
    BY <1>3 DEF OnLine
<1>5. Drawn(boxes', links') = Drawn(boxes, links) /\ Named(boxes', NoName) = Named(boxes, NoName)
    BY <1>1
<1>6. AtMention' <=> AtMention
    BY <1>1, <1>2, <1>3, <1>4, <1>5 DEF AtMention
<1>7. QED BY <1>1, <1>2, <1>3, <1>5, <1>6 DEF ArrowsInv

LEMMA ArrowsStep == ChartInv /\ OwnBoxInv /\ TypedInv /\ ArrowsInv /\ [MermaidNext]_chart => ArrowsInv'
<1> SUFFICES ASSUME ChartInv, OwnBoxInv, TypedInv, ArrowsInv, [MermaidNext]_chart PROVE ArrowsInv'
    OBVIOUS
<1>1. ReadInv /\ open \in 0..Len(boxes) /\ at \in Nat \ {0}
    BY DEF ChartInv, TypedInv, MermaidTypeOK, OwnBoxInv
<1>2. CASE ReadFlowLine
    BY <1>1, <1>2, FlowLineArrows
<1>3. CASE ReadSequenceLine
    BY <1>1, <1>3, SequenceLineArrows
<1>4. CASE ReadClassLine
    BY <1>1, <1>4, ClassLineArrows
<1>5. CASE ReadSlice
    BY <1>1, <1>5, SliceArrows
<1>6. CASE EndSource
    BY <1>6, EndArrows
<1>7. CASE QueueRoot \/ StartRanks \/ TakeBox \/ FollowLink \/ Draw
  <2>1. UNCHANGED reading /\ stage # "read" /\ stage' # "read"
    BY <1>7 DEF QueueRoot, StartRanks, TakeBox, FollowLink, Draw
  <2>2. QED BY <2>1, LaterArrows
<1>8. CASE UNCHANGED chart
    BY <1>8, SameArrows
<1>9. QED BY <1>2, <1>3, <1>4, <1>5, <1>6, <1>7, <1>8 DEF MermaidNext

\* In front of the first line nothing is drawn, nor is anything written.
LEMMA NothingDrawn ==
    ASSUME DiagramOrNone, boxes = <<>>, links = <<>>
    PROVE  /\ Drawn(boxes, links) = <<>> /\ Upto(ToDraw)[0] = <<>> /\ Named(boxes, NoName) = {}
           /\ diagram.lines = <<>> => FlattenSeq(ToDraw) = <<>>
<1>1. Drawn(boxes, links) = <<>>
    BY DEF Drawn
<1>2. Upto(ToDraw)[0] = <<>> /\ Upto(ToDraw)[Len(diagram.lines)] = FlattenSeq(ToDraw)
    BY LinePairs
<1>3. Named(boxes, NoName) = {}
    BY DEF Named
<1>4. diagram.lines = <<>> => Len(diagram.lines) = 0
    OBVIOUS
<1>5. QED BY <1>1, <1>2, <1>3, <1>4

LEMMA ArrowsStart == MermaidInit => ArrowsInv
<1> SUFFICES ASSUME MermaidInit PROVE ArrowsInv
    OBVIOUS
<1>1. /\ diagram \in Diagrams /\ at = 1 /\ mention = 0 /\ boxes = <<>> /\ links = <<>> /\ open = 0
      /\ stage = "read"
    BY DEF MermaidInit
<1>2. DiagramOrNone
    BY <1>1 DEF DiagramOrNone
<1>3. Drawn(boxes, links) = <<>> /\ Upto(ToDraw)[0] = <<>> /\ Named(boxes, NoName) = {}
    BY <1>1, <1>2, NothingDrawn
<1>4. at - 1 = 0 /\ ~Opened(at)
    BY <1>1 DEF Opened
<1>5. QED BY <1>1, <1>2, <1>3, <1>4 DEF ArrowsInv

LEMMA NoDiagramArrows ==
    ASSUME diagram.lines = <<>>, boxes = <<>>, links = <<>>, stage = "drawn"
    PROVE  ArrowsInv
<1>1. DiagramOrNone
    BY DEF DiagramOrNone
<1>2. Drawn(boxes, links) = FlattenSeq(ToDraw)
    BY <1>1, NothingDrawn
<1>3. QED BY <1>1, <1>2 DEF ArrowsInv

LEMMA ArrowsRight == ArrowsInv => LinksAsWritten
<1> SUFFICES ASSUME ArrowsInv,
                    MermaidDone /\ Len(boxes) < MaxBoxes /\ Len(links) < MaxLinks,
                    \A k \in DOMAIN diagram.lines : ~Mixed(diagram.lines[k])
             PROVE  [k \in DOMAIN links |-> <<boxes[links[k][1]].name, boxes[links[k][2]].name>>]
                      = FlattenSeq([k \in DOMAIN diagram.lines |-> Pairs(k)])
    BY Zenon DEF LinksAsWritten
<1>1. Roomy /\ stage # "read"
    BY DEF Roomy, MermaidDone
<1>2. Drawn(boxes, links) = FlattenSeq(ToDraw)
    BY <1>1 DEF ArrowsInv
<1>3. QED BY <1>2, Zenon DEF Drawn, ToDraw
=============================================================================
