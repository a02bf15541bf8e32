----------------------------- MODULE Conversions -----------------------------
(***************************************************************************)
(* What a request's handler does with strings: the converters that it      *)
(* calls, one at a time, in the one thread of the server.  A document, a   *)
(* formula of it, a diagram of it, or the strings of a request are at      *)
(* hand; the variables of the others are at rest.                          *)
(***************************************************************************)
EXTENDS MdBlocks, MathML, Mermaid, Wire

NoDocument ==
    /\ source = <<>> /\ lines = <<>> /\ i = 1
    /\ path = <<>> /\ stack = <<>>
    /\ block = [Idle EXCEPT !.loop = "done"]
    /\ html = <<>> /\ error = 0

NoFormula ==
    /\ latex = <<>> /\ meant = <<>> /\ p = 1
    /\ calls = <<Call("math", "base")>>

NoDiagram ==
    /\ diagram = [kind |-> "pie", lines |-> <<>>]
    /\ at = 1 /\ mention = 0 /\ src = 0
    /\ boxes = <<>> /\ links = <<>> /\ open = 0
    /\ depth = <<>> /\ queue = <<>> /\ head = 0 /\ edge = 0 /\ deepest = 0
    /\ stage = "drawn"

NoStrings ==
    /\ job = [is |-> "list", name |-> <<>>, text |-> <<>>, names |-> <<>>, cut |-> 0,
              disk |-> <<>>, active |-> <<>>]
    /\ wire = <<>> /\ pos = 1 /\ field = "content"
    /\ name = <<>> /\ out = <<>>
    /\ listed = <<>> /\ size = 1
    /\ phase = "ok"

all == <<document, formula, chart, wires>>

Init ==
    \/ BlocksInit /\ NoFormula /\ NoDiagram /\ NoStrings
    \/ NoDocument /\ MathInit /\ NoDiagram /\ NoStrings
    \/ NoDocument /\ NoFormula /\ MermaidInit /\ NoStrings
    \/ NoDocument /\ NoFormula /\ NoDiagram /\ WireInit

Next ==
    \/ MermaidNext /\ UNCHANGED <<document, formula, wires>>
    \/ MathNext /\ UNCHANGED <<document, chart, wires>>
    \/ WireNext /\ UNCHANGED <<document, formula, chart>>
    \/ BlocksNext /\ UNCHANGED <<formula, chart, wires>>

Spec == Init /\ [][Next]_all

\* The server's thread runs, and no converter waits for anything.
FairSpec == Spec /\ WF_all(Next)

-----------------------------------------------------------------------------
TypeOK == BlocksTypeOK /\ MathTypeOK /\ MermaidTypeOK /\ WireTypeOK

Done == BlocksDone /\ MathDone /\ MermaidDone /\ WireDone

\* Every conversion ends, and with it the request and the whole loop of the
\* server, which has one thread: the loops over lines that hand them over to each
\* other, the cursors of the recursive descent and of the strings always move on,
\* and no cycle of links keeps the queue of ranks busy (md_parser.c 2645-3560,
\* mathml.c 337-357, mermaid_svg.c 378-391).  A table without a heading and a
\* formula with a closing bracket that closes nothing are left out: see
\* DocumentEnds and FormulaEnds.
ConversionEnds == <>(Headed(source) /\ ClosersMatch(latex) => Done)

\* "The recursive descent on a single document is O(n)": the parser ends.  It does
\* not on a line without a "|" above the delimiter of a table.
DocumentEnds == <>BlocksDone

\* "Supports standard mathematical expressions": a formula is converted.  It never
\* is when a bracket closes that is not open, as in [0,1].
FormulaEnds == <>MathDone
=============================================================================
