------------------------------ MODULE MdBlocks ------------------------------
(***************************************************************************)
(* The block level of the Markdown parser (src-c/md_parser.c,              *)
(* build_html_for_document): one loop over the lines of a document that    *)
(* looks at the line at hand, picks a kind of block and runs a loop of its *)
(* own to collect the lines of that block.  The lines of a quote and of a  *)
(* list item are joined to a document, stripped of their markers, and the  *)
(* same function parses it.                                                *)
(*                                                                         *)
(* A line is what the tests on it look at: its leading spaces, the markers *)
(* of quotes and items in front, and what is left once those are gone.     *)
(* Its number in the file stands for its text.  Before the loop starts, a  *)
(* scan of the whole file takes the definitions of links out of it.        *)
(***************************************************************************)
EXTENDS Integers, Sequences, SequencesExt

CONSTANTS
    Documents  \* the documents parsed: sequences of lines without numbers

Markers == {"-", "1.", ">"}
Leaves  == {"text", "blank", "heading", "hr", "under", "fence", "long", "row",
            "delim", "html", "math", "def"}

Lines == [sp : Nat, marks : Seq(Markers), leaf : Leaves]

\* With three markers "-" and nothing behind them a line would be a rule.
ASSUME DocumentsAssumption ==
    \A d \in Documents :
        d \in Seq(Lines) /\ \A k \in DOMAIN d : Len(d[k].marks) <= 2

VARIABLES
    source,  \* the document, its lines numbered
    lines,   \* the lines of the document at hand, which may be a body
    i,       \* the next of them
    path,    \* the quotes and lists around it, outermost first
    stack,   \* bodies to parse and documents to go on with, next one first
    block,   \* the block being collected: the local variables of its loop
    html,    \* the lines shown so far: as what, inside what
    error    \* the line the error is reported at, or 0: has_error, error_line

document == <<source, lines, i, path, stack, block, html, error>>

Containers == {"quote", "ul", "ol"}
Numbered   == [sp : Nat, marks : Seq(Markers), leaf : Leaves, id : Nat \ {0}]
Forms      == {"p", "h", "hr", "cell", "code", "html", "math"}
Shown      == [id : Nat \ {0}, as : Forms, path : Seq(Containers), marks : Seq(Markers),
               leaf : Leaves]
Frames     == [lines : Seq(Numbered), i : Nat \ {0}, path : Seq(Containers)]
Loops      == {"none", "html", "math", "table", "code", "fence", "list", "item",
               "quote", "paragraph", "done"}
Blocks     == [loop : Loops, taken : Seq(Numbered), items : Seq(Seq(Numbered)),
               ordered : BOOLEAN, indent : Nat, own : Nat, prev_blank : BOOLEAN,
               fence : Nat]

BlocksTypeOK ==
    /\ source \in Seq(Numbered)
    /\ lines \in Seq(Numbered)
    /\ i \in 1..(Len(lines) + 1)
    /\ path \in Seq(Containers)
    /\ stack \in Seq(Frames)
    /\ block \in Blocks
    /\ html \in Seq(Shown)
    /\ error \in Nat

-----------------------------------------------------------------------------
(* What the code asks of a line. *)

is_blank_line(l) == l.marks = <<>> /\ l.leaf = "blank"

Unmarked(l, leaf) == l.sp <= 3 /\ l.marks = <<>> /\ l.leaf = leaf

match_heading(l)         == Unmarked(l, "heading")
match_horizontal_rule(l) == Unmarked(l, "hr")
is_html_block_line(l)    == Unmarked(l, "html")
starts_math(l)           == Unmarked(l, "math") /\ l.sp = 0

\* A lone "-" underlines as well.
match_setext_underline(l) ==
    \/ Unmarked(l, "under")
    \/ l.sp <= 3 /\ l.marks = <<"-">> /\ l.leaf = "blank"

FenceLength(l) == IF l.leaf = "long" THEN 4 ELSE 3

starts_code_fence(l) == Unmarked(l, "fence") \/ Unmarked(l, "long")
\* Mutant: any fence closes the open one.
is_code_fence_close_any(l, open) == starts_code_fence(l)
is_code_fence_close(l, open) == starts_code_fence(l) /\ FenceLength(l) >= open

\* However many spaces there are in front.
starts_blockquote(l) == l.marks # <<>> /\ Head(l.marks) = ">"

match_list_item(l) == l.sp <= 3 /\ l.marks # <<>> /\ Head(l.marks) # ">"
Ordered(l)         == Head(l.marks) = "1."
content_indent(l)  == l.sp + (IF Ordered(l) THEN 3 ELSE 2)

\* The line without the spaces and the marker in front.
Content(l) == [l EXCEPT !.sp = 0, !.marks = Tail(@)]

match_list_item_can_interrupt_paragraph(l) ==
    match_list_item(l) /\ ~is_blank_line(Content(l))

\* There is a "|" somewhere; and every cell consists of dashes.
split_table_row(l)       == l.leaf \in {"row", "delim"}
match_table_delimiter(l) == l.leaf = "delim" /\ \A m \in DOMAIN l.marks : l.marks[m] = "-"

Indented(l) == l.sp >= 4

\* Up to `width` leading spaces less.
Stripped(l, width) == [l EXCEPT !.sp = IF @ > width THEN @ - width ELSE 0]

-----------------------------------------------------------------------------
(* Where the parser is. *)

Line      == lines[i]
AtEnd     == i > Len(lines)
HasNext   == i < Len(lines)
NextLine  == lines[i + 1]

\* The loop of a block goes on with the line at hand, unless Ends of it.
Continues(Ends(_)) == ~AtEnd /\ ~Ends(Line)

UnderDelimiter == HasNext /\ match_table_delimiter(NextLine)
Underlined     == HasNext /\ match_setext_underline(NextLine)

Idle == [loop |-> "none", taken |-> <<>>, items |-> <<>>, ordered |-> FALSE,
         indent |-> 0, own |-> 0, prev_blank |-> FALSE, fence |-> 0]

In(loop) == block.loop = loop

Show(ls, as) ==
    html' = html \o [k \in DOMAIN ls |-> [id |-> ls[k].id, as |-> as, path |-> path,
                                          marks |-> ls[k].marks, leaf |-> ls[k].leaf]]

\* The loop goes on with the lines behind the next `step`.
Advance(step) == i' = i + step /\ UNCHANGED <<source, lines, path, stack, error>>
\* The line at hand is part of the block, as l.
Take(l) == block' = [block EXCEPT !.taken = Append(@, l)] /\ Advance(1) /\ UNCHANGED html
\* The loop of the block ends in front of the line at hand.
Close(ls, as) == block' = Idle /\ Show(ls, as) /\ Advance(0)
Open(b) == block' = b /\ Advance(0) /\ UNCHANGED html

\* The function returns, to the body that follows or to the document around.
\* What it shows is void if there was an error, and so is all of html then.
Return ==
    /\ IF stack = <<>>
         THEN /\ block' = [Idle EXCEPT !.loop = "done"]
              /\ UNCHANGED <<lines, i, path, stack>>
         ELSE /\ block' = Idle
              /\ lines' = Head(stack).lines
              /\ i' = Head(stack).i
              /\ path' = Head(stack).path
              /\ stack' = Tail(stack)
    /\ UNCHANGED <<source, html>>

\* A body is joined to a text and split again, which drops an empty last line.
Rejoined(ls) == IF Len(ls) > 1 /\ is_blank_line(Last(ls)) THEN Front(ls) ELSE ls

\* Parse the bodies in turn inside the container, then go on here.
Recurse(bodies, container) ==
    LET frames == [k \in DOMAIN bodies |-> [lines |-> Rejoined(bodies[k]), i |-> 1,
                                            path |-> Append(path, container)]]
        here   == [lines |-> lines, i |-> i, path |-> path]
    IN  /\ lines' = frames[1].lines
        /\ i' = 1
        /\ path' = frames[1].path
        /\ stack' = Tail(frames) \o <<here>> \o stack
        /\ block' = Idle
        /\ UNCHANGED <<source, html, error>>

-----------------------------------------------------------------------------
(* The scan for link definitions of the whole document, ahead of the        *)
(* dispatch: it knows the lines, not the blocks that they are part of.      *)

Definition(l) == l.leaf = "def" /\ \A m \in DOMAIN l.marks : l.marks[m] = ">"

\* Every line that looks like a fence opens or closes one.
InFence(d, k) == Cardinality({n \in 1..k : starts_code_fence(d[n])}) % 2 = 1

Breaks(l) ==
    is_blank_line(l) \/ starts_code_fence(l) \/ Indented(l) \/ match_heading(l)
    \/ match_horizontal_rule(l) \/ starts_blockquote(l) \/ match_list_item(l)

\* in_p behind line k.
InParagraph(d) ==
    LET in_p[k \in 0..Len(d)] ==
            /\ k > 0
            /\ ~Breaks(d[k]) /\ ~InFence(d, k)
            /\ Definition(d[k]) => in_p[k - 1]
    IN  in_p

is_continuation(d, k) == InParagraph(d)[k - 1] /\ InParagraph(d)[k]

Blanked(d, k) ==
    /\ Definition(d[k]) /\ ~Indented(d[k])
    /\ ~InFence(d, k) /\ ~is_continuation(d, k)

parse_all_link_refs_from_lines(d) ==
    [k \in DOMAIN d |-> IF Blanked(d, k) THEN [d[k] EXCEPT !.leaf = "blank"] ELSE d[k]]

With(l, k) == [sp |-> l.sp, marks |-> l.marks, leaf |-> l.leaf, id |-> k]

BlocksInit ==
    /\ \E d \in Documents : source = [k \in DOMAIN d |-> With(d[k], k)]
    /\ lines = parse_all_link_refs_from_lines(source)
    /\ i = 1
    /\ path = <<>>
    /\ stack = <<>>
    /\ block = Idle
    /\ html = <<>>
    /\ error = 0

-----------------------------------------------------------------------------
(* The dispatch, in the order of the tests of the code.  Each test is made  *)
(* of a line that has failed the ones before.                               *)

Tests == <<"blank", "html", "math", "table", "hr", "heading", "code", "fence", "list",
           "quote", "paragraph">>

Passes(test) ==
    CASE test = "blank"     -> is_blank_line(Line)
      [] test = "html"      -> is_html_block_line(Line)
      [] test = "math"      -> starts_math(Line)
      [] test = "table"     -> UnderDelimiter /\ split_table_row(Line)
      [] test = "hr"        -> match_horizontal_rule(Line)
      [] test = "heading"   -> match_heading(Line)
      [] test = "code"      -> Indented(Line) /\ ~match_list_item(Line)
      [] test = "fence"     -> starts_code_fence(Line)
      [] test = "list"      -> match_list_item(Line)
      [] test = "quote"     -> starts_blockquote(Line)
      [] test = "paragraph" -> TRUE

Dispatch(test) ==
    /\ In("none")
    /\ ~AtEnd
    /\ \E n \in DOMAIN Tests :
          /\ Tests[n] = test /\ Passes(test)
          /\ \A m \in 1..(n - 1) : ~Passes(Tests[m])

SkipBlank == Dispatch("blank") /\ Advance(1) /\ UNCHANGED <<block, html>>
Rule      == Dispatch("hr") /\ Show(<<Line>>, "hr") /\ Advance(1) /\ UNCHANGED block

\* Rendering a heading or a paragraph after an error gives up the document.
Heading ==
    /\ Dispatch("heading")
    /\ IF error = 0
         THEN Show(<<Line>>, "h") /\ Advance(1) /\ UNCHANGED block
         ELSE Return /\ UNCHANGED error

\* An HTML block of a type that ends at a blank line.
HtmlOpen == Dispatch("html") /\ Open([Idle EXCEPT !.loop = "html"])
HtmlLine ==
    /\ In("html")
    /\ LET taken == Append(block.taken, Line)
       IN  IF ~HasNext \/ is_blank_line(NextLine)
             THEN block' = Idle /\ Show(taken, "html") /\ Advance(1)
             ELSE Take(Line)

MathOpen ==
    /\ Dispatch("math")
    /\ block' = [Idle EXCEPT !.loop = "math"]
    /\ Advance(1)
    /\ UNCHANGED html
EndsMath(l) == l.leaf = "math"
MathLine    == In("math") /\ Continues(EndsMath) /\ Take(Line)
\* Mutant: the closing line is skipped though the lines have run out.
MathClosePastEnd ==
    /\ In("math") /\ ~Continues(EndsMath)
    /\ block' = Idle
    /\ Show(block.taken, "math")
    /\ Advance(1)

MathClose   ==
    /\ In("math") /\ ~Continues(EndsMath)
    /\ block' = Idle
    /\ Show(block.taken, "math")
    /\ Advance(IF AtEnd THEN 0 ELSE 1)

TableOpen ==
    /\ Dispatch("table")
    /\ block' = [Idle EXCEPT !.loop = "table", !.taken = <<Line>>]
    /\ Advance(2)
    /\ UNCHANGED html

EndsTable(l) ==
    \/ is_blank_line(l)
    \/ match_horizontal_rule(l)
    \/ match_heading(l)
    \/ starts_code_fence(l)
    \/ starts_blockquote(l)
    \/ ~split_table_row(l)

TableRow   == In("table") /\ Continues(EndsTable) /\ Take(Line)
TableClose == In("table") /\ ~Continues(EndsTable) /\ Close(block.taken, "cell")

CodeOpen == Dispatch("code") /\ Open([Idle EXCEPT !.loop = "code"])

\* A blank line belongs to the code when the line behind it does.
EndsCode(l) == ~(Indented(l) \/ (is_blank_line(l) /\ HasNext /\ Indented(NextLine)))
CodeLine    == In("code") /\ Continues(EndsCode) /\ Take(Line)
CodeClose   == In("code") /\ ~Continues(EndsCode) /\ Close(block.taken, "code")

FenceOpen ==
    /\ Dispatch("fence")
    /\ block' = [Idle EXCEPT !.loop = "fence", !.fence = FenceLength(Line)]
    /\ Advance(1)
    /\ UNCHANGED html
ClosesFence(l) == is_code_fence_close(l, block.fence)
FenceLine      == In("fence") /\ Continues(ClosesFence) /\ Take(Line)
FenceClose ==
    /\ In("fence") /\ ~AtEnd /\ ClosesFence(Line)
    /\ block' = Idle
    /\ Show(block.taken, "code")
    /\ Advance(1)
\* The error is placed at the last line, counted in the body at hand.
FenceUnterminated == In("fence") /\ AtEnd /\ error' = Len(lines) /\ Return

-----------------------------------------------------------------------------
(* Lists.  The outer loop finds the items, the inner one collects the lines *)
(* of an item.  content_indent is the first item's while that one is        *)
(* collected, and then the previous item's.                                 *)

ListOpen ==
    /\ Dispatch("list")
    /\ Open([Idle EXCEPT !.loop = "list", !.ordered = Ordered(Line),
                         !.indent = content_indent(Line)])

SameList(l) == match_list_item(l) /\ Ordered(l) = block.ordered

BlanksBefore == {k \in 1..(i - 1) : \A n \in k..(i - 1) : is_blank_line(lines[n])}
TooFarApart  == block.prev_blank /\ \E k \in BlanksBefore : k <= i - 2

OtherLine(l) == ~match_horizontal_rule(l) /\ ~SameList(l) /\ ~is_blank_line(l)
EndsList(l) ==
    \/ match_horizontal_rule(l)
    \/ SameList(l) /\ TooFarApart
    \/ OtherLine(l) /\ l.sp < block.indent

ItemOpen ==
    /\ In("list") /\ Continues(EndsList) /\ SameList(Line)
    /\ block' = [block EXCEPT !.loop = "item", !.taken = <<Content(Line)>>,
                              !.own = content_indent(Line), !.prev_blank = FALSE]
    /\ Advance(1)
    /\ UNCHANGED html

\* Mutant: the blank line between two items is not passed.
ListBlankStuck ==
    /\ In("list") /\ Continues(EndsList) /\ is_blank_line(Line)
    /\ block' = [block EXCEPT !.prev_blank = TRUE]
    /\ Advance(0)
    /\ UNCHANGED html

ListBlank ==
    /\ In("list") /\ Continues(EndsList) /\ is_blank_line(Line)
    /\ block' = [block EXCEPT !.prev_blank = TRUE]
    /\ Advance(1)
    /\ UNCHANGED html

\* A line that ended the item, yet is indented: it is added to the item.
ListIndented ==
    /\ In("list") /\ Continues(EndsList) /\ OtherLine(Line)
    /\ block' = [block EXCEPT !.items[Len(block.items)] =
                                  Append(@, Stripped(Line, block.indent))]
    /\ Advance(1)
    /\ UNCHANGED html

ListClose ==
    /\ In("list") /\ ~Continues(EndsList)
    /\ Recurse(block.items, IF block.ordered THEN "ol" ELSE "ul")

\* The first line from i on that is not blank.
NonBlank == CHOOSE j \in i..(Len(lines) + 1) :
                /\ \A k \in i..(j - 1) : is_blank_line(lines[k])
                /\ j <= Len(lines) => ~is_blank_line(lines[j])

\* One blank line belongs to the item when an indented line or an item follows.
BlankContinues ==
    /\ NonBlank = i + 1
    /\ ~(NonBlank > Len(lines))
    /\ lines[NonBlank].sp >= block.indent \/ SameList(lines[NonBlank])

EndsItem(l) ==
    \/ is_blank_line(l) /\ ~BlankContinues
    \/ SameList(l) /\ l.sp < block.indent
    \/ match_heading(l)
    \/ match_horizontal_rule(l)
    \/ starts_code_fence(l)
    \/ starts_blockquote(l)

Blank == [sp |-> 0, marks |-> <<>>, leaf |-> "blank", id |-> Line.id]

\* Mutant: the line behind the blank one is skipped as well.
ItemBlankPast ==
    /\ In("item") /\ Continues(EndsItem) /\ is_blank_line(Line)
    /\ block' = [block EXCEPT !.taken = Append(@, Blank)]
    /\ i' = NonBlank + 1
    /\ UNCHANGED <<source, lines, path, stack, html, error>>

ItemBlank ==
    /\ In("item") /\ Continues(EndsItem) /\ is_blank_line(Line)
    /\ block' = [block EXCEPT !.taken = Append(@, Blank)]
    /\ i' = NonBlank
    /\ UNCHANGED <<source, lines, path, stack, html, error>>

ItemLine ==
    /\ In("item") /\ Continues(EndsItem) /\ ~is_blank_line(Line)
    /\ Take(Stripped(Line, block.indent))

ItemClose ==
    /\ In("item") /\ ~Continues(EndsItem)
    /\ block' = [block EXCEPT !.loop = "list", !.taken = <<>>,
                              !.items = Append(@, block.taken),
                              !.indent = block.own,
                              !.prev_blank = ~AtEnd /\ is_blank_line(Line)]
    /\ Advance(0)
    /\ UNCHANGED html

-----------------------------------------------------------------------------
(* Quotes. *)

QuoteOpen == Dispatch("quote") /\ Open([Idle EXCEPT !.loop = "quote"])

EndsQuote(l) ==
    /\ ~starts_blockquote(l)
    /\ \/ is_blank_line(l)
       \/ match_heading(l)
       \/ match_horizontal_rule(l)
       \/ starts_code_fence(l)
       \/ match_list_item(l)

\* A line without the marker goes on with the quote.
QuoteLine ==
    /\ In("quote") /\ Continues(EndsQuote)
    /\ Take(IF starts_blockquote(Line) THEN Content(Line) ELSE Line)

QuoteClose == In("quote") /\ ~Continues(EndsQuote) /\ Recurse(<<block.taken>>, "quote")

-----------------------------------------------------------------------------
(* Paragraphs and underlined headings. *)

ParagraphOpen == Dispatch("paragraph") /\ Open([Idle EXCEPT !.loop = "paragraph"])

\* Mutant: a quote does not interrupt a paragraph.
InterruptsParagraphUnquoted(l) ==
    \/ match_horizontal_rule(l)
    \/ match_heading(l)
    \/ starts_code_fence(l)
    \/ match_list_item_can_interrupt_paragraph(l)
    \/ is_html_block_line(l)
    \/ starts_math(l)

InterruptsParagraph(l) ==
    \/ match_horizontal_rule(l)
    \/ match_heading(l)
    \/ starts_code_fence(l)
    \/ match_list_item_can_interrupt_paragraph(l)
    \/ starts_blockquote(l)
    \/ is_html_block_line(l)
    \/ starts_math(l)

\* The loop ends before it looks for an underline, or after.
StopsParagraph(l) == is_blank_line(l) \/ UnderDelimiter
EndsParagraph(l)  == StopsParagraph(l) \/ (~Underlined /\ InterruptsParagraph(l))

\* The text is rendered, unless there was an error.
RenderParagraph(ls, as, step) ==
    IF error = 0
      THEN block' = Idle /\ Show(ls, as) /\ Advance(step)
      ELSE Return /\ UNCHANGED error

\* The test for an underline comes before the ones for a line that interrupts.
ParagraphUnderline ==
    /\ In("paragraph") /\ Continues(StopsParagraph) /\ Underlined
    /\ RenderParagraph(Append(block.taken, Line), "h", 2)

ParagraphLine ==
    /\ In("paragraph") /\ Continues(EndsParagraph) /\ ~Underlined
    /\ Take(Line)

\* Without any text the outer loop starts again at the same line.
ParagraphClose ==
    /\ In("paragraph") /\ ~Continues(EndsParagraph)
    /\ IF block.taken = <<>>
         THEN Open(Idle)
         ELSE RenderParagraph(block.taken, "p", 0)

DocumentEnd == In("none") /\ AtEnd /\ Return /\ UNCHANGED error

BlocksNext ==
    \/ SkipBlank \/ Rule \/ Heading \/ DocumentEnd
    \/ HtmlOpen \/ HtmlLine \/ MathOpen \/ MathLine \/ MathClose
    \/ TableOpen \/ TableRow \/ TableClose
    \/ CodeOpen \/ CodeLine \/ CodeClose
    \/ FenceOpen \/ FenceLine \/ FenceClose \/ FenceUnterminated
    \/ ListOpen \/ ItemOpen \/ ListBlank \/ ListIndented \/ ListClose
    \/ ItemBlank \/ ItemLine \/ ItemClose
    \/ QuoteOpen \/ QuoteLine \/ QuoteClose
    \/ ParagraphOpen \/ ParagraphUnderline \/ ParagraphLine \/ ParagraphClose

BlocksDone == In("done")

-----------------------------------------------------------------------------
(* Properties. *)

\* The length of the fence that is open behind line k of a document without
\* containers, 0 when none is: a fence is closed by one at least as long.
OpenFence(d) ==
    LET open[k \in 0..Len(d)] ==
            IF k = 0 THEN 0
            ELSE LET l == d[k]
                 IN  IF ~starts_code_fence(l) THEN open[k - 1]
                     ELSE IF open[k - 1] = 0 THEN FenceLength(l)
                     ELSE IF FenceLength(l) >= open[k - 1] THEN 0 ELSE open[k - 1]
    IN  open

Plain == \A l \in Range(source) : l.marks = <<>> /\ l.leaf \notin {"html", "math", "under"}

Visible == {"text", "heading", "row", "html", "hr"}

\* Line k, a definition, stays in the text: it is code, or goes on a paragraph.
StaysText(k) ==
    /\ Plain /\ \A l \in Range(source) : l.leaf # "long"
    /\ source[k].leaf = "def"
    /\ \/ OpenFence(source)[k] # 0
       \/ k > 1 /\ source[k - 1].leaf = "text" /\ ~Indented(source[k - 1])

\* Nothing is lost, doubled or moved on the way through the loops and the
\* recursion: lines are shown in the order of the file, none twice, and when
\* the parser reports no error, every line with a text or a rule is shown as it
\* is, also one that looks like a definition but belongs to the text around it.
EachLineOnce ==
    /\ \A k, n \in DOMAIN html : k < n => html[k].id < html[n].id
    /\ In("done") /\ error = 0 =>
           \A k \in DOMAIN source :
               source[k].leaf \in Visible \/ StaysText(k) =>
                   \E s \in Range(html) : s.id = source[k].id /\ s.leaf = source[k].leaf

ContainerOf(marker) == CASE marker = ">"  -> "quote"
                         [] marker = "-"  -> "ul"
                         [] marker = "1." -> "ol"

\* Each of some markers has a container of its own around it, in their order; an
\* item that goes on, or a quote, may be around a line without a marker of it.
Nest(marks, around) ==
    \E place \in [DOMAIN marks -> DOMAIN around] :
        /\ \A k \in DOMAIN marks : around[place[k]] = ContainerOf(marks[k])
        /\ \A j, k \in DOMAIN marks : j < k => place[j] < place[k]

\* A line that is shown is inside a container for every marker that was taken off
\* it, in their order, it keeps the others, and no paragraph has a line in it that
\* begins with the marker of a quote.
MarkersHonoured ==
    \A s \in Range(html) :
        LET marks == source[s.id].marks
            rest  == Len(marks) - Len(s.marks)
        IN  /\ marks = SubSeq(marks, 1, rest) \o s.marks
            /\ Nest(SubSeq(marks, 1, rest), s.path)
            /\ s.as = "p" => ~starts_blockquote(s)

\* In a document without containers, and without the blocks that may swallow a
\* fence, the 400 is answered exactly when the last fence is never closed.
ErrorIffUnterminated ==
    In("done") /\ Plain => (error # 0 <=> OpenFence(source)[Len(source)] # 0)

\* Every delimiter of a table has a line with a "|" above it, or a blank one.
Headed(d) ==
    \A k \in 1..(Len(d) - 1) :
        match_table_delimiter(d[k + 1]) => split_table_row(d[k]) \/ is_blank_line(d[k])

=============================================================================
