---------------------------- MODULE MCConversions ----------------------------
(***************************************************************************)
(* Conversions for TLC: the documents, the formulas, the diagrams and the  *)
(* requests.                                                               *)
(***************************************************************************)
EXTENDS Conversions, TLC

UpTo(S, n) == UNION {[1..m -> S] : m \in 0..n}
SomeOf(S, n) == UpTo(S, n) \ {<<>>}

-----------------------------------------------------------------------------
Of(sp, marks, leaf) == [sp |-> sp, marks |-> marks, leaf |-> leaf]

FewLines ==
    {Of(0, <<>>, "text"), Of(0, <<>>, "blank"), Of(0, <<>>, "fence"),
     Of(0, <<"-">>, "text"), Of(2, <<"-">>, "text"), Of(2, <<>>, "fence"),
     Of(0, <<">">>, "text")}

AllLines ==
    FewLines \cup
    {Of(0, <<>>, leaf) : leaf \in Leaves} \cup
    {Of(2, <<>>, "text"), Of(4, <<>>, "text"), Of(2, <<">">>, "text"),
     Of(0, <<"1.">>, "text"), Of(0, <<"-">>, "blank"), Of(0, <<">">>, "fence"),
     Of(0, <<"-", ">">>, "text")}

TwoMarks == {Of(sp, <<m, n>>, "text") : sp \in {0, 4}, m, n \in Markers}

\* Every document of three lines of any kind, those of two lines behind a third in
\* which containers of any two kinds nest, those with a definition in a quote
\* between two of the lines that matter to it, and those of five lines that begin
\* with an item, go on with what items may hold, and do not end with a blank line.
MCDocuments == [1..3 -> AllLines]
               \cup {<<a, b, c>> : a \in FewLines, b, c \in TwoMarks}
               \cup {<<a, Of(0, <<">">>, "def"), b>> : a, b \in FewLines}
               \cup {<<Of(0, <<"-">>, "text")>> \o d :
                        d \in {c \in [1..4 -> FewLines] : c[4].leaf # "blank"}}

\* A table without a heading.
Headless == {<<Of(0, <<>>, "text"), Of(0, <<>>, "delim")>>}

-----------------------------------------------------------------------------
\* Every sentence of the grammar of up to seven tokens in which brackets nest
\* once, and every formula of up to four tokens, whatever it may stand for.
WithoutMeaning(formulas) == {[tok |-> f, out |-> <<>>] : f \in formulas}
MCFormulas == Grammar(1, 7) \cup WithoutMeaning(UpTo(Tokens, 4))

\* An interval: its closing bracket closes nothing that the parser has opened.
Unopened == WithoutMeaning({<<"[", "x", "]">>})

-----------------------------------------------------------------------------
Chain(names, arrows) == [is |-> "chain", names |-> names, arrows |-> arrows]
Other(is, names) == [is |-> is, names |-> names, arrows |-> <<>>]
Diagram(kind, ls) == [kind |-> kind, lines |-> ls]

Id(n) == <<n>>

\* Links among three boxes: cycles, links that are written twice, and a box that
\* nothing links.
Graphs == SomeOf({Chain(<<Id(e[1]), Id(e[2])>>, <<"-->">>) : e \in {"a", "b", "c"} \X {"a", "b", "c"}}, 3)
Cycles == SomeOf({Chain(<<Id(e[1]), Id(e[2])>>, <<"-->">>) : e \in {"a", "b"} \X {"a", "b"}}
                 \cup {Chain(<<Id("c")>>, <<>>)}, 4)

\* More boxes than fit, without a cycle: ranks that are raised again.
Down == {<<"a", "b">>, <<"a", "c">>, <<"a", "d">>, <<"b", "c">>, <<"b", "d">>, <<"c", "d">>, <<"d", "e">>}
Acyclics == {s \in SomeOf({Chain(<<Id(e[1]), Id(e[2])>>, <<"-->">>) : e \in Down}, 4) : IsInjective(s)}

\* Two arrows in a line, and a line that begins or ends with one.
Chains == SomeOf({Chain(<<Id("a"), n, Id("b")>>, <<s, t>>) : n \in {Id("a"), Id("c"), NoName}, s, t \in Arrows}
                 \cup {Chain(<<NoName, Id("b")>>, <<"---">>), Chain(<<Id("b")>>, <<>>)}, 2)

Linking(ids) == {Other("link", <<Id(m), Id(n)>>) : m, n \in ids}
Declaring(is, ids) == {Other(is, <<Id(n)>>) : n \in ids}
Words == Other("member", <<>>)

Messages == SomeOf(Linking({"a", "b", "c"}), 3)
            \cup SomeOf(Linking({"a", "b"}) \cup Declaring("box", {"a", "b"}), 3)
            \cup SomeOf(Linking({"a", "b"}) \ {Other("link", <<Id("b"), Id("b")>>)}, 5)
Classes  == SomeOf(Linking({"a", "b"}) \cup Declaring("box", {"b"}) \cup Declaring("opening", {"a"})
                   \cup {Words, Other("closing", <<>>)}, 4)
Slices   == SomeOf(Declaring("box", {"a"}) \cup {Words}, 5)

MCDiagrams == {Diagram("flowchart", l) : l \in Graphs \cup Cycles \cup Acyclics \cup Chains}
              \cup {Diagram("sequence", l) : l \in Messages}
              \cup {Diagram("class", l) : l \in Classes}
              \cup {Diagram("pie", l) : l \in Slices}

-----------------------------------------------------------------------------
Job(is, n, t, cut) ==
    [is |-> is, name |-> n, text |-> t, names |-> <<>>, cut |-> cut, disk |-> <<>>, active |-> <<>>]
Get(n, disk, active) == [Job("get", n, <<>>, 0) EXCEPT !.disk = disk, !.active = active]

MCTexts == UpTo({"a", "n", "u", "h", "quote", "backslash", "nl", "bs", "ctl", "content"}, 3)
Some == {<<"quote", "content">>, <<"backslash", "quote", "content">>, <<"a", "ctl", "h">>, <<"nl">>, <<"backslash">>}

Readme == <<"a", ".md">>

\* Names whose path does not fit.  What is left of the first and the last is the
\* name of another file.
CutNames == {<<"a", "a", "a", ".md", "a", ".md">>, <<"a", "a", "a", "a", "a", ".md">>,
             <<"sp", ".md", "a", ".md">>}
Left == {<<"a", "a", "a", ".md">>, <<"sp", ".md">>}

MCNames == {n \o <<".md">> : n \in UpTo({"a", "quote", "backslash", "slash", "content", "dots", "nl", "sp", "colon"}, 3)}
           \cup UpTo({"a", "quote", "content", ".md"}, 3)
           \cup CutNames

\* Disks with some of the files, no two of which hold the same.
Disks(files) == {[f \in F |-> f \o <<"quote">>] : F \in SUBSET files}

Folders == UpTo({Readme, <<"a">>, <<"quote", "backslash", ".md">>, <<"bs", "a", ".md">>}, 5)

MCJobs == {Job("post", <<>>, t, 0) : t \in MCTexts}
          \cup {Job("post", <<>>, t, cut) : t \in Some, cut \in 1..12}
          \cup {Job("upload", n, t, 0) : n \in MCNames, t \in Some}
          \cup {Job("upload", Readme, t, cut) : t \in Some, cut \in 1..20}
          \cup {Get(Readme, Readme :> t, <<>>) : t \in MCTexts}
          \cup {Get(n, n :> <<"a", "quote">>, Readme) : n \in MCNames}
          \cup {Get(n, disk, Readme) : n \in CutNames \cup {Readme}, disk \in Disks(CutNames \cup Left)}
          \cup {Get(<<>>, disk, active) : disk \in Disks({Readme, <<"a">>}), active \in {<<>>, <<"a">>, Readme}}
          \cup {[Job("list", <<>>, <<>>, 0) EXCEPT !.names = f] : f \in Folders}

\* For a run about one converter.
None == {}
=============================================================================
