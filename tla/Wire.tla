-------------------------------- MODULE Wire --------------------------------
(***************************************************************************)
(* The strings between the client and the server (src-c/http.c): what the  *)
(* server finds in the JSON of a request's body and in the query of its    *)
(* path, the JSON it answers with, and the list of the files.  The server  *)
(* reads and writes JSON with loops of its own over the characters; the    *)
(* client uses the browser's JSON and encodeURIComponent.                  *)
(*                                                                         *)
(* A character stands for all that are treated alike: "nl" for \n, \r and  *)
(* \t, which both sides write as a letter behind a backslash, here "n";    *)
(* "bs" for \b and \f, for which only the client has a letter, "b"; "ctl"  *)
(* for the other control characters, which the client writes as \u and     *)
(* four digits, "h"; "a" for the letters that stand for nothing behind a   *)
(* backslash; "sp" for what only encodeURIComponent treats apart.  The     *)
(* ending of a Markdown file, two dots, and the key of a member are one    *)
(* character each.                                                         *)
(***************************************************************************)
EXTENDS Integers, Sequences, FiniteSets, SequencesExt, FiniteSetsExt

CONSTANTS
    Jobs,       \* the requests
    NameMax,    \* the size of up_name
    PathMax,    \* what sscanf keeps of a path, behind "/file?path="
    ListMax,    \* FILES_JSON_MAX
    ListSpare,  \* what is kept free of it: 512
    EntrySize   \* the characters of an entry that are not of the name

Control == {"nl", "bs", "ctl"}
Letters == {"a", "n", "b", "u", "h", "sp"}
Keys    == {"name", "content"}
Chars   == Letters \cup Control \cup Keys
           \cup {"quote", "backslash", "slash", "colon", "dots", ".md"}
Signs   == Chars \cup {"comma", "pct", "hex"}

\* "post": a text that is sent to be rendered or saved; "upload": a file;
\* "get": a file that is opened, or the active one if it has no name; "list": the
\* list of the files.  Of the body, the last "cut" characters do not arrive.  The
\* disk has the text of each file that exists; g_initial_file is the active one.
ASSUME JobsAssumption ==
    \A j \in Jobs :
        /\ j.is \in {"post", "upload", "get", "list"}
        /\ j.name \in Seq(Chars) /\ j.text \in Seq(Chars)
        /\ j.names \in Seq(Seq(Chars)) /\ j.cut \in Nat
        /\ \A f \in DOMAIN j.disk : j.disk[f] \in Seq(Chars)
        /\ j.active \in Seq(Chars)

ASSUME SizesAssumption ==
    /\ {NameMax, PathMax, ListMax, ListSpare, EntrySize} \subseteq Nat
    /\ PathMax > 0 /\ ListSpare > 1

VARIABLES
    job,     \* the request
    wire,    \* the characters that are read
    pos,     \* the place of the next of them
    field,   \* the member of the body that is looked for
    name,    \* the file's name, as the server has it
    out,     \* the text that is put together
    listed,  \* the entries of the list
    size,    \* j, the bytes of the list so far
    phase    \* "find", "value", "resolve", "decode", "escape", "list", "ok" or "refused"

wires == <<job, wire, pos, field, name, out, listed, size, phase>>

WireTypeOK ==
    /\ wire \in Seq(Signs)
    /\ pos \in Nat \ {0}
    /\ field \in Keys
    /\ name \in Seq(Signs)
    /\ out \in Seq(Signs)
    /\ listed \in Seq(Seq(Chars))
    /\ size \in Nat
    /\ phase \in {"find", "value", "resolve", "decode", "escape", "list", "ok", "refused"}

-----------------------------------------------------------------------------
(***************************************************************************)
(* The client.                                                             *)
(***************************************************************************)
Each(Code(_), text) == FlattenSeq([k \in DOMAIN text |-> Code(text[k])])

\* JSON.stringify of a string, without its quotes.
Stringify(text) ==
    LET Code(c) == CASE c \in {"quote", "backslash"} -> <<"backslash", c>>
                     [] c = "nl"  -> <<"backslash", "n">>
                     [] c = "bs"  -> <<"backslash", "b">>
                     [] c = "ctl" -> <<"backslash", "u", "h", "h", "h", "h">>
                     [] OTHER     -> <<c>>
    IN  Each(Code, text)

Member(key, text) ==
    <<"quote", key, "quote", "colon", "quote">> \o Stringify(text) \o <<"quote">>

Body(j) ==
    IF j.is = "upload" THEN Member("name", j.name) \o <<"comma">> \o Member("content", j.text)
    ELSE Member("content", j.text)

Arriving(j) == SubSeq(Body(j), 1, Len(Body(j)) - j.cut)

\* encodeURIComponent: of "sp" the two hex digits, here "hex" and "sp".
Encoded(text) ==
    LET Code(c) == IF c \in {"a", "n", "b", "u", "h", ".md", "dots"} \cup Keys THEN <<c>>
                   ELSE <<"pct", "hex", c>>
    IN  Each(Code, text)

\* A character of a JSON string behind a backslash that is none itself.
Escaped(s, k) ==
    LET runs == {j \in 1..k : \A i \in j..(k - 1) : s[i] = "backslash"}
    IN  (k - Min(runs)) % 2 = 1

\* JSON.parse takes what stands between two quotes.
IsString(s) ==
    /\ \A k \in DOMAIN s : s[k] \notin Control /\ (s[k] = "quote" => Escaped(s, k))
    /\ ~Escaped(s, Len(s) + 1)

Parse(s) ==
    FlattenSeq([k \in DOMAIN s |->
        CASE ~Escaped(s, k)                -> IF s[k] = "backslash" THEN <<>> ELSE <<s[k]>>
          [] Escaped(s, k) /\ s[k] = "n"  -> <<"nl">>
          [] Escaped(s, k) /\ s[k] # "n"  -> <<s[k]>>])

-----------------------------------------------------------------------------
(***************************************************************************)
(* The body of a request.                                                  *)
(***************************************************************************)

At(k) == IF k \in DOMAIN wire THEN wire[k] ELSE "end"

\* strstr of the key between quotes, then a colon and a quote.
FindKey ==
    /\ phase = "find"
    /\ LET places == {k \in DOMAIN wire : <<At(k), At(k + 1), At(k + 2)>> = <<"quote", field, "quote">>}
           found  == places # {} /\ At(Min(places) + 3) = "colon" /\ At(Min(places) + 4) = "quote"
       IN  /\ pos' = IF found THEN Min(places) + 5 ELSE pos
           /\ phase' = IF found THEN "value" ELSE "refused"
    /\ out' = <<>>
    /\ UNCHANGED <<job, wire, field, name, listed, size>>

\* up_name has a fixed size, a text has not.
Full == field = "name" /\ Len(out) >= NameMax - 1

\* Mutant of Unescaped: a \u is taken for the letter.
UnescapedLetter(c) == CASE c = "n" -> <<"nl">>
                        [] c = "b" -> <<"bs">>
                        [] OTHER   -> <<c>>

\* What a letter behind a backslash stands for; a \u and its digits for nothing.
Unescaped(c) == CASE c = "n" -> <<"nl">>
                  [] c = "b" -> <<"bs">>
                  [] c = "u" -> <<>>
                  [] OTHER   -> <<c>>

\* extract_json_string and extract_json_string_alloc: one turn of the loop.
ReadValue ==
    /\ phase = "value"
    /\ ~Full
    /\ \/ /\ At(pos) \notin {"quote", "backslash", "end"}
          /\ out' = Append(out, At(pos))
          /\ pos' = pos + 1
       \/ /\ At(pos) = "backslash" /\ At(pos + 1) # "end"
          /\ out' = out \o Unescaped(At(pos + 1))
          /\ pos' = IF At(pos + 1) = "u" /\ At(pos + 5) # "end" THEN pos + 6 ELSE pos + 2
    /\ UNCHANGED <<job, wire, field, name, listed, size, phase>>

BreakOff ==
    /\ phase = "value"
    /\ \/ At(pos) = "end"
       \/ At(pos) = "backslash" /\ At(pos + 1) = "end"
       \/ At(pos) # "quote" /\ Full
    /\ phase' = "refused"
    /\ UNCHANGED <<job, wire, pos, field, name, out, listed, size>>

EndValue ==
    /\ phase = "value"
    /\ At(pos) = "quote"
    /\ \/ /\ field = "name"
          /\ name' = out
          /\ field' = "content"
          /\ phase' = "find"
       \/ /\ field = "content"
          /\ phase' = IF job.is = "upload" THEN "resolve" ELSE "ok"
          /\ UNCHANGED <<field, name>>
    /\ UNCHANGED <<job, wire, pos, out, listed, size>>

-----------------------------------------------------------------------------
(***************************************************************************)
(* Names.                                                                  *)
(***************************************************************************)

\* The part of an uploaded file's name behind the last slash or backslash.
Base(n) ==
    LET cuts == {k \in DOMAIN n : n[k] \in {"slash", "backslash"}}
    IN  IF cuts = {} THEN n ELSE SubSeq(n, Max(cuts) + 1, Len(n))

IsMarkdown(n) == Len(n) > 1 /\ Last(n) = ".md"

\* A letter and a colon in front: a drive.
HasDrive(n) == Len(n) > 1 /\ n[1] \in {"a", "n", "b", "u"} /\ n[2] = "colon"

resolve_md_path(n) ==
    /\ n # <<>> /\ Head(n) \notin {"slash", "backslash"}
    /\ ~HasDrive(n)
    /\ "dots" \notin Range(n)
    /\ IsMarkdown(n)

\* The base name of an upload becomes the active file, and the text is saved to it.
SaveUpload ==
    /\ phase = "resolve" /\ job.is = "upload"
    /\ name' = Base(name)
    /\ phase' = IF resolve_md_path(Base(name)) THEN "ok" ELSE "refused"
    /\ UNCHANGED <<job, wire, pos, field, out, listed, size>>

\* Mutant of MayOpen: an empty path is resolved like any other.
MayOpenNamed(n) == resolve_md_path(n)

MayOpen(n) == n = <<>> \/ resolve_md_path(n)

\* handle_get_file: a path that is empty or not there stands for the active file;
\* a file that cannot be read is answered as an empty text.
OpenFile ==
    /\ phase = "resolve" /\ job.is = "get"
    /\ MayOpen(name)
    /\ LET target == IF name = <<>> THEN job.active ELSE name
       IN  /\ name' = target
           /\ wire' = IF target \in DOMAIN job.disk THEN job.disk[target] ELSE <<>>
    /\ pos' = 1
    /\ phase' = "escape"
    /\ UNCHANGED <<job, field, out, listed, size>>

RefuseFile ==
    /\ phase = "resolve" /\ job.is = "get"
    /\ ~MayOpen(name)
    /\ phase' = "refused"
    /\ UNCHANGED <<job, wire, pos, field, name, out, listed, size>>

\* url_decode of the query, as far as the path was kept.
DecodeChar ==
    /\ phase = "decode"
    /\ At(pos) # "end"
    /\ LET coded == At(pos) = "pct" /\ At(pos + 1) = "hex" /\ At(pos + 2) # "end"
       IN  /\ name' = Append(name, IF coded THEN At(pos + 2) ELSE At(pos))
           /\ pos' = IF coded THEN pos + 3 ELSE pos + 1
    /\ UNCHANGED <<job, wire, field, out, listed, size, phase>>

DecodeEnds ==
    /\ phase = "decode"
    /\ At(pos) = "end"
    /\ phase' = "resolve"
    /\ UNCHANGED <<job, wire, pos, field, name, out, listed, size>>

-----------------------------------------------------------------------------
(***************************************************************************)
(* Answers.                                                                *)
(***************************************************************************)
Escape(c) == CASE c \in {"quote", "backslash"} -> <<"backslash", c>>
               [] c = "nl" -> <<"backslash", "n">>
               [] c \in {"bs", "ctl"} -> <<>>
               [] OTHER -> <<c>>

\* json_escape_alloc, over the text of the file.
EscapeChar ==
    /\ phase = "escape"
    /\ At(pos) # "end"
    /\ out' = out \o Escape(At(pos))
    /\ pos' = pos + 1
    /\ UNCHANGED <<job, wire, field, name, listed, size, phase>>

EscapeEnds ==
    /\ phase = "escape"
    /\ At(pos) = "end"
    /\ phase' = "ok"
    /\ UNCHANGED <<job, wire, pos, field, name, out, listed, size>>

\* handle_list_files.  An entry that does not fit is cut off by snprintf and
\* counted in full.
Entry(n) == EntrySize + Len(Each(Escape, n)) + (IF listed = <<>> THEN 0 ELSE 1)

MoreFiles == size < ListMax - ListSpare /\ pos <= Len(job.names)

ListFile ==
    /\ phase = "list" /\ MoreFiles
    /\ LET file == job.names[pos]
       IN  IF IsMarkdown(file)
           THEN /\ listed' = Append(listed, Each(Escape, file))
                /\ size' = size + Entry(file)
           ELSE UNCHANGED <<listed, size>>
    /\ pos' = pos + 1
    /\ UNCHANGED <<job, wire, field, name, out, phase>>

\* Mutant of ListEnds: a list without room for its end is sent.
ListEndsAnyway ==
    /\ phase = "list" /\ ~MoreFiles
    /\ phase' = "ok"
    /\ UNCHANGED <<job, wire, pos, field, name, out, listed, size>>

\* The list is given up when there is no room left for its end.
ListEnds ==
    /\ phase = "list" /\ ~MoreFiles
    /\ listed' = IF size < ListMax - 2 THEN listed ELSE <<>>
    /\ phase' = "ok"
    /\ UNCHANGED <<job, wire, pos, field, name, out, size>>

Start(j) ==
    CASE j.is \in {"post", "upload"} -> [at |-> "find", reads |-> Arriving(j)]
      [] j.is = "get" ->
            [at |-> "decode", reads |-> SubSeq(Encoded(j.name), 1, Min({PathMax, Len(Encoded(j.name))}))]
      [] j.is = "list" -> [at |-> "list", reads |-> <<>>]

WireInit ==
    /\ job \in Jobs
    /\ wire = Start(job).reads
    /\ phase = Start(job).at
    /\ pos = 1
    /\ field = IF job.is = "upload" THEN "name" ELSE "content"
    /\ name = <<>> /\ out = <<>>
    /\ listed = <<>> /\ size = 1

WireNext ==
    \/ FindKey \/ ReadValue \/ BreakOff \/ EndValue
    \/ DecodeChar \/ DecodeEnds
    \/ SaveUpload \/ OpenFile \/ RefuseFile
    \/ EscapeChar \/ EscapeEnds
    \/ ListFile \/ ListEnds

WireDone == phase \in {"ok", "refused"}

-----------------------------------------------------------------------------
Without(text, dropped) ==
    LET Kept(c) == IF c \in dropped THEN <<>> ELSE <<c>>
    IN  Each(Kept, text)

\* What is saved is what was typed or picked, under the last part of its name,
\* whatever quotes, backslashes, keys and control characters are in either, but for
\* the characters that JSON can only write as \u, which the code drops; or it is
\* refused: a body that did not arrive whole, a name that is cut, no Markdown file
\* (http.c 100-248, 1023-1076).
SavedAsTyped ==
    LET safe == job.is = "upload" => /\ Len(job.name) < NameMax
                                     /\ resolve_md_path(Base(job.name))
    IN  WireDone /\ job.is \in {"post", "upload"} /\ "ctl" \notin Range(job.name) =>
            /\ phase = "ok" <=> job.cut = 0 /\ safe
            /\ phase = "ok" => out = Without(job.text, {"ctl"})
            /\ phase = "ok" /\ job.is = "upload" => name = Base(job.name)

\* The text that is answered is that of the file the answer names, of all that are
\* on the disk, but for the control characters that json_escape has no letter for,
\* \b and \f among them; nothing is shown of a file that is not there.  The answer
\* names the file that was asked for, or the active one where none was; other names
\* are refused unless they resolve.  Only of a path that sscanf cut (http.c 887) is
\* it another file: one whose name is the beginning of the one that was asked for,
\* and resolves (http.c 294-328, 569-634, 725-784).
ShownAsSaved ==
    WireDone /\ job.is = "get" =>
        LET fits == Len(Encoded(job.name)) <= PathMax
        IN  /\ phase = "refused" => job.name # <<>> /\ (fits => ~resolve_md_path(job.name))
            /\ phase = "ok" /\ job.name = <<>> => name = job.active
            /\ phase = "ok" /\ job.name # <<>> =>
                   /\ IsPrefix(name, job.name) /\ resolve_md_path(name)
                   /\ fits => name = job.name
            /\ phase = "ok" =>
                   Parse(out) = IF name \in DOMAIN job.disk
                                THEN Without(job.disk[name], {"bs", "ctl"})
                                ELSE <<>>

\* What is answered is JSON: no quote, backslash or control character stands
\* where it ends a string, and a list is never sent cut off.  The name in the
\* answer to an upload is not escaped (http.c 1071).
AnswerIsJson ==
    phase = "ok" =>
        /\ IsString(out) \/ job.is \in {"post", "upload"}
        /\ job.is = "upload" /\ Range(name) \cap (Control \cup {"quote"}) = {} => IsString(name)
        /\ \A k \in DOMAIN listed : IsString(listed[k])
        /\ listed # <<>> => size + 2 <= ListMax
=============================================================================
