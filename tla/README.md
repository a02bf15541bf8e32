# Verification of the Markdown editor

`mdview` is a desktop Markdown editor in C: one process that serves a page on
the loopback interface and saves the edited file, and a browser tab with two
editable panes, the Markdown source and its rendered preview. Editing either
pane updates the other and autosaves the file. This directory holds TLA+
modules of the program, the TLC configurations that check them, and theorems
about them that TLAPS checks. Line numbers refer to the sources under
`src-c/`.

## The system

```
 client.js  --POST /render {md}-------->  http.c  --md_to_html-->  md_parser.c
 two panes  --POST /serialize {html}-->  (accept   --html_to_md-->  html_serializer.c
 two timers --GET /file, /open-file,-->   loop,   --schedule_save-> file_writer.c --> disk
 seq. nos.     /upload-file               1 thread)                 (worker threads)
                                            ^ SIGINT/SIGTERM: main.c
```

| Component | State it keeps | Operations | Hard behaviour |
|---|---|---|---|
| File writer (`file_writer.c`) | one pending save (path, content, deadline), two mutexes, one thread per call, the files | `schedule_save`, `debounce_worker`, `atomic_write` | workers racing for the pending save and for the write; crashes and failing calls between any two steps; a clock |
| Browser client (`client.js`) | the panes, `activeEditor`, two timers, four sequence numbers, the calls under way | input events, timers, load, open, upload, download, continuations after each `await` | answers out of order, state checked before an `await` and used after it, failing calls, flows that overlap |
| Request handlers (`http.c` 725-1104) | `g_initial_file`, the active file | `/file`, `/files`, `/render`, `/serialize`, `/open-file`, `/upload-file` | a side effect (the save) decided by state another request changes |
| Strings of a request (`http.c` 100-328, 569-725) | a cursor and a buffer per loop | find and read a member of the JSON, write JSON, decode a query, accept a name, list the files | keys inside of texts, escapes, bodies and paths cut short, buffers of fixed size |
| Server loop (`http.c` 787-881, 1120-1184; `main.c`) | the listener, `g_keep_running`, the request buffer | accept, read head, read body, answer, signal | segments of any size, limits, clients that leave, a signal anywhere |
| Markdown parser (`md_parser.c`) | lines and an index, link definitions, the error flag | one block per turn of the loop, recursion into quotes and items | progress, lines lost or rendered twice, an error raised deep inside |
| Inline parser (`md_parser.c` 1362-2135) | the tokens of a line and the index of the closer | find the runs, pair them | runs split while they are paired, the rule of three |
| HTML serializer (`html_serializer.c`) | the tree and its open element; the context of the walk | build the tree, walk it | malformed nesting, a context shared by the whole walk, round trips |
| MathML (`mathml.c`) | one cursor, shared by all the calls; the buffers each call fills | a recursive descent over a formula | calls that return without moving the cursor; buffers handed over or dropped on the way up |
| Mermaid (`mermaid_svg.c`) | boxes and links in arrays of fixed size; a rank for each box, a queue | three readers of links, one of slices; ranks; drawing | full arrays, names looked up before they are added, cycles of links, ranks used as indices |
| Tokenizer, error report, logger | none between calls | string functions, output | none |

Interaction is by calls, except at three places: the client and the server
exchange HTTP requests that may fail or, on separate connections, overlap; the
server thread and the workers of the file writer share the pending save under
`state_mutex` and the files under `write_mutex`; and the signal handler shares
the listener with the accept loop.

What makes each part correct:

* the file writer never shows a partial file, never puts an older save over a
  newer one, and does not forget the newest one;
* the editor loses no edit, saves no text into a file it does not belong to,
  and brings both panes to the same text;
* the server loop never writes outside its buffer, never answers before it has
  the request, answers everybody, and stops when told to;
* the parser ends, and shows every line once;
* so does each converter inside it: a formula becomes the MathML it stands for,
  a diagram shows each link that is written between the boxes it names;
* a text comes through a request and back with every quote, backslash and end of
  line it had;
* the tags of a line nest and no delimiter is lost; the serializer brings every
  letter of the preview into the source, and rendering that source gives the
  preview again.

## Modules

| Module | Models | State | Actions |
|---|---|---|---|
| `FileWriter` | `file_writer.c` | the static variables, the two mutexes, a program counter and the locals of each worker, the image each file name shows and may show after loss of power | `Schedule*`: the three steps of `schedule_save`; `Worker*`: one per critical section or library call; `Tick`, `Kill`, `PowerLoss`, `Commit` |
| `AutosaveStore` | what an autosave promises | requests, what was kept, what each file holds | `Request`, `Put`, `Rollback` |
| `FileWriterProofs` | | | proofs |
| `Editor` | `client.js` with the handlers of `http.c` | the user at hand; the panes, timers, sequence numbers and calls; the active file, the pending save and the disk | user events; `Fire*`: timers; `Serve*`: handlers; `Headers`...`Switch`: continuations; `Flush`; `Fail` |
| `EditorProofs` | | | proofs |
| `HttpServer` | the loop of `http.c`, `main.c`'s handler | the flags, the listener, the current connection, `req_cap` and `total_read` | one per step of `http_server_run` and `process_client`; clients and the signal |
| `HttpServerProofs` | | | proofs |
| `Conversions` | what a handler does with strings, in the one thread of the server | the variables of the next four modules, of which one is at work and the others at rest | a step of the one at work |
| `MdBlocks` | `parse_all_link_refs_from_lines` and `build_html_for_document` of `md_parser.c` | the lines at hand and the index, the bodies still to parse (the C stack of the recursion), the block being collected, the lines shown so far, `has_error` | one per branch of the dispatch, and for each block loop one to go on and one to close |
| `MathML` | `mathml.c` | the formula, the cursor, the stack of calls with their buffers | one per procedure: `MathGoesOn`, `Grouped`, `Fraction`, `Root`, `mathml_parse_expr` |
| `Mermaid` | `mermaid_svg.c` up to the drawing | the line and the mention at hand, boxes, links, the open class; ranks, queue | `Read*Line`: one per reader; `EndSource`, `QueueRoot`, `StartRanks`, `TakeBox`, `FollowLink`, `Draw` |
| `Wire` | the string functions of `http.c` and their callers | the request, with the active file and the disk it meets; what is read and written, the cursor, the member looked for, the list | `FindKey`, `ReadValue`, `BreakOff`, `EndValue`, `SaveUpload`, `DecodeChar`, `OpenFile`, `RefuseFile`, `EscapeChar`, `ListFile`, and the ends of their loops |
| `Emphasis` | `tokenize_inline` and `process_emphasis_tokens` of `md_parser.c` | the line, its tokens, the closer | `Pair`, `Skip`: the two outcomes of a turn of the loop |
| `HtmlFragment` | `html_serializer.c` | the fragment and the index, the tree and the open element, the elements the walk has entered with what each wrote, the context | `Parse*`: one per kind of input; `WalkText`, `WalkEnter`, `WalkLeave` |
| `RoundTrip` | the two endpoints of `http.c` that join them | which converter runs, what was typed and shown | `Render`, `ShowPreview`, `Serialize`, `ShowSource` |
| `BlocksProofs`, `MermaidProofs`, `ConversionsProofs`, `RoundTripProofs` | | | proofs; those of `MathML` and `Wire` are in `ConversionsProofs` |
| `SequenceLemmas` | | | lemmas on sequences, recursive functions, `Min` and `Max` that the proofs of the converters share |
| `MC*` | | constants for TLC | |

`FileWriter` is instantiated in refinement: `Store == INSTANCE AutosaveStore
WITH ...` maps requests to calls, kept saves to renamed ones, and the content
of a file to the save whose image its name shows. `Editor` uses the writer only
through its promise: `Flush` writes the pending save in one step, which is what
`FileWriter` shows when no write takes longer than a debounce.

### How data is abstracted

* `FileWriter`: a content is the number of the call that brought it; a file is
  an image, the save it holds and how much of it is there (`empty`, `partial`,
  `full` in the page cache, `synced` on the disk).
* `Editor`: a text is its lineage: the file it descends from and the numbers of
  the edits it contains. Rendering and serializing keep the lineage.
  A user is a record: how patient it is, how much it does, which calls fail for
  it, which files it cannot read. Both timers have the same delay, so that of two
  that are armed the one armed last fires last: `timers` says which are armed and
  `newest` which of them that is.
* `HttpServer`: bytes are counted, not stored.
* `MdBlocks`: a line is what the tests of the parser look at: the spaces in
  front, the markers (`-`, `1.`, `>`) that follow, and the kind of what is left
  (`text`, `blank`, `heading`, `fence`, a longer fence, table row, link
  definition, ...). Its number stands for its text. The scan for definitions runs
  before the first step, in the initial states; its result and what the parser
  makes of it were compared with the compiled parser for 5358 documents with a
  definition, without a difference. Output is the list of the lines shown, each with
  the form it is shown in and the containers around it. The test on `body` that
  `match_list_item` and `starts_blockquote` make on the characters is a test on
  the first marker.
* `MathML`: a formula is a sequence of tokens; all that becomes one element (a
  letter, an operator, a Greek letter, a command that is not known) is `x`, and
  its place tells one from another. Output is a sequence of tags and leaves. The
  output of the model for 118348 formulas is that of the compiled converter.
* `Mermaid`: a line is the names and arrows the reader finds in it; a name is a
  sequence of words, because a line that is cut at the wrong arrow gives a name
  with an arrow in it. Shapes, labels and coordinates are left out. Boxes, links
  and ranks of 21282 diagrams were compared with those of the program, built
  with small arrays, without a difference.
* `Wire`: a character stands for all that both sides treat alike: the letters
  that an escape may stand for (`n`, `b`, `u`), the control characters with a
  letter on both sides, on one, on none, quotes, backslashes, colons, what a query
  encodes, two dots, the ending of a file. The keys of the messages are one
  character, which a text may hold as well. The disk is a function from the names
  of the files that exist to their texts; the empty name stands for a request
  without one, which is answered with the active file. The client side is the browser's
  `JSON` and `encodeURIComponent`; what it is defined by is its use in `client.js`.
* `Emphasis` and `HtmlFragment`: a line or a fragment is a sequence of symbols:
  characters (letters, the space, `*`, `_`, `~`, the backquote), escaped
  characters, and tags, opening, opening with attributes, or closing. `<ul>`
  stands for `<ol>` too. Of what a block writes only its first mark is kept. A
  run of text is a node for each of its characters. Rendered lines and
  serialized fragments of the model were compared with those of the compiled
  program: 4180 lines and 22490 fragments, without a difference.

## Runs

Times are for two workers.

| Run | Question | Bounds | Result |
|---|---|---|---|
| `fw_crash` | Are files whole and is the newest save safe, whatever the interleaving, with a failing call and a crash? Is it an `AutosaveStore`? | two files, two saves, debounce 2, clock to 6, one fault, one crash | holds |
| `fw_converges` | Do saves land, in order, when writes are prompt? | one file, three saves, clock to 7, no faults | holds |
| `fw_order` | Is an older save kept from overtaking without that bound? | one file, two saves, clock to 9 | violated |
| `ed_users` | Is every edit kept, and do panes, header and disk agree, for a user who waits before changing pane or file? What still holds for one who types in both panes at any time, with failing calls? | two files, three edits, one download, two switches or none; one text that does not parse; for the hasty user failing loads and serializations, a file that is too large and one that cannot be read | holds |
| `ed_switch` | Can a file end up with the text of another? | two edits, one switch | violated |
| `ed_toolarge` | Can a file be overwritten without any edit? | no user action, a file above the limit | violated |
| `http_server` | Is the buffer safe, is each request read to its end, is everyone served, does a signal end the server? | capacity 3, chunk 2, head limit 8, body limit 4, two connections, one fault | holds |
| `conversions` | Does every converter end, with what it was to write? | documents: 3 lines of 18 kinds, 3 lines whose last two stand in two containers of any kinds, 5 lines of 7 kinds that begin with an item; formulas: the grammar up to 7 tokens, everything up to 4; diagrams: up to 5 lines, arrays of 4; texts and names of 3 characters, longer names whose paths are cut, disks of up to 5 files, folders of 5 files | holds |
| `md_loop` | Does the parser end on every document? | 2 lines, a line without a bar above a table delimiter | violated |
| `math_loop` | Does the converter end on every formula? | the interval `[x]` | violated |
| `rt_inline` | Do tags nest, is every delimiter and letter kept, is the context restored, is a line with one kind of emphasis a fixed point? | lines of 6 symbols of both kinds and of 7 of one, fragments of 5 symbols over three sets of tags | holds |
| `rt_mixed` | Is every line a fixed point of a round trip? | lines of 6 symbols with `*` and `_` | violated |

The passing runs take from a few seconds to three minutes
(`conversions`).

The bounds are the smallest at which each case of the code happens. Two saves
are enough for one worker to supersede, overtake or race with another; the third
of `fw_converges` gives a worker that is neither the first nor the last. Two
edits are enough for an answer to be stale, three for an edit in each pane and
one after a switch. The limits of `HttpServer` keep the order and the divisions
of the code's: the buffer doubles twice before the limit clips it, a head can
end at the limit or one byte past it, and a body can overrun what was declared.
For `MdBlocks`, three lines are the most that any test of the parser looks at
together (a table row, its delimiter and what follows; a blank line between an
item and its continuation), and five lines of the container kinds give an item
in an item with a blank line and a fence, or a quote in the middle of a list.
Seven tokens hold a fraction, a root with a degree or both scripts around a group
of two; four in any order hold each bracket and mark where it is not expected.
The arrays of `Mermaid` hold four (the code has 80 and 120, a rank may be 101): a
diagram of four lines fills each of them, and a cycle fills the queue. Four
characters of a path, as many of a name (255 in the code) and a list of 16 bytes
of which four are kept free are passed by the names and folders of the run, in
the middle of an escape and of an entry too; of two of the names that are cut what is
left is the name of another file, which is there or not, with a text of its own, and
no two files of a disk hold the same. A text of three characters holds a
key between its quotes, or a backslash before a quote before anything.
A run of delimiters can be shorter than, equal to or longer than the two that a
pair takes, and six symbols hold two runs around text and a third between them;
seven let a run be split twice. A fragment of five symbols holds an element with
text in an element, closed, crossed or left open.
Symmetry is used in `fw_crash` only, over the file names, which the code treats
alike.

### The violations

* `fw_order`: `debounce_worker` gives `state_mutex` back before it asks for
  `write_mutex` (`file_writer.c` 157-158). A worker delayed there for longer than
  a debounce lets the next one write first and then puts the older content
  back.
* `ed_switch`: `openFileFromList` and the upload handler do not clear
  `serializeTimeout`. The preview still shows the previous file, and what it
  serializes to is saved into the new one.
* `ed_toolarge`: the page renders after its first `GET /file` whatever came of it
  (`client.js` 225-245), so a 413 leads to a save of the empty text.
* `md_loop`: a line without `|` right above the delimiter row of a table makes
  the paragraph loop stop before its first line (`md_parser.c` 3381) and the
  dispatch come back to the same line; the parser never returns.
  `ConversionEnds` is about all other documents (`Headed`).
* `math_loop`: `mathml_parse_expr` leaves a closing bracket to the caller that has
  opened one (`mathml.c` 283), and the loop of `latex_to_mathml` has opened none:
  `$[0,1]$` hangs the server. `ConversionEnds` is about all formulas whose closing
  brackets close something (`ClosersMatch`).
* `rt_mixed`: the serializer writes every `<em>` with `*`. `*a*_a_` is two
  elements side by side, comes back as `*a**a*` and is rendered as one. The
  same happens with `**a**__a__`. `rt_inline` checks that lines with one kind of
  emphasis, literal and escaped delimiters included, are fixed points
  (`OneKindFixed`).

More divergences are known from the models and have no run of their own.

* `send` raises `SIGPIPE` on a connection the client has closed, and nothing
  ignores it (`BrokenPipe` of `HttpServer`), although `http.h` 14 has
  `http_server_run` return.
* The sequence numbers of the client are compared before `await res.text()`
  only, so that of two answers whose bodies are awaited at once the older may be
  applied last. `PanesAgree` fails in two edits when `BodiesPrompt` is `FALSE`.
* A file that cannot be read is served as an empty text with a 200
  (`http.c` 758), and the next render saves that over it. `OwnFile` is about a
  patient user, who has none; for `Hasty`, who has, it does not hold.
* `~` is not escaped by `ser_emit_escaped_text`: `\~a\~` becomes strikethrough
  on the way back.
* A `<` that begins no tag is consumed by no branch of
  `ser_parse_html_fragment`, which then never ends. Browsers escape it in text,
  but not in a `<script>` of the document. Malformed fragments never give the
  400 that `docs/ARCHITECTURE.md` 278 describes.
* Formulas: `\frac12` is one number over nothing, because a number is read to its
  last digit; a degree or radicand of several elements gets no `<mrow>`; a script
  mark with nothing behind it is dropped.
* Diagrams: several links of a box to itself raise its rank past the end of
  `depth_counts`, which is read without a test (`mermaid_svg.c` 409; seen with a
  sanitizer, and `RanksInBounds` fails without its condition). A message of an
  undeclared name to itself, and a participant declared after it was used, give
  two boxes (577, 621, 834). `X --- Y --> Z` is cut at the second arrow (282), so
  that `X --- Y` becomes one box.
* Requests: `\u` escapes are dropped (`http.c` 156, 232), and with them the
  control characters; `json_escape` has no `\b` and `\f` (318); the name in the
  answer to an upload is not escaped (1071); a path is cut at 255 characters
  (887), which an encoded name of a third of that reaches. What is left of it may be
  the name of another file, whose text is then answered under its own name; the client
  does not look at that name (`client.js` 447-457), makes the file it asked for the
  active one, and saves the other's text to it. A folder whose list does not fit is answered with an empty list (711).

## Fairness and assumptions

* `FileWriter`, `FairSpec`: weak fairness of each worker, of the steps of
  `schedule_save` that follow its entry, and of the clock. Threads are
  scheduled by the kernel and no lock is held over a wait; no fairness is given
  to crashes or to new calls.
* `PromptSpec` adds that the clock does not pass a worker's take by a debounce
  before its write has ended: a write takes less than 200 ms. `fw_order` is the
  same model without it.
* `Editor`, `FairSpec`: weak fairness of `System`, the timers, handlers,
  continuations and the writer taken together: an event loop and a server that
  do not stop while something is due. The user owes nothing.
* `Editor`, `ServedInOrder`: requests reach the single-threaded server in the
  order they were sent. They travel on connections of their own to the loopback
  interface, where the backlog is a queue. `BodiesPrompt`: a short body arrives
  before the next answer; without it `PanesAgree` does not hold.
* `Editor`, `patience` of a user: 2 switches pane or file only when nothing is
  due, 1 leaves the editor alone while a file is loaded, opened or uploaded.
  `OwnFile`, `NoLostEdit` and `PanesAgree` do not hold for 1: an edit made in
  one pane while the other's answer is under way is overwritten, the only pending
  save is dropped when another file is opened before it is written, and a file
  that is read while its save is pending comes back old. These properties therefore
  say for whom the editor is safe; they do not cover the hazards their hypotheses
  exclude, and `PROJECT.json` lists those without a property.
* `FileWriter`, failing calls: `NewestNotForgotten` is stated for no faults and no
  crashes and `SaveLands` is checked without any. When `malloc` or
  `pthread_create` fails after the pending save was replaced, or `main` returns
  before the debounce is over, a save is lost, and no property says otherwise:
  `AutosaveStore` may drop any save, and go back to an earlier one.
* `HttpServer`, `FairSpec`: the main thread runs, and a client that sends nothing
  more closes its connection some day. The second is an assumption on clients:
  the server has no timeout.
* `Conversions`, `FairSpec`: weak fairness of the step at hand: a converter runs in
  the server's thread and waits for nothing.
* A signal is handled in the main thread, where Linux delivers it by
  preference.

## What is proved

For every set of paths, every number of saves, any debounce, clock, number of
crashes and of faults (`ConstantsAssumption` of `FileWriter` is all that is
assumed):

| Theorem | Statement |
|---|---|
| `TypeCorrect` | `Spec => []TypeOK` |
| `Invariance` | `Spec => []Inv` |
| `WholeTargets` | every name shows all of one save made for it, at every moment and after every crash |
| `DistinctDeadlines` | no two workers that may still take have the same deadline |
| `NewestKept` | without faults and crashes the newest save is pending, held by its worker, or on its target |
| `Debounced` | a worker takes no earlier than a debounce after the call |
| `Ordered` | `PromptSpec` never puts an older save over a newer one |
| `ImplementsStore` | every behaviour is one of `AutosaveStore` |

`TargetWhole` is not inductive: it looks at the target, and the target is
replaced by the temporary file, whose content depends on where the worker that
owns `write_mutex` is. `Inv` adds what the mutexes protect: at most one thread
between lock and unlock of each (`MutexInv`), the call under way is the latest
(`CallInv`), the pending save is the latest call's (`PendingInv`), deadlines
grow with the calls (`DeadlineInv`), the worker that owns `write_mutex` has put
into the temporary file what its program counter says, and holds a save of that
path (`HandsInv`), and each image the disk may show is a whole one
(`JournalInv`). Each action is one step of the proof. `Ordered` needs the extra
invariant `PromptInv`, which turns the bound on a write into an order on the
saves in workers' hands.

For every set of files and users, every number of edits, switches and downloads,
whichever texts do not parse (`ConstantsAssumption` and `UsersAssumption` of
`Editor` give the constants their types). What the environment has to do is a
hypothesis of the theorem, and of it only:

| Theorem | Statement | Users | Environment |
|---|---|---|---|
| `TypeCorrect` | `Spec => []TypeOK`: types, and each numbered call has a number that was given out | all | |
| `WhatIsShownIsSaved` | `ShownIsSaved`: at rest the file on the disk is what the source pane shows | of any patience but 0 | requests served in order, bodies at once |
| `EditsAreKept` | `NoLostEdit`: at rest each file has all edits ever made to it | of patience 2, whose reads work | requests served in order |
| `PanesAgreeAtRest` | `PanesAgree`: at rest panes, header, server and text agree | of patience 2, whose reads work | bodies at once |
| `FilesKeepTheirText` | `OwnFile`: never the text of one file in another | of patience 2, whose reads work and whose loads and switches are not lost | |

The proofs separate what the run `ed_users` checks together. A file is
kept clean, and the panes agree, even when requests overtake one another; edits
are kept even when bodies are late. The hypotheses about reads and lost calls are
those without which TLC finds counterexamples (`ed_toolarge`, and `OwnFile` for
`Hasty` above); a call that fails has no say in the other three, which are about
histories without one.

The properties speak of rest, where nothing is under way, and are far from
inductive. `EditorInv` says what each call, timer and pending save has still to
bring, in parts that `EditorProofs` proves one after the other, each from the
ones before, with one lemma for each kind of step:

* `CallsInv`: calls have numbers of their own, no answer is accepted ahead of its
  request, one body is awaited at a time if bodies come at once;
* `WaitInv`, of a user who waits for files: one flow at a time loads, switches or
  downloads; before the first file is there nothing is armed or pending; the
  timer of the active pane fires after the other;
* `PatientInv`, of patience 2: nothing is armed or under way beside a switch, and
  nothing of the pane that is not active;
* `FollowInv`: the last request of the active pane carries its text; once it is
  over its answer was the last that was accepted, and is shown. Here the
  sequence numbers come in: a discarded answer is never the last, because none
  is accepted ahead of its request;
* `SavedInv`: the active text waits for a timer, is in the last request that has
  not been served, is pending, or is on the disk. Requests served in order make
  the last request the last save;
* `OwnInv`: every text on its way descends from the file it is for;
* `ShownInv`: the label is the active file, unless it is still to be filled or the
  server has just switched;
* `FullInv`: a file on the disk has all its edits, unless it is the active one, or
  is being uploaded; the active pane has all edits of the active file, and so has
  the content a switch carries. When the user switches, `SavedInv` makes the file
  that is left one of the others.

For every set of requests, every number of connections and faults, and all
limits with `Chunk < InitialCap <= HeaderLimit` (`ConstantsAssumption` of
`HttpServer`; the code has 4096, 8192 and 65536):

| Theorem | Statement |
|---|---|
| `TypeCorrect` | `Spec => []TypeOK` |
| `BufferSafe` | the terminator is always written inside `req_buf` |
| `HeadsAccepted` | a head within the limit is refused only if its connection broke |
| `RequestsWhole` | what is routed is complete, or its connection broke |

`BufferInBounds` alone is not inductive: that a `recv` of `Room` bytes leaves a
byte for the terminator needs `Room >= 1` before it, and the buffer of the body
needs `Needed <= cap`. `HttpServerProofs` strengthens it to `Inv` with what the
two loops know when they hand over to each other (`StageInv`: the head loop has
not seen the end of the head, the body loop has a length), the size of the
buffer at each place (`BufferInv`), and that the connection at hand is the last
one accepted (`ServingInv`). One lemma per step of `process_client`; the steps
outside of it share one (`AsideInv`).

For every set of documents, formulas, diagrams and requests and all sizes of the
arrays with `MaxBoxes <= MaxDepth` (`BoundsAssumption` of `Mermaid`; the code has
80 and 100):

| Theorem | Statement |
|---|---|
| `RanksSafe` | `Spec => []RanksInBounds`: `depth_counts` is only read inside its bounds, unless a box is linked with itself |
| `LinksJoinBoxes` | every link joins two boxes of the array, which never overflows |
| `RanksDescend` | `LinksGoDown`: in a flowchart without a cycle every link leads to a lower rank, unless the queue was full |
| `OneBoxPerName` | `OneBoxEach`: no name has two boxes, but for the two exceptions the property names |
| `LinksDrawn` | `LinksAsWritten`: every link that is written is drawn between the boxes of its two names, in the order of the source, unless an array was full or a `-->` stands behind a `---` |
| `TokensOnce` | `EachTokenOnce`: each token that becomes an element is in the finished MathML, once |
| `LinesOnce` | `EachLineOnce`: lines are shown in the order of the file, none twice, and without an error every line with a text or a rule is shown |
| `ErrorsExact` | `ErrorIffUnterminated`: a document without containers is refused exactly when its last fence is never closed |
| `MarkersKept` | `MarkersHonoured`: a line is shown inside a container of the right kind for each marker taken off it, in their order, and no paragraph has a line that begins a quote |
| `AnswersAreJson` | `AnswerIsJson`: what the server answers is JSON, whatever the texts and names |
| `ShownExactly` | `ShownAsSaved`: the client reads from an answer the text on the disk of the file the answer names, but for the characters that are dropped; it is the file asked for, the active one if none was, and another, whose name begins the same, only if the path was cut; exactly the names that do not resolve are refused |
| `SavedExactly` | `SavedAsTyped`: what is saved is what was typed or picked, under the last part of its name; or it is refused, and exactly when it has to be |
| `TypesKept` | `TypeOK` of `Conversions`: the types of the four converters |

`RanksInBounds` looks at the finished ranks only. What makes it true is `Climbing`:
no rank is higher than the number of boxes taken from the queue, and while the
links of a box are followed its own rank is lower than that, so that what it
raises stays within. A box linked with itself breaks the second half: its rank
grows under the links that follow. The queue has at most `MaxBoxes` places, and
it never takes a box back out. `ReadInv` carries the arrays through the three
readers: a name that is looked up is a box or none (`Lookups`, from the least and
greatest element of a set), and boxes are only added at the end, so that what the
links point at stays.

`LinksGoDown` too is about the end. While the queue runs, a link of a box that has
a rank may still lead up, but then its box is in the queue or at hand with this
link to come (`ToFollow`): a rank is only ever raised together with joining the
queue. When the queue is empty every link of a ranked box leads down. That no box
is left without a rank is a fact about graphs: a box without one is no root, so
some link enters it, and that link starts at a box without a rank, because it
would have been followed. Going back for ever among finitely many boxes means a
cycle (`NoEndlessWayBack`: of the sets of boxes closed under going back, a
smallest one is closed under going forth).

`OneBoxEach` is carried by `OwnBoxInv`: the boxes read so far have different names
if the lines are of the kind the property is about. A flowchart and a class diagram
look a name up before they add it. A sequence diagram adds a declared participant
without a look, so the invariant also says that each box has a name of an earlier
line, none of which is the one declared.

`LinksAsWritten` compares the finished arrays with the source; `ArrowsInv` compares
them after each line and, within a chain, after each mention: the names at the ends
of the links are what the lines in front of it link (`Upto` of `ToDraw`), and of the
line at hand what its arrows link so far. Three facts carry it. Boxes are only added
at the end and keep their names (`NamesKept`, `DrawnKept`), so what is drawn stays.
In a chain `src` is the box of the mention before (`AtMention`), or none exactly when
that mention has no name, which needs that no box has an empty name. And a class is
at hand exactly while its brace is open (`OpenedNext`), so that what is read as a
member is what the property takes for one. All three hold only while no array is
full (`Roomy`), which goes back from the end to every step before, since the arrays
never shrink; a line that is cut at the wrong arrow is excluded because what stands
left of the cut is then more than one name (`FirstName`).

`EachTokenOnce` looks at the output only, when all calls have returned. `MathInv`
says where the tokens are before that: each token in front of the cursor that
becomes a leaf is in exactly one buffer of one call (`InPlace`), no call fills a
buffer it does not write out when it returns, and a call that waits has a buffer
for what the other returns (`Shape`). What a call returns holds the leaves of its
three buffers once each (`CatPlaces`, `WrapPlaces`), also when scripts are missing
or a group is empty. `TokensOnce` is about all sequences of tokens, also those for
which `latex_to_mathml` never ends.

`EachLineOnce` compares what is shown with the file, and only at the end. `BlocksInv`
says where the lines are before that: shown, in an item or in the block at hand, in
front of the cursor, or in a document still to parse (`Complete`), and that these
places are in the order of the file (`InOrder`): what is shown comes before what is
taken, that before what is ahead, and the document at hand before those around it. A
body is a part of the document it was taken from, so the bodies of a list go between
what is shown and the rest of that document (`BodiesSound`). The steps come in
few kinds, with a lemma for each: a line is taken (`TakeSound`) or passed
(`SkipSound`), a block is shown (`ShowSound`), an item ends or is taken up again
(`ItemSound`, `AgainSound`), bodies are stacked, the next document goes on
(`NextSound`). Every action is made of these, a loop that takes a line and passes
blank ones behind it (`ItemBlanks`) as well as one that passes a line it does not take
(`FirstActions`, `PassActions`). That a definition that belongs to the text around it is
not blanked is about the scan ahead of the parser, which is recursive: `Recursion` gives
the functions it is defined by, and `OpenIsOdd` says that a fence is open where the
number of lines that look like one is odd. `PlainInv`, for `ErrorsExact`, says that the
cursor of the loops and the fence that is open behind the lines agree at each step.

`MarkersHonoured` looks at what is shown. `HonourInv` says the same of every line on
its way there: in the document at hand, in a document still to parse, in the items
and in the block at hand, each with the containers that will be around it
(`Inside`). What is left of the markers of a line is the end of those it was typed
with, and the ones that are gone are embedded in its path (`MarksFit`): another container
does no harm (`FitsDeeper`), and a marker goes where its container begins
(`FitsTaken`). The attempt to prove an earlier form of the property, in which the
containers of a line followed each other without one between, showed that it only
held in the documents that were checked: an item inside a quote inside an item goes
on without its marker. The run now has such documents.

`AnswerIsJson` is about the text that is sent. `JsonInv` says that a string that is
being written is one up to where it is written: `Escape` puts a character behind it
so that it stays one (`EachEscape`), because no backslash before it is without what
it escapes (`EscapedFacts`, by the parity of the backslashes at the end). The pieces
of a list are joined (`FlatIn`). The name of an upload is not escaped: that it
holds no backslash is due to what was taken off it, its folders (`BaseFacts`), and
of names with quotes or control characters nothing is said.

`ShownAsSaved` and `SavedAsTyped` say that one conversion undoes the other, and are
about the end. Their invariants say how far it has come: `Each` writes a text
character by character, `Upto` is what the first k of them become, and the cursor
stands where that ends (`PlaceOf`); what arrived holds it there (`Holds`), unless it
was cut off before. So each step reads what one more character was written as
(`NextPiece`, `NextRead`). `ShownInv` has this for the escapes of the path, and for the
answer that what is written of it, read back, is what of the text was passed
(`Parse`). Which file that is, is decided once, when the name was decoded: a name is
empty only if none was asked for, since a path keeps at least one character
(`SizesAssumption`), and what ends inside an escape is the name of no file (`NoFile`),
so that what is opened begins the name that was asked for (`Answers`), whatever else is
on the disk. `SavedInv` has it for the string that is read from a body. Cut off inside
an escape, the cursor is between two characters of the text: `CutInside` and
`BrokenInside` say that nothing but the rest of that escape follows. That a key is
found where its member begins needs that none is found before: a quote inside a
string stands behind a backslash (`QuotesBehind`), a key does not, so the only one
that could stand in a name is one the name ends with, whose closing quote is that of
the member; it is followed by no colon, and the name is no Markdown file, so that
the upload is refused as it should be (`KeyInName`, `KeyFound`).

`TypedInv`, for `TypesKept`, has the bounds of the cursors and the sizes of the arrays
of a diagram; it leans on `ReadInv` and `OwnBoxInv`. The types of the other
converters are part of their invariants.

`ConversionsProofs` joins all this: a step of another converter leaves these
variables alone. Beside `BoundsAssumption` the proofs use that the lines of a
diagram and the names in a line are sequences, of the kinds the readers tell apart
(`DiagramsAssumption`), that a formula is a sequence of tokens
(`FormulasAssumption`), that a document is a sequence of lines
(`DocumentsAssumption`), that names and texts of requests are sequences of
characters, the texts on the disk too (`JobsAssumption`), and that the sizes of the
buffers are numbers, with room for the end of a list and for a character of a path
(`SizesAssumption`; the code keeps 512 characters free, and 244 of a path).

For every set of lines that are typed as characters, escaped or not, and every set
of fragments of characters and tags (`InputsAssumption` of `RoundTrip`):

| Theorem | Statement |
|---|---|
| `TagsNest` | `Spec => []PairsNest`: at every moment of the pairing the tags put in are nested |
| `NoDelimiterLost` | `DelimitersKept`: splitting runs into tags neither loses nor doubles a `*` or a `_` (a run of `~` is one tag) |
| `RoundTripTyped` | `TypeOK` of `RoundTrip`: the two converters stay in their types, on the way there and back; no counter of the walk's context falls below zero |

`PairsNest` looks at the line with its tags put in, and says nothing of the
delimiters that may still become tags. `Nested` does: no tag is open behind a
delimiter that may open, nor anywhere from the closer on. A pair then encloses
a part that is nested by itself (`PairNests`), and what is in it may not be
paired with anything outside, because `Deactivated` has taken the tokens between
out. Without that the invariant is false, and so is the property.
`DelimitersKept` compares what is shown with what was typed; `FirstInv` counts the
tokens instead (`Total`): a run is worth its length, a tag of emphasis one and a strong
one two, and a pair takes from both runs what its two tags are worth (`PairKeeps`).
`RenderedTags` and `UnrenderedTotal` carry both to the symbols the tokens are
put together to. The tags, the sums and the cutting of the line are recursive
functions; `Recursion` of `SequenceLemmas` gives them the equations they are
defined by, `Induction` what follows for every place, and `SameTags` and `SameSums` say
that a part which two sequences share contributes the same to both.

That the context keeps its types is the question whether every counter that an
element takes back was counted up when it was entered. Elements change one
context that they share with all around them, so this is about the whole walk:
`Walks` says that the context at hand is `Inside` of the one saved by the innermost
element, and that this one is `Inside` of what the next one saved. `Restored` then
gives the context that was there before the element (an element that stays HTML counts
nothing and takes nothing back). `RoundInv` also says of which symbols the fragment and
what is written of it are made: what comes of a line that was typed has only
the tags of emphasis in it (`RenderedTyped`, `WrittenTyped`), so that it can be rendered
again; what comes of an edited preview has any.

Only model-checked: of `RoundTrip`, `OnlySkippedLost` and `OneKindFixed`, which
compare whole conversions with each other; and `Faithful` of `MathML`, which compares
what is read with what was written. And all liveness (`SaveLands`, `LastSaveStays`,
`Settles`, `EveryoneServed`, `StopsOnSignal`, `ConversionEnds`), which is out of the
prover's reach.

## What is not modelled

`PROJECT.json` lists every component with its status. Of the block parser, front
matter, footnotes, `<summary>`, definition lists, alerts, the HTML blocks that do
not end at a blank line and link definitions of several lines are left out; a
document of the model has none of them. Four things the model of the blocks
shows have no run of their own: an unterminated fence is reported at the last
line of the text at hand instead of at its opening; an item inside a fence inside
an item ends the fence's body, and the document is refused; a heading or a fence
in an item flattens the nested list behind it; and the scan for link
definitions, which counts every line that looks like a fence, blanks a
definition inside a longer fence that holds a shorter one, and, in a quote, one
that goes on a paragraph (`EachLineOnce` is about fences of one length and
unquoted definitions). Of the inline parser, code spans, links, images,
autolinks, entities, footnote references, emoji, inline math and hard breaks
are left out. Of the serializer, headings, links, images, tables, definition
lists, `<div>`, math, footnotes, comments and void tags. What the walk drops by
design of its loops (text of a list outside its items, what stands beside the
`<code>` of a `<pre>`) is named by `Skipped`, and `OnlySkippedLost` says that
nothing else is. The client does not render the source that an edited preview
is serialized to, and neither does the model. The tokenizer has no
caller. The error report and the logger turn strings into strings and keep
nothing. The layout of a diagram, once its boxes have ranks, is arithmetic on
coordinates that nothing reads again. `POST /save` is not sent by the client, and
the static files change no state. A failing `malloc` in a string function
answers 500 and changes nothing. The Windows branches of
`platform.c`, `file_writer.c` and `main.c` are left out: other primitives, the
same steps.

## Plan

1. `FileWriter`, `AutosaveStore` and their proofs: done.
2. `Editor` and its proofs: done for the flows that touch a file.
3. `HttpServer` and its proofs: done. Next: a module that composes it with
   `FileWriter` over one descriptor table, for the listener that is closed twice
   (`main.c` 43).
4. `MdBlocks`: done for the blocks listed above, and the scan for link definitions
   ahead of them. Next: footnotes and front matter.
5. `Emphasis`, `HtmlFragment` and `RoundTrip`: done for the elements listed
   above. Next: code spans, headings and links.
6. `MathML`, `Mermaid`, `Wire` and `Conversions`: done.
7. `MermaidProofs`, `BlocksProofs`, `ConversionsProofs` and `RoundTripProofs`: done for
   the properties listed above. Theorems still worth proving: `OnlySkippedLost`, from
   an order on the nodes that are still to be walked; `Faithful`, from the tree that
   the calls at hand have built.
