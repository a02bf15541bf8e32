------------------------------- MODULE Editor -------------------------------
(***************************************************************************)
(* One browser tab (src-c/static/client.js), the request handlers it calls *)
(* (src-c/http.c) and the debounced writer behind them.  Two panes, the    *)
(* Markdown source and the rendered preview, are both editable; typing in  *)
(* one arms a 200 ms timer, whose request fills the other pane and, as a   *)
(* side effect on the server, schedules a save of the active file.         *)
(*                                                                         *)
(* A text is abstracted to its lineage: the file it descends from and the  *)
(* edits made to it since.  Rendering and serializing change the notation  *)
(* of a text, HTML for Markdown and back, and not its lineage, which is    *)
(* all the properties look at.                                             *)
(***************************************************************************)
EXTENDS Integers

CONSTANTS
    Files,         \* the Markdown files of the launch directory
    NoFile,        \* no active file, and the file of the empty text
    Users,         \* the users: what each waits for and, as bounds, what it does
    Broken,        \* the sets of edits whose text /render rejects
    ServedInOrder, \* the server gets the requests in the order they were sent
    BodiesPrompt   \* no answer arrives while the body of another is awaited

ASSUME ConstantsAssumption ==
    /\ NoFile \notin Files
    /\ Broken \subseteq SUBSET Nat
    /\ {ServedInOrder, BodiesPrompt} \subseteq BOOLEAN

VARIABLES
    user,         \* who uses the page
    source,       \* sourceEl.value
    preview,      \* previewEl.innerHTML
    activeEditor,
    shown,        \* currentFileName
    timers,       \* which of renderTimeout and serializeTimeout are armed
    newest,       \* the one that was armed last
    requestSeq,   \* renderRequestSeq and serializeRequestSeq
    responseSeq,  \* renderResponseSeq and serializeResponseSeq
    calls,        \* the fetches under way
    issued,       \* the number of fetches so far
    activeFile,   \* g_initial_file of the server
    pending,      \* the save the writer has pending
    disk,         \* the content of each file
    edits,        \* history: edits so far
    switches,     \* history: openings and uploads so far
    downloads,    \* history: downloads so far
    typed,        \* history: the edits made to each file
    lost          \* history: the kinds of the calls that failed

panes    == <<source, preview, activeEditor, shown>>
timeouts == <<timers, newest>>
fetches  == <<requestSeq, responseSeq, calls, issued>>
server   == <<activeFile, pending, disk>>
history  == <<edits, switches, downloads, typed, lost>>
vars     == <<user, panes, timeouts, fetches, server, history>>

Texts == [file : Files \cup {NoFile}, edits : SUBSET (1..user.edits)]
Blank == [file |-> NoFile, edits |-> {}]
Fresh(f) == [file |-> f, edits |-> {}]

NoSave == [file |-> NoFile, text |-> Blank]

Syncs    == {"render", "serialize"}   \* the calls with a timer and a sequence number
Switches == {"open", "upload"}
Reads    == {"load", "label", "get"}
Kinds    == Syncs \cup Switches \cup Reads \cup {"download"}

Calls == [n : Nat, kind : Kinds, seq : Nat, file : Files \cup {NoFile}, text : Texts,
          at : {"sent", "answered", "reading"}, ok : BOOLEAN]

\* The bounds of a user: its edits and uploads, its openings and uploads, its
\* downloads, the kinds of calls of which one may fail, the kinds of which the
\* server may fail to read the file, and the files that are above
\* HTTP_FILE_LIMIT, which GET /file refuses.  What it waits for: MayType.
ASSUME UsersAssumption ==
    \A u \in Users :
        /\ u.patience \in 0..2
        /\ {u.edits, u.switches, u.downloads} \subseteq Nat
        /\ u.losable \subseteq Kinds
        /\ u.unreadable \subseteq Reads
        /\ u.tooLarge \subseteq Files

TypeOK ==
    /\ user \in Users
    /\ source \in Texts
    /\ preview \in Texts
    /\ activeEditor \in {"none", "source", "preview"}
    /\ shown \in Files \cup {NoFile}
    /\ timers \subseteq Syncs
    /\ newest \in Syncs
    /\ requestSeq \in [Syncs -> Nat]
    /\ responseSeq \in [Syncs -> Nat]
    /\ calls \subseteq Calls
    /\ \A c \in calls : c.kind \in Syncs => c.seq \in 1..requestSeq[c.kind]
    /\ issued \in Nat
    /\ activeFile \in Files \cup {NoFile}
    /\ pending \in [file : Files \cup {NoFile}, text : Texts]
    /\ disk \in [Files -> Texts]
    /\ edits \in 0..user.edits
    /\ switches \in 0..user.switches
    /\ downloads \in 0..user.downloads
    /\ typed \in [Files \cup {NoFile} -> SUBSET (1..user.edits)]
    /\ lost \subseteq Kinds

-----------------------------------------------------------------------------
(***************************************************************************)
(* Fetches.  The n-th call takes its body when it is issued; text and file *)
(* of the record are that body, or what its continuation keeps, and become *)
(* the answer.                                                             *)
(***************************************************************************)
Call(n, kind, seq, file, text) ==
    [n |-> n, kind |-> kind, seq |-> seq, file |-> file, text |-> text, at |-> "sent", ok |-> TRUE]

\* Mutant of IssueNext: the sequence number is used and not kept.
IssueNextUnkept(over, kind, text) ==
    /\ calls' = (calls \ over) \cup {Call(issued + 1, kind, requestSeq[kind] + 1, NoFile, text)}
    /\ issued' = issued + 1
    /\ UNCHANGED <<requestSeq, responseSeq>>

\* renderMarkdown and serializeHtml: a fetch that takes the next sequence number,
\* issued as the calls in over end.
IssueNext(over, kind, text) ==
    /\ requestSeq' = [requestSeq EXCEPT ![kind] = @ + 1]
    /\ calls' = (calls \ over) \cup {Call(issued + 1, kind, requestSeq[kind] + 1, NoFile, text)}
    /\ issued' = issued + 1
    /\ UNCHANGED responseSeq

\* A fetch without a sequence number.
IssuePlain(over, kind, file, text) ==
    /\ calls' = (calls \ over) \cup {Call(issued + 1, kind, 0, file, text)}
    /\ issued' = issued + 1
    /\ UNCHANGED <<requestSeq, responseSeq>>

Finish(c) ==
    /\ calls' = calls \ {c}
    /\ UNCHANGED <<requestSeq, responseSeq, issued>>

\* Nothing armed, nothing under way, nothing left to write.
Settled ==
    /\ timers = {}
    /\ calls = {}
    /\ pending = NoSave

\* One of the flows that replaces the source, or the retrieval at load time.
Switching == \E c \in calls : c.kind \notin Syncs

\* The page is loaded: DOMContentLoaded has fetched /file twice, once for the
\* source and once for the label, and the server was given a file or none.
Init ==
    /\ user \in Users
    /\ activeFile \in Files \cup {NoFile}
    /\ disk = [f \in Files |-> Fresh(f)]
    /\ pending = NoSave
    /\ source = Blank
    /\ preview = Blank
    /\ activeEditor = "none"
    /\ shown = NoFile
    /\ timers = {}
    /\ newest = "render"
    /\ requestSeq = [p \in Syncs |-> 0]
    /\ responseSeq = [p \in Syncs |-> 0]
    /\ calls = {Call(1, "load", 0, NoFile, Blank), Call(2, "label", 0, NoFile, Blank)}
    /\ issued = 2
    /\ edits = 0
    /\ switches = 0
    /\ downloads = 0
    /\ typed = [f \in Files \cup {NoFile} |-> {}]
    /\ lost = {}

-----------------------------------------------------------------------------
(***************************************************************************)
(* The user.  With patience 1 it leaves the editor alone while a file is   *)
(* being loaded, opened, uploaded or downloaded.  With patience 2 it also  *)
(* types in the other pane, or opens or uploads a file, only when both     *)
(* panes show the same text and nothing is left to save.                   *)
(***************************************************************************)
InSync == Settled /\ preview = source

MayType(pane) ==
    /\ user.patience >= 1 => ~Switching
    /\ user.patience = 2 => activeEditor = pane \/ InSync

MayLeave ==
    /\ user.patience >= 1 => ~Switching
    /\ user.patience = 2 => InSync

MayDownload == user.patience >= 1 => ~Switching

\* clearTimeout and setTimeout.
Arm(timer) ==
    /\ timers' = timers \cup {timer}
    /\ newest' = timer

\* The user changes text: the edit gets the next number.
Edited(text) == [text EXCEPT !.edits = @ \cup {edits + 1}]

Edit(file) ==
    /\ edits < user.edits
    /\ edits' = edits + 1
    /\ typed' = [typed EXCEPT ![file] = @ \cup {edits + 1}]
    /\ UNCHANGED <<switches, downloads, lost>>

\* An input event of the source pane (Tab and typing alike).
TypeSource ==
    /\ MayType("source")
    /\ Edit(source.file)
    /\ source' = Edited(source)
    /\ activeEditor' = "source"
    /\ Arm("render")
    /\ UNCHANGED <<preview, shown, fetches, server>>

\* An input event of the preview pane (typing and the formatting toolbar).
TypePreview ==
    /\ MayType("preview")
    /\ Edit(preview.file)
    /\ preview' = Edited(preview)
    /\ activeEditor' = "preview"
    /\ Arm("serialize")
    /\ UNCHANGED <<source, shown, fetches, server>>

\* A click in the file list: openFileFromList fetches the file first.
ClickFile(f) ==
    /\ MayLeave
    /\ switches < user.switches
    /\ switches' = switches + 1
    /\ IssuePlain({}, "get", f, Blank)
    /\ UNCHANGED <<panes, timeouts, server, edits, downloads, typed, lost>>

\* The user picks a local file named f, whose content replaces that of f.
ClickUpload(f) ==
    /\ MayLeave
    /\ switches < user.switches
    /\ edits < user.edits
    /\ switches' = switches + 1
    /\ edits' = edits + 1
    /\ typed' = [typed EXCEPT ![f] = {edits + 1}]
    /\ IssuePlain({}, "upload", f, [file |-> f, edits |-> {edits + 1}])
    /\ UNCHANGED <<panes, timeouts, server, downloads, lost>>

\* Ctrl+S: when the preview was edited last, it is serialized first.
ClickDownload ==
    /\ MayDownload
    /\ activeEditor = "preview"
    /\ downloads < user.downloads
    /\ downloads' = downloads + 1
    /\ IssuePlain({}, "download", NoFile, preview)
    /\ UNCHANGED <<panes, timeouts, server, edits, switches, typed, lost>>

-----------------------------------------------------------------------------
\* The timers of the client.

\* Equal delays fire in the order they were set.
Fire(timer) ==
    /\ timer \in timers
    /\ timer = newest => timers = {timer}
    /\ timers' = timers \ {timer}
    /\ UNCHANGED newest

FireRender ==
    /\ Fire("render")
    /\ IssueNext({}, "render", source)
    /\ UNCHANGED <<panes, server, history>>

FireSerialize ==
    /\ Fire("serialize")
    /\ IssueNext({}, "serialize", preview)
    /\ UNCHANGED <<panes, server, history>>

-----------------------------------------------------------------------------
(***************************************************************************)
(* The server: one request at a time, from recv to the answer.             *)
(***************************************************************************)
Turn(c) ==
    /\ c.at = "sent"
    /\ ServedInOrder => \A d \in calls : d.at = "sent" => c.n <= d.n

Answer(c, ok, file, text) ==
    /\ calls' = (calls \ {c})
                \cup {[c EXCEPT !.at = "answered", !.ok = ok, !.file = file, !.text = text]}
    /\ UNCHANGED <<requestSeq, responseSeq, issued>>

\* file_writer_schedule_save(g_initial_file, ...), skipped without a file.
ScheduleActive(text) ==
    pending' = IF activeFile = NoFile THEN pending ELSE [file |-> activeFile, text |-> text]

\* Mutant of ServeRender: rendering alone does not save.
ServeRenderOnly(c) ==
    /\ c.kind = "render"
    /\ Turn(c)
    /\ Answer(c, c.text.edits \notin Broken, c.file, c.text)
    /\ UNCHANGED <<panes, timeouts, server, history>>

\* POST /render: saves first, then parses; the answer is HTML or an error.
ServeRender(c) ==
    /\ c.kind = "render"
    /\ Turn(c)
    /\ ScheduleActive(c.text)
    /\ Answer(c, c.text.edits \notin Broken, c.file, c.text)
    /\ UNCHANGED <<panes, timeouts, activeFile, disk, history>>

\* POST /serialize, for the preview's timer and for a download.
ServeSerialize(c) ==
    /\ c.kind \in {"serialize", "download"}
    /\ Turn(c)
    /\ ScheduleActive(c.text)
    /\ Answer(c, TRUE, c.file, c.text)
    /\ UNCHANGED <<panes, timeouts, activeFile, disk, history>>

\* GET /file, with a path or for the active file: what the disk holds now,
\* whatever is pending for it, or nothing when it cannot be read.
Content(f) == IF f = NoFile THEN Blank ELSE disk[f]

ServeFile(c) ==
    /\ c.kind \in Reads
    /\ Turn(c)
    /\ LET target == IF c.kind = "get" THEN c.file ELSE activeFile
       IN \/ target \in user.tooLarge /\ Answer(c, FALSE, c.file, Blank)
          \/ target \notin user.tooLarge /\ Answer(c, TRUE, target, Content(target))
          \/ c.kind \in user.unreadable /\ Answer(c, TRUE, target, Blank)
    /\ UNCHANGED <<panes, timeouts, server, history>>

\* Mutant of ServeOpen: the path is checked and the active file stays.
ServeOpenKeeping(c) ==
    /\ c.kind = "open"
    /\ Turn(c)
    /\ Answer(c, TRUE, c.file, c.text)
    /\ UNCHANGED <<panes, timeouts, server, history>>

\* POST /open-file.
ServeOpen(c) ==
    /\ c.kind = "open"
    /\ Turn(c)
    /\ activeFile' = c.file
    /\ Answer(c, TRUE, c.file, c.text)
    /\ UNCHANGED <<panes, timeouts, pending, disk, history>>

\* POST /upload-file: the file becomes the active one and is saved.
ServeUpload(c) ==
    /\ c.kind = "upload"
    /\ Turn(c)
    /\ activeFile' = c.file
    /\ pending' = [file |-> c.file, text |-> c.text]
    /\ Answer(c, TRUE, c.file, c.text)
    /\ UNCHANGED <<panes, timeouts, disk, history>>

\* Mutant of Flush: the worker leaves the buffers it has written in place.
FlushKeeping ==
    /\ pending # NoSave
    /\ disk' = [disk EXCEPT ![pending.file] = pending.text]
    /\ UNCHANGED <<panes, timeouts, fetches, activeFile, pending, history>>

\* The writer of FileWriter, its debounce over: the pending save reaches its
\* file.  (Writes that overtake one another are that module's subject.)
Flush ==
    /\ pending # NoSave
    /\ disk' = [disk EXCEPT ![pending.file] = pending.text]
    /\ pending' = NoSave
    /\ UNCHANGED <<panes, timeouts, fetches, activeFile, history>>

-----------------------------------------------------------------------------
(***************************************************************************)
(* The client's continuations.  That of a render or a serialize call runs  *)
(* in two parts: the sequence check when the headers are there, and after  *)
(* an await for the body, the rest.                                        *)
(***************************************************************************)

\* Mutant of Stale: no answer is discarded.
StaleNever(c) == FALSE

Stale(c) == c.seq < responseSeq[c.kind]

Headers(c) ==
    /\ c.kind \in Syncs
    /\ c.at = "answered"
    /\ BodiesPrompt => \A d \in calls : d.at # "reading"

Discard(c) ==
    /\ Headers(c)
    /\ Stale(c)
    /\ Finish(c)
    /\ UNCHANGED <<panes, timeouts, server, history>>

Accept(c) ==
    /\ Headers(c)
    /\ ~Stale(c)
    /\ responseSeq' = [responseSeq EXCEPT ![c.kind] = c.seq]
    /\ calls' = (calls \ {c}) \cup {[c EXCEPT !.at = "reading"]}
    /\ UNCHANGED <<requestSeq, issued, panes, timeouts, server, history>>

\* A rendered body fills the preview, unless the user types there; an error
\* leaves it.
FillPreview(c) ==
    /\ c.kind = "render"
    /\ c.at = "reading"
    /\ preview' = IF c.ok /\ activeEditor # "preview" THEN c.text ELSE preview
    /\ Finish(c)
    /\ UNCHANGED <<source, activeEditor, shown, timeouts, server, history>>

\* Mutant of FillSource: the source is filled while the user types in it.
FillSourceAlways(c) ==
    /\ c.kind = "serialize"
    /\ c.at = "reading"
    /\ source' = c.text
    /\ Finish(c)
    /\ UNCHANGED <<preview, activeEditor, shown, timeouts, server, history>>

\* A serialized body fills the source, unless the user types there.
FillSource(c) ==
    /\ c.kind = "serialize"
    /\ c.at = "reading"
    /\ source' = IF activeEditor # "source" THEN c.text ELSE source
    /\ Finish(c)
    /\ UNCHANGED <<preview, activeEditor, shown, timeouts, server, history>>

\* The serialized body of a download fills the source in any case.
FillDownload(c) ==
    /\ c.kind = "download"
    /\ c.at = "answered"
    /\ source' = c.text
    /\ Finish(c)
    /\ UNCHANGED <<preview, activeEditor, shown, timeouts, server, history>>

\* After the first GET /file, whatever came of it, the source is rendered.
AfterLoad(c, text) ==
    /\ source' = text
    /\ activeEditor' = "source"
    /\ IssueNext({c}, "render", text)
    /\ UNCHANGED <<preview, shown, timeouts, server>>

Load(c) ==
    /\ c.kind = "load"
    /\ c.at = "answered"
    /\ AfterLoad(c, IF c.ok /\ c.file # NoFile THEN c.text ELSE source)
    /\ UNCHANGED history

Label(c) ==
    /\ c.kind = "label"
    /\ c.at = "answered"
    /\ shown' = IF c.ok /\ c.file # NoFile THEN c.file ELSE shown
    /\ Finish(c)
    /\ UNCHANGED <<source, preview, activeEditor, timeouts, server, history>>

\* openFileFromList has the content; it tells the server to switch.
Retarget(c) ==
    /\ c.kind = "get"
    /\ c.at = "answered"
    /\ IF c.ok THEN IssuePlain({c}, "open", c.file, c.text) ELSE Finish(c)
    /\ UNCHANGED <<panes, timeouts, server, history>>

\* The server has switched, to an opened or an uploaded file: it is shown and
\* rendered.
Switch(c) ==
    /\ c.kind \in Switches
    /\ c.at = "answered"
    /\ source' = c.text
    /\ shown' = c.file
    /\ activeEditor' = "source"
    /\ IssueNext({c}, "render", c.text)
    /\ UNCHANGED <<preview, timeouts, server, history>>

\* A fetch fails, before or after the server has seen it: every flow ends with
\* an error message, except the first load, which goes on without the file.
Fail(c) ==
    /\ c.kind \in user.losable \ lost
    /\ lost' = lost \cup {c.kind}
    /\ IF c.kind = "load" THEN AfterLoad(c, source)
       ELSE Finish(c) /\ UNCHANGED <<panes, timeouts, server>>
    /\ UNCHANGED <<edits, switches, downloads, typed>>

-----------------------------------------------------------------------------
\* The panes agree and wait for the user.
Rest ==
    /\ Settled
    /\ UNCHANGED vars

User ==
    \/ TypeSource
    \/ TypePreview
    \/ \E f \in Files : ClickFile(f) \/ ClickUpload(f)
    \/ ClickDownload

Server(c) ==
    \/ ServeRender(c)
    \/ ServeSerialize(c)
    \/ ServeFile(c)
    \/ ServeOpen(c)
    \/ ServeUpload(c)

Continuation(c) ==
    \/ Discard(c) \/ Accept(c)
    \/ FillPreview(c) \/ FillSource(c) \/ FillDownload(c)
    \/ Load(c) \/ Label(c)
    \/ Retarget(c) \/ Switch(c)

System ==
    /\ \/ FireRender
       \/ FireSerialize
       \/ \E c \in calls : Server(c) \/ Continuation(c)
       \/ Flush
    /\ UNCHANGED user

Next ==
    /\ User \/ System \/ (\E c \in calls : Fail(c)) \/ Rest
    /\ UNCHANGED user

Spec == Init /\ [][Next]_vars

\* The event loop runs what is due, the server serves, the writer writes.
FairSpec == Spec /\ WF_vars(System)

-----------------------------------------------------------------------------
(***************************************************************************)
(* Properties.                                                             *)
(***************************************************************************)

Patient == user.patience = 2

\* For a patient user, a file only ever holds text that descends from it: neither
\* the empty panes of a page that is still loading nor the text of another file
\* is saved into it.  The code does not ensure it when GET /file fails.
OwnFile == Patient => \A f \in Files : disk[f].file = f

\* After /open-file or /upload-file "subsequent edits autosave to it": when all
\* has settled, no file was left with the text of another.  The code does not
\* ensure it for a user who opens a file with a timer still armed.
NoMixing == Settled => \A f \in Files : disk[f].file \in {f, NoFile}

\* For a patient user and no failed call, no edit in either pane is lost: when
\* everything has settled each file holds all edits ever made to it, through
\* renders, serializations and switches of the file.
NoLostEdit ==
    Patient /\ Settled /\ lost = {} =>
        \A f \in Files : disk[f] = [file |-> f, edits |-> typed[f]]

\* For a patient user and no failed call, all that is shown agrees when everything
\* has settled: both panes show the same text, unless it does not render, for a
\* stale answer is never the last to be shown; and the file the header names, the
\* one the server saves to and the one the text comes from are the same.
PanesAgree ==
    Patient /\ Settled /\ lost = {} =>
        /\ source.edits \notin Broken => preview = source
        /\ shown = activeFile /\ source.file = activeFile

\* However hastily a user of patience 1 alternates between the panes of one file, what is
\* saved in the end is what the source pane shows.
ShownIsSaved ==
    Settled /\ lost = {} /\ switches = 0 /\ activeFile # NoFile => disk[activeFile] = source

\* The editor never keeps busy for ever: once the user stops, it settles.
Settles == []<>Settled
=============================================================================
