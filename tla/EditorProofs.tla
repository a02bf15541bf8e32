---------------------------- MODULE EditorProofs ----------------------------
(***************************************************************************)
(* The types of Editor, and the parts of its invariant that hold whatever  *)
(* is lost and in whatever order requests are served: CallsInv, of the     *)
(* calls, and WaitInv, of a user who waits for the files; then what the    *)
(* editor promises, which builds on them.                                  *)
(*                                                                         *)
(* The lemmas speak of a call by what its step does with it (Issues,       *)
(* Answers, Starts), and no longer of the record that Call or EXCEPT make. *)
(***************************************************************************)
EXTENDS Editor, TLAPS

Savers == Syncs \cup {"download"}     \* the calls whose handler saves
Movers == {"get"} \cup Switches       \* the calls of a flow that changes the file

-----------------------------------------------------------------------------
(* What a step does to the calls. *)

\* A call is issued, as those in over end.
Issues(over, new) ==
    /\ new \in Calls
    /\ new.n = issued + 1 /\ new.at = "sent" /\ new.ok
    /\ calls' = (calls \ over) \cup {new}
    /\ issued' = issued + 1
    /\ UNCHANGED responseSeq

\* The server answers.
Answers(c, new) ==
    /\ new \in Calls
    /\ new.n = c.n /\ new.kind = c.kind /\ new.seq = c.seq /\ new.at = "answered"
    /\ calls' = (calls \ {c}) \cup {new}
    /\ UNCHANGED <<requestSeq, responseSeq, issued>>

\* The headers of an answer are there.
Starts(c, new) ==
    /\ new \in Calls
    /\ new.n = c.n /\ new.kind = c.kind /\ new.seq = c.seq
    /\ new.file = c.file /\ new.text = c.text /\ new.ok = c.ok
    /\ new.at = "reading"
    /\ calls' = (calls \ {c}) \cup {new}
    /\ responseSeq' = [responseSeq EXCEPT ![c.kind] = c.seq]
    /\ UNCHANGED <<requestSeq, issued>>

\* The fields of a call.
LEMMA CallType ==
    ASSUME NEW c \in Calls
    PROVE  /\ c.n \in Nat /\ c.kind \in Kinds /\ c.seq \in Nat /\ c.file \in Files \cup {NoFile}
           /\ c.text \in Texts /\ c.at \in {"sent", "answered", "reading"} /\ c.ok \in BOOLEAN
BY DEF Calls

\* The bounds of the user are numbers.
LEMMA UserType ==
    ASSUME TypeOK
    PROVE  /\ user.edits \in Nat /\ user.switches \in Nat /\ user.downloads \in Nat
           /\ user.patience \in 0..2
           /\ user.losable \subseteq Kinds
BY UsersAssumption DEF TypeOK

LEMMA IssueNextEffect ==
    ASSUME TypeOK, NEW over, NEW kind \in Syncs, NEW text \in Texts, IssueNext(over, kind, text)
    PROVE  \E new : /\ Issues(over, new)
                    /\ new.kind = kind /\ new.seq = requestSeq[kind] + 1
                    /\ new.file = NoFile /\ new.text = text
                    /\ requestSeq' = [requestSeq EXCEPT ![kind] = @ + 1]
<1> DEFINE new == Call(issued + 1, kind, requestSeq[kind] + 1, NoFile, text)
<1>1. new \in Calls
    BY DEF Call, Calls, TypeOK, Kinds
<1>2. /\ new.n = issued + 1 /\ new.at = "sent" /\ new.ok
      /\ new.kind = kind /\ new.seq = requestSeq[kind] + 1 /\ new.file = NoFile /\ new.text = text
    BY DEF Call
<1>3. /\ calls' = (calls \ over) \cup {new}
      /\ issued' = issued + 1 /\ UNCHANGED responseSeq
      /\ requestSeq' = [requestSeq EXCEPT ![kind] = @ + 1]
    BY DEF IssueNext
<1> HIDE DEF new
<1>4. QED
    BY <1>1, <1>2, <1>3 DEF Issues

LEMMA IssuePlainEffect ==
    ASSUME TypeOK, NEW over, NEW kind \in Kinds, NEW file \in Files \cup {NoFile},
           NEW text \in Texts, IssuePlain(over, kind, file, text)
    PROVE  \E new : /\ Issues(over, new)
                    /\ new.kind = kind /\ new.file = file /\ new.text = text
                    /\ UNCHANGED requestSeq
<1> DEFINE new == Call(issued + 1, kind, 0, file, text)
<1>1. new \in Calls
    BY DEF Call, Calls, TypeOK
<1>2. /\ new.n = issued + 1 /\ new.at = "sent" /\ new.ok
      /\ new.kind = kind /\ new.file = file /\ new.text = text
    BY DEF Call
<1>3. /\ calls' = (calls \ over) \cup {new}
      /\ issued' = issued + 1 /\ UNCHANGED <<requestSeq, responseSeq>>
    BY DEF IssuePlain
<1> HIDE DEF new
<1>4. QED
    BY <1>1, <1>2, <1>3 DEF Issues

LEMMA AnswerEffect ==
    ASSUME TypeOK, NEW c \in calls, NEW ok \in BOOLEAN, NEW file \in Files \cup {NoFile},
           NEW text \in Texts, Answer(c, ok, file, text)
    PROVE  \E new : Answers(c, new) /\ new.ok = ok /\ new.file = file /\ new.text = text
<1> DEFINE new == [c EXCEPT !.at = "answered", !.ok = ok, !.file = file, !.text = text]
<1>1. c \in Calls
    BY DEF TypeOK
<1>2. new \in Calls
    BY <1>1 DEF Calls
<1>3. /\ new.n = c.n /\ new.kind = c.kind /\ new.seq = c.seq /\ new.at = "answered"
      /\ new.ok = ok /\ new.file = file /\ new.text = text
    BY <1>1 DEF Calls
<1>4. /\ calls' = (calls \ {c}) \cup {new}
      /\ UNCHANGED <<requestSeq, responseSeq, issued>>
    BY DEF Answer
<1> HIDE DEF new
<1>5. QED
    BY <1>2, <1>3, <1>4 DEF Answers

LEMMA AcceptEffect ==
    ASSUME TypeOK, NEW c \in calls, Accept(c)
    PROVE  \E new : Starts(c, new)
<1> DEFINE new == [c EXCEPT !.at = "reading"]
<1>1. c \in Calls
    BY DEF TypeOK
<1>2. new \in Calls
    BY <1>1 DEF Calls
<1>3. /\ new.n = c.n /\ new.kind = c.kind /\ new.seq = c.seq /\ new.at = "reading"
      /\ new.ok = c.ok /\ new.file = c.file /\ new.text = c.text
    BY <1>1 DEF Calls
<1>4. /\ calls' = (calls \ {c}) \cup {new}
      /\ responseSeq' = [responseSeq EXCEPT ![c.kind] = c.seq]
      /\ UNCHANGED <<requestSeq, issued>>
    BY DEF Accept
<1> HIDE DEF new
<1>5. QED
    BY <1>2, <1>3, <1>4 DEF Starts

-----------------------------------------------------------------------------
(* Types, in four parts. *)

PanesOK ==
    /\ source \in Texts
    /\ preview \in Texts
    /\ activeEditor \in {"none", "source", "preview"}
    /\ shown \in Files \cup {NoFile}
    /\ timers \subseteq Syncs
    /\ newest \in Syncs

FetchesOK ==
    /\ requestSeq \in [Syncs -> Nat]
    /\ responseSeq \in [Syncs -> Nat]
    /\ calls \subseteq Calls
    /\ \A c \in calls : c.kind \in Syncs => c.seq \in 1..requestSeq[c.kind]
    /\ issued \in Nat

ServerOK ==
    /\ activeFile \in Files \cup {NoFile}
    /\ pending \in [file : Files \cup {NoFile}, text : Texts]
    /\ disk \in [Files -> Texts]

HistoryOK ==
    /\ edits \in 0..user.edits
    /\ switches \in 0..user.switches
    /\ downloads \in 0..user.downloads
    /\ typed \in [Files \cup {NoFile} -> SUBSET (1..user.edits)]
    /\ lost \subseteq Kinds

LEMMA TypeParts == TypeOK <=> user \in Users /\ PanesOK /\ FetchesOK /\ ServerOK /\ HistoryOK
BY DEF TypeOK, PanesOK, FetchesOK, ServerOK, HistoryOK

LEMMA TypePartsNext ==
    ASSUME TypeOK, UNCHANGED user, PanesOK', FetchesOK', ServerOK', HistoryOK'
    PROVE  TypeOK'
BY DEF TypeOK, PanesOK, FetchesOK, ServerOK, HistoryOK

LEMMA IssuesType ==
    ASSUME FetchesOK, Calls' = Calls, NEW over, NEW new, Issues(over, new),
           requestSeq' \in [Syncs -> Nat], \A p \in Syncs : requestSeq[p] <= requestSeq'[p],
           new.kind \in Syncs => new.seq \in 1..requestSeq'[new.kind]
    PROVE  FetchesOK'
<1>1. calls' \subseteq Calls' /\ issued' \in Nat /\ responseSeq' \in [Syncs -> Nat]
    BY DEF FetchesOK, Issues
<1>2. \A c \in calls' : c.kind \in Syncs => c.seq \in 1..requestSeq'[c.kind]
    BY DEF FetchesOK, Issues
<1>3. QED
    BY <1>1, <1>2 DEF FetchesOK

LEMMA AnswersType ==
    ASSUME FetchesOK, Calls' = Calls, NEW c \in calls, NEW new, Answers(c, new)
    PROVE  FetchesOK'
<1>1. calls' \subseteq Calls' /\ issued' \in Nat /\ responseSeq' \in [Syncs -> Nat]
    BY DEF FetchesOK, Answers
<1>2. requestSeq' = requestSeq /\ requestSeq' \in [Syncs -> Nat]
    BY DEF FetchesOK, Answers
<1>3. \A d \in calls' : d.kind \in Syncs => d.seq \in 1..requestSeq'[d.kind]
    BY <1>2 DEF FetchesOK, Answers
<1>4. QED
    BY <1>1, <1>2, <1>3 DEF FetchesOK

LEMMA StartsType ==
    ASSUME FetchesOK, Calls' = Calls, NEW c \in calls, NEW new, Starts(c, new)
    PROVE  FetchesOK'
<1>1. calls' \subseteq Calls' /\ issued' \in Nat
    BY DEF FetchesOK, Starts
<1>2. requestSeq' = requestSeq /\ requestSeq' \in [Syncs -> Nat]
    BY DEF FetchesOK, Starts
<1>3. \A d \in calls' : d.kind \in Syncs => d.seq \in 1..requestSeq'[d.kind]
    BY <1>2 DEF FetchesOK, Starts
<1>4. responseSeq' \in [Syncs -> Nat]
    BY CallType DEF FetchesOK, Starts
<1>5. QED
    BY <1>1, <1>2, <1>3, <1>4 DEF FetchesOK

LEMMA FinishType ==
    ASSUME FetchesOK, Calls' = Calls, NEW c, Finish(c)
    PROVE  FetchesOK'
<1>1. calls' \subseteq calls /\ UNCHANGED <<requestSeq, responseSeq, issued>>
    BY DEF Finish
<1>2. QED
    BY <1>1 DEF FetchesOK

\* What a step of the user, of a timer or of the server is given is a text.
LEMMA TextsGiven ==
    ASSUME TypeOK
    PROVE  /\ Blank \in Texts
           /\ \A c \in calls : c \in Calls /\ c.text \in Texts /\ c.file \in Files \cup {NoFile}
           /\ \A f \in Files \cup {NoFile} : Content(f) \in Texts
           /\ edits < user.edits =>
                  /\ Edited(source) \in Texts /\ Edited(preview) \in Texts
                  /\ \A f \in Files : [file |-> f, edits |-> {edits + 1}] \in Texts
<1>1. Blank \in Texts
    BY DEF Blank, Texts
<1>2. \A c \in calls : c \in Calls /\ c.text \in Texts /\ c.file \in Files \cup {NoFile}
    BY CallType DEF TypeOK
<1>3. \A f \in Files \cup {NoFile} : Content(f) \in Texts
    BY <1>1 DEF Content, TypeOK
<1>4. ASSUME edits < user.edits
      PROVE  /\ Edited(source) \in Texts /\ Edited(preview) \in Texts
             /\ \A f \in Files : [file |-> f, edits |-> {edits + 1}] \in Texts
    <2>1. edits + 1 \in 1..user.edits
        BY <1>4, UserType DEF TypeOK
    <2>2. QED
        BY <2>1 DEF TypeOK, Edited, Texts
<1>5. QED
    BY <1>1, <1>2, <1>3, <1>4

\* The types do not depend on the step.
LEMMA SameTypes == ASSUME UNCHANGED user PROVE Texts' = Texts /\ Calls' = Calls
BY DEF Texts, Calls

LEMMA EditType ==
    ASSUME HistoryOK, TypeOK, UNCHANGED user, NEW f \in Files \cup {NoFile}, Edit(f)
    PROVE  HistoryOK'
<1>1. edits + 1 \in 1..user.edits
    BY UserType DEF HistoryOK, Edit
<1>2. typed' \in [Files \cup {NoFile} -> SUBSET (1..user.edits)]
    BY <1>1 DEF HistoryOK, Edit
<1>3. edits' \in 0..user.edits /\ UNCHANGED <<switches, downloads, lost>>
    BY <1>1, UserType DEF HistoryOK, Edit
<1>4. QED
    BY <1>2, <1>3 DEF HistoryOK

\* The user's steps.
LEMMA UserTyped ==
    ASSUME TypeOK, User, UNCHANGED user
    PROVE  TypeOK'
<1> USE SameTypes, TypeParts
<1>1. CASE TypeSource
    <2>1. PanesOK'
        BY <1>1, TextsGiven DEF TypeSource, Edit, Arm, PanesOK, Syncs
    <2>2. FetchesOK' /\ ServerOK'
        BY <1>1 DEF TypeSource, FetchesOK, ServerOK, fetches, server
    <2>3. HistoryOK'
        BY <1>1, EditType DEF TypeSource, PanesOK, Texts
    <2>4. QED
        BY <2>1, <2>2, <2>3, TypePartsNext
<1>2. CASE TypePreview
    <2>1. PanesOK'
        BY <1>2, TextsGiven DEF TypePreview, Edit, Arm, PanesOK, Syncs
    <2>2. FetchesOK' /\ ServerOK'
        BY <1>2 DEF TypePreview, FetchesOK, ServerOK, fetches, server
    <2>3. HistoryOK'
        BY <1>2, EditType DEF TypePreview, PanesOK, Texts
    <2>4. QED
        BY <2>1, <2>2, <2>3, TypePartsNext
<1>3. ASSUME NEW f \in Files, ClickFile(f) PROVE TypeOK'
    <2>1. PanesOK' /\ ServerOK'
        BY <1>3 DEF ClickFile, PanesOK, ServerOK, panes, timeouts, server
    <2>2. FetchesOK'
        <3>1. PICK new : Issues({}, new) /\ new.kind = "get" /\ UNCHANGED requestSeq
            BY <1>3, TextsGiven, IssuePlainEffect DEF ClickFile, Kinds, Reads
        <3>2. QED
            BY <3>1, IssuesType DEF FetchesOK, Syncs
    <2>3. HistoryOK'
        BY <1>3, UserType DEF ClickFile, HistoryOK
    <2>4. QED
        BY <2>1, <2>2, <2>3, TypePartsNext
<1>4. ASSUME NEW f \in Files, ClickUpload(f) PROVE TypeOK'
    <2>1. PanesOK' /\ ServerOK'
        BY <1>4 DEF ClickUpload, PanesOK, ServerOK, panes, timeouts, server
    <2>2. FetchesOK'
        <3>1. PICK new : Issues({}, new) /\ new.kind = "upload" /\ UNCHANGED requestSeq
            BY <1>4, TextsGiven, IssuePlainEffect DEF ClickUpload, Kinds, Switches
        <3>2. QED
            BY <3>1, IssuesType DEF FetchesOK, Syncs
    <2>3. HistoryOK'
        <3>1. edits + 1 \in 1..user.edits
            BY <1>4, UserType DEF HistoryOK, ClickUpload
        <3>2. QED
            BY <1>4, <3>1, UserType DEF ClickUpload, HistoryOK
    <2>4. QED
        BY <2>1, <2>2, <2>3, TypePartsNext
<1>5. CASE ClickDownload
    <2>1. PanesOK' /\ ServerOK'
        BY <1>5 DEF ClickDownload, PanesOK, ServerOK, panes, timeouts, server
    <2>2. FetchesOK'
        <3>1. PICK new : Issues({}, new) /\ new.kind = "download" /\ UNCHANGED requestSeq
            BY <1>5, IssuePlainEffect DEF ClickDownload, Kinds, PanesOK
        <3>2. QED
            BY <3>1, IssuesType DEF FetchesOK, Syncs
    <2>3. HistoryOK'
        BY <1>5, UserType DEF ClickDownload, HistoryOK
    <2>4. QED
        BY <2>1, <2>2, <2>3, TypePartsNext
<1>6. QED
    BY <1>1, <1>2, <1>3, <1>4, <1>5 DEF User

\* A request of a timer, or of a continuation that renders a text.
LEMMA NextCallTyped ==
    ASSUME TypeOK, UNCHANGED user, NEW over, NEW kind \in Syncs, NEW text \in Texts,
           IssueNext(over, kind, text)
    PROVE  FetchesOK'
<1>1. PICK new : /\ Issues(over, new) /\ new.kind = kind /\ new.seq = requestSeq[kind] + 1
                 /\ requestSeq' = [requestSeq EXCEPT ![kind] = @ + 1]
    BY IssueNextEffect
<1>2. FetchesOK /\ Calls' = Calls
    BY TypeParts, SameTypes
<1>3. /\ requestSeq' \in [Syncs -> Nat] /\ \A p \in Syncs : requestSeq[p] <= requestSeq'[p]
      /\ new.seq \in 1..requestSeq'[new.kind]
    BY <1>1, <1>2 DEF FetchesOK
<1>4. QED
    BY <1>1, <1>2, <1>3, IssuesType

LEMMA TimersTyped ==
    ASSUME TypeOK, UNCHANGED user, FireRender \/ FireSerialize
    PROVE  TypeOK'
<1>1. PanesOK' /\ ServerOK' /\ HistoryOK'
    BY SameTypes, TypeParts
       DEF FireRender, FireSerialize, Fire, PanesOK, ServerOK, HistoryOK, panes, server, history
<1>2. FetchesOK'
    BY NextCallTyped DEF FireRender, FireSerialize, Syncs, TypeOK
<1>3. QED
    BY <1>1, <1>2, TypePartsNext

LEMMA AnswerTyped ==
    ASSUME TypeOK, UNCHANGED user, NEW c \in calls, NEW ok \in BOOLEAN,
           NEW file \in Files \cup {NoFile}, NEW text \in Texts, Answer(c, ok, file, text)
    PROVE  FetchesOK'
BY AnswerEffect, AnswersType, TypeParts, SameTypes

LEMMA ServerTyped ==
    ASSUME TypeOK, UNCHANGED user, NEW c \in calls, Server(c)
    PROVE  TypeOK'
<1>1. PanesOK' /\ HistoryOK'
    BY SameTypes, TypeParts
       DEF Server, ServeRender, ServeSerialize, ServeFile, ServeOpen, ServeUpload,
           PanesOK, HistoryOK, panes, timeouts, history
<1>2. FetchesOK'
    <2>1. CASE ServeRender(c)
        BY <2>1, TextsGiven, AnswerTyped DEF ServeRender
    <2>2. CASE ServeSerialize(c) \/ ServeOpen(c) \/ ServeUpload(c)
        BY <2>2, TextsGiven, AnswerTyped DEF ServeSerialize, ServeOpen, ServeUpload
    <2>3. CASE ServeFile(c)
        <3>1. activeFile \in Files \cup {NoFile}
            BY DEF TypeOK
        <3>2. QED
            BY <2>3, <3>1, TextsGiven, AnswerTyped DEF ServeFile
    <2>4. QED
        BY <2>1, <2>2, <2>3 DEF Server
<1>3. ServerOK'
    <2> DEFINE Saves == [file : Files \cup {NoFile}, text : Texts]
    <2>0. /\ ServerOK /\ Saves' = Saves /\ Texts' = Texts
          /\ c.text \in Texts /\ c.file \in Files \cup {NoFile}
          /\ \A f \in Files \cup {NoFile} : [file |-> f, text |-> c.text] \in Saves
        BY SameTypes, TypeParts, TextsGiven
    <2>1. CASE ServeRender(c) \/ ServeSerialize(c)
        <3>1. ScheduleActive(c.text) /\ UNCHANGED <<activeFile, disk>>
            BY <2>1 DEF ServeRender, ServeSerialize
        <3>2. pending' \in Saves
            BY <2>0, <3>1 DEF ScheduleActive, ServerOK
        <3>3. QED
            BY <2>0, <3>1, <3>2 DEF ServerOK
    <2>2. CASE ServeFile(c)
        BY <2>0, <2>2 DEF ServeFile, ServerOK, server
    <2>3. CASE ServeOpen(c) \/ ServeUpload(c)
        <3>1. activeFile' = c.file /\ UNCHANGED disk
            BY <2>3 DEF ServeOpen, ServeUpload
        <3>2. pending' \in Saves
            BY <2>0, <2>3 DEF ServeOpen, ServeUpload, ServerOK
        <3>3. QED
            BY <2>0, <3>1, <3>2 DEF ServerOK
    <2>4. QED
        BY <2>1, <2>2, <2>3 DEF Server
<1>4. QED
    BY <1>1, <1>2, <1>3, TypePartsNext

\* The part of an action that follows a load or a switch: it renders the text.
LEMMA AfterLoadTyped ==
    ASSUME TypeOK, UNCHANGED user, NEW c, NEW text \in Texts, AfterLoad(c, text)
    PROVE  PanesOK' /\ FetchesOK' /\ ServerOK'
<1>1. PanesOK' /\ ServerOK'
    BY SameTypes, TypeParts DEF AfterLoad, PanesOK, ServerOK, timeouts, server
<1>2. FetchesOK'
    BY NextCallTyped DEF AfterLoad, Syncs
<1>3. QED
    BY <1>1, <1>2

LEMMA ContinuationTyped ==
    ASSUME TypeOK, UNCHANGED user, NEW c \in calls, Continuation(c)
    PROVE  TypeOK'
<1>1. c.text \in Texts /\ c.file \in Files \cup {NoFile} /\ c \in Calls
    BY TextsGiven
<1>2. PanesOK'
    BY <1>1, SameTypes, TypeParts
       DEF Continuation, Discard, Accept, FillPreview, FillSource, FillDownload, Load, AfterLoad,
           Label, Retarget, Switch, PanesOK, panes, timeouts
<1>3. ServerOK' /\ HistoryOK'
    BY SameTypes, TypeParts
       DEF Continuation, Discard, Accept, FillPreview, FillSource, FillDownload, Load, AfterLoad,
           Label, Retarget, Switch, ServerOK, HistoryOK, server, history
<1>4. FetchesOK'
    <2>1. CASE Finish(c)
        BY <2>1, FinishType, TypeParts, SameTypes
    <2>2. CASE Accept(c)
        BY <2>2, AcceptEffect, StartsType, TypeParts, SameTypes
    <2>3. CASE Load(c)
        <3>1. source \in Texts
            BY DEF TypeOK
        <3>2. QED
            BY <1>1, <2>3, <3>1, AfterLoadTyped DEF Load
    <2>4. CASE Switch(c)
        BY <1>1, <2>4, NextCallTyped DEF Switch, Syncs
    <2>5. CASE Retarget(c) /\ ~Finish(c)
        <3>1. IssuePlain({c}, "open", c.file, c.text)
            BY <2>5 DEF Retarget
        <3>2. PICK new : Issues({c}, new) /\ new.kind = "open" /\ UNCHANGED requestSeq
            BY <1>1, <3>1, IssuePlainEffect DEF Kinds, Switches
        <3>3. QED
            BY <3>2, IssuesType, SameTypes, TypeParts DEF FetchesOK, Syncs
    <2>6. QED
        BY <2>1, <2>2, <2>3, <2>4, <2>5
           DEF Continuation, Discard, FillPreview, FillSource, FillDownload, Label
<1>5. QED
    BY <1>2, <1>3, <1>4, TypePartsNext

LEMMA FailTyped ==
    ASSUME TypeOK, UNCHANGED user, NEW c \in calls, Fail(c)
    PROVE  TypeOK'
<1>1. HistoryOK'
    BY UserType, TypeParts DEF Fail, HistoryOK
<1>2. PanesOK' /\ FetchesOK' /\ ServerOK'
    <2>1. CASE c.kind = "load"
        BY <2>1, AfterLoadTyped DEF Fail, TypeOK
    <2>2. CASE c.kind # "load"
        <3>1. Finish(c) /\ UNCHANGED <<panes, timeouts, server>>
            BY <2>2 DEF Fail
        <3>2. QED
            BY <3>1, FinishType, TypeParts, SameTypes DEF PanesOK, ServerOK, panes, timeouts, server
    <2>3. QED
        BY <2>1, <2>2
<1>3. QED
    BY <1>1, <1>2, TypePartsNext

LEMMA StutterTyped == ASSUME TypeOK, UNCHANGED vars PROVE TypeOK'
<1>1. Texts' = Texts /\ Calls' = Calls /\ UNCHANGED user
    BY SameTypes DEF vars
<1>2. PanesOK' /\ FetchesOK' /\ ServerOK' /\ HistoryOK'
    BY <1>1, TypeParts
       DEF vars, PanesOK, FetchesOK, ServerOK, HistoryOK, panes, timeouts, fetches, server, history
<1>3. QED
    BY <1>1, <1>2, TypePartsNext

LEMMA FlushTyped == ASSUME TypeOK, UNCHANGED user, Flush PROVE TypeOK'
<1>1. PanesOK' /\ FetchesOK' /\ HistoryOK'
    BY SameTypes, TypeParts
       DEF Flush, PanesOK, FetchesOK, HistoryOK, panes, timeouts, fetches, history
<1>2. ServerOK'
    <2>1. pending.text \in Texts /\ NoSave \in [file : Files \cup {NoFile}, text : Texts]
        BY TextsGiven DEF TypeOK, NoSave
    <2>2. QED
        BY <2>1, SameTypes, TypeParts DEF Flush, ServerOK
<1>3. QED
    BY <1>1, <1>2, TypePartsNext

LEMMA TypeStep == ASSUME TypeOK, [Next]_vars PROVE TypeOK'
<1>1. CASE User /\ UNCHANGED user
    BY <1>1, UserTyped
<1>2. CASE System /\ UNCHANGED user
    BY <1>2, TimersTyped, ServerTyped, ContinuationTyped, FlushTyped DEF System
<1>3. ASSUME NEW c \in calls, Fail(c), UNCHANGED user PROVE TypeOK'
    BY <1>3, FailTyped
<1>4. CASE UNCHANGED vars
    BY <1>4, StutterTyped
<1>5. QED
    BY <1>1, <1>2, <1>3, <1>4 DEF Next, Rest

\* The initial calls are calls.
LEMMA InitTyped == Init => TypeOK
<1>1. SUFFICES ASSUME Init PROVE TypeOK
    OBVIOUS
<1>2. user.edits \in Nat /\ user.switches \in Nat /\ user.downloads \in Nat
    BY UsersAssumption, <1>1 DEF Init
<1>3. Blank \in Texts /\ \A f \in Files : Fresh(f) \in Texts
    BY DEF Blank, Fresh, Texts
<1>4. PanesOK
    BY <1>1, <1>3 DEF Init, PanesOK, Syncs
<1>5. FetchesOK
    <2>1. calls \subseteq Calls
        BY <1>1, <1>3 DEF Init, Call, Calls, Kinds, Reads
    <2>2. \A c \in calls : c.kind \notin Syncs
        BY <1>1 DEF Init, Call, Syncs
    <2>3. QED
        BY <1>1, <2>1, <2>2 DEF Init, FetchesOK
<1>6. ServerOK
    BY <1>1, <1>3 DEF Init, ServerOK, NoSave
<1>7. HistoryOK
    BY <1>1, <1>2 DEF Init, HistoryOK
<1>8. QED
    BY <1>1, <1>4, <1>5, <1>6, <1>7, TypeParts DEF Init

\* Every variable keeps its type, for any set of files and users.
THEOREM TypeCorrect == Spec => []TypeOK
BY InitTyped, TypeStep, PTL DEF Spec

-----------------------------------------------------------------------------
(* What is known of the calls, whoever uses the page. *)

InFlight(kinds) == \E c \in calls : c.kind \in kinds

\* Each call has a number of its own.
NumbersInv ==
    /\ \A c \in calls : c.n <= issued
    /\ \A c, d \in calls : c.n = d.n => c = d

\* Only an answer with a sequence number is read in two parts, and no answer is
\* accepted ahead of its request; an answer that waits for its body is the last
\* that was accepted, as long as bodies come at once.
AnswersInv ==
    /\ \A p \in Syncs : responseSeq[p] <= requestSeq[p]
    /\ \A c \in calls : c.at = "reading" => c.kind \in Syncs
    /\ \A c \in calls : c.kind = "render" /\ c.at # "sent" => (c.ok <=> c.text.edits \notin Broken)
    /\ BodiesPrompt =>
           /\ \A c, d \in calls : c.at = "reading" /\ d.at = "reading" => c = d
           /\ \A c \in calls : c.at = "reading" => c.seq = responseSeq[c.kind]

\* A flow that changes the file is about a file, and somebody has started it.
MoversInv ==
    /\ \A c \in calls : c.kind \in Movers => c.file \in Files
    /\ switches = 0 => ~InFlight(Movers)

CallsInv == NumbersInv /\ AnswersInv /\ MoversInv

LEMMA IssuesNumbers ==
    ASSUME TypeOK, NumbersInv, NEW over, NEW new, Issues(over, new)
    PROVE  NumbersInv'
<1>1. /\ new.n = issued + 1 /\ issued' = issued + 1 /\ calls' = (calls \ over) \cup {new}
      /\ issued \in Nat /\ \A c \in calls : c.n \in Nat /\ c.n <= issued
    BY CallType DEF TypeOK, NumbersInv, Issues
<1>2. QED
    BY <1>1 DEF NumbersInv

LEMMA IssuesAnswers ==
    ASSUME TypeOK, AnswersInv, NEW over, NEW new, Issues(over, new),
           \A p \in Syncs : requestSeq[p] <= requestSeq'[p], requestSeq' \in [Syncs -> Nat]
    PROVE  AnswersInv'
<1>1. /\ new.at = "sent" /\ responseSeq' = responseSeq /\ calls' = (calls \ over) \cup {new}
      /\ \A c \in calls' : c = new \/ c \in calls
    BY DEF Issues
<1>2. \A p \in Syncs : responseSeq[p] <= requestSeq'[p]
    BY DEF TypeOK, AnswersInv
<1>3. QED
    BY <1>1, <1>2 DEF AnswersInv

LEMMA IssuesMovers ==
    ASSUME TypeOK, MoversInv, NEW over, NEW new, Issues(over, new),
           new.kind \in Movers => new.file \in Files /\ switches' # 0,
           switches' # switches => switches' # 0
    PROVE  MoversInv'
BY DEF MoversInv, Issues, InFlight

LEMMA AnswersCalls ==
    ASSUME TypeOK, CallsInv, NEW c \in calls, NEW new, Answers(c, new), UNCHANGED switches,
           c.at = "sent",
           c.kind = "render" => (new.ok <=> new.text.edits \notin Broken),
           c.kind \in Movers => new.file \in Files
    PROVE  CallsInv'
<1>1. /\ new.n = c.n /\ new.kind = c.kind /\ new.at = "answered"
      /\ calls' = (calls \ {c}) \cup {new}
      /\ UNCHANGED <<requestSeq, responseSeq, issued>>
    BY DEF Answers
<1>2. NumbersInv'
    BY <1>1 DEF CallsInv, NumbersInv
<1>3. AnswersInv'
    BY <1>1 DEF CallsInv, AnswersInv
<1>4. MoversInv'
    BY <1>1 DEF CallsInv, MoversInv, InFlight
<1>5. QED
    BY <1>2, <1>3, <1>4 DEF CallsInv

LEMMA StartsCalls ==
    ASSUME TypeOK, CallsInv, NEW c \in calls, Accept(c)
    PROVE  CallsInv'
<1>1. PICK new : Starts(c, new)
    BY AcceptEffect
<1>2. /\ new.n = c.n /\ new.kind = c.kind /\ new.at = "reading" /\ new.seq = c.seq
      /\ new.file = c.file /\ new.ok = c.ok /\ new.text = c.text
      /\ calls' = (calls \ {c}) \cup {new}
      /\ responseSeq' = [responseSeq EXCEPT ![c.kind] = c.seq]
      /\ UNCHANGED <<requestSeq, issued, switches>>
    BY <1>1 DEF Starts, Accept, history
<1>3. /\ c.kind \in Syncs /\ c.at = "answered"
      /\ BodiesPrompt => \A d \in calls : d.at # "reading"
      /\ c.seq <= requestSeq[c.kind]
      /\ responseSeq' \in [Syncs -> Nat] /\ requestSeq \in [Syncs -> Nat]
      /\ responseSeq'[c.kind] = c.seq
      /\ \A p \in Syncs : p # c.kind => responseSeq'[p] = responseSeq[p]
    BY <1>2, CallType DEF Accept, Headers, TypeOK
<1>4. NumbersInv'
    BY <1>2 DEF CallsInv, NumbersInv
<1>5. AnswersInv'
    <2>1. \A p \in Syncs : responseSeq'[p] <= requestSeq'[p]
        BY <1>2, <1>3 DEF CallsInv, AnswersInv
    <2>2. \A d \in calls' : d.at = "reading" => d.kind \in Syncs
        BY <1>2, <1>3 DEF CallsInv, AnswersInv
    <2>3. \A d \in calls' : d.kind = "render" /\ d.at # "sent" => (d.ok <=> d.text.edits \notin Broken)
        BY <1>2, <1>3 DEF CallsInv, AnswersInv
    <2>4. ASSUME BodiesPrompt
          PROVE  /\ \A d, e \in calls' : d.at = "reading" /\ e.at = "reading" => d = e
                 /\ \A d \in calls' : d.at = "reading" => d.seq = responseSeq'[d.kind]
        BY <1>2, <1>3, <2>4
    <2>5. QED
        BY <2>1, <2>2, <2>3, <2>4 DEF AnswersInv
<1>6. MoversInv'
    BY <1>2 DEF CallsInv, MoversInv, InFlight
<1>7. QED
    BY <1>4, <1>5, <1>6 DEF CallsInv

LEMMA FinishCalls ==
    ASSUME CallsInv, NEW c, Finish(c), UNCHANGED switches
    PROVE  CallsInv'
<1>1. calls' \subseteq calls /\ UNCHANGED <<requestSeq, responseSeq, issued>>
    BY DEF Finish
<1>2. NumbersInv' /\ AnswersInv'
    BY <1>1 DEF CallsInv, NumbersInv, AnswersInv
<1>3. MoversInv'
    BY <1>1 DEF CallsInv, MoversInv, InFlight
<1>4. QED
    BY <1>2, <1>3 DEF CallsInv

\* A step that leaves the fetches alone.
LEMMA AsideCalls ==
    ASSUME CallsInv, UNCHANGED <<fetches, switches>>
    PROVE  CallsInv'
BY DEF CallsInv, NumbersInv, AnswersInv, MoversInv, InFlight, fetches

\* A numbered request is issued.
LEMMA NextCalls ==
    ASSUME TypeOK, CallsInv, NEW over, NEW kind \in Syncs, NEW text \in Texts,
           IssueNext(over, kind, text), UNCHANGED switches
    PROVE  CallsInv'
<1>1. PICK new : /\ Issues(over, new) /\ new.kind = kind
                 /\ requestSeq' = [requestSeq EXCEPT ![kind] = @ + 1]
    BY IssueNextEffect
<1>2. requestSeq' \in [Syncs -> Nat] /\ \A p \in Syncs : requestSeq[p] <= requestSeq'[p]
    BY <1>1 DEF TypeOK
<1>3. new.kind \notin Movers
    BY <1>1 DEF Movers, Switches, Syncs
<1>4. QED
    BY <1>1, <1>2, <1>3, IssuesNumbers, IssuesAnswers, IssuesMovers DEF CallsInv

\* Another one is issued.
LEMMA PlainCalls ==
    ASSUME TypeOK, CallsInv, NEW over, NEW kind \in Kinds, NEW file \in Files \cup {NoFile},
           NEW text \in Texts, IssuePlain(over, kind, file, text),
           kind \in Movers => file \in Files /\ switches' # 0,
           switches' # switches => switches' # 0
    PROVE  CallsInv'
<1>1. PICK new : /\ Issues(over, new) /\ new.kind = kind /\ new.file = file
                 /\ UNCHANGED requestSeq
    BY IssuePlainEffect
<1>2. requestSeq' \in [Syncs -> Nat] /\ \A p \in Syncs : requestSeq[p] <= requestSeq'[p]
    BY <1>1 DEF TypeOK
<1>3. QED
    BY <1>1, <1>2, IssuesNumbers, IssuesAnswers, IssuesMovers DEF CallsInv

LEMMA UserCalls ==
    ASSUME TypeOK, CallsInv, User
    PROVE  CallsInv'
<1>1. CASE TypeSource \/ TypePreview
    BY <1>1, AsideCalls DEF TypeSource, TypePreview, Edit
<1>2. ASSUME NEW f \in Files, ClickFile(f) PROVE CallsInv'
    <2>1. switches' # 0
        BY <1>2 DEF ClickFile, TypeOK
    <2>2. IssuePlain({}, "get", f, Blank)
        BY <1>2 DEF ClickFile
    <2>3. QED
        BY <2>1, <2>2, PlainCalls, TextsGiven DEF Kinds, Reads
<1>3. ASSUME NEW f \in Files, ClickUpload(f) PROVE CallsInv'
    <2>1. switches' # 0 /\ edits < user.edits
        BY <1>3 DEF ClickUpload, TypeOK
    <2>2. IssuePlain({}, "upload", f, [file |-> f, edits |-> {edits + 1}])
        BY <1>3 DEF ClickUpload
    <2>3. QED
        BY <2>1, <2>2, PlainCalls, TextsGiven DEF Kinds, Switches
<1>4. CASE ClickDownload
    <2>1. IssuePlain({}, "download", NoFile, preview) /\ UNCHANGED switches
        BY <1>4 DEF ClickDownload
    <2>2. QED
        BY <2>1, PlainCalls DEF Kinds, Movers, Switches, TypeOK
<1>5. QED
    BY <1>1, <1>2, <1>3, <1>4 DEF User

LEMMA TimersCalls ==
    ASSUME TypeOK, CallsInv, FireRender \/ FireSerialize
    PROVE  CallsInv'
BY NextCalls DEF FireRender, FireSerialize, history, Syncs, TypeOK

\* What each handler answers with.
LEMMA ServerEffect ==
    ASSUME TypeOK, NEW c \in calls, Server(c)
    PROVE  /\ c.at = "sent"
           /\ ServedInOrder => \A d \in calls : d.at = "sent" => c.n <= d.n
           /\ \E new :
                /\ Answers(c, new)
                /\ c.kind \in Savers \cup Switches =>
                       /\ new.text = c.text /\ new.file = c.file
                       /\ new.ok <=> (c.kind = "render" => c.text.edits \notin Broken)
                /\ c.kind \in Reads =>
                       LET target == IF c.kind = "get" THEN c.file ELSE activeFile
                       IN  \/ /\ target \in user.tooLarge /\ ~new.ok /\ new.file = c.file
                              /\ new.text = Blank
                           \/ new.ok /\ new.file = target /\ new.text = Content(target)
                           \/ c.kind \in user.unreadable /\ new.ok /\ new.file = target
                              /\ new.text = Blank
<1>1. c.at = "sent" /\ (ServedInOrder => \A d \in calls : d.at = "sent" => c.n <= d.n)
    BY DEF Server, ServeRender, ServeSerialize, ServeFile, ServeOpen, ServeUpload, Turn
<1>2. c.text \in Texts /\ c.file \in Files \cup {NoFile} /\ activeFile \in Files \cup {NoFile}
    BY TextsGiven DEF TypeOK
<1>3. CASE ServeRender(c)
    <2>1. c.kind = "render" /\ Answer(c, c.text.edits \notin Broken, c.file, c.text)
        BY <1>3 DEF ServeRender
    <2>2. PICK new : /\ Answers(c, new) /\ new.ok = (c.text.edits \notin Broken)
                     /\ new.file = c.file /\ new.text = c.text
        <3> DEFINE ok == c.text.edits \notin Broken
        <3>1. ok \in BOOLEAN /\ Answer(c, ok, c.file, c.text)
            BY <2>1
        <3> HIDE DEF ok
        <3>2. \E new : Answers(c, new) /\ new.ok = ok /\ new.file = c.file /\ new.text = c.text
            BY <1>2, <3>1, AnswerEffect
        <3>3. QED
            BY <3>2 DEF ok
    <2>3. QED
        BY <1>1, <2>1, <2>2 DEF Reads
<1>4. CASE ServeSerialize(c) \/ ServeOpen(c) \/ ServeUpload(c)
    <2>1. c.kind \in {"serialize", "download", "open", "upload"} /\ Answer(c, TRUE, c.file, c.text)
        BY <1>4 DEF ServeSerialize, ServeOpen, ServeUpload
    <2>2. PICK new : Answers(c, new) /\ new.ok = TRUE /\ new.file = c.file /\ new.text = c.text
        <3> DEFINE ok == TRUE
                   file == c.file
                   text == c.text
        <3>1. ok \in BOOLEAN /\ file \in Files \cup {NoFile} /\ text \in Texts /\ Answer(c, ok, file, text)
            BY <1>2, <2>1
        <3> HIDE DEF ok, file, text
        <3>2. \E new : Answers(c, new) /\ new.ok = ok /\ new.file = file /\ new.text = text
            BY <3>1, AnswerEffect
        <3>3. QED
            BY <3>2 DEF ok, file, text
    <2>3. QED
        BY <1>1, <2>1, <2>2 DEF Reads
<1>5. CASE ServeFile(c)
    <2> DEFINE target == IF c.kind = "get" THEN c.file ELSE activeFile
    <2>1. c.kind \in Reads /\ c.kind \notin Savers \cup Switches
        BY <1>5 DEF ServeFile, Reads, Savers, Syncs, Switches
    <2>2. target \in Files \cup {NoFile} /\ Content(target) \in Texts /\ Blank \in Texts
        BY <1>2, TextsGiven
    <2>3. CASE target \in user.tooLarge /\ Answer(c, FALSE, c.file, Blank)
        <3>1. PICK new : Answers(c, new) /\ new.ok = FALSE /\ new.file = c.file /\ new.text = Blank
            <4> DEFINE ok == FALSE
                       file == c.file
                       text == Blank
            <4>1. ok \in BOOLEAN /\ file \in Files \cup {NoFile} /\ text \in Texts /\ Answer(c, ok, file, text)
                BY <1>2, <2>2, <2>3
            <4> HIDE DEF ok, file, text
            <4>2. \E new : Answers(c, new) /\ new.ok = ok /\ new.file = file /\ new.text = text
                BY <4>1, AnswerEffect
            <4>3. QED
                BY <4>2 DEF ok, file, text
        <3>2. QED
            BY <1>1, <2>1, <2>3, <3>1
    <2>4. CASE Answer(c, TRUE, target, Content(target))
        <3>1. PICK new : Answers(c, new) /\ new.ok = TRUE /\ new.file = target /\ new.text = Content(target)
            <4> DEFINE ok == TRUE
                       file == target
                       text == Content(target)
            <4>1. ok \in BOOLEAN /\ file \in Files \cup {NoFile} /\ text \in Texts /\ Answer(c, ok, file, text)
                BY <2>2, <2>4
            <4> HIDE DEF ok, file, text
            <4>2. \E new : Answers(c, new) /\ new.ok = ok /\ new.file = file /\ new.text = text
                BY <4>1, AnswerEffect
            <4>3. QED
                BY <4>2 DEF ok, file, text
        <3>2. QED
            BY <1>1, <2>1, <3>1
    <2>5. CASE c.kind \in user.unreadable /\ Answer(c, TRUE, target, Blank)
        <3>1. PICK new : Answers(c, new) /\ new.ok = TRUE /\ new.file = target /\ new.text = Blank
            <4> DEFINE ok == TRUE
                       file == target
                       text == Blank
            <4>1. ok \in BOOLEAN /\ file \in Files \cup {NoFile} /\ text \in Texts /\ Answer(c, ok, file, text)
                BY <2>2, <2>5
            <4> HIDE DEF ok, file, text
            <4>2. \E new : Answers(c, new) /\ new.ok = ok /\ new.file = file /\ new.text = text
                BY <4>1, AnswerEffect
            <4>3. QED
                BY <4>2 DEF ok, file, text
        <3>2. QED
            BY <1>1, <2>1, <2>5, <3>1
    <2>6. QED
        BY <1>5, <2>3, <2>4, <2>5 DEF ServeFile
<1>6. QED
    BY <1>3, <1>4, <1>5 DEF Server

LEMMA ServerCalls ==
    ASSUME TypeOK, CallsInv, NEW c \in calls, Server(c)
    PROVE  CallsInv'
<1>1. c.at = "sent" /\ UNCHANGED switches
    BY ServerEffect
       DEF Server, ServeRender, ServeSerialize, ServeFile, ServeOpen, ServeUpload, history
<1>2. PICK new :
        /\ Answers(c, new)
        /\ c.kind \in Savers \cup Switches =>
               /\ new.text = c.text /\ new.file = c.file
               /\ new.ok <=> (c.kind = "render" => c.text.edits \notin Broken)
        /\ c.kind \in Reads => new.file \in {c.file, IF c.kind = "get" THEN c.file ELSE activeFile}
    BY ServerEffect
<1>3. c.kind = "render" => (new.ok <=> new.text.edits \notin Broken)
    BY <1>2 DEF Savers, Syncs
<1>4. c.kind \in Movers => new.file \in Files
    BY <1>2 DEF Movers, Reads, CallsInv, MoversInv
<1>5. QED
    BY <1>1, <1>2, <1>3, <1>4, AnswersCalls

LEMMA ContinuationCalls ==
    ASSUME TypeOK, CallsInv, NEW c \in calls, Continuation(c)
    PROVE  CallsInv'
<1>1. /\ c.text \in Texts /\ c.file \in Files \cup {NoFile} /\ source \in Texts
      /\ UNCHANGED switches
    BY TextsGiven
       DEF Continuation, Discard, Accept, FillPreview, FillSource, FillDownload, Load, Label,
           Retarget, Switch, history, TypeOK
<1>2. CASE Finish(c)
    BY <1>1, <1>2, FinishCalls
<1>3. CASE Accept(c)
    BY <1>3, StartsCalls
<1>4. CASE Load(c)
    BY <1>1, <1>4, NextCalls DEF Load, AfterLoad, Syncs
<1>5. CASE Switch(c)
    BY <1>1, <1>5, NextCalls DEF Switch, Syncs
<1>6. CASE Retarget(c) /\ ~Finish(c)
    <2>1. c.kind \in Movers /\ IssuePlain({c}, "open", c.file, c.text)
        BY <1>6 DEF Retarget, Movers
    <2>2. c.file \in Files /\ switches # 0
        BY <2>1 DEF CallsInv, MoversInv, InFlight
    <2>3. QED
        BY <1>1, <2>1, <2>2, PlainCalls DEF Kinds, Switches
<1>7. QED
    BY <1>2, <1>3, <1>4, <1>5, <1>6
       DEF Continuation, Discard, FillPreview, FillSource, FillDownload, Label

LEMMA FailCalls ==
    ASSUME TypeOK, CallsInv, NEW c \in calls, Fail(c)
    PROVE  CallsInv'
BY FinishCalls, NextCalls DEF Fail, AfterLoad, Syncs, TypeOK

LEMMA CallsStep == ASSUME TypeOK, CallsInv, [Next]_vars PROVE CallsInv'
<1>1. CASE User
    BY <1>1, UserCalls
<1>2. CASE System
    BY <1>2, TimersCalls, ServerCalls, ContinuationCalls, AsideCalls DEF System, Flush, history
<1>3. ASSUME NEW c \in calls, Fail(c) PROVE CallsInv'
    BY <1>3, FailCalls
<1>4. CASE UNCHANGED vars
    BY <1>4, AsideCalls DEF vars, history
<1>5. QED
    BY <1>1, <1>2, <1>3, <1>4 DEF Next, Rest

\* Two calls at first, neither of them with a sequence number.
LEMMA InitCalls == Init => CallsInv
<1>1. SUFFICES ASSUME Init PROVE CallsInv
    OBVIOUS
<1>2. \A c \in calls : /\ c.n \in {1, 2} /\ c.at = "sent" /\ c.kind \in {"load", "label"}
                       /\ c.kind = "load" <=> c.n = 1
    BY <1>1 DEF Init, Call
<1>3. \A c, d \in calls : c.n = d.n => c = d
    <2>1. calls = {Call(1, "load", 0, NoFile, Blank), Call(2, "label", 0, NoFile, Blank)}
        BY <1>1 DEF Init
    <2>2. Call(1, "load", 0, NoFile, Blank).n = 1 /\ Call(2, "label", 0, NoFile, Blank).n = 2
        BY DEF Call
    <2>3. QED
        BY <2>1, <2>2
<1>4. QED
    BY <1>1, <1>2, <1>3
       DEF Init, CallsInv, NumbersInv, AnswersInv, MoversInv, InFlight, Movers, Switches, Syncs

-----------------------------------------------------------------------------
(* What is known of a user who waits while a file is loaded, opened, uploaded *)
(* or downloaded.                                                             *)

Careful == user.patience >= 1

\* One such flow is under way at a time; only the two retrievals at load time go
\* side by side.
FlowsInv ==
    \A c, d \in calls :
        c.kind \notin Syncs /\ d.kind \notin Syncs =>
            c = d \/ (c.kind # d.kind /\ {c.kind, d.kind} \subseteq {"load", "label"})

\* No pane is active until the file is there, and nothing has happened by then.
LoadInv ==
    /\ activeEditor = "none" <=> InFlight({"load"})
    /\ activeEditor = "none" =>
           /\ timers = {} /\ \A c \in calls : c.kind \in {"load", "label"}
           /\ pending = NoSave /\ source = Blank

\* The preview that is downloaded stays as it is until the answer is there.
DownloadInv ==
    \A c \in calls : c.kind = "download" => activeEditor = "preview" /\ c.text = preview

\* The timer of the active pane is the last to fire.
OrderInv ==
    /\ activeEditor = "preview" /\ "render" \in timers => "serialize" \in timers /\ newest = "serialize"
    /\ switches = 0 /\ activeEditor = "source" /\ "serialize" \in timers =>
           "render" \in timers /\ newest = "render"

WaitInv == Careful => FlowsInv /\ LoadInv /\ DownloadInv /\ OrderInv

LEMMA FlowsIssue ==
    ASSUME FlowsInv, NEW over, NEW new, Issues(over, new),
           new.kind \in Syncs \/ \A d \in calls \ over : d.kind \in Syncs
    PROVE  FlowsInv'
BY DEF FlowsInv, Issues

LEMMA FlowsSame ==
    ASSUME FlowsInv, NEW c \in calls, NEW new, new.kind = c.kind, calls' = (calls \ {c}) \cup {new}
    PROVE  FlowsInv'
BY DEF FlowsInv

LEMMA FlowsFinish == ASSUME FlowsInv, calls' \subseteq calls PROVE FlowsInv'
BY DEF FlowsInv

\* The user does nothing while one of these flows is under way.
LEMMA UserWaits == ASSUME Careful, User PROVE \A c \in calls : c.kind \in Syncs
BY DEF Careful, User, TypeSource, TypePreview, ClickFile, ClickUpload, ClickDownload, MayType,
       MayLeave, MayDownload, Switching

LEMMA UserWait ==
    ASSUME TypeOK, WaitInv, Careful, User, UNCHANGED user
    PROVE  WaitInv'
<1>1. /\ FlowsInv /\ LoadInv /\ DownloadInv /\ OrderInv
      /\ \A c \in calls : c.kind \in Syncs
    BY UserWaits DEF WaitInv
<1>2. activeEditor \in {"source", "preview"} /\ ~InFlight({"load"})
    BY <1>1 DEF LoadInv, InFlight, Syncs, TypeOK
<1>3. CASE TypeSource \/ TypePreview
    <2>1. calls' = calls /\ UNCHANGED switches
        BY <1>3 DEF TypeSource, TypePreview, fetches, Edit
    <2>2. FlowsInv' /\ DownloadInv'
        BY <1>1, <2>1, FlowsFinish DEF DownloadInv, Syncs
    <2>3. LoadInv'
        BY <1>2, <1>3, <2>1 DEF LoadInv, InFlight, TypeSource, TypePreview
    <2>4. OrderInv'
        BY <1>1, <1>3, <2>1 DEF OrderInv, TypeSource, TypePreview, Arm, Syncs
    <2>5. QED
        BY <2>2, <2>3, <2>4 DEF WaitInv
<1>4. ASSUME NEW kind \in Kinds \ (Syncs \cup {"load"}), NEW f \in Files \cup {NoFile}, NEW text \in Texts,
             IssuePlain({}, kind, f, text), UNCHANGED <<panes, timeouts>>,
             kind = "download" => activeEditor = "preview" /\ text = preview,
             switches' \in Nat, switches' = 0 => switches = 0
      PROVE  WaitInv'
    <2>1. PICK new : Issues({}, new) /\ new.kind = kind /\ new.text = text
        BY <1>4, IssuePlainEffect
    <2>2. FlowsInv'
        BY <1>1, <2>1, FlowsIssue
    <2>3. LoadInv' /\ DownloadInv'
        BY <1>1, <1>2, <1>4, <2>1 DEF LoadInv, DownloadInv, InFlight, Issues, panes, Syncs
    <2>4. OrderInv'
        BY <1>1, <1>4 DEF OrderInv, panes, timeouts
    <2>5. QED
        BY <2>2, <2>3, <2>4 DEF WaitInv
<1>5. ASSUME NEW f \in Files, ClickFile(f) PROVE WaitInv'
    <2>1. IssuePlain({}, "get", f, Blank) /\ UNCHANGED <<panes, timeouts>> /\ switches' # 0 /\ switches' \in Nat
        BY <1>5 DEF ClickFile, TypeOK
    <2>2. "get" \in Kinds \ (Syncs \cup {"load"}) /\ "get" # "download"
        BY DEF Kinds, Reads, Syncs
    <2>3. QED
        BY <1>4, <2>1, <2>2, TextsGiven
<1>6. ASSUME NEW f \in Files, ClickUpload(f) PROVE WaitInv'
    <2> DEFINE text == [file |-> f, edits |-> {edits + 1}]
    <2>1. IssuePlain({}, "upload", f, text) /\ UNCHANGED <<panes, timeouts>> /\ switches' # 0 /\ switches' \in Nat
        BY <1>6 DEF ClickUpload, TypeOK
    <2>2. "upload" \in Kinds \ (Syncs \cup {"load"}) /\ "upload" # "download" /\ text \in Texts
        BY <1>6, TextsGiven DEF Kinds, Switches, Syncs, ClickUpload
    <2> HIDE DEF text
    <2>3. QED
        BY <1>4, <2>1, <2>2
<1>7. CASE ClickDownload
    <2>1. /\ IssuePlain({}, "download", NoFile, preview) /\ UNCHANGED <<panes, timeouts>>
          /\ activeEditor = "preview" /\ UNCHANGED switches /\ switches \in Nat /\ preview \in Texts
        BY <1>7, UserType DEF ClickDownload, TypeOK
    <2>2. "download" \in Kinds \ (Syncs \cup {"load"})
        BY DEF Kinds, Syncs
    <2>3. QED
        BY <1>4, <2>1, <2>2
<1>8. QED
    BY <1>3, <1>5, <1>6, <1>7 DEF User

LEMMA TimersWait ==
    ASSUME TypeOK, WaitInv, Careful, FireRender \/ FireSerialize, UNCHANGED user
    PROVE  WaitInv'
<1>1. FlowsInv /\ LoadInv /\ DownloadInv /\ OrderInv
    BY DEF WaitInv
<1>2. PICK kind \in Syncs : \E text \in Texts : Fire(kind) /\ IssueNext({}, kind, text)
    BY DEF FireRender, FireSerialize, Syncs, TypeOK
<1>3. PICK new : Issues({}, new) /\ new.kind = kind
    BY <1>2, IssueNextEffect
<1>4. UNCHANGED <<panes, pending, switches>>
    BY DEF FireRender, FireSerialize, server, history
<1>5. activeEditor # "none" /\ ~InFlight({"load"})
    BY <1>1, <1>2 DEF LoadInv, Fire
<1>6. FlowsInv'
    BY <1>1, <1>3, FlowsIssue
<1>7. LoadInv' /\ DownloadInv'
    BY <1>1, <1>3, <1>4, <1>5 DEF LoadInv, DownloadInv, InFlight, Issues, panes, Syncs
<1>8. OrderInv'
    BY <1>1, <1>2, <1>4 DEF OrderInv, Fire, panes, Syncs
<1>9. QED
    BY <1>6, <1>7, <1>8 DEF WaitInv

\* A step that leaves the panes and the timers alone and adds no call.
LEMMA AsideWait ==
    ASSUME WaitInv, UNCHANGED <<user, panes, timeouts, switches>>, calls' = calls,
           activeEditor = "none" => UNCHANGED pending
    PROVE  WaitInv'
<1>1. Careful' = Careful
    BY DEF Careful
<1>2. ASSUME Careful PROVE FlowsInv' /\ LoadInv' /\ DownloadInv' /\ OrderInv'
    BY <1>2 DEF WaitInv, FlowsInv, LoadInv, DownloadInv, OrderInv, InFlight, panes, timeouts
<1>3. QED
    BY <1>1, <1>2 DEF WaitInv

LEMMA SameKindWait ==
    ASSUME WaitInv, Careful, UNCHANGED <<user, panes, timeouts, switches>>,
           activeEditor = "none" => UNCHANGED pending,
           NEW c \in calls, NEW new, new.kind = c.kind, calls' = (calls \ {c}) \cup {new},
           c.kind = "download" => new.text = c.text
    PROVE  WaitInv'
<1>1. FlowsInv /\ LoadInv /\ DownloadInv /\ OrderInv
    BY DEF WaitInv
<1>2. FlowsInv'
    BY <1>1, FlowsSame
<1>3. LoadInv'
    BY <1>1 DEF LoadInv, InFlight, panes, timeouts
<1>4. DownloadInv' /\ OrderInv'
    BY <1>1 DEF DownloadInv, OrderInv, panes, timeouts
<1>5. QED
    BY <1>2, <1>3, <1>4 DEF WaitInv

LEMMA ServerWait ==
    ASSUME TypeOK, WaitInv, Careful, NEW c \in calls, Server(c), UNCHANGED user
    PROVE  WaitInv'
<1>1. UNCHANGED <<panes, timeouts, switches>>
    BY DEF Server, ServeRender, ServeSerialize, ServeFile, ServeOpen, ServeUpload, history
<1>2. activeEditor = "none" => UNCHANGED pending
    <2>1. activeEditor = "none" => c.kind \in {"load", "label"}
        BY DEF WaitInv, LoadInv
    <2>2. c.kind \in {"load", "label"} => UNCHANGED pending
        BY DEF Server, ServeRender, ServeSerialize, ServeFile, ServeOpen, ServeUpload, server
    <2>3. QED
        BY <2>1, <2>2
<1>3. PICK new : Answers(c, new) /\ (c.kind \in Savers \cup Switches => new.text = c.text)
    BY ServerEffect
<1>4. QED
    BY <1>1, <1>2, <1>3, SameKindWait DEF Answers, Savers

\* A call that is not the load is over, without a change of the active pane.
LEMMA FinishWait ==
    ASSUME TypeOK, WaitInv, Careful, UNCHANGED <<user, activeEditor, timeouts, switches, pending>>,
           NEW c \in calls, c.kind # "load", Finish(c),
           activeEditor = "preview" => UNCHANGED preview,
           activeEditor = "none" => UNCHANGED source
    PROVE  WaitInv'
<1>1. FlowsInv /\ LoadInv /\ DownloadInv /\ OrderInv /\ calls' = calls \ {c}
    BY DEF WaitInv, Finish
<1>2. FlowsInv'
    BY <1>1, FlowsFinish
<1>3. LoadInv'
    BY <1>1 DEF LoadInv, InFlight, timeouts
<1>4. DownloadInv' /\ OrderInv'
    BY <1>1 DEF DownloadInv, OrderInv, timeouts
<1>5. QED
    BY <1>2, <1>3, <1>4 DEF WaitInv

\* The source is replaced, and rendered.
LEMMA ReplaceWait ==
    ASSUME TypeOK, CallsInv, WaitInv, Careful, UNCHANGED <<user, timeouts, switches>>,
           NEW c \in calls, c.kind \in {"load"} \cup Switches, NEW text \in Texts,
           IssueNext({c}, "render", text), activeEditor' = "source"
    PROVE  WaitInv'
<1>1. /\ FlowsInv /\ LoadInv /\ DownloadInv
      /\ c.kind \notin Syncs /\ c.kind # "label"
    BY DEF WaitInv, Syncs, Switches
<1>2. PICK new : Issues({c}, new) /\ new.kind = "render"
    BY IssueNextEffect DEF Syncs
<1>3. \A d \in calls \ {c} : d.kind \in Syncs \cup {"label"}
    BY <1>1 DEF FlowsInv, Syncs
<1>4. FlowsInv'
    BY <1>1, <1>2, FlowsIssue DEF Syncs
<1>5. \A d \in calls' : d.kind \in Syncs \cup {"label"}
    BY <1>2, <1>3 DEF Issues, Syncs
<1>6. LoadInv' /\ DownloadInv'
    BY <1>5 DEF LoadInv, DownloadInv, InFlight, Syncs
<1>7. OrderInv'
    <2>1. CASE c.kind = "load"
        BY <1>1, <2>1 DEF LoadInv, InFlight, OrderInv, timeouts
    <2>2. CASE c.kind \in Switches
        BY <2>2 DEF CallsInv, MoversInv, InFlight, Movers, OrderInv
    <2>3. QED
        BY <2>1, <2>2
<1>8. QED
    BY <1>4, <1>6, <1>7 DEF WaitInv

LEMMA ContinuationWait ==
    ASSUME TypeOK, CallsInv, WaitInv, Careful, NEW c \in calls, Continuation(c), UNCHANGED user
    PROVE  WaitInv'
<1>1. /\ FlowsInv /\ LoadInv /\ DownloadInv /\ OrderInv
      /\ UNCHANGED <<timeouts, switches, pending>>
      /\ c.text \in Texts /\ c.file \in Files \cup {NoFile} /\ source \in Texts
    BY TextsGiven
       DEF WaitInv, Continuation, Discard, Accept, FillPreview, FillSource, FillDownload, Load, AfterLoad,
           Label, Retarget, Switch, server, history, TypeOK
<1>2. c.kind \notin {"load", "label"} => activeEditor # "none"
    BY <1>1 DEF LoadInv
<1>3. CASE Discard(c) \/ Label(c) \/ (Retarget(c) /\ Finish(c))
    <2>1. Finish(c) /\ UNCHANGED <<source, preview, activeEditor>> /\ c.kind # "load"
        BY <1>3 DEF Discard, Headers, Label, Retarget, panes, Syncs
    <2>2. QED
        BY <1>1, <2>1, FinishWait
<1>4. CASE Accept(c)
    <2>1. PICK new : Starts(c, new)
        BY <1>4, AcceptEffect
    <2>2. UNCHANGED panes
        BY <1>4 DEF Accept
    <2>3. QED
        BY <1>1, <2>1, <2>2, SameKindWait DEF Starts
<1>5. CASE FillPreview(c) \/ FillSource(c) \/ FillDownload(c)
    <2>1. /\ Finish(c) /\ UNCHANGED activeEditor /\ c.kind \notin {"load", "label"}
          /\ activeEditor = "preview" => UNCHANGED preview
        BY <1>5 DEF FillPreview, FillSource, FillDownload
    <2>2. QED
        BY <1>1, <1>2, <2>1, FinishWait
<1>6. CASE Load(c)
    <2>1. PICK text \in Texts : IssueNext({c}, "render", text)
        BY <1>1, <1>6 DEF Load, AfterLoad
    <2>2. c.kind = "load" /\ activeEditor' = "source"
        BY <1>6 DEF Load, AfterLoad
    <2>3. QED
        BY <1>1, <2>1, <2>2, ReplaceWait
<1>7. CASE Switch(c)
    <2>1. c.kind \in Switches /\ IssueNext({c}, "render", c.text) /\ activeEditor' = "source"
        BY <1>7 DEF Switch
    <2>2. QED
        BY <1>1, <2>1, ReplaceWait
<1>8. CASE Retarget(c) /\ ~Finish(c)
    <2>1. c.kind = "get" /\ IssuePlain({c}, "open", c.file, c.text) /\ UNCHANGED panes
        BY <1>8 DEF Retarget
    <2>2. PICK new : Issues({c}, new) /\ new.kind = "open"
        BY <1>1, <2>1, IssuePlainEffect DEF Kinds, Switches
    <2>3. \A d \in calls \ {c} : d.kind \in Syncs
        BY <1>1, <2>1 DEF FlowsInv, Syncs
    <2>4. FlowsInv'
        BY <1>1, <2>2, <2>3, FlowsIssue
    <2>5. LoadInv'
        BY <1>1, <2>1, <2>2 DEF LoadInv, InFlight, Issues, panes
    <2>6. DownloadInv' /\ OrderInv'
        BY <1>1, <2>1, <2>2 DEF DownloadInv, OrderInv, Issues, panes, timeouts
    <2>7. QED
        BY <2>4, <2>5, <2>6 DEF WaitInv
<1>9. QED
    BY <1>3, <1>4, <1>5, <1>6, <1>7, <1>8 DEF Continuation

LEMMA FailWait ==
    ASSUME TypeOK, CallsInv, WaitInv, Careful, NEW c \in calls, Fail(c), UNCHANGED user
    PROVE  WaitInv'
<1>1. UNCHANGED <<timeouts, switches, pending>>
    BY DEF Fail, AfterLoad, server
<1>2. CASE c.kind = "load"
    BY <1>1, <1>2, ReplaceWait DEF Fail, AfterLoad, TypeOK
<1>3. CASE c.kind # "load"
    BY <1>1, <1>3, FinishWait DEF Fail, panes
<1>4. QED
    BY <1>2, <1>3

LEMMA WaitStep == ASSUME TypeOK, CallsInv, WaitInv, [Next]_vars PROVE WaitInv'
<1>1. CASE UNCHANGED vars
    BY <1>1, AsideWait DEF vars, fetches, server, history
<1>2. CASE Next
    <2>1. UNCHANGED user /\ Careful' = Careful
        BY <1>2 DEF Next, Careful
    <2>2. CASE ~Careful
        BY <2>1, <2>2 DEF WaitInv
    <2>3. CASE Careful /\ User
        BY <2>1, <2>3, UserWait
    <2>4. CASE Careful /\ Flush
        <3>1. activeEditor # "none"
            BY <2>4 DEF WaitInv, LoadInv, Flush
        <3>2. QED
            BY <2>1, <2>4, <3>1, AsideWait DEF Flush, fetches, history
    <2>5. CASE Careful /\ System /\ ~Flush
        BY <2>1, <2>5, TimersWait, ServerWait, ContinuationWait DEF System
    <2>6. ASSUME Careful, NEW c \in calls, Fail(c) PROVE WaitInv'
        BY <2>1, <2>6, FailWait
    <2>7. QED
        BY <1>1, <1>2, <2>2, <2>3, <2>4, <2>5, <2>6 DEF Next, Rest
<1>3. QED
    BY <1>1, <1>2

LEMMA InitWait == Init => WaitInv
<1>1. SUFFICES ASSUME Init PROVE WaitInv
    OBVIOUS
<1>2. calls = {Call(1, "load", 0, NoFile, Blank), Call(2, "label", 0, NoFile, Blank)}
    BY <1>1 DEF Init
<1>3. Call(1, "load", 0, NoFile, Blank).kind = "load" /\ Call(2, "label", 0, NoFile, Blank).kind = "label"
    BY DEF Call
<1>4. FlowsInv /\ DownloadInv
    BY <1>2, <1>3 DEF FlowsInv, DownloadInv
<1>5. LoadInv
    BY <1>1, <1>2, <1>3 DEF Init, LoadInv, InFlight
<1>6. QED
    BY <1>1, <1>4, <1>5 DEF Init, WaitInv, OrderInv

-----------------------------------------------------------------------------
(***************************************************************************)
(* What the editor promises once everything has settled, for any files,    *)
(* users and numbers of edits: ShownIsSaved, OwnFile, PanesAgree and       *)
(* NoLostEdit of Editor, each from what it needs of the order in which     *)
(* requests and bodies arrive and of the reads of the files.               *)
(*                                                                         *)
(* At rest nothing is under way, so each property is a matter of what the  *)
(* last event of its kind has left behind; the inductive invariant says    *)
(* what every event on the way there has still to bring.  It has one part  *)
(* for each question, and each part one lemma for each kind of step:       *)
(*   FollowInv   the last request of the active pane carries its text, and *)
(*               its answer is the last that is accepted;                  *)
(*   PatientInv  nothing goes on beside a switch of the file;              *)
(*   SavedInv    the active text waits for a timer, for the server or for  *)
(*               the writer, or is on the disk;                            *)
(*   OwnInv      every text on its way descends from the file it is for;   *)
(*   ShownInv    the label is that of the active file;                     *)
(*   FullInv     somewhere there is a text with all edits of a file.       *)
(***************************************************************************)

(* The pane that is not active follows the one that is. *)

\* The request that was sent last, of one kind.
Last(kind) == {c \in calls : c.kind = kind /\ c.seq = requestSeq[kind]}

\* It asks for the text, or all is over and the answer is shown.
FollowsTo(kind, text, done) ==
    /\ \A c \in Last(kind) : c.text = text
    /\ Last(kind) # {} \/ (responseSeq[kind] = requestSeq[kind] /\ done)

FollowInv ==
    Careful /\ BodiesPrompt /\ lost = {} =>
        /\ activeEditor = "preview" /\ "serialize" \notin timers =>
               FollowsTo("serialize", preview, source = preview)
        /\ activeEditor = "source" /\ "render" \notin timers =>
               FollowsTo("render", source, source.edits \in Broken \/ preview = source)

\* A step that leaves the panes and the last requests as they are.
LEMMA FollowKept ==
    ASSUME FollowInv, UNCHANGED <<user, source, preview, activeEditor, timers>>,
           lost' = {} => lost = {},
           \A kind \in Syncs :
               /\ \A d \in Last(kind)' : \E e \in Last(kind) : e.text = d.text
               /\ \/ Last(kind)' # {}
                  \/ /\ Last(kind) = {}
                     /\ responseSeq'[kind] = responseSeq[kind] /\ requestSeq'[kind] = requestSeq[kind]
    PROVE  FollowInv'
<1>1. "render" \in Syncs /\ "serialize" \in Syncs /\ Careful' = Careful
    BY DEF Syncs, Careful
<1>2. ASSUME Careful', BodiesPrompt, lost' = {}, activeEditor' = "preview", "serialize" \notin timers'
      PROVE  FollowsTo("serialize", preview, source = preview)'
    BY <1>1, <1>2 DEF FollowInv, FollowsTo
<1>3. ASSUME Careful', BodiesPrompt, lost' = {}, activeEditor' = "source", "render" \notin timers'
      PROVE  FollowsTo("render", source, source.edits \in Broken \/ preview = source)'
    BY <1>1, <1>3 DEF FollowInv, FollowsTo
<1>4. QED
    BY <1>2, <1>3 DEF FollowInv

\* The active pane has just been edited.
LEMMA FollowLater ==
    ASSUME \/ activeEditor' = "source" /\ "render" \in timers'
           \/ activeEditor' = "preview" /\ "serialize" \in timers'
    PROVE  FollowInv'
BY DEF FollowInv

\* A request is sent: it is the last of its kind.
LEMMA IssuedIsLast ==
    ASSUME TypeOK, NEW over, NEW kind \in Syncs, NEW text \in Texts, IssueNext(over, kind, text)
    PROVE  /\ Last(kind)' # {} /\ \A c \in Last(kind)' : c.text = text
           /\ \A k \in Syncs \ {kind} : /\ Last(k)' = Last(k) \ over
                                        /\ requestSeq'[k] = requestSeq[k]
                                        /\ responseSeq'[k] = responseSeq[k]
<1>1. PICK new : /\ Issues(over, new) /\ new.kind = kind /\ new.seq = requestSeq[kind] + 1
                 /\ new.text = text /\ requestSeq' = [requestSeq EXCEPT ![kind] = @ + 1]
    BY IssueNextEffect
<1>2. /\ calls' = (calls \ over) \cup {new} /\ responseSeq' = responseSeq
      /\ requestSeq \in [Syncs -> Nat] /\ requestSeq'[kind] = requestSeq[kind] + 1
      /\ \A k \in Syncs \ {kind} : requestSeq'[k] = requestSeq[k]
    BY <1>1 DEF Issues, TypeOK
<1>3. \A c \in calls : c.kind = kind => c.seq <= requestSeq[kind]
    BY DEF TypeOK
<1>4. \A c \in calls : c.kind = kind => c.seq # requestSeq'[kind]
    BY <1>2, <1>3, CallType DEF TypeOK
<1>5. Last(kind)' = {new}
    BY <1>1, <1>2, <1>4 DEF Last
<1>6. QED
    BY <1>1, <1>2, <1>5 DEF Last

\* A call that is no numbered request is issued or ends, or a call is answered.
LEMMA LastKept ==
    ASSUME TypeOK, UNCHANGED <<requestSeq, responseSeq>>, NEW c, NEW new,
           \/ calls' = calls
           \/ /\ c \in calls /\ c.kind \notin Syncs /\ calls' = calls \ {c}
           \/ /\ c \in calls => c.kind \notin Syncs
              /\ new.kind \notin Syncs /\ calls' = (calls \ {c}) \cup {new}
           \/ /\ new.kind = c.kind /\ new.seq = c.seq /\ (c.kind \in Syncs => new.text = c.text)
              /\ c \in calls /\ calls' = (calls \ {c}) \cup {new}
    PROVE  \A kind \in Syncs :
               /\ \A d \in Last(kind)' : \E e \in Last(kind) : e.text = d.text
               /\ \/ Last(kind)' # {}
                  \/ /\ Last(kind) = {}
                     /\ responseSeq'[kind] = responseSeq[kind] /\ requestSeq'[kind] = requestSeq[kind]
BY DEF Last

LEMMA UserFollow ==
    ASSUME TypeOK, FollowInv, User, UNCHANGED user
    PROVE  FollowInv'
<1>1. CASE TypeSource \/ TypePreview
    BY <1>1, FollowLater DEF TypeSource, TypePreview, Arm
<1>2. ASSUME NEW kind \in Kinds \ Syncs, NEW f \in Files \cup {NoFile}, NEW text \in Texts,
             IssuePlain({}, kind, f, text), UNCHANGED <<panes, timeouts, lost>>
      PROVE  FollowInv'
    <2>1. PICK new : Issues({}, new) /\ new.kind = kind /\ UNCHANGED requestSeq
        BY <1>2, IssuePlainEffect
    <2>2. new.kind \notin Syncs /\ calls' = (calls \ {new}) \cup {new} /\ UNCHANGED <<requestSeq, responseSeq>>
        BY <2>1 DEF Issues
    <2>3. new \in calls => new.kind \notin Syncs
        BY <2>2
    <2>4. UNCHANGED <<source, preview, activeEditor, timers>>
        BY <1>2 DEF panes, timeouts
    <2>5. QED
        BY <1>2, <2>2, <2>3, <2>4, LastKept, FollowKept
<1>3. ASSUME NEW f \in Files, ClickFile(f) PROVE FollowInv'
    <2>1. IssuePlain({}, "get", f, Blank) /\ UNCHANGED <<panes, timeouts, lost>> /\ "get" \in Kinds \ Syncs
        BY <1>3 DEF ClickFile, Kinds, Reads, Syncs
    <2>2. QED
        BY <1>2, <2>1, TextsGiven
<1>4. ASSUME NEW f \in Files, ClickUpload(f) PROVE FollowInv'
    <2> DEFINE text == [file |-> f, edits |-> {edits + 1}]
    <2>1. /\ IssuePlain({}, "upload", f, text) /\ UNCHANGED <<panes, timeouts, lost>>
          /\ "upload" \in Kinds \ Syncs /\ text \in Texts
        BY <1>4, TextsGiven DEF ClickUpload, Kinds, Switches, Syncs
    <2> HIDE DEF text
    <2>2. QED
        BY <1>2, <2>1
<1>5. CASE ClickDownload
    <2>1. /\ IssuePlain({}, "download", NoFile, preview) /\ UNCHANGED <<panes, timeouts, lost>>
          /\ "download" \in Kinds \ Syncs /\ preview \in Texts
        BY <1>5 DEF ClickDownload, Kinds, Syncs, TypeOK
    <2>2. QED
        BY <1>2, <2>1
<1>6. QED
    BY <1>1, <1>3, <1>4, <1>5 DEF User

LEMMA TimersFollow ==
    ASSUME TypeOK, FollowInv, FireRender \/ FireSerialize, UNCHANGED user
    PROVE  FollowInv'
<1>1. /\ UNCHANGED <<source, preview, activeEditor, lost>> /\ Careful' = Careful
      /\ "render" \in Syncs /\ "serialize" \in Syncs
    BY DEF FireRender, FireSerialize, panes, history, Careful, Syncs
<1>2. CASE FireRender
    <2>1. IssueNext({}, "render", source) /\ timers' = timers \ {"render"} /\ source \in Texts
        BY <1>2 DEF FireRender, Fire, TypeOK
    <2>2. /\ Last("render")' # {} /\ \A c \in Last("render")' : c.text = source
          /\ Last("serialize")' = Last("serialize")
          /\ requestSeq'["serialize"] = requestSeq["serialize"]
          /\ responseSeq'["serialize"] = responseSeq["serialize"]
        <3>1. Last("render")' # {} /\ \A c \in Last("render")' : c.text = source
            BY <1>1, <2>1, IssuedIsLast
        <3>2. \A k \in Syncs \ {"render"} : /\ Last(k)' = Last(k) \ {}
                                           /\ requestSeq'[k] = requestSeq[k]
                                           /\ responseSeq'[k] = responseSeq[k]
            BY <1>1, <2>1, IssuedIsLast
        <3>3. "serialize" \in Syncs \ {"render"}
            BY DEF Syncs
        <3>4. QED
            BY <3>1, <3>2, <3>3
    <2>3. QED
        BY <1>1, <2>1, <2>2 DEF FollowInv, FollowsTo
<1>3. CASE FireSerialize
    <2>1. IssueNext({}, "serialize", preview) /\ timers' = timers \ {"serialize"} /\ preview \in Texts
        BY <1>3 DEF FireSerialize, Fire, TypeOK
    <2>2. /\ Last("serialize")' # {} /\ \A c \in Last("serialize")' : c.text = preview
          /\ Last("render")' = Last("render")
          /\ requestSeq'["render"] = requestSeq["render"]
          /\ responseSeq'["render"] = responseSeq["render"]
        <3>1. Last("serialize")' # {} /\ \A c \in Last("serialize")' : c.text = preview
            BY <1>1, <2>1, IssuedIsLast
        <3>2. \A k \in Syncs \ {"serialize"} : /\ Last(k)' = Last(k) \ {}
                                           /\ requestSeq'[k] = requestSeq[k]
                                           /\ responseSeq'[k] = responseSeq[k]
            BY <1>1, <2>1, IssuedIsLast
        <3>3. "render" \in Syncs \ {"serialize"}
            BY DEF Syncs
        <3>4. QED
            BY <3>1, <3>2, <3>3
    <2>3. QED
        BY <1>1, <2>1, <2>2 DEF FollowInv, FollowsTo
<1>4. QED
    BY <1>2, <1>3

LEMMA ServerFollow ==
    ASSUME TypeOK, FollowInv, NEW c \in calls, Server(c), UNCHANGED user
    PROVE  FollowInv'
<1>1. UNCHANGED <<source, preview, activeEditor, timers, lost>>
    BY DEF Server, ServeRender, ServeSerialize, ServeFile, ServeOpen, ServeUpload, panes, timeouts, history
<1>2. PICK new : Answers(c, new) /\ (c.kind \in Savers => new.text = c.text)
    BY ServerEffect
<1>3. /\ new.kind = c.kind /\ new.seq = c.seq /\ (c.kind \in Syncs => new.text = c.text)
      /\ calls' = (calls \ {c}) \cup {new} /\ UNCHANGED <<requestSeq, responseSeq>>
    BY <1>2 DEF Answers, Savers
<1>4. QED
    BY <1>1, <1>3, LastKept, FollowKept

\* The source is replaced, and its rendering asked for.
LEMMA ReplaceFollow ==
    ASSUME TypeOK, NEW c, NEW text \in Texts, IssueNext({c}, "render", text),
           source' = text, activeEditor' = "source"
    PROVE  FollowInv'
<1>1. Last("render")' # {} /\ \A d \in Last("render")' : d.text = source'
    BY IssuedIsLast DEF Syncs
<1>2. QED
    BY <1>1 DEF FollowInv, FollowsTo

\* An answer that is accepted, discarded or shown.
LEMMA AcceptFollow ==
    ASSUME TypeOK, CallsInv, FollowInv, NEW c \in calls, Accept(c), UNCHANGED user
    PROVE  FollowInv'
<1>1. PICK new : Starts(c, new)
    BY AcceptEffect
<1>2. /\ new.kind = c.kind /\ new.seq = c.seq /\ new.text = c.text /\ c.kind \in Syncs
      /\ calls' = (calls \ {c}) \cup {new} /\ requestSeq' = requestSeq
      /\ responseSeq' = [responseSeq EXCEPT ![c.kind] = c.seq] /\ responseSeq \in [Syncs -> Nat]
      /\ UNCHANGED <<source, preview, activeEditor, timers, lost>>
    BY <1>1 DEF Starts, Accept, Headers, panes, timeouts, history, TypeOK
<1>3. /\ responseSeq[c.kind] <= c.seq /\ c.seq <= requestSeq[c.kind]
      /\ requestSeq[c.kind] \in Nat /\ responseSeq[c.kind] \in Nat /\ c.seq \in Nat
    BY <1>2, CallType DEF Accept, Stale, TypeOK
<1>4. ASSUME NEW kind \in Syncs
      PROVE  /\ \A d \in Last(kind)' : \E e \in Last(kind) : e.text = d.text
             /\ \/ Last(kind)' # {}
                \/ /\ Last(kind) = {}
                   /\ \/ responseSeq'[kind] = responseSeq[kind]
                      \/ responseSeq[kind] # requestSeq[kind]
                   /\ requestSeq'[kind] = requestSeq[kind]
    BY <1>2, <1>3 DEF Last
<1>5. "render" \in Syncs /\ "serialize" \in Syncs /\ Careful' = Careful
    BY DEF Syncs, Careful
<1>6. ASSUME Careful', BodiesPrompt, lost' = {}, activeEditor' = "preview", "serialize" \notin timers'
      PROVE  FollowsTo("serialize", preview, source = preview)'
    BY <1>2, <1>4, <1>5, <1>6 DEF FollowInv, FollowsTo
<1>7. ASSUME Careful', BodiesPrompt, lost' = {}, activeEditor' = "source", "render" \notin timers'
      PROVE  FollowsTo("render", source, source.edits \in Broken \/ preview = source)'
    BY <1>2, <1>4, <1>5, <1>7 DEF FollowInv, FollowsTo
<1>8. QED
    BY <1>6, <1>7 DEF FollowInv

LEMMA DiscardFollow ==
    ASSUME TypeOK, CallsInv, FollowInv, NEW c \in calls, Discard(c), UNCHANGED user
    PROVE  FollowInv'
<1>1. /\ calls' = calls \ {c} /\ UNCHANGED <<requestSeq, responseSeq>>
      /\ UNCHANGED <<source, preview, activeEditor, timers, lost>>
      /\ c.kind \in Syncs /\ c.seq < responseSeq[c.kind]
    BY DEF Discard, Headers, Stale, Finish, panes, timeouts, history
<1>2. c.seq \in Nat /\ responseSeq[c.kind] \in Nat /\ requestSeq[c.kind] \in Nat /\ responseSeq[c.kind] <= requestSeq[c.kind]
    BY <1>1, CallType DEF TypeOK, CallsInv, AnswersInv
<1>3. c.seq # requestSeq[c.kind]
    BY <1>1, <1>2
<1>4. \A kind \in Syncs : Last(kind)' = Last(kind)
    BY <1>1, <1>3 DEF Last
<1>5. QED
    BY <1>1, <1>4, FollowKept

\* A body is there: it belongs to the last answer that was accepted.
LEMMA FilledLast ==
    ASSUME TypeOK, CallsInv, BodiesPrompt, NEW c \in calls, c.at = "reading", Finish(c)
    PROVE  /\ c.kind \in Syncs
           /\ UNCHANGED <<requestSeq, responseSeq>>
           /\ \A kind \in Syncs : Last(kind)' = Last(kind) \ {c}
           /\ c \in Last(c.kind) => responseSeq[c.kind] = requestSeq[c.kind]
           /\ c \notin Last(c.kind) => responseSeq[c.kind] # requestSeq[c.kind]
BY DEF CallsInv, AnswersInv, Finish, Last

LEMMA FillFollow ==
    ASSUME TypeOK, CallsInv, FollowInv, NEW c \in calls, UNCHANGED user, FillPreview(c) \/ FillSource(c)
    PROVE  FollowInv'
<1>1. /\ c.at = "reading" /\ Finish(c) /\ UNCHANGED <<activeEditor, timers, lost>>
      /\ Careful' = Careful /\ "render" \in Syncs /\ "serialize" \in Syncs
    BY DEF FillPreview, FillSource, timeouts, history, Careful, Syncs
<1>2. ASSUME Careful, BodiesPrompt, lost = {}, activeEditor = "preview", "serialize" \notin timers
      PROVE  FollowsTo("serialize", preview, source = preview)'
    <2>1. FollowsTo("serialize", preview, source = preview)
        BY <1>2 DEF FollowInv
    <2>2. preview' = preview
        BY <1>2 DEF FillPreview, FillSource
    <2>3. CASE c.kind = "serialize"
        <3>1. source' = c.text
            BY <1>2, <2>3 DEF FillPreview, FillSource
        <3>2. QED
            BY <1>1, <1>2, <2>1, <2>2, <2>3, <3>1, FilledLast DEF FollowsTo
    <2>4. CASE c.kind # "serialize"
        <3>1. source' = source /\ c \notin Last("serialize")
            BY <2>4 DEF FillPreview, FillSource, Last
        <3>2. QED
            BY <1>1, <1>2, <2>1, <2>2, <3>1, FilledLast DEF FollowsTo
    <2>5. QED
        BY <2>3, <2>4
<1>3. ASSUME Careful, BodiesPrompt, lost = {}, activeEditor = "source", "render" \notin timers
      PROVE  FollowsTo("render", source, source.edits \in Broken \/ preview = source)'
    <2>1. FollowsTo("render", source, source.edits \in Broken \/ preview = source)
        BY <1>3 DEF FollowInv
    <2>2. source' = source
        BY <1>3 DEF FillPreview, FillSource
    <2>3. CASE c.kind = "render"
        <3>1. preview' = IF c.ok THEN c.text ELSE preview
            BY <1>3, <2>3 DEF FillPreview, FillSource
        <3>2. c.ok <=> c.text.edits \notin Broken
            BY <1>1, <2>3 DEF CallsInv, AnswersInv
        <3>3. QED
            BY <1>1, <1>3, <2>1, <2>2, <2>3, <3>1, <3>2, FilledLast DEF FollowsTo
    <2>4. CASE c.kind # "render"
        <3>1. preview' = preview /\ c \notin Last("render")
            BY <2>4 DEF FillPreview, FillSource, Last
        <3>2. QED
            BY <1>1, <1>3, <2>1, <2>2, <3>1, FilledLast DEF FollowsTo
    <2>5. QED
        BY <2>3, <2>4
<1>4. QED
    BY <1>1, <1>2, <1>3 DEF FollowInv

LEMMA DownloadFollow ==
    ASSUME TypeOK, WaitInv, FollowInv, NEW c \in calls, FillDownload(c), UNCHANGED user
    PROVE  FollowInv'
<1>1. /\ c.kind = "download" /\ calls' = calls \ {c} /\ source' = c.text
      /\ UNCHANGED <<requestSeq, responseSeq, preview, activeEditor, timers, lost>>
      /\ Careful' = Careful
    BY DEF FillDownload, Finish, timeouts, history, Careful
<1>2. Last("serialize")' = Last("serialize")
    BY <1>1 DEF Last
<1>3. Careful => activeEditor = "preview" /\ c.text = preview
    BY <1>1 DEF WaitInv, DownloadInv
<1>4. QED
    BY <1>1, <1>2, <1>3 DEF FollowInv, FollowsTo

LEMMA ContinuationFollow ==
    ASSUME TypeOK, CallsInv, WaitInv, FollowInv, NEW c \in calls, Continuation(c), UNCHANGED user
    PROVE  FollowInv'
<1>1. c.text \in Texts /\ c.file \in Files \cup {NoFile} /\ source \in Texts
    BY TextsGiven DEF TypeOK
<1>2. CASE Label(c) \/ (Retarget(c) /\ Finish(c))
    <2>1. /\ calls' = calls \ {c} /\ c.kind \notin Syncs /\ UNCHANGED <<requestSeq, responseSeq>>
          /\ UNCHANGED <<source, preview, activeEditor, timers, lost>>
        BY <1>2 DEF Label, Retarget, Finish, Syncs, panes, timeouts, history
    <2>2. QED
        BY <2>1, LastKept, FollowKept
<1>3. CASE Retarget(c) /\ ~Finish(c)
    <2>1. /\ IssuePlain({c}, "open", c.file, c.text) /\ c.kind \notin Syncs
          /\ UNCHANGED <<source, preview, activeEditor, timers, lost>>
        BY <1>3 DEF Retarget, Syncs, panes, timeouts, history
    <2>2. PICK new : Issues({c}, new) /\ new.kind = "open" /\ UNCHANGED requestSeq
        BY <1>1, <2>1, IssuePlainEffect DEF Kinds, Switches
    <2>3. calls' = (calls \ {c}) \cup {new} /\ new.kind \notin Syncs /\ UNCHANGED <<requestSeq, responseSeq>>
        BY <2>2 DEF Issues, Syncs
    <2>4. QED
        BY <2>1, <2>3, LastKept, FollowKept
<1>4. CASE Load(c) \/ Switch(c)
    BY <1>1, <1>4, ReplaceFollow DEF Load, AfterLoad, Switch
<1>5. QED
    BY <1>2, <1>3, <1>4, AcceptFollow, DiscardFollow, FillFollow, DownloadFollow DEF Continuation

LEMMA FollowStep == ASSUME TypeOK, CallsInv, WaitInv, FollowInv, [Next]_vars PROVE FollowInv'
<1>1. CASE Flush \/ UNCHANGED vars
    <2>1. UNCHANGED <<source, preview, activeEditor, timers, lost, calls, requestSeq, responseSeq>>
        BY <1>1 DEF Flush, vars, panes, timeouts, fetches, history
    <2>2. UNCHANGED user
        BY <1>1 DEF vars, Next, Flush, User, System
    <2>3. QED
        BY <2>1, <2>2, LastKept, FollowKept
<1>2. CASE Next /\ ~Flush
    <2>1. UNCHANGED user
        BY <1>2 DEF Next
    <2>2. CASE User
        BY <2>1, <2>2, UserFollow
    <2>3. CASE System
        BY <1>2, <2>1, <2>3, TimersFollow, ServerFollow, ContinuationFollow DEF System
    <2>4. ASSUME NEW c \in calls, Fail(c) PROVE FollowInv'
        BY <2>4 DEF Fail, FollowInv
    <2>5. QED
        BY <1>1, <1>2, <2>2, <2>3, <2>4 DEF Next, Rest
<1>3. QED
    BY <1>1, <1>2

LEMMA InitFollow == Init => FollowInv
BY DEF Init, FollowInv

-----------------------------------------------------------------------------
(* What is known of a user who also waits for the panes to agree. *)

\* What was typed in the other pane has been answered.
OnePaneInv ==
    /\ activeEditor = "source" => "serialize" \notin timers /\ ~InFlight({"serialize"})
    /\ activeEditor = "preview" => "render" \notin timers /\ ~InFlight({"render"})

\* While the file changes, nothing else goes on, and nothing is left to save but
\* what was uploaded.
AloneInv ==
    \A c \in calls : c.kind \in Movers =>
        /\ calls = {c} /\ timers = {}
        /\ pending = NoSave \/ (c.kind = "upload" /\ c.at = "answered")

PatientInv == Patient => OnePaneInv /\ AloneInv

LEMMA PatientIsCareful == Patient => Careful
BY DEF Patient, Careful

\* No patient user does anything while the file changes.
LEMMA UserAlone ==
    ASSUME Patient, User
    PROVE  /\ \A c \in calls : c.kind \in Syncs
           /\ \A c \in calls : c.kind \notin Movers
BY PatientIsCareful, UserWaits DEF Movers, Switches, Syncs

LEMMA UserPatient ==
    ASSUME TypeOK, PatientInv, User, UNCHANGED user
    PROVE  PatientInv'
<1>1. SUFFICES ASSUME Patient PROVE OnePaneInv' /\ AloneInv'
    BY DEF PatientInv, Patient
<1>2. OnePaneInv /\ AloneInv /\ \A c \in calls : c.kind \notin Movers /\ c.kind \in Syncs
    BY <1>1, UserAlone DEF PatientInv
<1>3. CASE TypeSource \/ TypePreview
    <2>1. calls' = calls
        BY <1>3 DEF TypeSource, TypePreview, fetches
    <2>2. AloneInv'
        BY <1>2, <2>1 DEF AloneInv
    <2>3. OnePaneInv'
        BY <1>1, <1>2, <1>3, <2>1
           DEF OnePaneInv, InFlight, TypeSource, TypePreview, MayType, InSync, Settled, Arm, Patient
    <2>4. QED
        BY <2>2, <2>3
<1>4. ASSUME NEW kind \in Movers, NEW f \in Files \cup {NoFile}, NEW text \in Texts, InSync,
             IssuePlain({}, kind, f, text), UNCHANGED <<panes, timeouts, pending>>
      PROVE  OnePaneInv' /\ AloneInv'
    <2>1. kind \in Kinds \ Syncs
        BY DEF Movers, Kinds, Reads, Switches, Syncs
    <2>2. PICK new : Issues({}, new) /\ new.kind = kind
        BY <1>4, <2>1, IssuePlainEffect
    <2>3. calls' = {new} /\ timers' = {} /\ pending' = NoSave
        BY <1>4, <2>2 DEF Issues, InSync, Settled, timeouts
    <2>4. AloneInv'
        BY <2>3 DEF AloneInv
    <2>5. OnePaneInv'
        BY <2>1, <2>2, <2>3 DEF OnePaneInv, InFlight, Syncs
    <2>6. QED
        BY <2>4, <2>5
<1>5. ASSUME NEW f \in Files, ClickFile(f) PROVE OnePaneInv' /\ AloneInv'
    <2>1. /\ IssuePlain({}, "get", f, Blank) /\ UNCHANGED <<panes, timeouts, pending>> /\ InSync
          /\ "get" \in Movers
        BY <1>1, <1>5 DEF ClickFile, MayLeave, Patient, server, Movers
    <2>2. QED
        BY <1>4, <2>1, TextsGiven
<1>6. ASSUME NEW f \in Files, ClickUpload(f) PROVE OnePaneInv' /\ AloneInv'
    <2> DEFINE text == [file |-> f, edits |-> {edits + 1}]
    <2>1. /\ IssuePlain({}, "upload", f, text) /\ UNCHANGED <<panes, timeouts, pending>> /\ InSync
          /\ "upload" \in Movers /\ text \in Texts
        BY <1>1, <1>6, TextsGiven DEF ClickUpload, MayLeave, Patient, server, Movers, Switches
    <2> HIDE DEF text
    <2>2. QED
        BY <1>4, <2>1
<1>7. CASE ClickDownload
    <2>1. /\ IssuePlain({}, "download", NoFile, preview) /\ UNCHANGED <<panes, timeouts>>
          /\ "download" \in Kinds \ (Syncs \cup Movers) /\ preview \in Texts
        BY <1>7 DEF ClickDownload, Kinds, Syncs, Movers, Switches, TypeOK
    <2>2. PICK new : Issues({}, new) /\ new.kind = "download"
        BY <2>1, IssuePlainEffect
    <2>3. AloneInv' /\ OnePaneInv'
        BY <1>2, <2>1, <2>2 DEF AloneInv, OnePaneInv, InFlight, Issues, panes, timeouts
    <2>4. QED
        BY <2>3
<1>8. QED
    BY <1>3, <1>5, <1>6, <1>7 DEF User

LEMMA TimersPatient ==
    ASSUME TypeOK, WaitInv, PatientInv, FireRender \/ FireSerialize, UNCHANGED user
    PROVE  PatientInv'
<1>1. SUFFICES ASSUME Patient PROVE OnePaneInv' /\ AloneInv'
    BY DEF PatientInv, Patient
<1>2. OnePaneInv /\ AloneInv /\ UNCHANGED panes
    BY <1>1 DEF PatientInv, FireRender, FireSerialize
<1>3. PICK kind \in Syncs : Fire(kind) /\ \E text \in Texts : IssueNext({}, kind, text)
    BY DEF FireRender, FireSerialize, Syncs, TypeOK
<1>4. PICK new : Issues({}, new) /\ new.kind = kind
    BY <1>3, IssueNextEffect
<1>5. /\ kind \in timers /\ timers' = timers \ {kind} /\ calls' = calls \cup {new}
      /\ \A c \in calls : c.kind \notin Movers
      /\ kind \notin Movers
    BY <1>2, <1>3, <1>4 DEF Fire, Issues, AloneInv, Movers, Switches, Syncs
<1>6. AloneInv'
    BY <1>4, <1>5 DEF AloneInv
<1>7. OnePaneInv'
    BY <1>2, <1>3, <1>4, <1>5 DEF OnePaneInv, InFlight, panes, Syncs
<1>8. QED
    BY <1>6, <1>7

LEMMA ServerPatient ==
    ASSUME TypeOK, PatientInv, NEW c \in calls, Server(c), UNCHANGED user
    PROVE  PatientInv'
<1>1. SUFFICES ASSUME Patient PROVE OnePaneInv' /\ AloneInv'
    BY DEF PatientInv, Patient
<1>2. OnePaneInv /\ AloneInv
    BY <1>1 DEF PatientInv
<1>3. PICK new : Answers(c, new)
    BY ServerEffect
<1>4. /\ new.kind = c.kind /\ new.at = "answered" /\ calls' = (calls \ {c}) \cup {new}
      /\ UNCHANGED <<panes, timeouts>> /\ c.at = "sent"
    BY <1>3, ServerEffect
       DEF Answers, Server, ServeRender, ServeSerialize, ServeFile, ServeOpen, ServeUpload
<1>5. OnePaneInv'
    BY <1>2, <1>4 DEF OnePaneInv, InFlight, panes, timeouts
<1>6. c.kind \in Movers \ {"upload"} => UNCHANGED pending
    BY DEF Movers, Switches, Syncs, Server, ServeRender, ServeSerialize, ServeFile, ServeOpen, ServeUpload, server
<1>7. AloneInv'
    BY <1>2, <1>4, <1>6 DEF AloneInv, timeouts
<1>8. QED
    BY <1>5, <1>7

\* A call is over and nothing else is affected.
LEMMA FinishPatient ==
    ASSUME PatientInv, UNCHANGED <<user, activeEditor, timeouts, pending>>, NEW c, Finish(c)
    PROVE  PatientInv'
BY DEF PatientInv, Patient, OnePaneInv, AloneInv, InFlight, Finish, timeouts

\* The source is replaced, and rendered.
LEMMA ReplacePatient ==
    ASSUME TypeOK, WaitInv, PatientInv, UNCHANGED <<user, timeouts>>,
           NEW c \in calls, c.kind \in {"load"} \cup Switches, NEW text \in Texts,
           IssueNext({c}, "render", text), activeEditor' = "source"
    PROVE  PatientInv'
<1>1. SUFFICES ASSUME Patient PROVE OnePaneInv' /\ AloneInv'
    BY DEF PatientInv, Patient
<1>2. PICK new : Issues({c}, new) /\ new.kind = "render"
    BY IssueNextEffect DEF Syncs
<1>3. timers = {} /\ \A d \in calls \ {c} : d.kind \in {"load", "label"}
    BY <1>1, PatientIsCareful DEF PatientInv, AloneInv, Movers, WaitInv, LoadInv, InFlight
<1>4. timers' = {} /\ \A d \in calls' : d.kind \in {"load", "label", "render"}
    BY <1>2, <1>3 DEF Issues, timeouts
<1>5. QED
    BY <1>4 DEF OnePaneInv, AloneInv, InFlight, Movers, Switches

LEMMA ContinuationPatient ==
    ASSUME TypeOK, WaitInv, PatientInv, NEW c \in calls, Continuation(c), UNCHANGED user
    PROVE  PatientInv'
<1>1. /\ UNCHANGED <<timeouts, pending>>
      /\ c.text \in Texts /\ c.file \in Files \cup {NoFile} /\ source \in Texts
    BY TextsGiven
       DEF Continuation, Discard, Accept, FillPreview, FillSource, FillDownload, Load, AfterLoad,
           Label, Retarget, Switch, server, TypeOK
<1>2. CASE Finish(c)
    <2>1. UNCHANGED activeEditor
        <3>1. c \notin calls'
            BY <1>2 DEF Finish
        <3>2. CASE Load(c) \/ Switch(c)
            <4>1. PICK text \in Texts : IssueNext({c}, "render", text)
                BY <1>1, <3>2 DEF Load, AfterLoad, Switch
            <4>2. issued' = issued + 1 /\ issued' = issued /\ issued \in Nat
                BY <1>2, <4>1 DEF IssueNext, Finish, TypeOK
            <4>3. QED
                BY <4>2
        <3>3. QED
            BY <3>2 DEF Continuation, Discard, Accept, FillPreview, FillSource, FillDownload, Label, Retarget, panes
    <2>2. QED
        BY <1>1, <1>2, <2>1, FinishPatient
<1>3. CASE Accept(c)
    <2>1. PICK new : Starts(c, new)
        BY <1>3, AcceptEffect
    <2>2. /\ new.kind = c.kind /\ calls' = (calls \ {c}) \cup {new} /\ UNCHANGED <<panes, timers>>
          /\ c.kind \in Syncs /\ c.kind \notin Movers
        BY <1>3, <2>1 DEF Starts, Accept, Headers, timeouts, Syncs, Movers, Switches
    <2>3. QED
        BY <1>1, <2>2 DEF PatientInv, Patient, OnePaneInv, AloneInv, InFlight, panes
<1>4. CASE Load(c) \/ Switch(c)
    <2>1. PICK text \in Texts : IssueNext({c}, "render", text)
        BY <1>1, <1>4 DEF Load, AfterLoad, Switch
    <2>2. c.kind \in {"load"} \cup Switches /\ activeEditor' = "source"
        BY <1>4 DEF Load, AfterLoad, Switch
    <2>3. QED
        BY <1>1, <2>1, <2>2, ReplacePatient
<1>5. CASE Retarget(c) /\ ~Finish(c)
    <2>1. c.kind = "get" /\ IssuePlain({c}, "open", c.file, c.text) /\ UNCHANGED panes
        BY <1>5 DEF Retarget
    <2>2. PICK new : Issues({c}, new) /\ new.kind = "open"
        BY <1>1, <2>1, IssuePlainEffect DEF Kinds, Switches
    <2>3. SUFFICES ASSUME Patient PROVE OnePaneInv' /\ AloneInv'
        BY DEF PatientInv, Patient
    <2>4. calls' = {new} /\ timers' = {} /\ pending' = NoSave
        BY <1>1, <2>1, <2>2, <2>3 DEF PatientInv, AloneInv, Movers, Issues, timeouts
    <2>5. QED
        BY <2>2, <2>4 DEF OnePaneInv, AloneInv, InFlight
<1>6. QED
    BY <1>2, <1>3, <1>4, <1>5
       DEF Continuation, Discard, FillPreview, FillSource, FillDownload, Label

LEMMA FailPatient ==
    ASSUME TypeOK, WaitInv, PatientInv, NEW c \in calls, Fail(c), UNCHANGED user
    PROVE  PatientInv'
<1>1. UNCHANGED <<timeouts, pending>>
    BY DEF Fail, AfterLoad, server
<1>2. CASE c.kind = "load"
    BY <1>1, <1>2, ReplacePatient DEF Fail, AfterLoad, TypeOK
<1>3. CASE c.kind # "load"
    BY <1>1, <1>3, FinishPatient DEF Fail, panes
<1>4. QED
    BY <1>2, <1>3

LEMMA PatientStep == ASSUME TypeOK, WaitInv, PatientInv, [Next]_vars PROVE PatientInv'
<1>1. CASE Flush \/ UNCHANGED vars
    <2>1. UNCHANGED <<activeEditor, timers, calls>> /\ (pending' = pending \/ pending' = NoSave)
        BY <1>1 DEF Flush, vars, panes, timeouts, fetches, server
    <2>2. UNCHANGED user
        BY <1>1 DEF vars, Next
    <2>3. QED
        BY <2>1, <2>2 DEF PatientInv, Patient, OnePaneInv, AloneInv, InFlight
<1>2. CASE Next /\ ~Flush
    <2>1. UNCHANGED user
        BY <1>2 DEF Next
    <2>2. CASE User
        BY <2>1, <2>2, UserPatient
    <2>3. CASE System
        BY <1>2, <2>1, <2>3, TimersPatient, ServerPatient, ContinuationPatient DEF System
    <2>4. ASSUME NEW c \in calls, Fail(c) PROVE PatientInv'
        BY <2>1, <2>4, FailPatient
    <2>5. QED
        BY <1>1, <1>2, <2>2, <2>3, <2>4 DEF Next, Rest
<1>3. QED
    BY <1>1, <1>2

LEMMA InitPatient == Init => PatientInv
<1>1. SUFFICES ASSUME Init PROVE PatientInv
    OBVIOUS
<1>2. \A c \in calls : c.kind \in {"load", "label"}
    BY <1>1 DEF Init, Call
<1>3. QED
    BY <1>1, <1>2 DEF Init, PatientInv, OnePaneInv, AloneInv, Movers, Switches

-----------------------------------------------------------------------------
(* The text of the active pane is saved, or about to be. *)

Active     == IF activeEditor = "preview" THEN preview ELSE source
ActiveSync == IF activeEditor = "preview" THEN "serialize" ELSE "render"

\* The requests whose handler has yet to save.
Unserved == {c \in calls : c.kind \in Savers /\ c.at = "sent"}

\* A file is open, no failed call has lost its text, and it is the only one or
\* the user waits for it to be saved before it opens another.
SavesDue ==
    /\ Careful /\ ServedInOrder /\ lost = {}
    /\ Patient \/ switches = 0
    /\ activeEditor # "none" /\ ~InFlight(Switches) /\ activeFile \in Files

\* The text is on its way to the server.
OnItsWay ==
    \/ ActiveSync \in timers
    \/ \E c \in Unserved : c.text = Active /\ \A d \in Unserved : d.n <= c.n

\* The server has it.
Saved ==
    /\ Unserved = {}
    /\ \/ pending = [file |-> activeFile, text |-> Active]
       \/ pending = NoSave /\ disk[activeFile] = Active

SavedInv == SavesDue => OnItsWay \/ Saved

\* A request with the text of the active pane is the last that is sent.
LEMMA IssuedIsActive ==
    ASSUME TypeOK, CallsInv, NEW over, NEW new, Issues(over, new), new.kind \in Savers,
           new.text = Active'
    PROVE  SavedInv'
<1>1. /\ new.at = "sent" /\ new.n = issued + 1 /\ calls' = (calls \ over) \cup {new}
      /\ issued \in Nat /\ \A d \in calls : d.n \in Nat /\ d.n <= issued
    BY CallType DEF Issues, TypeOK, CallsInv, NumbersInv
<1>2. new \in Unserved' /\ \A d \in Unserved' : d.n <= new.n
    BY <1>1 DEF Unserved
<1>3. QED
    BY <1>2 DEF SavedInv, OnItsWay

\* The active pane has just been edited.
LEMMA EditedIsDue == ASSUME ActiveSync' \in timers' PROVE SavedInv'
BY DEF SavedInv, OnItsWay

\* A step that leaves the active text, the server and what it has yet to save
\* alone.
LEMMA SavedKept ==
    ASSUME SavedInv, SavesDue' => SavesDue,
           UNCHANGED <<Active, ActiveSync, activeFile, pending, disk, Unserved>>,
           ActiveSync \in timers => ActiveSync \in timers'
    PROVE  SavedInv'
<1>1. SUFFICES ASSUME SavesDue' PROVE OnItsWay' \/ Saved'
    BY DEF SavedInv
<1>2. CASE OnItsWay
    BY <1>2 DEF OnItsWay
<1>3. CASE Saved
    BY <1>3 DEF Saved
<1>4. QED
    BY <1>1, <1>2, <1>3 DEF SavedInv

LEMMA UserSaved ==
    ASSUME TypeOK, CallsInv, SavedInv, User, UNCHANGED user
    PROVE  SavedInv'
<1>1. CASE TypeSource \/ TypePreview
    BY <1>1, EditedIsDue DEF TypeSource, TypePreview, Arm, ActiveSync
<1>2. ASSUME NEW f \in Files, ClickFile(f) PROVE SavedInv'
    <2>1. /\ IssuePlain({}, "get", f, Blank) /\ UNCHANGED <<panes, timeouts, server, lost>>
          /\ switches' # 0 /\ "get" \in Kinds
        BY <1>2 DEF ClickFile, TypeOK, Kinds, Reads
    <2>2. PICK new : Issues({}, new) /\ new.kind = "get"
        BY <2>1, TextsGiven, IssuePlainEffect
    <2>3. Unserved' = Unserved /\ (InFlight(Switches) => InFlight(Switches)')
        BY <2>2 DEF Issues, Unserved, Savers, Syncs, InFlight
    <2>4. SavesDue' => SavesDue
        BY <2>1, <2>3 DEF SavesDue, Patient, Careful, panes, server
    <2>5. QED
        BY <2>1, <2>3, <2>4, SavedKept DEF Active, ActiveSync, panes, timeouts, server
<1>3. ASSUME NEW f \in Files, ClickUpload(f) PROVE SavedInv'
    <2> DEFINE text == [file |-> f, edits |-> {edits + 1}]
    <2>1. IssuePlain({}, "upload", f, text) /\ text \in Texts /\ "upload" \in Kinds
        BY <1>3, TextsGiven DEF ClickUpload, Kinds, Switches
    <2> HIDE DEF text
    <2>2. PICK new : Issues({}, new) /\ new.kind = "upload"
        BY <2>1, IssuePlainEffect
    <2>3. InFlight(Switches)'
        BY <2>2 DEF Issues, InFlight, Switches
    <2>4. QED
        BY <2>3 DEF SavedInv, SavesDue
<1>4. CASE ClickDownload
    <2>1. /\ IssuePlain({}, "download", NoFile, preview) /\ UNCHANGED <<preview, activeEditor>>
          /\ activeEditor = "preview" /\ preview \in Texts /\ "download" \in Kinds \cap Savers
        BY <1>4 DEF ClickDownload, TypeOK, Kinds, Savers, panes
    <2>2. PICK new : Issues({}, new) /\ new.kind = "download" /\ new.text = preview
        BY <2>1, IssuePlainEffect
    <2>3. QED
        BY <2>1, <2>2, IssuedIsActive DEF Active
<1>5. QED
    BY <1>1, <1>2, <1>3, <1>4 DEF User

LEMMA TimersSaved ==
    ASSUME TypeOK, CallsInv, WaitInv, PatientInv, SavedInv, FireRender \/ FireSerialize, UNCHANGED user
    PROVE  SavedInv'
<1>1. UNCHANGED <<panes, server, switches, lost>>
    BY DEF FireRender, FireSerialize, history
<1>2. PICK kind \in Syncs : Fire(kind)
    BY DEF FireRender, FireSerialize, Syncs
<1>3. CASE kind = ActiveSync
    <2>1. PICK text \in Texts : IssueNext({}, kind, text) /\ text = Active
        <3>1. CASE FireRender
            <4>1. "render" \in timers /\ timers' = timers \ {"render"} /\ kind \in timers /\ timers' = timers \ {kind}
                BY <1>2, <3>1 DEF FireRender, Fire
            <4>2. kind = "render"
                BY <4>1
            <4>3. QED
                BY <1>3, <3>1, <4>2 DEF FireRender, Active, ActiveSync, TypeOK
        <3>2. CASE FireSerialize
            <4>1. "serialize" \in timers /\ timers' = timers \ {"serialize"} /\ kind \in timers /\ timers' = timers \ {kind}
                BY <1>2, <3>2 DEF FireSerialize, Fire
            <4>2. kind = "serialize"
                BY <4>1
            <4>3. QED
                BY <1>3, <3>2, <4>2 DEF FireSerialize, Active, ActiveSync, TypeOK
        <3>3. QED
            BY <3>1, <3>2
    <2>2. PICK new : Issues({}, new) /\ new.kind = kind /\ new.text = text
        BY <2>1, IssueNextEffect
    <2>3. Active' = Active
        BY <1>1 DEF Active, panes
    <2>4. QED
        BY <2>1, <2>2, <2>3, IssuedIsActive DEF Savers
<1>4. CASE kind # ActiveSync
    <2>1. SUFFICES ASSUME SavesDue' PROVE ActiveSync' \in timers'
        BY EditedIsDue DEF SavedInv
    <2>2. /\ Careful /\ (Patient \/ switches = 0) /\ activeEditor \in {"source", "preview"}
        BY <1>1, <2>1 DEF SavesDue, Careful, Patient, panes, TypeOK
    <2>3. OrderInv /\ (Patient => OnePaneInv)
        BY <2>2 DEF WaitInv, PatientInv
    <2>4. ActiveSync \in timers /\ newest = ActiveSync
        BY <1>2, <1>4, <2>2, <2>3 DEF OrderInv, OnePaneInv, ActiveSync, Fire, Syncs
    <2>5. QED
        BY <1>1, <1>2, <1>4, <2>4 DEF Fire, ActiveSync, panes
<1>5. QED
    BY <1>3, <1>4

\* Served in order, the last request is saved last.
LEMMA ServerSaved ==
    ASSUME TypeOK, CallsInv, SavedInv, NEW c \in calls, Server(c), UNCHANGED user
    PROVE  SavedInv'
<1>1. /\ UNCHANGED <<panes, timeouts, disk, switches, lost>>
      /\ c.at = "sent" /\ (ServedInOrder => \A d \in calls : d.at = "sent" => c.n <= d.n)
    BY ServerEffect
       DEF Server, ServeRender, ServeSerialize, ServeFile, ServeOpen, ServeUpload, server, history
<1>2. PICK new : Answers(c, new)
    BY ServerEffect
<1>3. /\ new.kind = c.kind /\ new.at = "answered" /\ calls' = (calls \ {c}) \cup {new}
      /\ Unserved' = Unserved \ {c}
    BY <1>1, <1>2 DEF Answers, Unserved
<1>4. InFlight(Switches)' <=> InFlight(Switches)
    BY <1>3 DEF InFlight
<1>5. CASE c.kind \in Switches
    BY <1>3, <1>4, <1>5 DEF SavedInv, SavesDue, InFlight
<1>6. CASE c.kind \in Reads
    <2>1. UNCHANGED <<activeFile, pending>> /\ Unserved' = Unserved
        BY <1>3, <1>6
           DEF Unserved, Savers, Syncs, Reads, Switches, Server, ServeRender, ServeSerialize, ServeFile,
               ServeOpen, ServeUpload, server
    <2>2. SavesDue' => SavesDue
        BY <1>1, <1>4, <2>1 DEF SavesDue, Careful, Patient, panes
    <2>3. QED
        BY <1>1, <2>1, <2>2, SavedKept DEF Active, ActiveSync, panes, timeouts
<1>7. CASE c.kind \in Savers
    <2>1. ScheduleActive(c.text) /\ UNCHANGED activeFile
        BY <1>7
           DEF Savers, Syncs, Reads, Switches, Server, ServeRender, ServeSerialize, ServeFile,
               ServeOpen, ServeUpload
    <2>2. SUFFICES ASSUME SavesDue' PROVE OnItsWay' \/ Saved'
        BY DEF SavedInv
    <2>3. SavesDue /\ UNCHANGED <<Active, ActiveSync, timers>>
        BY <1>1, <1>4, <2>1, <2>2 DEF SavesDue, Careful, Patient, Active, ActiveSync, panes, timeouts
    <2>4. c \in Unserved
        BY <1>1, <1>7 DEF Unserved
    <2>5. CASE ActiveSync \in timers
        BY <2>3, <2>5 DEF OnItsWay
    <2>6. ASSUME NEW e \in Unserved, e.text = Active, \A d \in Unserved : d.n <= e.n
          PROVE  OnItsWay' \/ Saved'
        <3>1. CASE e = c
            <4>1. \A d \in Unserved : d.n <= c.n /\ c.n <= d.n /\ d.n \in Nat /\ c.n \in Nat /\ d \in calls
                BY <1>1, <2>3, <2>6, <3>1, CallType DEF SavesDue, Unserved, TypeOK
            <4>2. \A d \in Unserved : d = c
                BY <4>1 DEF CallsInv, NumbersInv
            <4>3. Unserved' = {}
                BY <1>3, <4>2
            <4>4. pending' = [file |-> activeFile, text |-> c.text]
                <5>1. activeFile # NoFile
                    BY <2>3, ConstantsAssumption DEF SavesDue
                <5>2. QED
                    BY <2>1, <5>1 DEF ScheduleActive
            <4>5. QED
                BY <2>1, <2>3, <2>6, <3>1, <4>3, <4>4 DEF Saved
        <3>2. CASE e # c
            BY <1>3, <2>3, <2>6, <3>2 DEF OnItsWay
        <3>3. QED
            BY <3>1, <3>2
    <2>7. QED
        BY <2>3, <2>4, <2>5, <2>6 DEF SavedInv, OnItsWay, Saved
<1>8. QED
    <2>1. c.kind \in Kinds
        BY CallType DEF TypeOK
    <2>2. QED
        BY <1>5, <1>6, <1>7, <2>1 DEF Kinds, Savers

LEMMA FlushSaved ==
    ASSUME TypeOK, SavedInv, Flush, UNCHANGED user
    PROVE  SavedInv'
<1>1. /\ UNCHANGED <<Active, ActiveSync, timers, calls, activeFile>>
      /\ pending # NoSave /\ pending' = NoSave /\ disk' = [disk EXCEPT ![pending.file] = pending.text]
    BY DEF Flush, Active, ActiveSync, panes, timeouts, fetches
<1>2. Unserved' = Unserved /\ (InFlight(Switches)' <=> InFlight(Switches))
    BY <1>1 DEF Unserved, InFlight
<1>3. SUFFICES ASSUME SavesDue' PROVE OnItsWay' \/ Saved'
    BY DEF SavedInv
<1>4. SavesDue /\ activeFile \in Files
    BY <1>1, <1>2, <1>3 DEF SavesDue, Careful, Patient, Flush, panes, history
<1>5. CASE OnItsWay
    BY <1>1, <1>2, <1>5 DEF OnItsWay
<1>6. CASE Saved
    <2>1. pending = [file |-> activeFile, text |-> Active] /\ Unserved = {}
        BY <1>1, <1>6 DEF Saved
    <2>2. disk'[activeFile] = Active
        BY <1>1, <1>4, <2>1 DEF TypeOK
    <2>3. QED
        BY <1>1, <1>2, <2>1, <2>2 DEF Saved
<1>7. QED
    BY <1>4, <1>5, <1>6 DEF SavedInv

\* The source is replaced, and its rendering asked for.
LEMMA ReplaceSaved ==
    ASSUME TypeOK, CallsInv, NEW c \in calls, NEW text \in Texts,
           IssueNext({c}, "render", text), activeEditor' = "source", source' = text
    PROVE  SavedInv'
<1>1. PICK new : Issues({c}, new) /\ new.kind = "render" /\ new.text = text
    BY IssueNextEffect DEF Syncs
<1>2. QED
    BY <1>1, IssuedIsActive DEF Active, Savers, Syncs

LEMMA ContinuationSaved ==
    ASSUME TypeOK, CallsInv, WaitInv, SavedInv, NEW c \in calls, Continuation(c), UNCHANGED user
    PROVE  SavedInv'
<1>1. /\ UNCHANGED <<timeouts, server, switches, lost>>
      /\ c.text \in Texts /\ c.file \in Files \cup {NoFile} /\ source \in Texts
      /\ c.at # "sent"
    BY TextsGiven
       DEF Continuation, Discard, Accept, Headers, FillPreview, FillSource, FillDownload, Load, AfterLoad,
           Label, Retarget, Switch, history, TypeOK
<1>2. CASE Load(c) \/ Switch(c)
    BY <1>1, <1>2, ReplaceSaved DEF Load, AfterLoad, Switch
<1>3. CASE Retarget(c) /\ ~Finish(c)
    <2>1. IssuePlain({c}, "open", c.file, c.text) /\ "open" \in Kinds
        BY <1>3 DEF Retarget, Kinds, Switches
    <2>2. PICK new : Issues({c}, new) /\ new.kind = "open"
        BY <1>1, <2>1, IssuePlainEffect
    <2>3. InFlight(Switches)'
        BY <2>2 DEF Issues, InFlight, Switches
    <2>4. QED
        BY <2>3 DEF SavedInv, SavesDue
<1>4. CASE Accept(c)
    <2>1. PICK new : Starts(c, new)
        BY <1>4, AcceptEffect
    <2>2. /\ new.kind = c.kind /\ new.at # "sent" /\ calls' = (calls \ {c}) \cup {new} /\ UNCHANGED panes
        BY <1>4, <2>1 DEF Starts, Accept
    <2>3. Unserved' = Unserved /\ (InFlight(Switches)' <=> InFlight(Switches))
        BY <1>1, <2>2 DEF Unserved, InFlight
    <2>4. SavesDue' => SavesDue
        BY <1>1, <2>2, <2>3 DEF SavesDue, Careful, Patient, panes, server
    <2>5. QED
        BY <1>1, <2>2, <2>3, <2>4, SavedKept DEF Active, ActiveSync, panes, timeouts, server
<1>5. CASE /\ Finish(c) /\ UNCHANGED activeEditor
           /\ c.kind \notin Switches
           /\ \/ UNCHANGED <<source, preview>>
              \/ FillPreview(c) \/ FillSource(c) \/ FillDownload(c)
    <2>1. Unserved' = Unserved /\ (InFlight(Switches)' <=> InFlight(Switches))
        BY <1>1, <1>5 DEF Unserved, InFlight, Finish
    <2>2. SavesDue' => SavesDue
        BY <1>1, <1>5, <2>1 DEF SavesDue, Careful, Patient, server
    <2>3. SavesDue => Active' = Active
        <3>1. activeEditor \in {"none", "source", "preview"}
            BY DEF TypeOK
        <3>2. Careful /\ c.kind = "download" => activeEditor = "preview"
            BY DEF WaitInv, DownloadInv
        <3>3. QED
            BY <1>5, <3>1, <3>2 DEF Active, FillPreview, FillSource, FillDownload, SavesDue
    <2>4. CASE SavesDue
        BY <1>1, <1>5, <2>1, <2>2, <2>3, <2>4, SavedKept DEF ActiveSync, timeouts, server
    <2>5. CASE ~SavesDue
        BY <2>2, <2>5 DEF SavedInv
    <2>6. QED
        BY <2>4, <2>5
<1>6. QED
    <2>1. CASE Discard(c) \/ Label(c) \/ (Retarget(c) /\ Finish(c))
        <3>1. Finish(c) /\ UNCHANGED <<source, preview, activeEditor>> /\ c.kind \notin Switches
            BY <2>1 DEF Discard, Headers, Label, Retarget, panes, Syncs, Switches
        <3>2. QED
            BY <1>5, <3>1
    <2>2. CASE FillPreview(c) \/ FillSource(c) \/ FillDownload(c)
        <3>1. Finish(c) /\ UNCHANGED activeEditor /\ c.kind \notin Switches
            BY <2>2 DEF FillPreview, FillSource, FillDownload, Switches
        <3>2. QED
            BY <1>5, <2>2, <3>1
    <2>3. QED
        BY <1>2, <1>3, <1>4, <2>1, <2>2 DEF Continuation

LEMMA SavedStep ==
    ASSUME TypeOK, CallsInv, WaitInv, PatientInv, SavedInv, [Next]_vars
    PROVE  SavedInv'
<1>1. CASE UNCHANGED vars
    <2>1. /\ UNCHANGED <<Active, ActiveSync, activeFile, pending, disk, Unserved, timers>>
          /\ SavesDue' <=> SavesDue
        BY <1>1
           DEF vars, panes, timeouts, fetches, server, history, Active, ActiveSync, Unserved, SavesDue,
               Careful, Patient, InFlight
    <2>2. QED
        BY <2>1, SavedKept
<1>2. CASE Next
    <2>1. UNCHANGED user
        BY <1>2 DEF Next
    <2>2. CASE User
        BY <2>1, <2>2, UserSaved
    <2>3. CASE System
        BY <2>1, <2>3, TimersSaved, ServerSaved, ContinuationSaved, FlushSaved DEF System
    <2>4. ASSUME NEW c \in calls, Fail(c) PROVE SavedInv'
        BY <2>4 DEF Fail, SavedInv, SavesDue
    <2>5. QED
        BY <1>1, <1>2, <2>2, <2>3, <2>4 DEF Next, Rest
<1>3. QED
    BY <1>1, <1>2

LEMMA InitSaved == Init => SavedInv
BY DEF Init, SavedInv, SavesDue

-----------------------------------------------------------------------------
(* Whose text is whose. *)

\* GET /file answers with the content of the file.
ReadsWork == user.unreadable = {} /\ user.tooLarge = {}

\* The server has switched to a file that the page does not show yet.
Switched == \E c \in calls : c.kind \in Switches /\ c.at = "answered"

\* No call that decides which file is edited has failed.
Owning == Patient /\ ReadsWork /\ lost \cap ({"load"} \cup Switches) = {}

\* What is saved and what waits to be saved descends from its file.
ServerOwns ==
    /\ \A f \in Files : disk[f].file = f
    /\ pending.text.file = pending.file

\* A request carries a text of the active file, an answer one of the file it is
\* about.
CallOwns(c) ==
    /\ c.kind \in Savers => c.text.file = activeFile
    /\ c.kind \in Switches => c.text.file = c.file /\ (c.at = "answered" => activeFile = c.file)
    /\ c.kind = "get" /\ c.at = "answered" => c.ok /\ c.text.file = c.file
    /\ c.kind = "load" /\ c.at = "answered" => c.ok /\ c.file = activeFile /\ c.text.file = activeFile

\* The source, and the preview while it is typed in, descend from the active file.
PanesOwn ==
    /\ activeEditor # "none" /\ ~Switched => source.file = activeFile
    /\ activeEditor = "preview" /\ ~Switched => preview.file = activeFile

OwnInv == Owning => ServerOwns /\ (\A c \in calls : CallOwns(c)) /\ PanesOwn

\* An edit leaves the file a text descends from.
LEMMA EditedFile ==
    ASSUME TypeOK
    PROVE  Edited(source).file = source.file /\ Edited(preview).file = preview.file
BY DEF Edited, TypeOK, Texts

LEMMA BlankFile == Blank.file = NoFile /\ NoSave.file = NoFile /\ NoSave.text = Blank
BY DEF Blank, NoSave

LEMMA UserOwn ==
    ASSUME TypeOK, WaitInv, OwnInv, User, UNCHANGED user
    PROVE  OwnInv'
<1>1. SUFFICES ASSUME Owning' PROVE ServerOwns' /\ (\A c \in calls' : CallOwns(c)') /\ PanesOwn'
    BY DEF OwnInv
<1>2. UNCHANGED <<server, lost>>
    BY DEF User, TypeSource, TypePreview, ClickFile, ClickUpload, ClickDownload, Edit
<1>3. Owning /\ Patient
    BY <1>1, <1>2 DEF Owning, Patient, ReadsWork
<1>4. /\ \A c \in calls : c.kind \in Syncs
      /\ activeEditor # "none" /\ ~Switched
    BY <1>3, UserAlone, PatientIsCareful DEF WaitInv, LoadInv, InFlight, Switched, Movers, Syncs
<1>5. ServerOwns /\ (\A c \in calls : CallOwns(c)) /\ source.file = activeFile
      /\ (activeEditor = "preview" => preview.file = activeFile)
    BY <1>3, <1>4 DEF OwnInv, PanesOwn
<1>6. ServerOwns' /\ (\A c \in calls : CallOwns(c)')
    BY <1>2, <1>5 DEF ServerOwns, CallOwns, server
<1>7. CASE TypeSource \/ TypePreview
    <2>1. UNCHANGED calls
        BY <1>7 DEF TypeSource, TypePreview, fetches
    <2>2. PanesOwn'
        BY <1>2, <1>3, <1>5, <1>7, EditedFile
           DEF PanesOwn, TypeSource, TypePreview, MayType, Patient, InSync, server
    <2>3. QED
        BY <1>6, <2>1, <2>2
<1>8. ASSUME NEW kind \in Kinds \ Syncs, NEW f \in Files \cup {NoFile}, NEW text \in Texts,
             IssuePlain({}, kind, f, text), UNCHANGED panes,
             kind \in Savers => text.file = activeFile,
             kind \in Switches => text.file = f
      PROVE  (\A c \in calls' : CallOwns(c)') /\ PanesOwn'
    <2>1. PICK new : Issues({}, new) /\ new.kind = kind /\ new.file = f /\ new.text = text
        BY <1>8, IssuePlainEffect
    <2>2. new.at = "sent" /\ calls' = calls \cup {new}
        BY <2>1 DEF Issues
    <2>3. CallOwns(new)'
        BY <1>2, <1>8, <2>1, <2>2 DEF CallOwns, server
    <2>4. ~Switched'
        BY <1>4, <2>2 DEF Switched, Syncs
    <2>5. PanesOwn'
        BY <1>2, <1>5, <1>8 DEF PanesOwn, panes, server
    <2>6. QED
        BY <1>6, <2>2, <2>3, <2>5
<1>9. ASSUME NEW f \in Files, ClickFile(f) PROVE (\A c \in calls' : CallOwns(c)') /\ PanesOwn'
    <2>1. IssuePlain({}, "get", f, Blank) /\ UNCHANGED panes /\ "get" \in Kinds \ Syncs
          /\ "get" \notin Savers \cup Switches
        BY <1>9 DEF ClickFile, Kinds, Reads, Syncs, Savers, Switches
    <2>2. QED
        BY <1>8, <2>1, TextsGiven
<1>10. ASSUME NEW f \in Files, ClickUpload(f) PROVE (\A c \in calls' : CallOwns(c)') /\ PanesOwn'
    <2> DEFINE text == [file |-> f, edits |-> {edits + 1}]
    <2>1. /\ IssuePlain({}, "upload", f, text) /\ UNCHANGED panes /\ "upload" \in Kinds \ Syncs
          /\ "upload" \notin Savers /\ text \in Texts /\ text.file = f
        BY <1>10, TextsGiven DEF ClickUpload, Kinds, Switches, Syncs, Savers
    <2> HIDE DEF text
    <2>2. QED
        BY <1>8, <2>1
<1>11. CASE ClickDownload
    <2>1. /\ IssuePlain({}, "download", NoFile, preview) /\ UNCHANGED panes
          /\ "download" \in Kinds \ Syncs /\ "download" \notin Switches /\ preview \in Texts
          /\ preview.file = activeFile
        BY <1>5, <1>11 DEF ClickDownload, Kinds, Syncs, Switches, TypeOK
    <2>2. QED
        BY <1>6, <1>8, <2>1
<1>12. QED
    BY <1>6, <1>7, <1>9, <1>10, <1>11 DEF User

LEMMA TimersOwn ==
    ASSUME TypeOK, WaitInv, PatientInv, OwnInv, FireRender \/ FireSerialize, UNCHANGED user
    PROVE  OwnInv'
<1>1. SUFFICES ASSUME Owning' PROVE ServerOwns' /\ (\A c \in calls' : CallOwns(c)') /\ PanesOwn'
    BY DEF OwnInv
<1>2. UNCHANGED <<panes, server, lost>>
    BY DEF FireRender, FireSerialize, history
<1>3. Owning /\ Patient /\ Careful
    BY <1>1, <1>2, PatientIsCareful DEF Owning, Patient, ReadsWork
<1>4. timers # {}
    BY DEF FireRender, FireSerialize, Fire
<1>5. activeEditor # "none" /\ \A c \in calls : c.kind \notin Movers
    BY <1>3, <1>4 DEF WaitInv, LoadInv, PatientInv, AloneInv
<1>6. ServerOwns /\ (\A c \in calls : CallOwns(c)) /\ ~Switched
      /\ source.file = activeFile /\ (activeEditor = "preview" => preview.file = activeFile)
    BY <1>3, <1>5 DEF OwnInv, PanesOwn, Switched, Movers
<1>7. PICK kind \in Syncs, text \in Texts : IssueNext({}, kind, text) /\ text.file = activeFile
    <2>1. CASE FireRender
        BY <1>6, <2>1 DEF FireRender, Syncs, TypeOK
    <2>2. CASE FireSerialize
        <3>1. activeEditor = "preview"
            BY <1>3, <1>5, <2>2 DEF PatientInv, OnePaneInv, FireSerialize, Fire, TypeOK
        <3>2. QED
            BY <1>6, <2>2, <3>1 DEF FireSerialize, Syncs, TypeOK
    <2>3. QED
        BY <2>1, <2>2
<1>8. PICK new : Issues({}, new) /\ new.kind = kind /\ new.text = text
    BY <1>7, IssueNextEffect
<1>9. calls' = calls \cup {new} /\ new.at = "sent"
    BY <1>8 DEF Issues
<1>10. ServerOwns' /\ (\A c \in calls : CallOwns(c)')
    BY <1>2, <1>6 DEF ServerOwns, CallOwns, server
<1>11. CallOwns(new)'
    BY <1>2, <1>7, <1>8, <1>9 DEF CallOwns, server, Syncs, Switches
<1>12. PanesOwn'
    BY <1>2, <1>6 DEF PanesOwn, panes, server
<1>13. QED
    BY <1>9, <1>10, <1>11, <1>12

LEMMA ServerOwn ==
    ASSUME TypeOK, CallsInv, PatientInv, OwnInv, NEW c \in calls, Server(c), UNCHANGED user
    PROVE  OwnInv'
<1>1. SUFFICES ASSUME Owning' PROVE ServerOwns' /\ (\A d \in calls' : CallOwns(d)') /\ PanesOwn'
    BY DEF OwnInv
<1>2. UNCHANGED <<panes, disk, lost>>
    BY DEF Server, ServeRender, ServeSerialize, ServeFile, ServeOpen, ServeUpload, server, history
<1>3. Owning /\ Patient
    BY <1>1, <1>2 DEF Owning, Patient, ReadsWork
<1>4. ServerOwns /\ (\A d \in calls : CallOwns(d)) /\ PanesOwn /\ AloneInv
    BY <1>3 DEF OwnInv, PatientInv
<1>5. PICK new :
        /\ Answers(c, new)
        /\ c.kind \in Savers \cup Switches => new.text = c.text /\ new.file = c.file
        /\ c.kind \in Reads =>
               LET target == IF c.kind = "get" THEN c.file ELSE activeFile
               IN  \/ target \in user.tooLarge
                   \/ new.ok /\ new.file = target /\ new.text = Content(target)
                   \/ c.kind \in user.unreadable
    BY ServerEffect
<1>6. /\ new.kind = c.kind /\ new.at = "answered" /\ calls' = (calls \ {c}) \cup {new}
      /\ c.kind \in Kinds
    BY <1>5, CallType DEF Answers, TypeOK
<1>7. CASE c.kind \in Switches
    <2>1. activeFile' = c.file /\ pending' \in {pending, [file |-> c.file, text |-> c.text]}
        BY <1>7
           DEF Switches, Syncs, Reads, Server, ServeRender, ServeSerialize, ServeFile, ServeOpen, ServeUpload
    <2>2. calls' = {new} /\ c.text.file = c.file
        BY <1>4, <1>6, <1>7 DEF AloneInv, Movers, CallOwns
    <2>3. CallOwns(new)'
        BY <1>5, <1>6, <1>7, <2>1, <2>2 DEF CallOwns, Savers, Switches, Syncs
    <2>4. Switched'
        BY <1>6, <1>7, <2>2 DEF Switched
    <2>5. ServerOwns' /\ PanesOwn'
        BY <1>2, <1>4, <2>1, <2>2, <2>4 DEF ServerOwns, PanesOwn
    <2>6. QED
        BY <2>2, <2>3, <2>5
<1>8. CASE c.kind \notin Switches
    <2>1. activeFile' = activeFile /\ Switched' = Switched
        BY <1>6, <1>8
           DEF Switches, Server, ServeRender, ServeSerialize, ServeFile, ServeOpen, ServeUpload, server, Switched
    <2>2. PanesOwn' /\ \A d \in calls : CallOwns(d)'
        BY <1>2, <1>4, <2>1 DEF PanesOwn, CallOwns, panes
    <2>3. ServerOwns'
        <3>1. pending' = pending \/ (c.kind \in Savers /\ pending' = [file |-> activeFile, text |-> c.text])
            BY <1>8
               DEF Switches, Savers, Syncs, Server, ServeRender, ServeSerialize, ServeFile, ServeOpen,
                   ServeUpload, ScheduleActive, server
        <3>2. QED
            BY <1>2, <1>4, <3>1 DEF ServerOwns, CallOwns
    <2>4. CallOwns(new)'
        <3>1. CASE c.kind \in Savers
            BY <1>4, <1>5, <1>6, <2>1, <3>1 DEF CallOwns, Savers, Syncs, Switches
        <3>2. CASE c.kind \in Reads
            <4> DEFINE target == IF c.kind = "get" THEN c.file ELSE activeFile
            <4>1. new.ok /\ new.file = target /\ new.text = Content(target)
                BY <1>3, <1>5, <3>2 DEF Owning, ReadsWork
            <4>2. target \in Files \cup {NoFile} /\ (c.kind = "get" => target \in Files)
                BY DEF CallsInv, MoversInv, Movers, TypeOK
            <4>3. Content(target).file = target
                BY <1>4, <4>2, BlankFile DEF Content, ServerOwns
            <4>4. new.kind \in Reads
                BY <1>6, <3>2
            <4> HIDE DEF target
            <4>5. new.kind = "get" => target = new.file
                BY <4>1
            <4>6. new.kind = "load" => target = activeFile'
                BY <1>6, <2>1 DEF target
            <4>7. QED
                BY <4>1, <4>3, <4>4, <4>5, <4>6 DEF CallOwns, Reads, Savers, Syncs, Switches
        <3>3. QED
            BY <1>6, <1>8, <3>1, <3>2 DEF Kinds, Savers
    <2>5. QED
        BY <1>6, <2>2, <2>3, <2>4
<1>9. QED
    BY <1>7, <1>8

LEMMA FlushOwn ==
    ASSUME TypeOK, OwnInv, Flush, UNCHANGED user
    PROVE  OwnInv'
<1>1. SUFFICES ASSUME Owning' PROVE ServerOwns' /\ (\A d \in calls' : CallOwns(d)') /\ PanesOwn'
    BY DEF OwnInv
<1>2. /\ UNCHANGED <<panes, activeFile, lost, calls>> /\ pending' = NoSave
      /\ disk' = [disk EXCEPT ![pending.file] = pending.text]
    BY DEF Flush, fetches, history
<1>3. Owning
    BY <1>1, <1>2 DEF Owning, Patient, ReadsWork
<1>4. ServerOwns /\ (\A d \in calls : CallOwns(d)) /\ PanesOwn
    BY <1>3 DEF OwnInv
<1>5. ServerOwns'
    BY <1>2, <1>4, BlankFile DEF ServerOwns, TypeOK
<1>6. (\A d \in calls' : CallOwns(d)') /\ PanesOwn'
    BY <1>2, <1>4 DEF CallOwns, PanesOwn, Switched, panes
<1>7. QED
    BY <1>5, <1>6

\* A call is over; the panes hold what they held, or its text.
LEMMA FinishOwn ==
    ASSUME OwnInv, UNCHANGED <<user, activeEditor, server>>, Owning' => Owning,
           NEW c \in calls, Finish(c), c.kind \notin Switches \/ ~(c.at = "answered"),
           source' = source \/ (c.kind \in Savers /\ source' = c.text),
           activeEditor = "preview" => UNCHANGED preview
    PROVE  OwnInv'
<1>1. SUFFICES ASSUME Owning' PROVE ServerOwns' /\ (\A d \in calls' : CallOwns(d)') /\ PanesOwn'
    BY DEF OwnInv
<1>2. calls' = calls \ {c} /\ ServerOwns /\ (\A d \in calls : CallOwns(d)) /\ PanesOwn
    BY <1>1 DEF OwnInv, Finish
<1>3. Switched' = Switched
    BY <1>2 DEF Switched
<1>4. ServerOwns' /\ (\A d \in calls' : CallOwns(d)')
    BY <1>2 DEF ServerOwns, CallOwns, server
<1>5. PanesOwn'
    BY <1>2, <1>3 DEF PanesOwn, CallOwns, server
<1>6. QED
    BY <1>4, <1>5

\* The source is replaced by a text of the active file, and rendered.
LEMMA ReplaceOwn ==
    ASSUME TypeOK, OwnInv, UNCHANGED <<user, server, lost>>, NEW c \in calls, NEW text \in Texts,
           IssueNext({c}, "render", text), activeEditor' = "source", source' = text,
           Owning => text.file = activeFile
    PROVE  OwnInv'
<1>1. SUFFICES ASSUME Owning' PROVE ServerOwns' /\ (\A d \in calls' : CallOwns(d)') /\ PanesOwn'
    BY DEF OwnInv
<1>2. Owning /\ Patient
    BY <1>1 DEF Owning, Patient, ReadsWork
<1>3. ServerOwns /\ (\A d \in calls : CallOwns(d)) /\ text.file = activeFile
    BY <1>2 DEF OwnInv
<1>4. PICK new : Issues({c}, new) /\ new.kind = "render" /\ new.text = text
    BY IssueNextEffect DEF Syncs
<1>5. calls' = (calls \ {c}) \cup {new}
    BY <1>4 DEF Issues
<1>6. ServerOwns' /\ (\A d \in calls : CallOwns(d)')
    BY <1>3 DEF ServerOwns, CallOwns, server
<1>7. CallOwns(new)'
    BY <1>3, <1>4 DEF CallOwns, server, Switches
<1>8. PanesOwn'
    BY <1>3 DEF PanesOwn, server
<1>9. QED
    BY <1>5, <1>6, <1>7, <1>8

LEMMA ContinuationOwn ==
    ASSUME TypeOK, CallsInv, WaitInv, PatientInv, OwnInv, NEW c \in calls, Continuation(c), UNCHANGED user
    PROVE  OwnInv'
<1>1. /\ UNCHANGED <<server, lost>>
      /\ c.text \in Texts /\ c.file \in Files \cup {NoFile} /\ source \in Texts
    BY TextsGiven
       DEF Continuation, Discard, Accept, FillPreview, FillSource, FillDownload, Load, AfterLoad,
           Label, Retarget, Switch, history, TypeOK
<1>2. Owning' = Owning
    BY <1>1 DEF Owning, Patient, ReadsWork
<1>3. Owning => Patient /\ Careful /\ AloneInv /\ (\A d \in calls : CallOwns(d))
    BY PatientIsCareful DEF Owning, OwnInv, PatientInv
<1>4. CASE Discard(c) \/ Label(c) \/ (Retarget(c) /\ Finish(c))
    <2>1. Finish(c) /\ UNCHANGED <<source, preview, activeEditor>> /\ c.kind \notin Switches
        BY <1>4 DEF Discard, Headers, Label, Retarget, panes, Syncs, Switches
    <2>2. QED
        BY <1>1, <1>2, <2>1, FinishOwn
<1>5. CASE FillPreview(c) \/ FillSource(c) \/ FillDownload(c)
    <2>1. /\ Finish(c) /\ UNCHANGED activeEditor /\ c.kind \notin Switches
          /\ source' = source \/ (c.kind \in Savers /\ source' = c.text)
          /\ activeEditor = "preview" => UNCHANGED preview
        BY <1>5 DEF FillPreview, FillSource, FillDownload, Savers, Syncs, Switches
    <2>2. QED
        BY <1>1, <1>2, <2>1, FinishOwn
<1>6. CASE Accept(c)
    <2>1. PICK new : Starts(c, new)
        BY <1>6, AcceptEffect
    <2>2. /\ new.kind = c.kind /\ new.text = c.text /\ calls' = (calls \ {c}) \cup {new}
          /\ c.kind \in Syncs /\ UNCHANGED panes
        BY <1>6, <2>1 DEF Starts, Accept, Headers
    <2>3. ASSUME Owning PROVE ServerOwns' /\ (\A d \in calls' : CallOwns(d)') /\ PanesOwn'
        <3>1. ServerOwns' /\ (\A d \in calls : CallOwns(d)')
            BY <1>1, <2>3 DEF OwnInv, ServerOwns, CallOwns, server
        <3>2. CallOwns(new)'
            BY <1>1, <1>3, <2>2, <2>3 DEF CallOwns, server, Syncs, Switches
        <3>3. Switched' = Switched
            BY <2>2 DEF Switched, Syncs, Switches
        <3>4. PanesOwn'
            BY <1>1, <2>2, <2>3, <3>3 DEF OwnInv, PanesOwn, panes, server
        <3>5. QED
            BY <2>2, <3>1, <3>2, <3>4
    <2>4. QED
        BY <1>2, <2>3 DEF OwnInv
<1>7. CASE Load(c)
    <2> DEFINE text == IF c.ok /\ c.file # NoFile THEN c.text ELSE source
    <2>1. /\ c.kind = "load" /\ c.at = "answered" /\ text \in Texts
          /\ IssueNext({c}, "render", text) /\ activeEditor' = "source" /\ source' = text
        BY <1>1, <1>7 DEF Load, AfterLoad
    <2>2. ASSUME Owning PROVE text.file = activeFile
        <3>1. CallOwns(c)
            BY <1>3, <2>2
        <3>2. c.ok /\ c.file = activeFile /\ c.text.file = activeFile
            BY <2>1, <3>1 DEF CallOwns
        <3>3. source = Blank
            BY <1>3, <2>1, <2>2 DEF WaitInv, LoadInv, InFlight
        <3>4. QED
            BY <3>2, <3>3, BlankFile
    <2> HIDE DEF text
    <2>3. QED
        BY <1>1, <2>1, <2>2, ReplaceOwn
<1>8. CASE Switch(c)
    <2>1. /\ c.kind \in Switches /\ c.at = "answered"
          /\ IssueNext({c}, "render", c.text) /\ activeEditor' = "source" /\ source' = c.text
        BY <1>8 DEF Switch
    <2>2. Owning => c.text.file = activeFile
        BY <1>3, <2>1 DEF CallOwns
    <2>3. QED
        BY <1>1, <2>1, <2>2, ReplaceOwn
<1>9. CASE Retarget(c) /\ ~Finish(c)
    <2>1. /\ c.kind = "get" /\ c.at = "answered" /\ IssuePlain({c}, "open", c.file, c.text) /\ UNCHANGED panes
          /\ "open" \in Kinds
        BY <1>9 DEF Retarget, Kinds, Switches
    <2>2. PICK new : Issues({c}, new) /\ new.kind = "open" /\ new.file = c.file /\ new.text = c.text
        BY <1>1, <2>1, IssuePlainEffect
    <2>3. new.at = "sent" /\ calls' = (calls \ {c}) \cup {new}
        BY <2>2 DEF Issues
    <2>4. ASSUME Owning PROVE ServerOwns' /\ (\A d \in calls' : CallOwns(d)') /\ PanesOwn'
        <3>1. ServerOwns' /\ (\A d \in calls : CallOwns(d)')
            BY <1>1, <2>4 DEF OwnInv, ServerOwns, CallOwns, server
        <3>2. CallOwns(new)'
            BY <1>3, <2>1, <2>2, <2>3, <2>4 DEF CallOwns, Savers, Syncs
        <3>3. ~Switched
            BY <1>3, <2>1, <2>4 DEF Switched, AloneInv, Movers, Switches
        <3>4. PanesOwn'
            BY <1>1, <2>1, <2>4, <3>3 DEF OwnInv, PanesOwn, panes, server
        <3>5. QED
            BY <2>3, <3>1, <3>2, <3>4
    <2>5. QED
        BY <1>2, <2>4 DEF OwnInv
<1>10. QED
    BY <1>4, <1>5, <1>6, <1>7, <1>8, <1>9 DEF Continuation

LEMMA FailOwn ==
    ASSUME TypeOK, OwnInv, NEW c \in calls, Fail(c), UNCHANGED user
    PROVE  OwnInv'
<1>1. lost' = lost \cup {c.kind}
    BY DEF Fail
<1>2. CASE c.kind \in {"load"} \cup Switches
    BY <1>1, <1>2 DEF OwnInv, Owning
<1>3. CASE c.kind \notin {"load"} \cup Switches
    <2>1. Finish(c) /\ UNCHANGED <<panes, server>>
        BY <1>3 DEF Fail
    <2>2. Owning' => Owning
        BY <1>1 DEF Owning, Patient, ReadsWork
    <2>3. QED
        BY <1>3, <2>1, <2>2, FinishOwn DEF panes
<1>4. QED
    BY <1>2, <1>3

LEMMA OwnStep ==
    ASSUME TypeOK, CallsInv, WaitInv, PatientInv, OwnInv, [Next]_vars
    PROVE  OwnInv'
<1>1. CASE UNCHANGED vars
    BY <1>1
       DEF vars, panes, fetches, server, history, OwnInv, Owning, Patient, ReadsWork, ServerOwns, CallOwns,
           PanesOwn, Switched
<1>2. CASE Next
    <2>1. UNCHANGED user
        BY <1>2 DEF Next
    <2>2. CASE User
        BY <2>1, <2>2, UserOwn
    <2>3. CASE System
        BY <2>1, <2>3, TimersOwn, ServerOwn, ContinuationOwn, FlushOwn DEF System
    <2>4. ASSUME NEW c \in calls, Fail(c) PROVE OwnInv'
        BY <2>1, <2>4, FailOwn
    <2>5. QED
        BY <1>1, <1>2, <2>2, <2>3, <2>4 DEF Next, Rest
<1>3. QED
    BY <1>1, <1>2

LEMMA InitOwn == Init => OwnInv
<1>1. SUFFICES ASSUME Init PROVE OwnInv
    OBVIOUS
<1>2. \A c \in calls : c.kind \in {"load", "label"} /\ c.at = "sent"
    BY <1>1 DEF Init, Call
<1>3. \A c \in calls : CallOwns(c)
    BY <1>2 DEF CallOwns, Savers, Syncs, Switches
<1>4. ServerOwns
    BY <1>1, BlankFile DEF Init, ServerOwns, Fresh
<1>5. QED
    BY <1>1, <1>3, <1>4 DEF Init, OwnInv, PanesOwn

-----------------------------------------------------------------------------
(* The file that is shown is the one that is edited. *)

Showing == Patient /\ ReadsWork /\ lost = {}

\* The label is filled once, with the active file.
LabelShows ==
    /\ InFlight({"label"}) => shown = NoFile
    /\ \A c \in calls : c.kind = "label" /\ c.at = "answered" => c.ok /\ c.file = activeFile

ShownInv == Showing => LabelShows /\ (~InFlight({"label"}) /\ ~Switched => shown = activeFile)

LEMMA ShowingIsOwning == Showing => Owning /\ Patient /\ Careful
BY PatientIsCareful DEF Showing, Owning

\* A step that leaves the label, the file and the calls about them alone.
LEMMA ShownKept ==
    ASSUME ShownInv, UNCHANGED <<user, shown, activeFile>>, lost' = {} => lost = {},
           \A d \in calls' : d.kind = "label" => d \in calls,
           Showing => (InFlight({"label"}) => InFlight({"label"})'),
           Showing => (Switched => Switched')
    PROVE  ShownInv'
<1>1. SUFFICES ASSUME Showing'
               PROVE  LabelShows' /\ (~InFlight({"label"})' /\ ~Switched' => shown' = activeFile')
    BY DEF ShownInv
<1>2. Showing /\ LabelShows /\ (~InFlight({"label"}) /\ ~Switched => shown = activeFile)
    BY <1>1 DEF Showing, Patient, ReadsWork, ShownInv
<1>3. InFlight({"label"})' => InFlight({"label"})
    BY DEF InFlight
<1>4. QED
    BY <1>2, <1>3 DEF LabelShows

LEMMA UserShown ==
    ASSUME TypeOK, ShownInv, User, UNCHANGED user
    PROVE  ShownInv'
<1>1. UNCHANGED <<shown, activeFile, lost>>
    BY DEF User, TypeSource, TypePreview, ClickFile, ClickUpload, ClickDownload, Edit, panes, server
<1>2. \A d \in calls' : d.kind = "label" => d \in calls
    <2>1. CASE TypeSource \/ TypePreview
        BY <2>1 DEF TypeSource, TypePreview, fetches
    <2>2. ASSUME NEW over, NEW kind, NEW file, NEW text, kind # "label", IssuePlain(over, kind, file, text)
          PROVE  \A d \in calls' : d.kind = "label" => d \in calls
        BY <2>2 DEF IssuePlain, Call
    <2>3. QED
        BY <2>1, <2>2 DEF User, ClickFile, ClickUpload, ClickDownload
<1>3. calls \subseteq calls'
    BY DEF User, TypeSource, TypePreview, ClickFile, ClickUpload, ClickDownload, IssuePlain, fetches
<1>4. QED
    BY <1>1, <1>2, <1>3, ShownKept DEF InFlight, Switched

LEMMA TimersShown ==
    ASSUME TypeOK, ShownInv, FireRender \/ FireSerialize, UNCHANGED user
    PROVE  ShownInv'
<1>1. UNCHANGED <<shown, activeFile, lost>>
    BY DEF FireRender, FireSerialize, panes, server, history
<1>2. PICK kind \in Syncs : \E text : IssueNext({}, kind, text)
    BY DEF FireRender, FireSerialize, Syncs
<1>3. calls \subseteq calls' /\ \A d \in calls' : d.kind = "label" => d \in calls
    BY <1>2 DEF IssueNext, Call, Syncs
<1>4. QED
    BY <1>1, <1>3, ShownKept DEF InFlight, Switched

LEMMA ServerShown ==
    ASSUME TypeOK, PatientInv, ShownInv, NEW c \in calls, Server(c), UNCHANGED user
    PROVE  ShownInv'
<1>1. UNCHANGED <<shown, lost>>
    BY DEF Server, ServeRender, ServeSerialize, ServeFile, ServeOpen, ServeUpload, panes, history
<1>2. PICK new :
        /\ Answers(c, new)
        /\ c.kind \in Reads =>
               LET target == IF c.kind = "get" THEN c.file ELSE activeFile
               IN  \/ target \in user.tooLarge
                   \/ new.ok /\ new.file = target
                   \/ c.kind \in user.unreadable
    BY ServerEffect
<1>3. new.kind = c.kind /\ new.at = "answered" /\ calls' = (calls \ {c}) \cup {new}
    BY <1>2 DEF Answers
<1>4. SUFFICES ASSUME Showing'
               PROVE  LabelShows' /\ (~InFlight({"label"})' /\ ~Switched' => shown' = activeFile')
    BY DEF ShownInv
<1>5. /\ Showing /\ AloneInv
      /\ LabelShows /\ (~InFlight({"label"}) /\ ~Switched => shown = activeFile)
    BY <1>1, <1>4, ShowingIsOwning DEF Showing, Patient, ReadsWork, ShownInv, PatientInv
<1>6. CASE c.kind \in Switches
    <2>1. calls' = {new} /\ Switched'
        BY <1>3, <1>5, <1>6 DEF AloneInv, Movers, Switched
    <2>2. QED
        BY <1>3, <1>6, <2>1 DEF LabelShows, InFlight, Switches
<1>7. CASE c.kind \notin Switches
    <2>1. activeFile' = activeFile
        BY <1>7 DEF Switches, Server, ServeRender, ServeSerialize, ServeFile, ServeOpen, ServeUpload, server
    <2>2. (InFlight({"label"})' <=> InFlight({"label"})) /\ (Switched' <=> Switched)
        BY <1>3, <1>7 DEF InFlight, Switched
    <2>3. c.kind = "label" => new.ok /\ new.file = activeFile
        BY <1>2, <1>5 DEF Reads, Showing, ReadsWork
    <2>4. LabelShows'
        BY <1>1, <1>3, <1>5, <2>1, <2>2, <2>3 DEF LabelShows
    <2>5. QED
        BY <1>1, <1>5, <2>1, <2>2, <2>4
<1>8. QED
    BY <1>6, <1>7

LEMMA ContinuationShown ==
    ASSUME TypeOK, WaitInv, PatientInv, OwnInv, ShownInv, NEW c \in calls, Continuation(c), UNCHANGED user
    PROVE  ShownInv'
<1>1. /\ UNCHANGED <<activeFile, lost>>
      /\ c.text \in Texts /\ c.file \in Files \cup {NoFile} /\ source \in Texts
    BY TextsGiven
       DEF Continuation, Discard, Accept, FillPreview, FillSource, FillDownload, Load, AfterLoad,
           Label, Retarget, Switch, server, history, TypeOK
<1>2. CASE Label(c)
    <2>1. SUFFICES ASSUME Showing' PROVE LabelShows' /\ shown' = activeFile'
        BY DEF ShownInv
    <2>2. Showing /\ LabelShows /\ FlowsInv
        BY <1>1, <2>1, ShowingIsOwning DEF Showing, Patient, ReadsWork, ShownInv, WaitInv
    <2>3. /\ c.kind = "label" /\ c.at = "answered" /\ calls' = calls \ {c}
          /\ shown' = IF c.ok /\ c.file # NoFile THEN c.file ELSE shown
        BY <1>2 DEF Label, Finish
    <2>4. c.ok /\ c.file = activeFile /\ shown = NoFile
        BY <2>2, <2>3 DEF LabelShows, InFlight
    <2>5. \A d \in calls' : d.kind # "label"
        BY <2>2, <2>3 DEF FlowsInv, Syncs
    <2>6. QED
        BY <1>1, <2>3, <2>4, <2>5 DEF LabelShows, InFlight
<1>3. CASE Switch(c)
    <2>1. SUFFICES ASSUME Showing' PROVE LabelShows' /\ shown' = activeFile'
        BY DEF ShownInv
    <2>2. Showing /\ AloneInv /\ CallOwns(c)
        BY <1>1, <2>1, ShowingIsOwning DEF Showing, Patient, ReadsWork, PatientInv, OwnInv
    <2>3. /\ c.kind \in Switches /\ c.at = "answered" /\ shown' = c.file
          /\ IssueNext({c}, "render", c.text)
        BY <1>3 DEF Switch
    <2>4. \A d \in calls' : d.kind = "render"
        BY <2>2, <2>3 DEF IssueNext, Call, AloneInv, Movers
    <2>5. QED
        BY <1>1, <2>2, <2>3, <2>4 DEF LabelShows, InFlight, CallOwns
<1>4. CASE Accept(c) \/ Load(c) \/ (Retarget(c) /\ ~Finish(c))
    <2>1. PICK new : calls' = (calls \ {c}) \cup {new} /\ new.kind # "label"
        <3>1. CASE Accept(c)
            <4>1. PICK new : Starts(c, new)
                BY <3>1, AcceptEffect
            <4>2. QED
                BY <3>1, <4>1 DEF Starts, Accept, Headers, Syncs
        <3>2. CASE Load(c)
            <4>1. PICK text \in Texts : IssueNext({c}, "render", text)
                BY <1>1, <3>2 DEF Load, AfterLoad
            <4>2. PICK new : Issues({c}, new) /\ new.kind = "render"
                BY <4>1, IssueNextEffect DEF Syncs
            <4>3. QED
                BY <4>2 DEF Issues
        <3>3. CASE Retarget(c) /\ ~Finish(c)
            <4>1. IssuePlain({c}, "open", c.file, c.text) /\ "open" \in Kinds
                BY <3>3 DEF Retarget, Kinds, Switches
            <4>2. PICK new : Issues({c}, new) /\ new.kind = "open"
                BY <1>1, <4>1, IssuePlainEffect
            <4>3. QED
                BY <4>2 DEF Issues
        <3>4. QED
            BY <1>4, <3>1, <3>2, <3>3
    <2>2. UNCHANGED shown /\ c.kind # "label" /\ c.kind \notin Switches
        BY <1>4 DEF Accept, Headers, Load, AfterLoad, Retarget, panes, Syncs, Switches
    <2>3. (InFlight({"label"}) => InFlight({"label"})') /\ (Switched => Switched')
        BY <2>1, <2>2 DEF InFlight, Switched
    <2>4. \A d \in calls' : d.kind = "label" => d \in calls
        BY <2>1
    <2>5. QED
        BY <1>1, <2>2, <2>3, <2>4, ShownKept
<1>5. CASE \/ Discard(c) \/ FillPreview(c) \/ FillSource(c) \/ FillDownload(c)
           \/ (Retarget(c) /\ Finish(c))
    <2>1. calls' = calls \ {c} /\ UNCHANGED shown /\ c.kind \notin Switches /\ c.kind # "label"
        BY <1>5
           DEF Discard, Headers, FillPreview, FillSource, FillDownload, Retarget, Finish, panes, Syncs, Switches
    <2>2. (InFlight({"label"}) => InFlight({"label"})') /\ (Switched => Switched')
        BY <2>1 DEF InFlight, Switched
    <2>3. QED
        BY <1>1, <2>1, <2>2, ShownKept
<1>6. QED
    BY <1>2, <1>3, <1>4, <1>5 DEF Continuation

LEMMA ShownStep ==
    ASSUME TypeOK, WaitInv, PatientInv, OwnInv, ShownInv, [Next]_vars
    PROVE  ShownInv'
<1>1. CASE Flush \/ UNCHANGED vars
    <2>1. UNCHANGED <<user, shown, activeFile, lost, calls>>
        BY <1>1 DEF Flush, Next, vars, panes, fetches, server, history
    <2>2. QED
        BY <2>1, ShownKept DEF InFlight, Switched
<1>2. CASE Next /\ ~Flush
    <2>1. UNCHANGED user
        BY <1>2 DEF Next
    <2>2. CASE User
        BY <2>1, <2>2, UserShown
    <2>3. CASE System
        BY <1>2, <2>1, <2>3, TimersShown, ServerShown, ContinuationShown DEF System
    <2>4. ASSUME NEW c \in calls, Fail(c) PROVE ShownInv'
        BY <2>4 DEF Fail, ShownInv, Showing
    <2>5. QED
        BY <1>1, <1>2, <2>2, <2>3, <2>4 DEF Next, Rest
<1>3. QED
    BY <1>1, <1>2

LEMMA InitShown == Init => ShownInv
<1>1. SUFFICES ASSUME Init PROVE ShownInv
    OBVIOUS
<1>2. \A c \in calls : c.at = "sent"
    BY <1>1 DEF Init, Call
<1>3. InFlight({"label"})
    BY <1>1 DEF Init, InFlight, Call
<1>4. QED
    BY <1>1, <1>2, <1>3 DEF Init, ShownInv, LabelShows

-----------------------------------------------------------------------------
(* Where the edits made to a file are. *)

\* The text of a file with all edits ever made to it.
Full(f) == [file |-> f, edits |-> typed[f]]

Keeping == Patient /\ ReadsWork /\ ServedInOrder /\ lost = {}

\* Only the active file has something left to save.
PendingFull == pending = NoSave \/ pending.file = activeFile

\* A file on the disk has them all, unless it is the one that is edited or is
\* being uploaded.
DisksFull ==
    \A f \in Files :
        \/ disk[f] = Full(f)
        \/ f = activeFile /\ activeEditor # "none" /\ ~InFlight(Movers)
        \/ \E c \in calls : c.kind = "upload" /\ c.file = f

\* The content that a load or a switch of the file carries has them all.
CallFull(c) ==
    /\ c.kind \in Switches => c.text = Full(c.file)
    /\ c.kind = "get" /\ c.at = "answered" => c.text = Full(c.file)
    /\ c.kind = "load" /\ c.at = "answered" => c.text = Full(activeFile)

\* The active pane has them all, those made before a file was there being none.
PanesFull ==
    /\ activeEditor = "none" => typed[NoFile] = {}
    /\ activeEditor # "none" /\ ~Switched /\ ~InFlight({"upload"}) => Active = Full(activeFile)

FullInv == Keeping => PendingFull /\ DisksFull /\ (\A c \in calls : CallFull(c)) /\ PanesFull

LEMMA KeepingIs ==
    ASSUME Keeping PROVE Patient /\ Careful /\ Owning /\ ReadsWork /\ ServedInOrder
BY PatientIsCareful DEF Keeping, Owning

\* Once all has settled, nothing of the active file is left to save.
LEMMA SettledSaved ==
    ASSUME TypeOK, WaitInv, SavedInv, Keeping, Settled
    PROVE  /\ activeEditor \in {"source", "preview"}
           /\ activeFile \in Files => disk[activeFile] = Active
<1>1. timers = {} /\ calls = {} /\ pending = NoSave
    BY DEF Settled
<1>2. activeEditor \in {"source", "preview"}
    BY <1>1, KeepingIs DEF WaitInv, LoadInv, InFlight, TypeOK
<1>3. ASSUME activeFile \in Files PROVE disk[activeFile] = Active
    <2>1. SavesDue
        BY <1>1, <1>2, <1>3, KeepingIs DEF SavesDue, Keeping, InFlight
    <2>2. Saved
        BY <1>1, <2>1 DEF SavedInv, OnItsWay, Unserved
    <2>3. pending # [file |-> activeFile, text |-> Active]
        BY <1>1, <1>3, BlankFile, ConstantsAssumption
    <2>4. QED
        BY <2>2, <2>3 DEF Saved
<1>4. QED
    BY <1>2, <1>3

\* Then every file has all edits made to it.
LEMMA SettledFull ==
    ASSUME TypeOK, WaitInv, SavedInv, FullInv, Keeping, Settled
    PROVE  \A f \in Files : disk[f] = Full(f)
<1>1. activeEditor # "none" /\ calls = {} /\ (activeFile \in Files => disk[activeFile] = Active)
    BY SettledSaved DEF Settled
<1>2. DisksFull /\ Active = Full(activeFile)
    BY <1>1 DEF FullInv, PanesFull, Switched, InFlight
<1>3. QED
    BY <1>1, <1>2 DEF DisksFull

LEMMA UserFull ==
    ASSUME TypeOK, WaitInv, PatientInv, SavedInv, OwnInv, FullInv, User, UNCHANGED user
    PROVE  FullInv'
<1>1. SUFFICES ASSUME Keeping'
               PROVE  PendingFull' /\ DisksFull' /\ (\A c \in calls' : CallFull(c)') /\ PanesFull'
    BY DEF FullInv
<1>2. UNCHANGED <<server, lost>>
    BY DEF User, TypeSource, TypePreview, ClickFile, ClickUpload, ClickDownload, Edit
<1>3. Keeping /\ Patient /\ Owning
    BY <1>1, <1>2, KeepingIs DEF Keeping, Patient, ReadsWork
<1>4. /\ \A c \in calls : c.kind \in Syncs
      /\ activeEditor # "none" /\ ~Switched /\ ~InFlight(Movers) /\ ~InFlight({"upload"})
    BY <1>3, UserAlone, PatientIsCareful DEF WaitInv, LoadInv, InFlight, Switched, Movers, Syncs
<1>5. /\ PendingFull /\ DisksFull /\ Active = Full(activeFile)
      /\ source.file = activeFile /\ (activeEditor = "preview" => preview.file = activeFile)
      /\ activeFile \in Files \cup {NoFile}
      /\ \A f \in Files : disk[f] = Full(f) \/ f = activeFile
    BY <1>3, <1>4 DEF FullInv, PanesFull, OwnInv, PanesOwn, TypeOK, DisksFull, Switches, Syncs
<1>6. PendingFull'
    BY <1>2, <1>5 DEF PendingFull, server
<1>7. CASE TypeSource \/ TypePreview
    <2>1. UNCHANGED calls /\ activeEditor' # "none"
        BY <1>7 DEF TypeSource, TypePreview, fetches
    <2>2. Active' = Edited(Active) /\ Edit(activeFile)
        <3>1. CASE TypeSource
            <4>1. activeEditor = "source" \/ preview = source
                BY <1>3, <3>1 DEF TypeSource, MayType, Patient, InSync
            <4>2. QED
                BY <1>5, <3>1, <4>1 DEF TypeSource, Active
        <3>2. CASE TypePreview
            <4>1. activeEditor = "preview" \/ preview = source
                BY <1>3, <3>2 DEF TypePreview, MayType, Patient, InSync
            <4>2. QED
                BY <1>5, <3>2, <4>1 DEF TypePreview, Active
        <3>3. QED
            BY <1>7, <3>1, <3>2
    <2>3. typed' = [typed EXCEPT ![activeFile] = @ \cup {edits + 1}]
        BY <2>2 DEF Edit
    <2>4. Active' = Full(activeFile)'
        <3>1. Edited(Active) = [file |-> activeFile, edits |-> typed[activeFile] \cup {edits + 1}]
            BY <1>5 DEF Edited, Full
        <3>2. typed'[activeFile] = typed[activeFile] \cup {edits + 1}
            BY <1>5, <2>3 DEF TypeOK
        <3>3. QED
            BY <1>2, <2>2, <3>1, <3>2 DEF Full, server
    <2>5. DisksFull'
        BY <1>2, <1>4, <1>5, <2>1, <2>3 DEF DisksFull, Full, InFlight, server, TypeOK
    <2>6. PanesFull' /\ \A c \in calls' : CallFull(c)'
        BY <1>4, <2>1, <2>4 DEF PanesFull, CallFull, Syncs, Switches
    <2>7. QED
        BY <1>6, <2>5, <2>6
<1>8. ASSUME InSync PROVE \A f \in Files : disk[f] = Full(f)
    BY <1>3, <1>8, SettledFull DEF InSync
<1>9. ASSUME NEW f \in Files, ClickFile(f) PROVE DisksFull' /\ (\A c \in calls' : CallFull(c)') /\ PanesFull'
    <2>1. /\ IssuePlain({}, "get", f, Blank) /\ UNCHANGED <<panes, typed>> /\ "get" \in Kinds /\ InSync
        BY <1>3, <1>9 DEF ClickFile, MayLeave, Patient, Kinds, Reads
    <2>2. PICK new : Issues({}, new) /\ new.kind = "get"
        BY <2>1, TextsGiven, IssuePlainEffect
    <2>3. new.at = "sent" /\ calls' = {new}
        BY <2>1, <2>2 DEF Issues, InSync, Settled
    <2>4. DisksFull'
        BY <1>2, <1>8, <2>1 DEF DisksFull, Full, server
    <2>5. PanesFull' /\ CallFull(new)'
        BY <1>2, <1>4, <1>5, <2>1, <2>2, <2>3 DEF PanesFull, CallFull, Full, Active, panes, server, Switches
    <2>6. QED
        BY <2>3, <2>4, <2>5
<1>10. ASSUME NEW f \in Files, ClickUpload(f) PROVE DisksFull' /\ (\A c \in calls' : CallFull(c)') /\ PanesFull'
    <2> DEFINE text == [file |-> f, edits |-> {edits + 1}]
    <2>1. /\ IssuePlain({}, "upload", f, text) /\ UNCHANGED panes /\ "upload" \in Kinds /\ text \in Texts
          /\ typed' = [typed EXCEPT ![f] = {edits + 1}] /\ InSync
        BY <1>3, <1>10, TextsGiven DEF ClickUpload, MayLeave, Patient, Kinds, Switches
    <2>2. typed'[f] = {edits + 1} /\ \A g \in Files \ {f} : typed'[g] = typed[g]
        BY <2>1 DEF TypeOK
    <2>3. text = Full(f)'
        BY <2>2 DEF Full
    <2> HIDE DEF text
    <2>4. PICK new : Issues({}, new) /\ new.kind = "upload" /\ new.file = f /\ new.text = text
        BY <2>1, IssuePlainEffect
    <2>5. new.at = "sent" /\ calls' = {new}
        BY <2>1, <2>4 DEF Issues, InSync, Settled
    <2>6. DisksFull'
        BY <1>2, <1>8, <2>1, <2>2, <2>4, <2>5 DEF DisksFull, Full, server
    <2>7. PanesFull'
        BY <1>4, <2>1, <2>4, <2>5 DEF PanesFull, InFlight, panes
    <2>8. CallFull(new)'
        BY <2>3, <2>4 DEF CallFull
    <2>9. QED
        BY <2>5, <2>6, <2>7, <2>8
<1>11. CASE ClickDownload
    <2>1. /\ IssuePlain({}, "download", NoFile, preview) /\ UNCHANGED <<panes, typed>> /\ "download" \in Kinds
          /\ preview \in Texts
        BY <1>11 DEF ClickDownload, Kinds, TypeOK
    <2>2. PICK new : Issues({}, new) /\ new.kind = "download"
        BY <2>1, IssuePlainEffect
    <2>3. calls' = calls \cup {new} /\ new.at = "sent"
        BY <2>2 DEF Issues
    <2>4. DisksFull'
        BY <1>2, <1>4, <1>5, <2>1, <2>2, <2>3 DEF DisksFull, Full, InFlight, Movers, Switches, panes, server
    <2>5. PanesFull' /\ \A c \in calls' : CallFull(c)'
        BY <1>2, <1>4, <1>5, <2>1, <2>2, <2>3
           DEF PanesFull, CallFull, Full, Active, Syncs, Switches, panes, server
    <2>6. QED
        BY <1>6, <2>4, <2>5
<1>12. QED
    BY <1>6, <1>7, <1>9, <1>10, <1>11 DEF User

LEMMA TimersFull ==
    ASSUME TypeOK, WaitInv, PatientInv, FullInv, FireRender \/ FireSerialize, UNCHANGED user
    PROVE  FullInv'
<1>1. SUFFICES ASSUME Keeping'
               PROVE  PendingFull' /\ DisksFull' /\ (\A c \in calls' : CallFull(c)') /\ PanesFull'
    BY DEF FullInv
<1>2. UNCHANGED <<panes, server, typed, lost>> /\ timers # {}
    BY DEF FireRender, FireSerialize, Fire, history
<1>3. Keeping /\ Patient /\ Careful
    BY <1>1, <1>2, KeepingIs DEF Keeping, Patient, ReadsWork
<1>4. PICK kind \in Syncs : \E text \in Texts : IssueNext({}, kind, text)
    BY DEF FireRender, FireSerialize, Syncs, TypeOK
<1>5. PICK new : Issues({}, new) /\ new.kind = kind
    BY <1>4, IssueNextEffect
<1>6. /\ calls' = calls \cup {new} /\ new.at = "sent" /\ activeEditor # "none"
      /\ \A c \in calls' : c.kind \notin Movers
    BY <1>2, <1>3, <1>4, <1>5
       DEF Issues, WaitInv, LoadInv, PatientInv, AloneInv, Movers, Switches, Syncs
<1>7. /\ PendingFull /\ Active = Full(activeFile) /\ \A c \in calls : CallFull(c)
      /\ \A f \in Files : disk[f] = Full(f) \/ f = activeFile
    BY <1>3, <1>6 DEF FullInv, PanesFull, DisksFull, InFlight, Switched, Movers, Switches
<1>8. PendingFull' /\ DisksFull'
    BY <1>2, <1>6, <1>7 DEF PendingFull, DisksFull, Full, InFlight, panes, server
<1>9. PanesFull'
    BY <1>2, <1>6, <1>7 DEF PanesFull, Full, Active, panes, server
<1>10. CallFull(new)' /\ \A c \in calls : CallFull(c)'
    BY <1>2, <1>6, <1>7 DEF CallFull, Full, Movers, server
<1>11. QED
    BY <1>6, <1>8, <1>9, <1>10

LEMMA ServerFull ==
    ASSUME TypeOK, CallsInv, WaitInv, PatientInv, FullInv, NEW c \in calls, Server(c), UNCHANGED user
    PROVE  FullInv'
<1>1. SUFFICES ASSUME Keeping'
               PROVE  PendingFull' /\ DisksFull' /\ (\A d \in calls' : CallFull(d)') /\ PanesFull'
    BY DEF FullInv
<1>2. UNCHANGED <<panes, disk, typed, lost>>
    BY DEF Server, ServeRender, ServeSerialize, ServeFile, ServeOpen, ServeUpload, server, history
<1>3. Keeping /\ Patient /\ Careful /\ ReadsWork
    BY <1>1, <1>2, KeepingIs DEF Keeping, Patient, ReadsWork
<1>4. /\ PendingFull /\ DisksFull /\ (\A d \in calls : CallFull(d)) /\ PanesFull
      /\ AloneInv /\ LoadInv
    BY <1>3 DEF FullInv, PatientInv, WaitInv
<1>5. PICK new :
        /\ Answers(c, new)
        /\ c.kind \in Savers \cup Switches => new.text = c.text /\ new.file = c.file
        /\ c.kind \in Reads =>
               LET target == IF c.kind = "get" THEN c.file ELSE activeFile
               IN  \/ target \in user.tooLarge
                   \/ new.ok /\ new.file = target /\ new.text = Content(target)
                   \/ c.kind \in user.unreadable
    BY ServerEffect
<1>6. /\ new.kind = c.kind /\ new.at = "answered" /\ calls' = (calls \ {c}) \cup {new}
      /\ c.kind \in Kinds
    BY <1>5, CallType DEF Answers, TypeOK
<1>7. CASE c.kind \in Switches
    <2>1. /\ activeFile' = c.file
          /\ \/ c.kind = "open" /\ UNCHANGED pending
             \/ c.kind = "upload" /\ pending' = [file |-> c.file, text |-> c.text]
        BY <1>7
           DEF Switches, Syncs, Reads, Server, ServeRender, ServeSerialize, ServeFile, ServeOpen, ServeUpload
    <2>2. calls = {c} /\ calls' = {new} /\ (c.kind = "open" => pending = NoSave)
        BY <1>4, <1>6, <1>7 DEF AloneInv, Movers
    <2>3. PendingFull'
        BY <2>1, <2>2 DEF PendingFull
    <2>4. \A f \in Files : disk[f] = Full(f) \/ (c.kind = "upload" /\ c.file = f)
        BY <1>4, <1>7, <2>2 DEF DisksFull, InFlight, Movers
    <2>5. DisksFull'
        BY <1>2, <1>5, <1>6, <1>7, <2>2, <2>4 DEF DisksFull, Full
    <2>6. CallFull(new)'
        BY <1>2, <1>4, <1>5, <1>6, <1>7 DEF CallFull, Full, Switches
    <2>7. PanesFull'
        BY <1>2, <1>4, <1>6, <1>7, <2>2 DEF PanesFull, Switched, panes
    <2>8. QED
        BY <2>2, <2>3, <2>5, <2>6, <2>7
<1>8. CASE c.kind \notin Switches
    <2>1. /\ activeFile' = activeFile
          /\ pending' = pending \/ pending' = [file |-> activeFile, text |-> c.text]
        BY <1>8
           DEF Switches, Server, ServeRender, ServeSerialize, ServeFile, ServeOpen, ServeUpload,
               ScheduleActive, server
    <2>2. /\ Switched' = Switched
          /\ \A kinds : InFlight(kinds)' = InFlight(kinds)
          /\ \A f : (\E d \in calls : d.kind = "upload" /\ d.file = f)
                        => \E d \in calls' : d.kind = "upload" /\ d.file = f
        BY <1>6, <1>8 DEF Switched, InFlight, Switches
    <2>3. PendingFull' /\ DisksFull'
        BY <1>2, <1>4, <2>1, <2>2 DEF PendingFull, DisksFull, Full, panes
    <2>4. PanesFull'
        BY <1>2, <1>4, <2>1, <2>2 DEF PanesFull, Full, Active, panes
    <2>5. \A d \in calls : CallFull(d)'
        BY <1>2, <1>4, <2>1 DEF CallFull, Full
    <2>6. CallFull(new)'
        <3>1. CASE c.kind = "get"
            <4>1. new.file = c.file /\ new.text = Content(c.file)
                BY <1>3, <1>5, <3>1 DEF ReadsWork, Reads
            <4>2. c.file \in Files /\ calls = {c}
                BY <1>4, <3>1 DEF CallsInv, MoversInv, AloneInv, Movers
            <4>3. disk[c.file] = Full(c.file)
                BY <1>4, <3>1, <4>2 DEF DisksFull, InFlight, Movers
            <4>4. new.text = Full(new.file)'
                BY <1>2, <4>1, <4>2, <4>3, ConstantsAssumption DEF Content, Full
            <4>5. QED
                BY <1>6, <3>1, <4>4 DEF CallFull, Switches
        <3>2. CASE c.kind = "load"
            <4>1. new.text = Content(activeFile)
                BY <1>3, <1>5, <3>2 DEF ReadsWork, Reads
            <4>2. activeEditor = "none" /\ \A d \in calls : d.kind \in {"load", "label"}
                BY <1>4, <3>2 DEF LoadInv, InFlight
            <4>3. activeFile \in Files => disk[activeFile] = Full(activeFile)
                BY <1>4, <4>2 DEF DisksFull
            <4>4. activeFile = NoFile => Blank = Full(activeFile)
                BY <1>4, <4>2 DEF PanesFull, Full, Blank
            <4>5. activeFile \in Files \cup {NoFile}
                BY DEF TypeOK
            <4>6. new.text = Full(activeFile)'
                BY <1>2, <2>1, <4>1, <4>3, <4>4, <4>5 DEF Content, Full
            <4>7. QED
                BY <1>6, <3>2, <4>6 DEF CallFull, Switches
        <3>3. CASE c.kind \notin {"get", "load"}
            BY <1>6, <1>8, <3>3 DEF CallFull
        <3>4. QED
            BY <3>1, <3>2, <3>3
    <2>7. QED
        BY <1>6, <2>3, <2>4, <2>5, <2>6
<1>9. QED
    BY <1>7, <1>8

LEMMA FlushFull ==
    ASSUME TypeOK, WaitInv, PatientInv, OwnInv, FullInv, Flush, UNCHANGED user
    PROVE  FullInv'
<1>1. SUFFICES ASSUME Keeping'
               PROVE  PendingFull' /\ DisksFull' /\ (\A d \in calls' : CallFull(d)') /\ PanesFull'
    BY DEF FullInv
<1>2. /\ UNCHANGED <<panes, activeFile, calls, typed, lost>> /\ pending # NoSave /\ pending' = NoSave
      /\ disk' = [disk EXCEPT ![pending.file] = pending.text]
    BY DEF Flush, fetches, history
<1>3. Keeping /\ Patient /\ Careful /\ Owning
    BY <1>1, <1>2, KeepingIs DEF Keeping, Patient, ReadsWork
<1>4. /\ PendingFull /\ DisksFull /\ (\A d \in calls : CallFull(d)) /\ PanesFull
      /\ AloneInv /\ LoadInv /\ \A d \in calls : CallOwns(d)
    BY <1>3 DEF FullInv, PatientInv, WaitInv, OwnInv
<1>5. pending.file = activeFile /\ activeEditor # "none"
    BY <1>2, <1>4 DEF PendingFull, LoadInv
<1>6. \/ ~InFlight(Movers)
      \/ \E d \in calls : d.kind = "upload" /\ d.file = activeFile
    <2>1. ASSUME NEW d \in calls, d.kind \in Movers PROVE d.kind = "upload" /\ d.file = activeFile
        BY <1>2, <1>4, <2>1 DEF AloneInv, CallOwns, Switches
    <2>2. QED
        BY <2>1 DEF InFlight
<1>7. DisksFull'
    <2>1. \A f \in Files : f # activeFile => disk'[f] = disk[f]
        BY <1>2, <1>5 DEF TypeOK
    <2>2. \A f \in Files : Full(f)' = Full(f)
        BY <1>2 DEF Full
    <2>3. \/ ~InFlight(Movers)'
          \/ \E d \in calls' : d.kind = "upload" /\ d.file = activeFile'
        BY <1>2, <1>6 DEF InFlight
    <2>4. QED
        BY <1>2, <1>4, <1>5, <2>1, <2>2, <2>3 DEF DisksFull, panes
<1>8. PendingFull' /\ PanesFull' /\ \A d \in calls' : CallFull(d)'
    BY <1>2, <1>4 DEF PendingFull, PanesFull, CallFull, Full, Active, Switched, InFlight, panes
<1>9. QED
    BY <1>7, <1>8

\* A call that is about no file is over, or its body is awaited; the active pane
\* keeps its text.
LEMMA KeptFull ==
    ASSUME FullInv, UNCHANGED <<user, server, activeEditor, typed, lost>>,
           Keeping => UNCHANGED Active,
           NEW c \in calls, c.kind \notin Movers, NEW new,
           \/ calls' = calls \ {c}
           \/ calls' = (calls \ {c}) \cup {new} /\ new.kind \in Syncs
    PROVE  FullInv'
<1>1. SUFFICES ASSUME Keeping'
               PROVE  PendingFull' /\ DisksFull' /\ (\A d \in calls' : CallFull(d)') /\ PanesFull'
    BY DEF FullInv
<1>2. Keeping
    BY <1>1 DEF Keeping, Patient, ReadsWork
<1>3. PendingFull /\ DisksFull /\ (\A d \in calls : CallFull(d)) /\ PanesFull /\ UNCHANGED Active
    BY <1>2 DEF FullInv
<1>4. \A d : d.kind \in Movers => (d \in calls' <=> d \in calls)
    BY DEF Movers, Switches, Syncs
<1>5. /\ InFlight(Movers)' = InFlight(Movers) /\ Switched' = Switched
      /\ InFlight({"upload"})' = InFlight({"upload"})
    BY <1>4 DEF InFlight, Switched, Movers, Switches
<1>6. \A f : (\E d \in calls : d.kind = "upload" /\ d.file = f)
                 => \E d \in calls' : d.kind = "upload" /\ d.file = f
    BY <1>4 DEF Movers, Switches
<1>7. PendingFull' /\ DisksFull'
    BY <1>3, <1>5, <1>6 DEF PendingFull, DisksFull, Full, server
<1>8. PanesFull'
    BY <1>3, <1>5 DEF PanesFull, Full, server
<1>9. \A d \in calls' : CallFull(d)'
    <2>1. \A d \in calls' : d \in calls \/ d.kind \in Syncs
        OBVIOUS
    <2>2. \A d \in calls : CallFull(d)'
        BY <1>3 DEF CallFull, Full, server
    <2>3. QED
        BY <2>1, <2>2 DEF CallFull, Syncs, Switches
<1>10. QED
    BY <1>7, <1>8, <1>9

\* The source is replaced by the whole text of the active file, and rendered.
LEMMA ReplaceFull ==
    ASSUME TypeOK, WaitInv, PatientInv, OwnInv, FullInv, UNCHANGED <<user, server, typed, lost>>,
           NEW c \in calls, c.kind \in {"load"} \cup Switches, NEW text \in Texts,
           c.kind \in Switches => c.at = "answered",
           IssueNext({c}, "render", text), activeEditor' = "source", source' = text,
           Keeping => text = Full(activeFile)
    PROVE  FullInv'
<1>1. SUFFICES ASSUME Keeping'
               PROVE  PendingFull' /\ DisksFull' /\ (\A d \in calls' : CallFull(d)') /\ PanesFull'
    BY DEF FullInv
<1>2. Keeping /\ Patient /\ Careful /\ Owning
    BY <1>1, KeepingIs DEF Keeping, Patient, ReadsWork
<1>3. /\ PendingFull /\ DisksFull /\ AloneInv /\ LoadInv /\ FlowsInv /\ CallOwns(c)
      /\ text = Full(activeFile)
    BY <1>2 DEF FullInv, PatientInv, WaitInv, OwnInv
<1>4. PICK new : Issues({c}, new) /\ new.kind = "render"
    BY IssueNextEffect DEF Syncs
<1>5. \A d \in calls \ {c} : d.kind = "label"
    <2>1. CASE c.kind = "load"
        BY <1>3, <2>1 DEF LoadInv, InFlight, FlowsInv, Syncs
    <2>2. CASE c.kind \in Switches
        BY <1>3, <2>2 DEF AloneInv, Movers
    <2>3. QED
        BY <2>1, <2>2
<1>6. \A d \in calls' : d.kind \in {"label", "render"}
    BY <1>4, <1>5 DEF Issues
<1>7. \A f \in Files : disk[f] = Full(f) \/ f = activeFile
    BY <1>3, <1>5 DEF DisksFull, CallOwns, Switches
<1>8. PendingFull' /\ DisksFull'
    BY <1>3, <1>6, <1>7 DEF PendingFull, DisksFull, Full, InFlight, Movers, Switches, server
<1>9. PanesFull'
    BY <1>3 DEF PanesFull, Active, Full, server
<1>10. \A d \in calls' : CallFull(d)'
    BY <1>6 DEF CallFull, Switches
<1>11. QED
    BY <1>8, <1>9, <1>10

LEMMA ContinuationFull ==
    ASSUME TypeOK, CallsInv, WaitInv, PatientInv, OwnInv, FullInv, NEW c \in calls, Continuation(c),
           UNCHANGED user
    PROVE  FullInv'
<1>1. /\ UNCHANGED <<server, typed, lost>>
      /\ c.text \in Texts /\ c.file \in Files \cup {NoFile} /\ source \in Texts
      /\ activeEditor \in {"none", "source", "preview"}
    BY TextsGiven
       DEF Continuation, Discard, Accept, FillPreview, FillSource, FillDownload, Load, AfterLoad,
           Label, Retarget, Switch, history, TypeOK
<1>2. Keeping => /\ Owning /\ AloneInv /\ LoadInv /\ DownloadInv
                 /\ CallOwns(c) /\ CallFull(c) /\ PanesFull
    BY KeepingIs DEF OwnInv, PatientInv, WaitInv, FullInv
<1>3. CASE Discard(c) \/ Label(c)
    <2>1. calls' = calls \ {c} /\ UNCHANGED <<source, preview, activeEditor>> /\ c.kind \notin Movers
        BY <1>3 DEF Discard, Headers, Label, Finish, panes, Syncs, Movers, Switches
    <2>2. QED
        BY <1>1, <2>1, KeptFull DEF Active
<1>4. CASE FillPreview(c) \/ FillSource(c) \/ FillDownload(c)
    <2>1. calls' = calls \ {c} /\ UNCHANGED activeEditor /\ c.kind \notin Movers \cup {"load", "label"}
        BY <1>4 DEF FillPreview, FillSource, FillDownload, Finish, Syncs, Movers, Switches
    <2>2. Keeping => Active' = Active
        <3>1. Keeping => activeEditor # "none" /\ (c.kind = "download" => activeEditor = "preview")
            BY <1>2, <2>1 DEF LoadInv, DownloadInv
        <3>2. QED
            BY <1>1, <1>4, <2>1, <3>1 DEF FillPreview, FillSource, FillDownload, Active
    <2>3. QED
        BY <1>1, <2>1, <2>2, KeptFull
<1>5. CASE Accept(c)
    <2>1. PICK new : Starts(c, new)
        BY <1>5, AcceptEffect
    <2>2. /\ new.kind \in Syncs /\ calls' = (calls \ {c}) \cup {new} /\ c.kind \notin Movers
          /\ UNCHANGED <<source, preview, activeEditor>>
        BY <1>5, <2>1 DEF Starts, Accept, Headers, panes, Syncs, Movers, Switches
    <2>3. QED
        BY <1>1, <2>2, KeptFull DEF Active
<1>6. CASE Load(c)
    <2> DEFINE text == IF c.ok /\ c.file # NoFile THEN c.text ELSE source
    <2>1. /\ c.kind = "load" /\ c.at = "answered" /\ text \in Texts
          /\ IssueNext({c}, "render", text) /\ activeEditor' = "source" /\ source' = text
        BY <1>1, <1>6 DEF Load, AfterLoad
    <2>2. ASSUME Keeping PROVE text = Full(activeFile)
        <3>1. c.ok /\ c.file = activeFile /\ c.text = Full(activeFile)
            BY <1>2, <2>1, <2>2 DEF CallOwns, CallFull
        <3>2. activeEditor = "none" /\ source = Blank /\ typed[NoFile] = {}
            BY <1>2, <2>1, <2>2 DEF LoadInv, InFlight, PanesFull
        <3>3. Blank = Full(NoFile)
            BY <3>2 DEF Full, Blank
        <3>4. QED
            BY <3>1, <3>2, <3>3
    <2> HIDE DEF text
    <2>3. c.kind \notin Switches
        BY <2>1 DEF Switches
    <2>4. QED
        BY <1>1, <2>1, <2>2, <2>3, ReplaceFull
<1>7. CASE Switch(c)
    <2>1. /\ c.kind \in Switches /\ c.at = "answered"
          /\ IssueNext({c}, "render", c.text) /\ activeEditor' = "source" /\ source' = c.text
        BY <1>7 DEF Switch
    <2>2. Keeping => c.text = Full(activeFile)
        BY <1>2, <2>1 DEF CallOwns, CallFull
    <2>3. QED
        BY <1>1, <2>1, <2>2, ReplaceFull
<1>8. CASE Retarget(c)
    <2>1. SUFFICES ASSUME Keeping'
                   PROVE  PendingFull' /\ DisksFull' /\ (\A d \in calls' : CallFull(d)') /\ PanesFull'
        BY DEF FullInv
    <2>2. Keeping
        BY <1>1, <2>1 DEF Keeping, Patient, ReadsWork
    <2>3. c.kind = "get" /\ c.at = "answered" /\ c.ok /\ calls = {c} /\ c.text = Full(c.file)
        BY <1>2, <1>8, <2>2 DEF Retarget, CallOwns, CallFull, AloneInv, Movers
    <2>4. IssuePlain({c}, "open", c.file, c.text) /\ UNCHANGED panes /\ "open" \in Kinds
        BY <1>8, <2>3 DEF Retarget, Kinds, Switches
    <2>5. PICK new : Issues({c}, new) /\ new.kind = "open" /\ new.file = c.file /\ new.text = c.text
        BY <1>1, <2>4, IssuePlainEffect
    <2>6. calls' = {new} /\ new.at = "sent"
        BY <2>3, <2>5 DEF Issues
    <2>7. PendingFull' /\ DisksFull'
        BY <1>1, <2>2, <2>3 DEF FullInv, PendingFull, DisksFull, Full, InFlight, Movers, server
    <2>8. PanesFull'
        BY <1>1, <1>2, <2>2, <2>3, <2>4 DEF PanesFull, Switched, InFlight, Full, Active, Switches, panes, server
    <2>9. CallFull(new)'
        BY <1>1, <2>3, <2>5 DEF CallFull, Full
    <2>10. QED
        BY <2>6, <2>7, <2>8, <2>9
<1>9. QED
    BY <1>3, <1>4, <1>5, <1>6, <1>7, <1>8 DEF Continuation

LEMMA FullStep ==
    ASSUME TypeOK, CallsInv, WaitInv, PatientInv, SavedInv, OwnInv, FullInv, [Next]_vars
    PROVE  FullInv'
<1>1. CASE UNCHANGED vars
    BY <1>1
       DEF vars, panes, fetches, server, history, FullInv, Keeping, Patient, ReadsWork, PendingFull,
           DisksFull, CallFull, PanesFull, Full, Active, Switched, InFlight
<1>2. CASE Next
    <2>1. UNCHANGED user
        BY <1>2 DEF Next
    <2>2. CASE User
        BY <2>1, <2>2, UserFull
    <2>3. CASE System
        BY <2>1, <2>3, TimersFull, ServerFull, ContinuationFull, FlushFull DEF System
    <2>4. ASSUME NEW c \in calls, Fail(c) PROVE FullInv'
        BY <2>4 DEF Fail, FullInv, Keeping
    <2>5. QED
        BY <1>1, <1>2, <2>2, <2>3, <2>4 DEF Next, Rest
<1>3. QED
    BY <1>1, <1>2

LEMMA InitFull == Init => FullInv
<1>1. SUFFICES ASSUME Init PROVE FullInv
    OBVIOUS
<1>2. \A c \in calls : c.kind \in {"load", "label"} /\ c.at = "sent"
    BY <1>1 DEF Init, Call
<1>3. \A c \in calls : CallFull(c)
    BY <1>2 DEF CallFull, Switches
<1>4. PendingFull /\ DisksFull /\ PanesFull
    BY <1>1 DEF Init, PendingFull, DisksFull, PanesFull, Full, Fresh
<1>5. QED
    BY <1>3, <1>4 DEF FullInv

-----------------------------------------------------------------------------
(* The theorems. *)

\* No call has failed that could not.
LostInv == lost \subseteq user.losable

LEMMA LostStep == ASSUME LostInv, [Next]_vars PROVE LostInv'
<1>1. user' = user /\ (lost' = lost \/ \E c \in calls : c.kind \in user.losable /\ lost' = lost \cup {c.kind})
    BY DEF vars, history, Next, User, TypeSource, TypePreview, Edit, ClickFile, ClickUpload, ClickDownload,
           System, FireRender, FireSerialize, Server, ServeRender, ServeSerialize, ServeFile, ServeOpen,
           ServeUpload, Continuation, Discard, Accept, FillPreview, FillSource, FillDownload, Load,
           Label, Retarget, Switch, Flush, Fail, Rest
<1>2. QED
    BY <1>1 DEF LostInv

\* The inductive invariant.
EditorInv ==
    /\ TypeOK /\ CallsInv /\ WaitInv /\ PatientInv
    /\ FollowInv /\ SavedInv /\ OwnInv /\ ShownInv /\ FullInv
    /\ LostInv

LEMMA EditorInvariant == Spec => []EditorInv
<1>1. Init => EditorInv
    <2>1. Init => LostInv
        BY DEF Init, LostInv
    <2>2. QED
        BY <2>1, InitTyped, InitCalls, InitWait, InitPatient, InitFollow, InitSaved, InitOwn, InitShown, InitFull
           DEF EditorInv
<1>2. EditorInv /\ [Next]_vars => EditorInv'
    BY TypeStep, CallsStep, WaitStep, PatientStep, FollowStep, SavedStep, OwnStep, ShownStep, FullStep, LostStep
       DEF EditorInv
<1>3. QED
    BY <1>1, <1>2, PTL DEF Spec

\* Of a user who waits for files to be there, and of a page whose requests arrive
\* in order and whose bodies come at once: what is saved in the end is what the
\* source pane shows, however hastily the user alternates between the panes.
THEOREM WhatIsShownIsSaved ==
    ASSUME ServedInOrder, BodiesPrompt, \A u \in Users : u.patience >= 1
    PROVE  Spec => []ShownIsSaved
<1>1. EditorInv => ShownIsSaved
    <2>1. SUFFICES ASSUME EditorInv, Settled, lost = {}, switches = 0, activeFile # NoFile
                   PROVE  disk[activeFile] = source
        BY DEF ShownIsSaved
    <2>2. /\ Careful /\ timers = {} /\ calls = {} /\ pending = NoSave
          /\ activeFile \in Files /\ activeEditor \in {"none", "source", "preview"}
        BY <2>1 DEF EditorInv, TypeOK, Careful, Settled
    <2>3. activeEditor # "none"
        BY <2>1, <2>2 DEF EditorInv, WaitInv, LoadInv, InFlight
    <2>4. SavesDue
        BY <2>1, <2>2, <2>3 DEF SavesDue, InFlight
    <2>5. Saved
        BY <2>1, <2>2, <2>4 DEF EditorInv, SavedInv, OnItsWay, Unserved
    <2>6. pending # [file |-> activeFile, text |-> Active]
        BY <2>1, <2>2, BlankFile
    <2>7. disk[activeFile] = Active
        BY <2>5, <2>6 DEF Saved
    <2>8. activeEditor = "preview" => source = preview
        BY <2>1, <2>2 DEF EditorInv, FollowInv, FollowsTo, Last
    <2>9. QED
        BY <2>2, <2>3, <2>7, <2>8 DEF Active
<1>2. QED
    BY <1>1, EditorInvariant, PTL

\* A file holds only text that descends from it, whatever the order in which the
\* requests arrive, as long as no GET /file fails and no call of a load or a
\* switch is lost.
THEOREM FilesKeepTheirText ==
    ASSUME \A u \in Users : u.patience = 2 =>
               /\ u.unreadable = {} /\ u.tooLarge = {}
               /\ u.losable \cap ({"load"} \cup Switches) = {}
    PROVE  Spec => []OwnFile
<1>1. EditorInv => OwnFile
    BY DEF EditorInv, OwnFile, OwnInv, Owning, Patient, ReadsWork, ServerOwns, LostInv, TypeOK
<1>2. QED
    BY <1>1, EditorInvariant, PTL

\* Both panes, the header, the server and the text agree at rest, as long as no
\* GET /file fails and bodies come at once; the order in which the requests
\* arrive does not matter to it.
THEOREM PanesAgreeAtRest ==
    ASSUME BodiesPrompt,
           \A u \in Users : u.patience = 2 => u.unreadable = {} /\ u.tooLarge = {}
    PROVE  Spec => []PanesAgree
<1>1. EditorInv => PanesAgree
    <2>1. SUFFICES ASSUME EditorInv, Patient, Settled, lost = {}
                   PROVE  /\ source.edits \notin Broken => preview = source
                          /\ shown = activeFile /\ source.file = activeFile
        BY DEF PanesAgree
    <2>2. /\ Careful /\ ReadsWork /\ timers = {} /\ calls = {}
          /\ activeEditor \in {"none", "source", "preview"}
        BY <2>1, PatientIsCareful DEF EditorInv, TypeOK, ReadsWork, Patient, Settled
    <2>3. activeEditor # "none" /\ ~Switched
        BY <2>1, <2>2 DEF EditorInv, WaitInv, LoadInv, InFlight, Switched
    <2>4. source.edits \notin Broken => preview = source
        BY <2>1, <2>2, <2>3 DEF EditorInv, FollowInv, FollowsTo, Last
    <2>5. shown = activeFile
        BY <2>1, <2>2, <2>3 DEF EditorInv, ShownInv, Showing, InFlight
    <2>6. source.file = activeFile
        BY <2>1, <2>2, <2>3 DEF EditorInv, OwnInv, Owning, PanesOwn
    <2>7. QED
        BY <2>4, <2>5, <2>6
<1>2. QED
    BY <1>1, EditorInvariant, PTL

\* No edit is lost, as long as no GET /file fails and the requests arrive in the
\* order they were sent; late bodies do not matter to it.
THEOREM EditsAreKept ==
    ASSUME ServedInOrder,
           \A u \in Users : u.patience = 2 => u.unreadable = {} /\ u.tooLarge = {}
    PROVE  Spec => []NoLostEdit
<1>1. EditorInv => NoLostEdit
    <2>1. SUFFICES ASSUME EditorInv, Patient, Settled, lost = {}
                   PROVE  \A f \in Files : disk[f] = Full(f)
        BY DEF NoLostEdit, Full
    <2>2. Keeping
        BY <2>1 DEF Keeping, ReadsWork, Patient, EditorInv, TypeOK
    <2>3. QED
        BY <2>1, <2>2, SettledFull DEF EditorInv
<1>2. QED
    BY <1>1, EditorInvariant, PTL
=============================================================================
