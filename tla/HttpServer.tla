----------------------------- MODULE HttpServer -----------------------------
(***************************************************************************)
(* The blocking accept loop of src-c/http.c, the reading of one request at *)
(* a time into a growing buffer, and the shutdown by a signal, which       *)
(* src-c/main.c handles in the main thread.                                *)
(*                                                                         *)
(* Bytes are counted, not stored: a request is the length of its head (up  *)
(* to and with the empty line), the Content-Length it declares and the     *)
(* number of bytes that follow the head.  How a complete request is routed *)
(* and what it changes is the subject of Editor.                           *)
(***************************************************************************)
EXTENDS Integers

CONSTANTS
    InitialCap,   \* the first size of req_buf, 8192
    Chunk,        \* the room wanted before each recv, 4096
    HeaderLimit,  \* HTTP_HEADER_LIMIT, 65536
    BodyLimit,    \* HTTP_BODY_LIMIT, 8 MiB
    Requests,     \* what a client may send
    MaxClients,   \* bound: connections
    MaxFaults     \* bound: failing allocations and accepts

ASSUME ConstantsAssumption ==
    /\ Chunk \in Nat \ {0}
    /\ InitialCap \in Nat
    /\ Chunk < InitialCap
    /\ HeaderLimit \in Nat
    /\ InitialCap <= HeaderLimit
    /\ BodyLimit \in Nat
    /\ Requests \subseteq [head : Nat \ {0}, declared : Nat \cup {-1}, body : Nat]
    /\ MaxClients \in Nat
    /\ MaxFaults \in Nat

VARIABLES
    main,        \* where the main thread is
    keepRunning, \* g_keep_running
    serverFd,    \* g_server_fd: "unset", "set", or "invalid" again
    listening,   \* the listener is open
    arrived,     \* connections so far
    accepted,    \* how many of them accept has returned
    answered,    \* how many of them were answered and closed
    request,     \* what the client of the current connection sends
    coming,      \* bytes of it not received yet
    gone,        \* the client has closed the connection
    interrupted, \* the recv under way was interrupted by the signal
    cap,         \* req_cap
    total,       \* total_read
    answer,      \* the status line of the answer, or "routed"
    cut,         \* history: a recv of this connection failed by its end or by the signal
    signalled,   \* history: SIGINT or SIGTERM has been sent
    faults       \* history: failed calls so far

loop       == <<main, keepRunning, serverFd, listening>>
clients    == <<arrived, accepted, answered>>
connection == <<request, coming, gone, interrupted>>
buffer     == <<cap, total>>
vars       == <<loop, clients, connection, buffer, answer, cut, signalled, faults>>

NoRequest == [head |-> 1, declared |-> 0, body |-> 0]

\* A Content-Length that is no number.
Malformed == -1

Ended == main \in {"exit", "killed"}

Statuses == {"none", "routed", "400 head", "400 length", "400 line", "413", "500"}

TypeOK ==
    /\ main \in {"setup", "check", "accept", "blocked", "failed", "header", "recv", "length",
                 "body", "respond", "send", "cleanup", "exit", "killed"}
    /\ keepRunning \in BOOLEAN
    /\ serverFd \in {"unset", "set", "invalid"}
    /\ listening \in BOOLEAN
    /\ arrived \in 0..MaxClients
    /\ accepted \in 0..arrived
    /\ answered \in 0..accepted
    /\ request \in Requests \cup {NoRequest}
    /\ coming \in Nat
    /\ coming + total <= request.head + request.body
    /\ gone \in BOOLEAN
    /\ interrupted \in BOOLEAN
    /\ cap \in Nat
    /\ total \in Nat
    /\ answer \in Statuses
    /\ cut \in BOOLEAN
    /\ signalled \in BOOLEAN
    /\ faults \in 0..MaxFaults

Init ==
    /\ main = "setup"
    /\ keepRunning = TRUE
    /\ serverFd = "unset"
    /\ listening = FALSE
    /\ arrived = 0
    /\ accepted = 0
    /\ answered = 0
    /\ request = NoRequest
    /\ coming = 0
    /\ gone = FALSE
    /\ interrupted = FALSE
    /\ cap = InitialCap
    /\ total = 0
    /\ answer = "none"
    /\ cut = FALSE
    /\ signalled = FALSE
    /\ faults = 0

Fails ==
    /\ faults < MaxFaults
    /\ faults' = faults + 1

-----------------------------------------------------------------------------
(***************************************************************************)
(* http_server_run.                                                        *)
(***************************************************************************)

\* bind and listen, then the browser is launched; without a listener the
\* program ends.
Bind ==
    /\ main = "setup"
    /\ ~listening
    /\ \/ (listening' = TRUE /\ UNCHANGED <<main, faults>>)
       \/ (Fails /\ main' = "exit" /\ UNCHANGED listening)
    /\ UNCHANGED <<keepRunning, serverFd, clients, connection, buffer, answer, cut, signalled>>

\* From here on the signal handler knows the listener.
Publish ==
    /\ main = "setup"
    /\ listening
    /\ serverFd' = "set"
    /\ main' = "check"
    /\ UNCHANGED <<keepRunning, listening, clients, connection, buffer, answer, cut, signalled, faults>>

CheckRunning ==
    /\ main = "check"
    /\ main' = IF keepRunning THEN "accept" ELSE "cleanup"
    /\ UNCHANGED <<keepRunning, serverFd, listening, clients, connection, buffer, answer, cut, signalled, faults>>

\* accept is entered; on a closed descriptor it fails at once, and it may fail
\* for lack of resources.
EnterAccept ==
    /\ main = "accept"
    /\ \/ (listening /\ main' = "blocked" /\ UNCHANGED faults)
       \/ (~listening /\ main' = "failed" /\ UNCHANGED faults)
       \/ (listening /\ Fails /\ main' = "failed")
    /\ UNCHANGED <<keepRunning, serverFd, listening, clients, connection, buffer, answer, cut, signalled>>

\* Mutant of Accept: the count of the previous request is kept.
AcceptStale(r) ==
    /\ main = "blocked"
    /\ accepted < arrived
    /\ accepted' = accepted + 1
    /\ request' = r
    /\ coming' = r.head + r.body
    /\ gone' = FALSE
    /\ interrupted' = FALSE
    /\ cut' = FALSE
    /\ cap' = InitialCap
    /\ answer' = "none"
    /\ main' = "header"
    /\ UNCHANGED <<keepRunning, serverFd, listening, arrived, answered, total, signalled, faults>>

\* A connection: process_client starts with a buffer of the initial size.
Accept(r) ==
    /\ main = "blocked"
    /\ accepted < arrived
    /\ accepted' = accepted + 1
    /\ request' = r
    /\ coming' = r.head + r.body
    /\ gone' = FALSE
    /\ interrupted' = FALSE
    /\ cut' = FALSE
    /\ cap' = InitialCap
    /\ total' = 0
    /\ \/ (answer' = "none" /\ main' = "header" /\ UNCHANGED faults)
       \/ (Fails /\ answer' = "500" /\ main' = "send")
    /\ UNCHANGED <<keepRunning, serverFd, listening, arrived, answered, signalled>>

\* Mutant of AcceptFailed: any error of accept ends the loop.
AcceptFailedFatal ==
    /\ main = "failed"
    /\ main' = "cleanup"
    /\ UNCHANGED <<keepRunning, serverFd, listening, clients, connection, buffer, answer, cut, signalled, faults>>

\* An error of accept is retried while the server is to run.
AcceptFailed ==
    /\ main = "failed"
    /\ main' = IF keepRunning THEN "check" ELSE "cleanup"
    /\ UNCHANGED <<keepRunning, serverFd, listening, clients, connection, buffer, answer, cut, signalled, faults>>

-----------------------------------------------------------------------------
(***************************************************************************)
(* process_client.                                                         *)
(***************************************************************************)
Smaller(m, n) == IF m <= n THEN m ELSE n

\* Mutant of Grown: the byte for the terminator is forgotten.
GrownShort == Smaller(2 * cap, HeaderLimit)

\* The size the buffer grows to when it has no room for a Chunk.
Grown == Smaller(2 * cap, HeaderLimit + 1)

WantsMore == total < HeaderLimit

GrowHeader ==
    /\ main = "header"
    /\ WantsMore
    /\ IF total + Chunk + 1 > cap
       THEN \/ (cap' = Grown /\ main' = "recv" /\ UNCHANGED <<answer, faults>>)
            \/ (Fails /\ answer' = "500" /\ main' = "send" /\ UNCHANGED cap)
       ELSE main' = "recv" /\ UNCHANGED <<cap, answer, faults>>
    /\ UNCHANGED <<keepRunning, serverFd, listening, clients, connection, total, cut, signalled>>

\* recv returns n bytes of what has arrived.
Receive(n) ==
    /\ ~interrupted
    /\ n <= coming
    /\ coming' = coming - n
    /\ total' = total + n
    /\ UNCHANGED <<request, gone, interrupted, cap>>

\* recv returns 0 or an error: the client has closed, the signal came, or the
\* buffer has no room.
ReceiveNothing(room) ==
    /\ interrupted \/ room = 0 \/ (gone /\ coming = 0)
    /\ cut' = (interrupted \/ gone)
    /\ interrupted' = FALSE
    /\ UNCHANGED <<request, coming, gone, buffer>>

Room == cap - total - 1

\* The header loop ends with the empty line, a failed recv or the limit.
ReceiveHeader ==
    /\ main = "recv"
    /\ \/ /\ \E n \in 1..Room : Receive(n)
          /\ main' = IF total' >= request.head THEN "length" ELSE "header"
          /\ UNCHANGED <<answer, cut>>
       \/ /\ ReceiveNothing(Room)
          /\ answer' = "400 head"
          /\ main' = "send"
    /\ UNCHANGED <<keepRunning, serverFd, listening, clients, signalled, faults>>

HeaderTooLong ==
    /\ main = "header"
    /\ ~WantsMore
    /\ answer' = "400 head"
    /\ main' = "send"
    /\ UNCHANGED <<keepRunning, serverFd, listening, clients, connection, buffer, cut, signalled, faults>>

Expected == request.head + request.declared

\* Mutant of Needed: no room for the terminator.
NeededShort == Expected

Needed == Expected + 1

\* Content-Length is read from the head; the buffer grows to hold the body.
CheckLength ==
    /\ main = "length"
    /\ \/ /\ request.declared = Malformed
          /\ answer' = "400 length" /\ main' = "send" /\ UNCHANGED <<cap, faults>>
       \/ /\ request.declared > BodyLimit
          /\ answer' = "413" /\ main' = "send" /\ UNCHANGED <<cap, faults>>
       \/ /\ request.declared \in 0..BodyLimit
          /\ cap' = IF Needed > cap THEN Needed ELSE cap
          /\ main' = "body" /\ UNCHANGED <<answer, faults>>
       \/ /\ request.declared \in 0..BodyLimit
          /\ Needed > cap
          /\ Fails /\ answer' = "500" /\ main' = "send" /\ UNCHANGED cap
    /\ UNCHANGED <<keepRunning, serverFd, listening, clients, connection, total, cut, signalled>>

\* Mutant of BodyMissing: the count of the body ignores the head.
BodyMissingHeadless == total < request.declared

BodyMissing == total < Expected

\* The body loop ends with the declared length or a failed recv.
ReceiveBody ==
    /\ main = "body"
    /\ BodyMissing
    /\ \/ /\ \E n \in 1..(Expected - total) : Receive(n)
          /\ UNCHANGED <<main, cut>>
       \/ /\ ReceiveNothing(Expected - total)
          /\ main' = "respond"
    /\ UNCHANGED <<keepRunning, serverFd, listening, clients, answer, signalled, faults>>

\* The terminator is written at total, the request line parsed and routed: the
\* line may be malformed or the method not supported.
Respond ==
    /\ main \in {"body", "respond"}
    /\ main = "body" => ~BodyMissing
    /\ answer' \in {"routed", "400 line"}
    /\ main' = "send"
    /\ UNCHANGED <<keepRunning, serverFd, listening, clients, connection, buffer, cut, signalled, faults>>

\* The answer is sent and the connection closed.
Send ==
    /\ main = "send"
    /\ answered' = answered + 1
    /\ main' = "check"
    /\ UNCHANGED <<keepRunning, serverFd, listening, arrived, accepted, connection, buffer, answer,
                   cut, signalled, faults>>

\* A send to a client that has closed the connection raises SIGPIPE, which
\* nothing ignores.
BrokenPipe ==
    /\ main = "send"
    /\ gone
    /\ main' = "killed"
    /\ UNCHANGED <<keepRunning, serverFd, listening, clients, connection, buffer, answer, cut, signalled, faults>>

\* After the loop the listener is closed, once more if the handler did it.
Cleanup ==
    /\ main = "cleanup"
    /\ listening' = FALSE
    /\ serverFd' = "invalid"
    /\ main' = "exit"
    /\ UNCHANGED <<keepRunning, clients, connection, buffer, answer, cut, signalled, faults>>

-----------------------------------------------------------------------------
\* The environment.

Connect ==
    /\ listening
    /\ arrived < MaxClients
    /\ arrived' = arrived + 1
    /\ UNCHANGED <<loop, accepted, answered, connection, buffer, answer, cut, signalled, faults>>

Reading == main \in {"header", "recv", "length", "body"}

\* The client closes the connection; what it has already sent may be lost.
HangUp ==
    /\ Reading \/ main \in {"respond", "send"}
    /\ ~gone
    /\ gone' = TRUE
    /\ coming' \in 0..coming
    /\ UNCHANGED <<loop, clients, request, interrupted, buffer, answer, cut, signalled, faults>>

\* A recv that nothing will arrive for.
Stalled ==
    /\ main = "recv" \/ (main = "body" /\ BodyMissing)
    /\ coming = 0
    /\ ~gone

\* Mutant of Signal: the handler leaves the listener open and the interrupted
\* accept is restarted.
SignalFlagOnly ==
    /\ ~Ended
    /\ ~signalled
    /\ signalled' = TRUE
    /\ keepRunning' = FALSE
    /\ UNCHANGED <<main, serverFd, listening, clients, connection, buffer, answer, cut, faults>>

\* handle_signal, in the main thread: it closes the listener it knows, and a
\* call that blocks returns with an error.
Signal ==
    /\ ~Ended
    /\ ~signalled
    /\ signalled' = TRUE
    /\ keepRunning' = FALSE
    /\ IF serverFd = "set"
       THEN listening' = FALSE /\ serverFd' = "invalid"
       ELSE UNCHANGED <<listening, serverFd>>
    /\ main' = IF main = "blocked" THEN "failed" ELSE main
    /\ interrupted' = (Stalled \/ interrupted)
    /\ UNCHANGED <<clients, request, coming, gone, buffer, answer, cut, faults>>

Over ==
    /\ Ended
    /\ UNCHANGED vars

MainThread ==
    \/ Bind \/ Publish \/ CheckRunning \/ EnterAccept \/ AcceptFailed
    \/ \E r \in Requests : Accept(r)
    \/ GrowHeader \/ ReceiveHeader \/ HeaderTooLong \/ CheckLength \/ ReceiveBody
    \/ Respond \/ Send \/ BrokenPipe \/ Cleanup

Next == MainThread \/ Connect \/ HangUp \/ Signal \/ Over

Spec == Init /\ [][Next]_vars

\* The main thread runs, and no client keeps a silent connection open for ever:
\* the server itself has no timeout.
FairSpec == Spec /\ WF_vars(MainThread) /\ WF_vars(HangUp /\ Stalled)

-----------------------------------------------------------------------------
(***************************************************************************)
(* Properties.                                                             *)
(***************************************************************************)

\* The terminator after what was read is always written inside the buffer,
\* however the bytes of head and body arrive.
BufferInBounds == total < cap

\* A head that fits in HTTP_HEADER_LIMIT is never refused for its length: the
\* header loop reaches its last byte and never asks recv for nothing.
HeadAccepted ==
    answer = "400 head" => request.head > HeaderLimit \/ cut

\* A routed request has all the bytes it declared, or its connection broke: a
\* body split over many segments is never routed early.
WholeRequest ==
    answer = "routed" => cut \/ total >= request.head + request.declared

\* Every connection is answered, unless a signal or SIGPIPE ends the server: no
\* request and no failing call of one connection stops the loop for the others.
EveryoneServed ==
    \A n \in 1..MaxClients : arrived >= n ~> answered >= n \/ signalled \/ main = "killed"

\* A signal ends the server wherever it hits the main thread: before the
\* listener is published, between the check of g_keep_running and accept, in
\* accept, or while a request is read.
StopsOnSignal == signalled ~> Ended
=============================================================================
