-------------------------- MODULE HttpServerProofs --------------------------
(***************************************************************************)
(* The request buffer of HttpServer, for all limits, requests and ways to  *)
(* cut a request into segments.                                            *)
(***************************************************************************)
EXTENDS HttpServer, TLAPS

ReadingHead == main \in {"header", "recv"}
Serving     == Reading \/ main \in {"respond", "send"}

\* The connection at hand is the one that was accepted last.
ServingInv == Serving => answered < accepted

\* While a request is read there is no answer to it; what the loops know of
\* the bytes read when they hand over to each other.
StageInv ==
    /\ Reading \/ main = "respond" => answer = "none"
    /\ ReadingHead => total < request.head
    /\ main = "recv" => WantsMore
    /\ main = "body" => request.declared \in Nat
    /\ main = "respond" => cut

\* The buffer has a byte to spare for the terminator, and before a recv of the
\* head another one to read into.
BufferInv ==
    /\ BufferInBounds
    /\ ReadingHead => cap <= HeaderLimit + 1
    /\ main = "recv" => Room >= 1
    /\ main = "body" => Needed <= cap

Inv ==
    /\ TypeOK
    /\ ServingInv
    /\ StageInv
    /\ BufferInv
    /\ HeadAccepted
    /\ WholeRequest

-----------------------------------------------------------------------------
\* TypeOK in two parts: where the threads are, and how much there is of each.
FlagsOK ==
    /\ main \in {"setup", "check", "accept", "blocked", "failed", "header", "recv", "length",
                 "body", "respond", "send", "cleanup", "exit", "killed"}
    /\ keepRunning \in BOOLEAN
    /\ serverFd \in {"unset", "set", "invalid"}
    /\ listening \in BOOLEAN
    /\ request \in Requests \cup {NoRequest}
    /\ gone \in BOOLEAN
    /\ interrupted \in BOOLEAN
    /\ answer \in Statuses
    /\ cut \in BOOLEAN
    /\ signalled \in BOOLEAN

CountsOK ==
    /\ arrived \in 0..MaxClients
    /\ accepted \in 0..arrived
    /\ answered \in 0..accepted
    /\ coming \in Nat
    /\ coming + total <= request.head + request.body
    /\ cap \in Nat
    /\ total \in Nat
    /\ faults \in 0..MaxFaults

LEMMA TypeParts == TypeOK <=> FlagsOK /\ CountsOK
BY DEF TypeOK, FlagsOK, CountsOK

\* The fields of a request are numbers, whether or not there is a connection.
LEMMA RequestFields ==
    ASSUME TypeOK
    PROVE  /\ request.head \in Nat \ {0}
           /\ request.declared \in Int
           /\ request.body \in Nat
<1>1. CASE request \in Requests
    BY <1>1, ConstantsAssumption
<1>2. CASE request = NoRequest
    BY <1>2 DEF NoRequest
<1>3. QED
    BY <1>1, <1>2 DEF TypeOK

\* The first state has no connection and an empty buffer.
LEMMA InitInv == Init => Inv
<1>1. SUFFICES ASSUME Init PROVE Inv
    OBVIOUS
<1>2. TypeOK
    <2>1. FlagsOK
        BY <1>1 DEF Init, FlagsOK, Statuses
    <2>2. CountsOK
        BY <1>1, ConstantsAssumption DEF Init, CountsOK, NoRequest
    <2>3. QED
        BY <2>1, <2>2, TypeParts
<1>3. BufferInv
    BY <1>1, ConstantsAssumption DEF Init, BufferInv, BufferInBounds, ReadingHead
<1>4. ServingInv /\ StageInv
    BY <1>1 DEF Init, ServingInv, Serving, Reading, StageInv, ReadingHead
<1>5. HeadAccepted /\ WholeRequest
    BY <1>1 DEF Init, HeadAccepted, WholeRequest
<1>6. QED
    BY <1>2, <1>3, <1>4, <1>5 DEF Inv

\* A step that leaves connection, buffer, answer and cut alone, and does not
\* take the main thread into process_client, keeps what is known of them.
LEMMA AsideInv ==
    ASSUME Inv, TypeOK', ServingInv',
           UNCHANGED <<request, buffer, answer, cut>>,
           ~Serving' \/ main' = main \/ main' = "send"
    PROVE  Inv'
<1>1. StageInv'
    BY DEF Inv, StageInv, buffer, ReadingHead, Reading, Serving, WantsMore
<1>2. BufferInv'
    BY DEF Inv, BufferInv, BufferInBounds, buffer, ReadingHead, Reading, Serving, Room,
           Needed, Expected
<1>3. HeadAccepted' /\ WholeRequest'
    BY DEF Inv, HeadAccepted, WholeRequest, buffer
<1>4. QED
    BY <1>1, <1>2, <1>3 DEF Inv

\* A step of the main thread outside process_client that moves on, and may
\* publish or close the listener.
LEMMA ControlInv ==
    ASSUME Inv,
           UNCHANGED <<keepRunning, clients, connection, buffer, answer, cut, signalled, faults>>,
           main' \in {"check", "accept", "cleanup", "exit", "killed"},
           serverFd' \in {serverFd, "set", "invalid"},
           listening' \in {listening, FALSE}
    PROVE  Inv'
<1>1. FlagsOK /\ CountsOK
    BY TypeParts DEF Inv
<1>2. UNCHANGED <<request, gone, interrupted, coming, arrived, accepted, answered, cap, total>>
    BY DEF clients, connection, buffer
<1>3. serverFd' \in {"unset", "set", "invalid"} /\ listening' \in BOOLEAN
    BY <1>1 DEF FlagsOK
<1>4. FlagsOK'
    BY <1>1, <1>2, <1>3 DEF FlagsOK
<1>5. CountsOK'
    BY <1>1, <1>2 DEF CountsOK
<1>6. TypeOK'
    BY <1>4, <1>5, TypeParts DEF TypeOK, FlagsOK, CountsOK
<1>7. ~Serving'
    BY DEF Serving, Reading
<1>8. QED
    BY <1>2, <1>6, <1>7, AsideInv DEF ServingInv, buffer

\* Steps of the main thread outside process_client, of the signal handler and
\* of the clients.
LEMMA OutsideInv ==
    ASSUME Inv,
           \/ Bind \/ Publish \/ CheckRunning \/ EnterAccept \/ AcceptFailed
           \/ Send \/ BrokenPipe \/ Cleanup \/ Connect \/ HangUp \/ Signal
    PROVE  Inv'
<1> USE DEF loop, clients, connection, buffer
<1>0. FlagsOK /\ CountsOK /\ ServingInv /\ Inv
    BY TypeParts DEF Inv
<1>1. CASE Bind
    <2>1. TypeOK'
        <3>1. FlagsOK' BY <1>0, <1>1, ZenonT(60) DEF Bind, FlagsOK, Statuses
        <3>2. CountsOK' BY <1>0, <1>1, ConstantsAssumption DEF Bind, CountsOK, Fails
        <3>3. QED BY <3>1, <3>2, TypeParts DEF TypeOK, FlagsOK, CountsOK
    <2>2. ServingInv' BY <1>0, <1>1, ConstantsAssumption DEF CountsOK, Bind, ServingInv, Serving, Reading
    <2>3. QED BY <1>0, <1>1, <2>1, <2>2, AsideInv DEF Bind, Serving, Reading
<1>2. CASE Publish
    BY <1>0, <1>2, ControlInv DEF Publish
<1>3. CASE CheckRunning
    BY <1>0, <1>3, ControlInv DEF CheckRunning
<1>4. CASE EnterAccept
    <2>1. TypeOK'
        <3>1. UNCHANGED <<keepRunning, serverFd, listening, request, interrupted, answer, cut, signalled, gone>>
            BY <1>4 DEF EnterAccept
        <3>2. main' \in {"blocked", "failed"}
            BY <1>4 DEF EnterAccept
        <3>3. FlagsOK' BY <1>0, <3>1, <3>2 DEF FlagsOK
        <3>4. CountsOK' BY <1>0, <1>4, ConstantsAssumption DEF EnterAccept, CountsOK, Fails
        <3>5. QED BY <3>3, <3>4, TypeParts DEF TypeOK, FlagsOK, CountsOK
    <2>2. ServingInv' BY <1>0, <1>4, ConstantsAssumption DEF CountsOK, EnterAccept, ServingInv, Serving, Reading
    <2>3. QED BY <1>0, <1>4, <2>1, <2>2, AsideInv DEF EnterAccept, Serving, Reading
<1>5. CASE AcceptFailed
    BY <1>0, <1>5, ControlInv DEF AcceptFailed
<1>6. CASE Send
    <2>1. TypeOK'
        <3>1. FlagsOK' BY <1>0, <1>6 DEF Send, FlagsOK, Statuses
        <3>2. CountsOK' BY <1>0, <1>6, ConstantsAssumption DEF Send, CountsOK, ServingInv, Serving
        <3>3. QED BY <3>1, <3>2, TypeParts DEF TypeOK, FlagsOK, CountsOK
    <2>2. ServingInv' BY <1>0, <1>6, ConstantsAssumption DEF CountsOK, Send, ServingInv, Serving, Reading
    <2>3. QED BY <1>0, <1>6, <2>1, <2>2, AsideInv DEF Send, Serving, Reading
<1>7. CASE BrokenPipe
    BY <1>0, <1>7, ControlInv DEF BrokenPipe
<1>8. CASE Cleanup
    BY <1>0, <1>8, ControlInv DEF Cleanup
<1>9. CASE Connect
    <2>1. TypeOK'
        <3>1. UNCHANGED <<main, keepRunning, serverFd, listening, request, interrupted, answer, cut, signalled, gone>>
            BY <1>9 DEF Connect
        <3>2. FlagsOK' BY <1>0, <3>1 DEF FlagsOK
        <3>3. CountsOK' BY <1>0, <1>9, ConstantsAssumption DEF Connect, CountsOK
        <3>4. QED BY <3>2, <3>3, TypeParts DEF TypeOK, FlagsOK, CountsOK
    <2>2. ServingInv' BY <1>0, <1>9, ConstantsAssumption DEF CountsOK, Connect, ServingInv, Serving, Reading
    <2>3. QED BY <1>0, <1>9, <2>1, <2>2, AsideInv DEF Connect
<1>10. CASE HangUp
    <2>1. TypeOK'
        <3>1. UNCHANGED <<main, keepRunning, serverFd, listening, request, interrupted, answer, cut, signalled>> /\ gone' = TRUE
            BY <1>10 DEF HangUp
        <3>2. /\ UNCHANGED <<arrived, accepted, answered, cap, total, faults, request>>
              /\ coming' \in 0..coming
            BY <1>10 DEF HangUp
        <3>3. request.head \in Nat /\ request.body \in Nat
            BY <1>0, RequestFields DEF Inv
        <3>4. FlagsOK' BY <1>0, <3>1 DEF FlagsOK
        <3>5. CountsOK' BY <1>0, <3>2, <3>3 DEF CountsOK
        <3>6. QED BY <3>4, <3>5, TypeParts DEF TypeOK, FlagsOK, CountsOK
    <2>2. ServingInv' BY <1>0, <1>10, ConstantsAssumption DEF CountsOK, HangUp, ServingInv, Serving, Reading
    <2>3. QED BY <1>0, <1>10, <2>1, <2>2, AsideInv DEF HangUp
<1>11. CASE Signal
    <2>1. TypeOK'
        <3>1. FlagsOK' BY <1>0, <1>11, ZenonT(60) DEF Signal, FlagsOK, Statuses, Stalled
        <3>2. CountsOK' BY <1>0, <1>11, ConstantsAssumption DEF Signal, CountsOK
        <3>3. QED BY <3>1, <3>2, TypeParts DEF TypeOK, FlagsOK, CountsOK
    <2>2. ServingInv' BY <1>0, <1>11, ConstantsAssumption DEF CountsOK, Signal, ServingInv, Serving, Reading
    <2>3. QED BY <1>0, <1>11, <2>1, <2>2, AsideInv DEF Signal, Serving, Reading
<1>12. QED
    BY <1>1, <1>2, <1>3, <1>4, <1>5, <1>6, <1>7, <1>8, <1>9, <1>10, <1>11

-----------------------------------------------------------------------------
(* The steps of process_client. *)

\* The parts of the invariant, and the numbers of the request.
LEMMA Parts ==
    ASSUME Inv
    PROVE  /\ FlagsOK /\ CountsOK /\ ServingInv /\ StageInv /\ BufferInv
           /\ HeadAccepted /\ WholeRequest
           /\ request.head \in Nat \ {0}
           /\ request.declared \in Int
           /\ request.body \in Nat
           /\ HeaderLimit \in Nat
BY TypeParts, RequestFields, ConstantsAssumption DEF Inv

\* Answering ends the reading: what is left to show is about the answer.
LEMMA AnswerInv ==
    ASSUME Inv, Reading \/ main = "respond", main' = "send",
           FlagsOK', CountsOK', UNCHANGED <<clients, buffer>>,
           HeadAccepted', WholeRequest'
    PROVE  Inv'
<1>1. ServingInv'
    BY Parts DEF clients, ServingInv, Serving
<1>2. StageInv'
    BY DEF StageInv, Reading, ReadingHead
<1>3. BufferInv'
    BY Parts DEF buffer, BufferInv, BufferInBounds, ReadingHead
<1>4. QED
    BY <1>1, <1>2, <1>3, TypeParts DEF Inv, TypeOK, FlagsOK, CountsOK

\* A head that has reached the limit and is not complete is longer than that.
LEMMA HeaderTooLongInv ==
    ASSUME Inv, HeaderTooLong
    PROVE  Inv'
<1>1. FlagsOK'
    BY Parts DEF HeaderTooLong, FlagsOK, Statuses, connection
<1>2. CountsOK'
    BY Parts DEF HeaderTooLong, CountsOK, connection, clients, buffer
<1>3. HeadAccepted'
    <2>1. request.head > HeaderLimit
        <3>1. total < request.head
            BY Parts DEF HeaderTooLong, StageInv, ReadingHead
        <3>2. ~(total < HeaderLimit)
            BY DEF HeaderTooLong, WantsMore
        <3>3. total \in Nat
            BY Parts DEF CountsOK
        <3>4. QED
            BY <3>1, <3>2, <3>3, Parts
    <2>2. QED
        BY <2>1 DEF HeaderTooLong, HeadAccepted, connection
<1>4. WholeRequest'
    BY DEF HeaderTooLong, WholeRequest
<1>5. QED
    BY <1>1, <1>2, <1>3, <1>4, AnswerInv DEF HeaderTooLong, Reading

\* A request is routed when it is complete or its connection broke.
LEMMA RespondInv ==
    ASSUME Inv, Respond
    PROVE  Inv'
<1>1. FlagsOK'
    BY Parts DEF Respond, FlagsOK, Statuses, connection
<1>2. CountsOK'
    BY Parts DEF Respond, CountsOK, connection, clients, buffer
<1>3. HeadAccepted'
    BY DEF Respond, HeadAccepted
<1>4. WholeRequest'
    <2>1. cut \/ total >= Expected
        <3>1. CASE main = "respond"
            BY <3>1, Parts DEF StageInv
        <3>2. CASE main = "body"
            <4>1. ~(total < Expected)
                BY <3>2 DEF Respond, BodyMissing
            <4>2. total \in Nat /\ Expected \in Int
                BY Parts DEF CountsOK, Expected
            <4>3. QED
                BY <4>1, <4>2
        <3>3. QED
            BY <3>1, <3>2 DEF Respond
    <2>2. QED
        BY <2>1 DEF Respond, WholeRequest, Expected, connection, buffer
<1>5. QED
    BY <1>1, <1>2, <1>3, <1>4, AnswerInv DEF Respond, Reading

\* Growing stays within the limit and makes room for a byte.
LEMMA GrowHeaderInv ==
    ASSUME Inv, GrowHeader
    PROVE  Inv'
<1>1. FlagsOK'
    BY Parts, ZenonT(60) DEF GrowHeader, FlagsOK, Statuses, connection
<1>2. cap' \in {cap, Grown}
    BY DEF GrowHeader
<1>3. CountsOK'
    <2>1. cap' \in Nat
        BY <1>2, Parts DEF Grown, Smaller, CountsOK
    <2>2. faults' \in 0..MaxFaults
        BY Parts, ConstantsAssumption DEF GrowHeader, Fails, CountsOK
    <2>3. QED
        BY <2>1, <2>2, Parts DEF GrowHeader, CountsOK, connection, clients
<1>4. HeadAccepted' /\ WholeRequest'
    BY Parts DEF GrowHeader, HeadAccepted, WholeRequest, StageInv, Reading
<1>5. CASE main' = "recv"
    <2>1. ServingInv'
        BY Parts DEF GrowHeader, ServingInv, Serving, Reading, clients
    <2>2. StageInv'
        BY <1>5, Parts DEF GrowHeader, StageInv, ReadingHead, Reading, WantsMore, connection
    <2>3. cap' <= HeaderLimit + 1 /\ total < cap' /\ Room' >= 1
        <3>1. /\ cap \in Nat /\ total \in Nat
              /\ total < cap /\ cap <= HeaderLimit + 1 /\ total < HeaderLimit
            BY Parts DEF GrowHeader, BufferInv, BufferInBounds, ReadingHead, WantsMore, CountsOK
        <3>2. total' = total
            BY DEF GrowHeader
        <3>3. CASE total + Chunk + 1 > cap
            <4>1. cap' = Grown
                BY <1>5, <3>3 DEF GrowHeader
            <4>2. QED
                BY <3>1, <3>2, <4>1, Parts DEF Grown, Smaller, Room
        <3>4. CASE ~(total + Chunk + 1 > cap)
            <4>1. cap' = cap
                BY <3>4 DEF GrowHeader
            <4>2. QED
                BY <3>1, <3>2, <3>4, <4>1, ConstantsAssumption DEF Room
        <3>5. QED
            BY <3>3, <3>4
    <2>4. BufferInv'
        BY <1>5, <2>3 DEF GrowHeader, BufferInv, BufferInBounds, ReadingHead
    <2>5. QED
        BY <1>1, <1>3, <1>4, <2>1, <2>2, <2>4, TypeParts DEF Inv, TypeOK, FlagsOK, CountsOK
<1>6. CASE main' = "send"
    BY <1>1, <1>3, <1>4, <1>6, AnswerInv DEF GrowHeader, Reading, buffer
<1>7. QED
    BY <1>5, <1>6 DEF GrowHeader

\* The buffer has room for the body before the body is read.
LEMMA CheckLengthInv ==
    ASSUME Inv, CheckLength
    PROVE  Inv'
<1>1. FlagsOK'
    <2>1. main' \in {"body", "send"} /\ answer' \in Statuses
        BY Parts DEF CheckLength, FlagsOK, Statuses
    <2>2. UNCHANGED <<keepRunning, serverFd, listening, request, gone, interrupted, cut, signalled>>
        BY DEF CheckLength, connection
    <2>3. QED
        BY <2>1, <2>2, Parts DEF FlagsOK
<1>2. cap' \in Nat /\ cap' >= cap
    <2>1. \/ cap' = cap
          \/ request.declared \in 0..BodyLimit /\ cap' = Needed /\ Needed > cap
        BY DEF CheckLength
    <2>2. cap \in Nat
        BY Parts DEF CountsOK
    <2>3. request.declared \in 0..BodyLimit => Needed \in Nat
        BY Parts, ConstantsAssumption DEF Needed, Expected
    <2>4. QED
        BY <2>1, <2>2, <2>3
<1>3. CountsOK'
    <2>1. faults' \in 0..MaxFaults
        <3>1. faults' = faults \/ Fails
            BY DEF CheckLength
        <3>2. faults \in 0..MaxFaults
            BY Parts DEF CountsOK
        <3>3. QED
            BY <3>1, <3>2, ConstantsAssumption DEF Fails
    <2>2. QED
        BY <1>2, <2>1, Parts DEF CheckLength, CountsOK, connection, clients
<1>4. HeadAccepted' /\ WholeRequest'
    BY Parts DEF CheckLength, HeadAccepted, WholeRequest, StageInv, Reading
<1>5. CASE main' = "body"
    <2>1. ServingInv'
        BY Parts DEF CheckLength, ServingInv, Serving, Reading, clients
    <2>2. request.declared \in Nat /\ Needed <= cap'
        <3>1. request.declared \in 0..BodyLimit /\ cap' = IF Needed > cap THEN Needed ELSE cap
            BY <1>5 DEF CheckLength
        <3>2. QED
            BY <3>1, Parts, ConstantsAssumption DEF Needed, Expected, CountsOK
    <2>3. StageInv'
        BY <1>5, <2>2, Parts DEF CheckLength, StageInv, Reading, ReadingHead, connection
    <2>4. total < cap'
        BY <1>2, Parts DEF BufferInv, BufferInBounds, CountsOK
    <2>5. BufferInv'
        BY <1>5, <2>2, <2>4
        DEF CheckLength, BufferInv, BufferInBounds, ReadingHead, Needed, Expected, connection
    <2>6. QED
        BY <1>1, <1>3, <1>4, <2>1, <2>3, <2>5, TypeParts DEF Inv, TypeOK, FlagsOK, CountsOK
<1>6. CASE main' = "send"
    BY <1>1, <1>3, <1>4, <1>6, AnswerInv DEF CheckLength, Reading, buffer
<1>7. QED
    BY <1>5, <1>6 DEF CheckLength

\* What one recv does to the counts.
LEMMA ReceiveCounts ==
    ASSUME Inv, NEW n \in Nat, Receive(n), UNCHANGED <<clients, faults>>
    PROVE  /\ CountsOK'
           /\ total' = total + n
           /\ cap' = cap
           /\ request' = request
<1>1. /\ n <= coming
      /\ coming' = coming - n
      /\ total' = total + n
      /\ cap' = cap
      /\ request' = request
    BY DEF Receive
<1>2. /\ coming \in Nat /\ total \in Nat
      /\ coming + total <= request.head + request.body
    BY Parts DEF CountsOK
<1>3. /\ coming' \in Nat /\ total' \in Nat
      /\ coming' + total' <= request'.head + request'.body
    BY <1>1, <1>2, Parts
<1>4. QED
    BY <1>1, <1>3, Parts DEF CountsOK, clients

\* A recv that returns nothing while there is room was cut off.
LEMMA NothingCuts ==
    ASSUME NEW room \in Int, room >= 1, ReceiveNothing(room)
    PROVE  cut' = TRUE /\ interrupted' = FALSE /\ UNCHANGED <<request, coming, gone, buffer>>
<1>1. room # 0
    OBVIOUS
<1>2. interrupted \/ gone
    BY <1>1 DEF ReceiveNothing
<1>3. /\ cut' = (interrupted \/ gone)
      /\ interrupted' = FALSE /\ UNCHANGED <<request, coming, gone, buffer>>
    BY DEF ReceiveNothing
<1>4. QED
    BY <1>2, <1>3, Zenon

\* The bytes of the head fit into the room, and a head is given up only when
\* its connection breaks.
LEMMA ReceiveHeaderInv ==
    ASSUME Inv, ReceiveHeader
    PROVE  Inv'
<1>1. /\ main = "recv" /\ answer = "none" /\ total < HeaderLimit /\ total < request.head
      /\ cap <= HeaderLimit + 1 /\ Room >= 1
      /\ cap \in Nat /\ total \in Nat /\ Room \in Int
    <2>1. main = "recv"
        BY DEF ReceiveHeader
    <2>2. answer = "none" /\ total < HeaderLimit /\ total < request.head
        BY <2>1, Parts DEF StageInv, ReadingHead, Reading, WantsMore
    <2>3. cap <= HeaderLimit + 1 /\ Room >= 1
        BY <2>1, Parts DEF BufferInv, ReadingHead
    <2>4. cap \in Nat /\ total \in Nat /\ Room \in Int
        BY Parts DEF CountsOK, Room
    <2>5. QED
        BY <2>1, <2>2, <2>3, <2>4
<1>2. UNCHANGED <<keepRunning, serverFd, listening, arrived, accepted, answered, signalled, faults>>
    BY DEF ReceiveHeader, clients
<1>3. CASE /\ \E n \in 1..Room : Receive(n)
           /\ main' = IF total' >= request.head THEN "length" ELSE "header"
           /\ UNCHANGED <<answer, cut>>
    <2>1. PICK n \in 1..Room : Receive(n)
        BY <1>3
    <2>2. n \in Nat /\ n <= Room
        BY <1>1, <2>1
    <2>3. CountsOK' /\ total' = total + n /\ cap' = cap /\ request' = request
        BY <1>2, <2>1, <2>2, ReceiveCounts DEF clients
    <2>4. FlagsOK'
        BY <1>2, <1>3, <2>1, Parts DEF FlagsOK, Receive
    <2>5. ServingInv'
        BY <1>1, <1>2, Parts DEF ServingInv, Serving, Reading
    <2>6. total' \in Nat
        BY <2>3 DEF CountsOK
    <2>7. StageInv'
        BY <1>1, <1>3, <2>3, <2>6, Parts DEF StageInv, ReadingHead, Reading
    <2>8. total' < cap'
        BY <1>1, <2>2, <2>3 DEF Room
    <2>9. BufferInv'
        BY <1>1, <1>3, <2>3, <2>8 DEF BufferInv, BufferInBounds, ReadingHead
    <2>10. HeadAccepted' /\ WholeRequest'
        BY <1>1, <1>3 DEF HeadAccepted, WholeRequest
    <2>11. QED
        BY <2>3, <2>4, <2>5, <2>7, <2>9, <2>10, TypeParts DEF Inv, TypeOK, FlagsOK, CountsOK
<1>4. CASE ReceiveNothing(Room) /\ answer' = "400 head" /\ main' = "send"
    <2>1. cut' = TRUE /\ interrupted' = FALSE /\ UNCHANGED <<request, coming, gone, cap, total>>
        BY <1>1, <1>4, NothingCuts DEF buffer
    <2>2. FlagsOK'
        BY <1>2, <1>4, <2>1, Parts DEF FlagsOK, Statuses
    <2>3. CountsOK'
        BY <1>2, <2>1, Parts DEF CountsOK
    <2>4. HeadAccepted' /\ WholeRequest'
        BY <1>4, <2>1 DEF HeadAccepted, WholeRequest
    <2>5. QED
        BY <1>1, <1>2, <1>4, <2>1, <2>2, <2>3, <2>4, AnswerInv DEF Reading, clients, buffer
<1>5. QED
    BY <1>3, <1>4 DEF ReceiveHeader

\* The bytes of the body fit into the buffer, and the body loop gives up only
\* when the connection breaks.
LEMMA ReceiveBodyInv ==
    ASSUME Inv, ReceiveBody
    PROVE  Inv'
<1>1. /\ main = "body" /\ answer = "none" /\ request.declared \in Nat
      /\ Needed <= cap /\ total < cap /\ total < Expected
      /\ cap \in Nat /\ total \in Nat /\ Expected \in Int
    BY Parts DEF ReceiveBody, StageInv, BufferInv, BufferInBounds, Reading, BodyMissing, CountsOK,
                 Expected
<1>2. UNCHANGED <<keepRunning, serverFd, listening, arrived, accepted, answered, answer, signalled,
                  faults>>
    BY DEF ReceiveBody, clients
<1>3. HeadAccepted' /\ WholeRequest'
    BY <1>1, <1>2 DEF HeadAccepted, WholeRequest
<1>4. CASE (\E n \in 1..(Expected - total) : Receive(n)) /\ UNCHANGED <<main, cut>>
    <2>1. PICK n \in 1..(Expected - total) : Receive(n)
        BY <1>4
    <2>2. n \in Nat /\ n <= Expected - total
        BY <1>1, <2>1
    <2>3. CountsOK' /\ total' = total + n /\ cap' = cap /\ request' = request
        BY <1>2, <2>1, <2>2, ReceiveCounts DEF clients
    <2>4. FlagsOK'
        BY <1>2, <1>4, <2>1, Parts DEF FlagsOK, Receive
    <2>5. ServingInv'
        BY <1>1, <1>2, Parts DEF ServingInv, Serving, Reading
    <2>6. StageInv'
        BY <1>1, <1>2, <1>4, <2>3 DEF StageInv, ReadingHead, Reading
    <2>7. total' < cap'
        BY <1>1, <2>2, <2>3 DEF Needed
    <2>8. BufferInv'
        BY <1>1, <1>4, <2>3, <2>7 DEF BufferInv, BufferInBounds, ReadingHead, Needed, Expected
    <2>9. QED
        BY <1>3, <2>3, <2>4, <2>5, <2>6, <2>8, TypeParts DEF Inv, TypeOK, FlagsOK, CountsOK
<1>5. CASE ReceiveNothing(Expected - total) /\ main' = "respond"
    <2>1. Expected - total \in Int /\ Expected - total >= 1
        BY <1>1
    <2>2. cut' = TRUE /\ interrupted' = FALSE /\ UNCHANGED <<request, coming, gone, cap, total>>
        BY <1>5, <2>1, NothingCuts DEF buffer
    <2>3. FlagsOK'
        BY <1>2, <1>5, <2>2, Parts DEF FlagsOK
    <2>4. CountsOK'
        BY <1>2, <2>2, Parts DEF CountsOK
    <2>5. ServingInv'
        BY <1>1, <1>2, Parts DEF ServingInv, Serving, Reading
    <2>6. StageInv'
        BY <1>1, <1>2, <1>5, <2>2 DEF StageInv, ReadingHead
    <2>7. BufferInv'
        BY <1>1, <1>5, <2>2 DEF BufferInv, BufferInBounds, ReadingHead
    <2>8. QED
        BY <1>3, <2>3, <2>4, <2>5, <2>6, <2>7, TypeParts DEF Inv, TypeOK, FlagsOK, CountsOK
<1>6. QED
    BY <1>4, <1>5 DEF ReceiveBody

\* A new connection starts with an empty buffer of the first size.
LEMMA AcceptInv ==
    ASSUME Inv, NEW r \in Requests, Accept(r)
    PROVE  Inv'
<1>1. /\ request' = r /\ coming' = r.head + r.body /\ total' = 0 /\ cap' = InitialCap
      /\ accepted' = accepted + 1 /\ accepted < arrived /\ cut' = FALSE
      /\ gone' = FALSE /\ interrupted' = FALSE
      /\ UNCHANGED <<keepRunning, serverFd, listening, arrived, answered, signalled>>
    BY DEF Accept
<1>2. \/ answer' = "none" /\ main' = "header" /\ faults' = faults
      \/ answer' = "500" /\ main' = "send" /\ Fails
    BY DEF Accept
<1>3. r.head \in Nat \ {0} /\ r.body \in Nat
    BY ConstantsAssumption
<1>4. FlagsOK'
    BY <1>1, <1>2, Parts DEF FlagsOK, Statuses
<1>5. CountsOK'
    <2>1. faults' \in 0..MaxFaults
        BY <1>2, Parts, ConstantsAssumption DEF Fails, CountsOK
    <2>2. accepted' \in 0..arrived' /\ answered' \in 0..accepted' /\ arrived' \in 0..MaxClients
        BY <1>1, Parts, ConstantsAssumption DEF CountsOK
    <2>3. coming' \in Nat /\ coming' + total' <= request'.head + request'.body
        BY <1>1, <1>3
    <2>4. QED
        BY <1>1, <2>1, <2>2, <2>3, ConstantsAssumption DEF CountsOK
<1>6. ServingInv'
    BY <1>1, Parts, ConstantsAssumption DEF ServingInv, CountsOK
<1>7. StageInv'
    BY <1>1, <1>2, <1>3 DEF StageInv, ReadingHead, Reading
<1>8. BufferInv'
    BY <1>1, <1>2, ConstantsAssumption DEF BufferInv, BufferInBounds, ReadingHead
<1>9. HeadAccepted' /\ WholeRequest'
    BY <1>2 DEF HeadAccepted, WholeRequest
<1>10. QED
    BY <1>4, <1>5, <1>6, <1>7, <1>8, <1>9, TypeParts DEF Inv, TypeOK, FlagsOK, CountsOK

-----------------------------------------------------------------------------

\* Every step keeps the invariant.
LEMMA NextInv == Inv /\ [Next]_vars => Inv'
<1>1. SUFFICES ASSUME Inv, [Next]_vars PROVE Inv'
    OBVIOUS
<1>2. CASE UNCHANGED vars
    <2>1. /\ UNCHANGED <<main, keepRunning, serverFd, listening, arrived, accepted, answered>>
          /\ UNCHANGED <<request, coming, gone, interrupted, cap, total, answer, cut, signalled>>
          /\ UNCHANGED faults
        BY <1>2 DEF vars, loop, clients, connection, buffer
    <2>2. FlagsOK'
        BY <2>1, <1>1, Parts DEF FlagsOK
    <2>3. CountsOK'
        BY <2>1, <1>1, Parts DEF CountsOK
    <2>4. TypeOK'
        BY <2>2, <2>3, TypeParts DEF TypeOK, FlagsOK, CountsOK
    <2>5. ServingInv'
        BY <2>1, <1>1, Parts DEF ServingInv, Serving, Reading
    <2>6. QED
        BY <1>1, <2>1, <2>4, <2>5, AsideInv DEF buffer
<1>3. CASE Next
    BY <1>1, <1>2, <1>3, OutsideInv, AcceptInv, GrowHeaderInv, ReceiveHeaderInv, HeaderTooLongInv,
       CheckLengthInv, ReceiveBodyInv, RespondInv
    DEF Next, MainThread, Over
<1>4. QED
    BY <1>1, <1>2, <1>3

\* The invariant holds of every state the server reaches.
THEOREM Invariance == Spec => []Inv
<1>1. Inv /\ [Next]_vars => Inv'
    BY NextInv
<1>2. QED
    BY <1>1, InitInv, PTL DEF Spec

\* Whatever the limits, the loop of http_server_run and process_client keep
\* their variables in their types: no count of connections or of bytes runs
\* past another, and there is never more to come than the request has.
THEOREM TypeCorrect == Spec => []TypeOK
<1>1. Inv => TypeOK
    BY DEF Inv
<1>2. QED
    BY <1>1, Invariance, PTL

\* Whatever the limits, with room for a chunk in the first buffer, and however
\* a request is cut into segments: process_client writes inside req_buf.
THEOREM BufferSafe == Spec => []BufferInBounds
<1>1. Inv => BufferInBounds
    BY DEF Inv, BufferInv
<1>2. QED
    BY <1>1, Invariance, PTL

\* Whatever the limits, a head within HTTP_HEADER_LIMIT is not refused by the
\* header loop of process_client unless its connection breaks.
THEOREM HeadsAccepted == Spec => []HeadAccepted
<1>1. Inv => HeadAccepted
    BY DEF Inv
<1>2. QED
    BY <1>1, Invariance, PTL

\* Whatever the limits, process_client routes no request before it has all the
\* bytes the request declared, unless its connection breaks.
THEOREM RequestsWhole == Spec => []WholeRequest
<1>1. Inv => WholeRequest
    BY DEF Inv
<1>2. QED
    BY <1>1, Invariance, PTL

=============================================================================
