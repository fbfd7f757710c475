----------------------------- MODULE HttpServer -----------------------------
(***************************************************************************)
(* One connection of the HTTP server, from its new-connection callback to    *)
(* its Destroy: HTTPCodec, HTTPServer and its modules, in the callbacks of   *)
(* the TcpConnection they run in, on an IO loop that is the base loop or not.*)
(*                                                                         *)
(* The client sends its stream in pieces of any size and may end it at any   *)
(* time.  Its reset is left to TcpServer.                                   *)
(***************************************************************************)
EXTENDS HttpCodec

CONSTANTS
    Streams,        \* what clients send
    FileSystems,    \* functions from files to what a file is
    MaxChanges      \* bound: changes of a file while a request is served

Files == {"gz", "plain", "index"}
FileKinds == {"absent", "forbidden", "directory", "failing", "empty", "small", "large"}

ASSUME StreamsAssumption == Streams \subseteq Seq(Symbols)
ASSUME FileSystemsAssumption == FileSystems \subseteq [Files -> FileKinds]
ASSUME MaxChangesAssumption == MaxChanges \in Nat

VARIABLES
    sameLoop,       \* the IO loop is the base loop
    toSend,         \* what the client has not sent yet
    fin,            \* it has ended its stream
    socket,         \* bytes that have arrived
    files,          \* the files of the document root
    pc,             \* position of the IO loop
    revents,        \* what Poll has reported of the connection
    state,          \* state_
    reading, writing,   \* events_ of the channel
    readBuf,        \* read_buf_
    unsent,         \* pieces (header, body) in write_buf_
    context,        \* the context: a parser, or None
    request,        \* the request OnRequest has got, or None
    chosen,         \* its real_request_path, or None
    closeOnWritten, \* the write-done callback is set
    destroy,        \* how far the connection's removal is
    aborted,        \* an assertion or an exception has ended the process
    received,       \* history: all bytes read
    answers,        \* history: status codes of the responses
    changes         \* history: how often a file changed

client == <<toSend, fin>>
channel == <<reading, writing>>
vars == <<sameLoop, client, socket, files, pc, revents, state, channel, readBuf,
          unsent, context, request, chosen, closeOnWritten, destroy, aborted,
          received, answers, changes>>

\* TcpServer has run OnNewConnection and enabled reading.
Init ==
    /\ sameLoop \in BOOLEAN
    /\ toSend \in Streams
    /\ files \in FileSystems
    /\ fin = FALSE
    /\ socket = << >>
    /\ pc = "poll"
    /\ revents = {}
    /\ state = "kConnected"
    /\ reading = TRUE
    /\ writing = FALSE
    /\ readBuf = << >>
    /\ unsent = 0
    /\ context = InitialParser
    /\ request = None
    /\ chosen = "none"
    /\ closeOnWritten = FALSE
    /\ destroy = "no"
    /\ aborted = FALSE
    /\ received = << >>
    /\ answers = << >>
    /\ changes = 0

-----------------------------------------------------------------------------
(* The client, and the rest of the machine *)

ClientSends ==
    /\ ~fin
    /\ \E n \in 1 .. Len(toSend) :
          /\ socket' = socket \o SubSeq(toSend, 1, n)
          /\ toSend' = SubSeq(toSend, n + 1, Len(toSend))
    /\ UNCHANGED <<sameLoop, fin, files, pc, revents, state, channel, readBuf, unsent,
                   context, request, chosen, closeOnWritten, destroy, aborted, received,
                   answers, changes>>

ClientEnds ==
    /\ ~fin
    /\ fin' = TRUE
    /\ UNCHANGED <<sameLoop, toSend, socket, files, pc, revents, state, channel, readBuf,
                   unsent, context, request, chosen, closeOnWritten, destroy, aborted,
                   received, answers, changes>>

\* A file changes between the check and the reading of it.  (A change at
\* another time is another initial state.)
FileChanges ==
    /\ pc = "load" /\ changes < MaxChanges
    /\ \E kind \in FileKinds : files' = [files EXCEPT ![chosen] = kind]
    /\ changes' = changes + 1
    /\ UNCHANGED <<sameLoop, client, socket, pc, revents, state, channel, readBuf, unsent,
                   context, request, chosen, closeOnWritten, destroy, aborted, received,
                   answers>>

-----------------------------------------------------------------------------
(* Closing *)

\* The close callback: OnConnectionClosed and, on the base loop,
\* HandleConnectionClose, which queues Destroy.
CloseCallback ==
    /\ state' = "kDisconnected"
    /\ destroy' = IF sameLoop THEN "queued" ELSE "asked"

Abort == aborted' = TRUE /\ pc' = "ended"

\* HandleConnectionClose on the base loop, and its wakeup of the IO loop.
HandleConnectionClose ==
    /\ destroy = "asked" /\ ~aborted
    /\ destroy' = "queued"
    /\ UNCHANGED <<sameLoop, client, socket, files, pc, revents, state, channel, readBuf,
                   unsent, context, request, chosen, closeOnWritten, aborted, received,
                   answers, changes>>

-----------------------------------------------------------------------------
(* The IO loop *)

\* Poll reports what has arrived, and room in the socket if there is any.
Poll(room) ==
    /\ pc = "poll"
    /\ room => writing
    /\ LET in == reading /\ (socket # << >> \/ fin)
       IN  /\ revents' = {e \in {"in", "out"} : IF e = "in" THEN in ELSE room}
           /\ in \/ room \/ destroy = "queued"
    /\ pc' = IF room THEN "write" ELSE IF "in" \in revents' THEN "read" ELSE "functors"
    /\ UNCHANGED <<sameLoop, client, socket, files, state, channel, readBuf, unsent,
                   context, request, chosen, closeOnWritten, destroy, aborted, received,
                   answers, changes>>

AfterWrite == IF "in" \in revents THEN "read" ELSE "functors"

WriteSomeAndClose ==    \* mutant
    /\ pc = "write" /\ state = "kConnected"
    /\ \E n \in 1 .. unsent - 1 : unsent' = unsent - n
    /\ CloseCallback
    /\ reading' = FALSE
    /\ pc' = AfterWrite
    /\ UNCHANGED <<sameLoop, client, socket, files, revents, writing, readBuf, context,
                   request, chosen, closeOnWritten, aborted, received, answers, changes>>

\* WriteToPeer writes a part, and then would block ...
WriteSome ==
    /\ pc = "write"
    /\ \E n \in 1 .. unsent - 1 : unsent' = unsent - n
    /\ pc' = AfterWrite
    /\ UNCHANGED <<sameLoop, client, socket, files, revents, state, channel, readBuf,
                   context, request, chosen, closeOnWritten, destroy, aborted, received,
                   answers, changes>>

\* The write-done callback, WriteResponseDone, closes: ActiveClose requires that
\* the connection is not closed yet.
WriteResponseDone ==
    IF state = "kDisconnected" THEN Abort /\ UNCHANGED <<state, destroy, reading>>
    ELSE /\ CloseCallback
         /\ reading' = FALSE
         /\ pc' = AfterWrite
         /\ UNCHANGED aborted

WriteAllStillWriting ==    \* mutant
    /\ pc = "write"
    /\ unsent' = 0
    /\ IF closeOnWritten THEN WriteResponseDone
       ELSE pc' = AfterWrite /\ UNCHANGED <<state, destroy, reading, aborted>>
    /\ UNCHANGED <<sameLoop, client, socket, files, revents, writing, readBuf, context, request,
                   chosen, closeOnWritten, received, answers, changes>>

\* ... or all of it, and calls the write-done callback.
WriteAll ==
    /\ pc = "write"
    /\ unsent' = 0
    /\ writing' = FALSE
    /\ IF closeOnWritten THEN WriteResponseDone
       ELSE pc' = AfterWrite /\ UNCHANGED <<state, destroy, reading, aborted>>
    /\ UNCHANGED <<sameLoop, client, socket, files, revents, readBuf, context, request,
                   chosen, closeOnWritten, received, answers, changes>>

WriteResponse(status, body) ==      \* mutant
    /\ answers' = Append(answers, status)
    /\ unsent' = unsent + (IF body THEN 2 ELSE 1)
    /\ writing' = TRUE
    /\ closeOnWritten' = FALSE
    /\ pc' = "functors"

\* WriteResponseAndClose: a response is a header and perhaps a body; writing is
\* enabled, also on a connection that is closed.
WriteResponseAndClose(status, body) ==
    /\ answers' = Append(answers, status)
    /\ unsent' = unsent + (IF body THEN 2 ELSE 1)
    /\ writing' = TRUE
    /\ closeOnWritten' = TRUE
    /\ pc' = "functors"

\* ReadFromPeer at the end of the stream: PassiveClose, unless it is closed.
ReadEnd ==
    /\ pc = "read" /\ socket = << >>
    /\ pc' = "functors"
    /\ IF state = "kDisconnected" THEN UNCHANGED <<state, destroy, channel>>
       ELSE CloseCallback /\ reading' = FALSE /\ writing' = FALSE
    /\ UNCHANGED <<sameLoop, client, socket, files, revents, readBuf, unsent, context,
                   request, chosen, closeOnWritten, aborted, received, answers, changes>>

-----------------------------------------------------------------------------
(* OnRequest *)

Candidates(req) == IF req.line.path = "directory" THEN <<"index">> ELSE <<"gz", "plain">>

\* The validator: a status, "abort" (its warning about the version uses a null
\* response), or "ok".  Then the rewriter requires a path.
Validate(req) ==
    IF req.line.version = "2.0" THEN "abort"
    ELSE IF req.line.version = "1.1" /\ "host" \notin DOMAIN req.headers THEN "400"
    ELSE IF req.line.path = "up" THEN "400"
    ELSE IF req.line.method # "GET" THEN "501"
    ELSE IF req.line.path = "empty" THEN "abort"
    ELSE "ok"

\* The file accessor tries the candidates, up to one that exists.
CheckFile ==
    /\ pc = "check"
    /\ LET found == {i \in DOMAIN Candidates(request) :
                        files[Candidates(request)[i]] # "absent"}
           file == Candidates(request)[Min(found)]
       IN  IF found # {} /\ files[file] \in {"empty", "small", "large"}
           THEN /\ chosen' = file
                /\ pc' = "load"
                /\ UNCHANGED <<answers, unsent, writing, closeOnWritten>>
           ELSE /\ WriteResponseAndClose(
                       IF found = {} THEN "404"
                       ELSE IF files[file] = "forbidden" THEN "403"
                       ELSE IF files[file] = "directory" THEN "400" ELSE "500", FALSE)
                /\ UNCHANGED chosen
    /\ UNCHANGED <<sameLoop, client, socket, files, revents, state, reading, readBuf,
                   context, request, destroy, aborted, received, changes>>

\* ReadFile checks the file again, opens it, and takes only a small file for
\* the body: the length of a large one is not set, so that it is not sent.
ReadFile ==
    /\ pc = "load"
    /\ IF files[chosen] \notin {"empty", "small", "large"}
       THEN Abort /\ UNCHANGED <<answers, unsent, writing, closeOnWritten>>
       ELSE /\ \E opened \in BOOLEAN :
                  WriteResponseAndClose("200", opened /\ files[chosen] = "small")
            /\ UNCHANGED aborted
    /\ UNCHANGED <<sameLoop, client, socket, files, revents, state, reading, readBuf,
                   context, request, chosen, destroy, received, changes>>

\* A small file is cut after that check and before it is read: pread returns
\* fewer bytes than the check promised, which an assertion forbids.
ReadCutFile ==
    /\ pc = "load" /\ files[chosen] = "small" /\ changes < MaxChanges
    /\ \E kind \in {"empty", "small"} : files' = [files EXCEPT ![chosen] = kind]
    /\ changes' = changes + 1
    /\ Abort
    /\ UNCHANGED <<sameLoop, client, socket, revents, state, channel, readBuf, unsent, context,
                   request, chosen, closeOnWritten, destroy, received, answers>>

-----------------------------------------------------------------------------
(* OnMessage *)

OnRequest(req) ==
    /\ request' = req
    /\ CASE Validate(req) = "abort" ->
              Abort /\ UNCHANGED <<answers, unsent, writing, closeOnWritten>>
         [] Validate(req) = "ok" ->
              /\ pc' = "check"
              /\ UNCHANGED <<aborted, answers, unsent, writing, closeOnWritten>>
         [] OTHER -> WriteResponseAndClose(Validate(req), FALSE) /\ UNCHANGED aborted

\* ReadFromPeer takes all that has arrived and calls OnMessage, which throws
\* when the context was cleared.
ReadMessage ==
    /\ pc = "read" /\ socket # << >>
    /\ socket' = << >>
    /\ received' = received \o socket
    /\ readBuf' = readBuf \o socket
    /\ IF context = None THEN Abort ELSE pc' = "parse" /\ UNCHANGED aborted
    /\ UNCHANGED <<sameLoop, client, files, revents, state, channel, unsent, context, request,
                   chosen, closeOnWritten, destroy, answers, changes>>

\* One round of OnMessage's loop: state->func is called until it does not return
\* kParseOK or the request is complete.
ParseRound ==
    /\ pc = "parse"
    /\ LET out == func(context, readBuf)
           done == out.parser.status = "kParsingDone"
       IN  /\ readBuf' = out.buf
           /\ context' = IF done THEN None ELSE out.parser
           /\ \/ /\ done
                 /\ OnRequest(out.parser)
              \/ /\ out.res = "kParseError"
                 /\ WriteResponseAndClose("400", FALSE)
                 /\ UNCHANGED <<request, aborted>>
              \/ /\ out.res = "abort"
                 /\ Abort
                 /\ UNCHANGED <<request, answers, unsent, writing, closeOnWritten>>
              \/ /\ out.res \in {"kParseOK", "kParseNeedMore"} /\ ~done
                 /\ pc' = IF out.res = "kParseOK" THEN "parse" ELSE "functors"
                 /\ UNCHANGED <<request, aborted, answers, unsent, writing, closeOnWritten>>
    /\ UNCHANGED <<sameLoop, client, socket, files, revents, state, reading, chosen, destroy,
                   received, changes>>

\* The functors of the iteration: Destroy, once it is queued.
Functors ==
    /\ pc = "functors"
    /\ IF destroy = "queued"
       THEN destroy' = "done" /\ pc' = "ended"
       ELSE pc' = "poll" /\ UNCHANGED destroy
    /\ UNCHANGED <<sameLoop, client, socket, files, revents, state, channel, readBuf, unsent,
                   context, request, chosen, closeOnWritten, aborted, received, answers,
                   changes>>

-----------------------------------------------------------------------------
(* Specification *)

Handlers ==
    \/ WriteSome \/ WriteAll \/ ReadEnd \/ ReadMessage \/ ParseRound
    \/ CheckFile \/ ReadFile \/ Functors

Next ==
    \/ ClientSends \/ ClientEnds \/ FileChanges \/ ReadCutFile
    \/ HandleConnectionClose
    \/ \E room \in BOOLEAN : Poll(room)
    \/ Handlers

Spec == Init /\ [][Next]_vars

\* The loops run, and the client reads what it is sent, so that again and
\* again there is room in the socket.
FairSpec ==
    /\ Spec
    /\ WF_vars(Handlers) /\ WF_vars(HandleConnectionClose)
    /\ WF_vars(\E room \in BOOLEAN : Poll(room)) /\ SF_vars(Poll(TRUE))

-----------------------------------------------------------------------------
(* Properties *)

Stream == received \o socket \o toSend

\* In whatever pieces the bytes arrive, there is one answer to a complete
\* request, given for that request's line, headers and body; an error is answered
\* with 400 and nothing else; and as long as more is needed nothing is answered.
AnswersFitInput ==
    pc = "poll" =>
        CASE Verdict(received) = "more" -> answers = << >> /\ request = None
          [] Verdict(received) = "error" ->
                answers # << >> /\ {answers[i] : i \in DOMAIN answers} = {"400"} /\ request = None
          [] Verdict(received) = "done" ->
                /\ Len(answers) = 1
                /\ request.line = received[1]
                /\ \A key \in {"host", "content-length"} :
                      Values(received, key) =
                          IF key \in DOMAIN request.headers THEN {request.headers[key]} ELSE {}
                /\ Values(received, "content-length") \subseteq {Len(request.body)}
                /\ request.body = SubSeq(received, RequestLength(received) - Len(request.body) + 1,
                                         RequestLength(received))

\* A connection is destroyed on the server's initiative only when the whole
\* answer is in the socket (http_server.cc:121).
AnswerWritten ==
    destroy = "done" /\ ~fin /\ Verdict(received) = "done" => Len(answers) = 1 /\ unsent = 0

\* A stream that is one request, of a version and a path the modules can handle,
\* without an empty body.
Proper(s) ==
    /\ Verdict(s) = "done" /\ RequestLength(s) = Len(s)
    /\ s[1].version # "2.0" /\ s[1].path # "empty"
    /\ 0 \notin Values(s, "content-length")

\* No assertion fails and nothing is thrown for one proper request while files
\* stay as they are, nor for a request in error on the base loop.
ProperRequestsSurvived ==
    aborted => \/ ~Proper(Stream) /\ (sameLoop => Verdict(Stream) # "error")
               \/ changes > 0

\* A request that is complete or in error is answered and the connection
\* removed; so is the connection of a client that has ended its stream.
ConnectionsEnd ==
    (Verdict(received) # "more" \/ fin) ~> (destroy = "done" \/ aborted)
=============================================================================
