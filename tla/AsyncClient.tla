---------------------------- MODULE AsyncClient ----------------------------
(***************************************************************************)
(* The asynchronous client on a single-threaded io_service: the life of a  *)
(* connection (RedisAsyncClient::connect and disconnect) and the path of a *)
(* plain command from command() through the strand, the two send buffers,  *)
(* the socket and the reply parser back to the handler the caller gave     *)
(* (RedisClientImpl).                                                      *)
(*                                                                         *)
(* Commands are the numbers 1..MaxCmd in the order the application issues  *)
(* them.  The reply to command c, and the handler passed with it, are      *)
(* called c too, so a handler is paired with its reply when it is given    *)
(* its own number.  Bytes are kept to what decides the pairing: whose      *)
(* reply a piece of the stream belongs to, and whether the piece holds the *)
(* beginning and the end of it.                                            *)
(*                                                                         *)
(* The io_service runs one completion handler at a time.  `frame' says how *)
(* deep in the client's code the running one is, so that what application  *)
(* code does while one of its callbacks is running can be interleaved with *)
(* the rest of the client's function.                                      *)
(*                                                                         *)
(* An operator with the comment `altered' is the one after it with a       *)
(* mistake put in, for checking that the properties notice; nothing here   *)
(* uses it.                                                                *)
(***************************************************************************)
EXTENDS Pieces, Naturals, FiniteSets

CONSTANTS
    MaxCmd,       \* bound: commands issued in a behaviour
    Unparsable,   \* commands whose reply RedisParser does not understand
    MaxConnects,  \* bound: connection attempts
    MaxCloses     \* bound: calls of disconnect()

ASSUME MaxCmdAssumption      == MaxCmd \in Nat
ASSUME UnparsableAssumption  == Unparsable \subseteq 1..MaxCmd
ASSUME MaxConnectsAssumption == MaxConnects \in Nat
ASSUME MaxClosesAssumption   == MaxCloses \in Nat

VARIABLES
    \* RedisClientImpl's own members
    state,        \* the State enumeration (Subscribed is not entered here)
    handlers,     \* std::queue of the reply handlers still owed a call
    dataQueued,   \* commands waiting for the next async_write
    dataWritten,  \* commands handed to the async_write in progress
    buf,          \* the one receive buffer, as a sequence of pieces
    parser,       \* command whose reply redisParser holds a part of, or 0
    \* the io_service
    strandQ,      \* doAsyncCommand calls posted and not yet run
    ready,        \* completions waiting for their handler to be run
    frame,        \* where the running completion handler is
    rest,         \* pieces of the chunk in asyncRead not parsed yet
    \* the socket and the server
    sock,         \* what the socket is
    reads,        \* async_read_some operations in progress
    writing,      \* is an async_write in progress?
    sent,         \* how many commands of dataWritten the kernel has taken
    inFlight,     \* commands at the server whose reply was not fully read
    cut,          \* was a first part of Head(inFlight)'s reply read?
    \* history
    next,         \* next command the application will issue
    got,          \* what each command's handler was called with
    wire,         \* commands the kernel has taken, of all connections
    quiet,        \* the last disconnect() and the connect() after it were
                  \* called with nothing under way
    reported,     \* the error handler was called since it was opened
    fence,        \* commands below it were issued before a disconnect()
    connects, closes

client  == <<state, handlers, dataQueued, dataWritten, buf, parser>>
service == <<strandQ, ready, frame, rest>>
socket  == <<sock, reads, writing, sent, inFlight, cut>>
history == <<next, got, wire, quiet, reported, fence, connects, closes>>
vars    == <<client, service, socket, history>>
-----------------------------------------------------------------------------
Cmd     == 1..MaxCmd
None    == 0                   \* "no command" and "handler not called"
Garbage == MaxCmd + 1          \* a value that is not the reply to any command
State   == {"Unconnected", "Connecting", "Connected", "Closed"}

\* A run of bytes of one reply: `first' when it begins the reply, `last' when
\* it ends it.
Piece == [of: Cmd, first: BOOLEAN, last: BOOLEAN]

\* An asynchronous operation that ended; a read that succeeded put `size'
\* pieces at the front of buf.  A write ends with "some" when async_write has
\* more to write and will go on by itself.
Completion == [op: {"connect", "read", "write"},
               res: {"ok", "some", "failed", "aborted"}, size: Nat]
Done(op, res) == [op |-> op, res |-> res, size |-> 0]

\* idle:       the io_service runs none of the client's handlers
\* connected:  in connect's handler, called with success by handleAsyncConnect
\* read:       in the parsing loop of asyncRead
\* reply:      in the reply handler called by doProcessMessage
\* unexpected: in the error handler called by doProcessMessage
\* undefined:  handlers.pop() was called on an empty queue
Frame == {"idle", "connected", "read", "reply", "unexpected", "undefined"}

\* Application code runs between completion handlers and in its callbacks.
AppMayCall == frame \in {"idle", "connected", "reply", "unexpected"}

\* Operations started on such a socket end at once with an error.
Unusable == sock \in {"closed", "unconnected"}

IsConnected == state = "Connected"

Init ==
    /\ state = "Unconnected" /\ handlers = <<>>
    /\ dataQueued = <<>> /\ dataWritten = <<>>
    /\ buf = <<>> /\ parser = None
    /\ strandQ = <<>> /\ ready = <<>> /\ frame = "idle" /\ rest = <<>>
    /\ sock = "closed" /\ reads = 0 /\ writing = FALSE /\ sent = 0
    /\ inFlight = <<>> /\ cut = FALSE
    /\ next = 1 /\ got = [c \in Cmd |-> None] /\ wire = <<>>
    /\ quiet = TRUE /\ reported = FALSE /\ fence = 1
    /\ connects = 0 /\ closes = 0
-----------------------------------------------------------------------------
(* Starting the two kinds of operation; q is the completion queue so far.  *)

\* processMessage(): async_read_some into the shared buffer.
processMessage(q) ==
    IF Unusable
    THEN ready' = Append(q, Done("read", "failed")) /\ UNCHANGED reads
    ELSE ready' = q /\ reads' = reads + 1

\* altered
WriteAllCopied(queued, q) ==
    /\ dataWritten' = queued /\ dataQueued' = queued /\ sent' = 0
    /\ writing' = (queued # <<>> /\ ~Unusable)
    /\ ready' = IF queued # <<>> /\ Unusable
                THEN Append(q, Done("write", "failed")) ELSE q

\* altered
WriteAllFromMiddle(queued, q) ==
    /\ dataWritten' = queued /\ dataQueued' = <<>> /\ sent' = sent
    /\ writing' = (queued # <<>> /\ ~Unusable)
    /\ ready' = IF queued # <<>> /\ Unusable
                THEN Append(q, Done("write", "failed")) ELSE q

\* asyncWrite() without an error: dataWritten is cleared, swapped with what is
\* queued, and written unless it is empty.
WriteAll(queued, q) ==
    /\ dataWritten' = queued
    /\ dataQueued' = <<>>
    /\ sent' = 0
    /\ writing' = (queued # <<>> /\ ~Unusable)
    /\ ready' = IF queued # <<>> /\ Unusable
                THEN Append(q, Done("write", "failed")) ELSE q
-----------------------------------------------------------------------------
(* Calls of the application                                                *)

\* altered
ParserStays(tcp) == parser

\* Only the overload of connect() for tcp endpoints makes the parser new, and
\* only in state Closed.
ParserAfterConnect(tcp) == IF tcp /\ state = "Closed" THEN None ELSE parser

\* connect() in state Unconnected or Closed.  A socket that is already
\* connecting or connected refuses a second async_connect.
connect(tcp) ==
    /\ AppMayCall /\ connects < MaxConnects
    /\ state \in {"Unconnected", "Closed"}
    /\ state' = "Connecting"
    /\ parser' = ParserAfterConnect(tcp)
    /\ IF Unusable
       THEN sock' = "connecting" /\ UNCHANGED ready
       ELSE ready' = Append(ready, Done("connect", "failed")) /\ UNCHANGED sock
    /\ quiet' = (quiet /\ (parser = None \/ (tcp /\ state = "Closed")))
    /\ connects' = connects + 1
    /\ UNCHANGED <<handlers, dataQueued, dataWritten, buf, strandQ, frame, rest,
                   reads, writing, sent, inFlight, cut,
                   next, got, wire, reported, fence, closes>>

\* connect() in any other state calls the handler with success.
connectIgnored ==
    /\ AppMayCall
    /\ state \notin {"Unconnected", "Closed"}
    /\ UNCHANGED vars

\* The condition on disconnect() under which the code keeps its promises, a
\* history variable: outside of callbacks, with every command sent (answered or
\* not) and no successful completion waiting.  connect() adds its own: the
\* parser must not be in the middle of a reply where it does not make it new.
NothingUnderWay ==
    /\ frame = "idle" /\ strandQ = <<>> /\ dataQueued = <<>> /\ dataWritten = <<>>
    /\ \A i \in 1..Len(ready) : ready[i].res # "ok"

\* altered
KeepHandlers == UNCHANGED handlers

ClearHandlers == handlers' = <<>>

\* close(), by disconnect() or the destructor of RedisAsyncClient.  Operations
\* in progress are aborted; what is queued to be sent, posted or completed is
\* left as it is.
close ==
    /\ AppMayCall /\ closes < MaxCloses
    /\ ClearHandlers
    /\ state' = "Closed"
    /\ sock' = "closed"
    /\ ready' = ready \o [i \in 1..reads |-> Done("read", "aborted")]
                      \o (IF sock = "connecting"
                          THEN <<Done("connect", "aborted")>> ELSE <<>>)
                      \o (IF writing THEN <<Done("write", "aborted")>> ELSE <<>>)
    /\ reads' = 0 /\ writing' = FALSE
    /\ inFlight' = <<>> /\ cut' = FALSE
    /\ quiet' = NothingUnderWay /\ fence' = next /\ closes' = closes + 1
    /\ UNCHANGED <<dataQueued, dataWritten, buf, parser, strandQ, frame, rest,
                   sent, next, got, wire, reported, connects>>

\* command() (and publish(), which does the same): in any state but Connected
\* it only calls the error handler.
command ==
    /\ AppMayCall /\ next <= MaxCmd
    /\ IsConnected
    /\ strandQ' = Append(strandQ, next)
    /\ next' = next + 1
    /\ UNCHANGED <<client, ready, frame, rest, socket,
                   got, wire, quiet, reported, fence, connects, closes>>
-----------------------------------------------------------------------------
(* Handlers the io_service runs                                            *)

\* altered
NothingQueued == dataQueued = <<>>

\* altered
NothingBeingWritten == ~writing

NoWriteInProgress == dataWritten = <<>>

\* altered
QueuedBefore(c) == <<c>> \o dataQueued

QueuedWith(c) == Append(dataQueued, c)

\* The posted call of doAsyncCommand, whatever happened since it was posted.
doAsyncCommand ==
    /\ frame = "idle" /\ strandQ # <<>>
    /\ strandQ' = Tail(strandQ)
    /\ handlers' = Append(handlers, Head(strandQ))
    /\ IF NoWriteInProgress
       THEN WriteAll(QueuedWith(Head(strandQ)), ready)
       ELSE /\ dataQueued' = QueuedWith(Head(strandQ))
            /\ UNCHANGED <<dataWritten, sent, writing, ready>>
    /\ UNCHANGED <<state, buf, parser, frame, rest, sock, reads, inFlight, cut,
                   history>>

CompletionOf(op) == frame = "idle" /\ ready # <<>> /\ Head(ready).op = op

\* altered
NotConnectedKeepsState == UNCHANGED <<state, frame, reported>>

NotConnected == state' = "Unconnected" /\ UNCHANGED <<frame, reported>>

\* Whichever attempt the completion is of, and whatever the state is by now.
handleAsyncConnect ==
    /\ CompletionOf("connect")
    /\ ready' = Tail(ready)
    /\ IF Head(ready).res = "ok"
       THEN /\ state' = "Connected" /\ frame' = "connected"
            /\ reported' = FALSE
       ELSE NotConnected
    /\ UNCHANGED <<handlers, dataQueued, dataWritten, buf, parser, strandQ, rest,
                   socket, next, got, wire, quiet, fence, connects, closes>>

\* connect's handler returns to handleAsyncConnect, which starts reading.
ConnectHandlerReturns ==
    /\ frame = "connected" /\ frame' = "idle"
    /\ processMessage(ready)
    /\ UNCHANGED <<client, strandQ, rest, sock, writing, sent, inFlight, cut,
                   history>>

\* async_write goes on with the rest, on whatever the socket is by then.
WriteGoesOn ==
    /\ CompletionOf("write") /\ Head(ready).res = "some"
    /\ writing' = ~Unusable
    /\ ready' = IF Unusable THEN Append(Tail(ready), Done("write", "failed"))
                            ELSE Tail(ready)
    /\ UNCHANGED <<client, strandQ, frame, rest, sock, reads, sent, inFlight, cut,
                   history>>

\* altered
asyncWriteStops ==
    /\ CompletionOf("write") /\ Head(ready).res # "some"
    /\ dataWritten' = <<>> /\ sent' = 0 /\ ready' = Tail(ready)
    /\ reported' = (reported \/ Head(ready).res # "ok")
    /\ UNCHANGED <<state, handlers, dataQueued, writing, buf, parser, strandQ,
                   frame, rest, sock, reads, inFlight, cut,
                   next, got, wire, quiet, fence, connects, closes>>

asyncWrite ==
    /\ CompletionOf("write") /\ Head(ready).res # "some"
    /\ IF Head(ready).res = "ok"
       THEN WriteAll(dataQueued, Tail(ready)) /\ UNCHANGED reported
       ELSE /\ dataWritten' = <<>> /\ sent' = 0
            /\ ready' = Tail(ready) /\ reported' = TRUE
            /\ UNCHANGED <<dataQueued, writing>>
    /\ UNCHANGED <<state, handlers, buf, parser, strandQ, frame, rest,
                   sock, reads, inFlight, cut,
                   next, got, wire, quiet, fence, connects, closes>>

\* altered
OnlyAborts(res) == res = "aborted"

ReadReports(res) == res # "aborted"

\* asyncRead() up to its loop.  Bytes no completion refers to are forgotten.
asyncRead ==
    /\ CompletionOf("read")
    /\ ready' = Tail(ready)
    /\ IF Head(ready).res = "ok"
       THEN /\ frame' = "read"
            /\ rest' = SubSeq(buf, 1, Head(ready).size)
            /\ buf' = IF \E i \in 2..Len(ready) : ready[i].size > 0
                      THEN buf ELSE <<>>
            /\ UNCHANGED reported
       ELSE /\ reported' = (reported \/ ReadReports(Head(ready).res))
            /\ UNCHANGED <<frame, rest, buf>>
    /\ UNCHANGED <<state, handlers, dataQueued, dataWritten, parser, strandQ,
                   socket, next, got, wire, quiet, fence, connects, closes>>

\* altered
doProcessMessageUnchecked(v) ==
    IF handlers # <<>>
    THEN /\ got' = [got EXCEPT ![Head(handlers)] = v]
         /\ frame' = "reply" /\ UNCHANGED reported
    ELSE frame' = "undefined" /\ UNCHANGED <<got, reported>>

\* The value the parser completed goes to the oldest handler, or to the error
\* handler when no handler is waiting.
doProcessMessage(v) ==
    IF handlers # <<>>
    THEN /\ got' = [got EXCEPT ![Head(handlers)] = v]
         /\ frame' = "reply" /\ UNCHANGED reported
    ELSE frame' = "unexpected" /\ reported' = TRUE /\ UNCHANGED got

\* Does the parser read the piece as its sender meant it?
Understood(p) ==
    /\ p.of \notin Unparsable
    /\ parser = IF p.first THEN None ELSE p.of

\* altered
UncompletedForgets(p) ==
    parser' = None /\ UNCHANGED <<got, frame, reported, ready, reads>>

\* altered
UncompletedReads(p) ==
    parser' = p.of /\ processMessage(ready) /\ UNCHANGED <<got, frame, reported>>

\* parse() returned Uncompleted: the parser keeps what it has.
Uncompleted(p) ==
    parser' = p.of /\ UNCHANGED <<got, frame, reported, ready, reads>>

\* One turn of asyncRead's loop on a piece that continues what the parser holds.
ParsePiece ==
    /\ frame = "read" /\ rest # <<>> /\ Understood(Head(rest))
    /\ rest' = Tail(rest)
    /\ IF Head(rest).last
       THEN /\ parser' = None /\ doProcessMessage(Head(rest).of)
            /\ UNCHANGED <<ready, reads>>
       ELSE Uncompleted(Head(rest))
    /\ UNCHANGED <<state, handlers, dataQueued, dataWritten, buf, strandQ,
                   sock, writing, sent, inFlight, cut,
                   next, wire, quiet, fence, connects, closes>>

\* One turn on any other piece: the parser rejects it, takes it as part of a
\* value it has not seen the end of, or finds the end of some value in it, with
\* some bytes to go or none (bound: one value more from those).
MisreadPiece ==
    /\ frame = "read" /\ rest # <<>> /\ ~Understood(Head(rest))
    /\ quiet' = (quiet /\ Head(rest).of \notin Unparsable)
    /\ \/ /\ frame' = "idle" /\ rest' = <<>> /\ parser' = None
          /\ reported' = TRUE /\ UNCHANGED got
       \/ /\ rest' = Tail(rest) /\ parser' = Head(rest).of
          /\ UNCHANGED <<frame, reported, got>>
       \/ /\ \/ rest' = Tail(rest)
             \/ /\ Head(rest).first
                /\ rest' = <<[Head(rest) EXCEPT !.first = FALSE]>> \o Tail(rest)
          /\ parser' = None
          /\ doProcessMessage(Garbage)
    /\ UNCHANGED <<state, handlers, dataQueued, dataWritten, buf, strandQ, ready,
                   socket, next, wire, fence, connects, closes>>

\* altered
ReplyHandlerStays ==
    /\ frame = "reply" /\ frame' = "read"
    /\ UNCHANGED <<client, strandQ, ready, rest, socket, history>>

\* handlers.pop() after the reply handler returned.
ReplyHandlerReturns ==
    /\ frame = "reply"
    /\ IF handlers = <<>>
       THEN frame' = "undefined" /\ UNCHANGED handlers
       ELSE frame' = "read" /\ handlers' = Tail(handlers)
    /\ UNCHANGED <<state, dataQueued, dataWritten, buf, parser, strandQ, ready,
                   rest, socket, history>>

\* An installed error handler returns and the loop goes on; the default one
\* throws, which leaves asyncRead and starts no further read.
ErrorHandlerLeaves ==
    /\ frame = "unexpected"
    /\ \/ frame' = "read" /\ UNCHANGED rest
       \/ frame' = "idle" /\ rest' = <<>>
    /\ UNCHANGED <<client, strandQ, ready, socket, history>>

\* The chunk is used up, in the middle of a reply or not: read on.
EndOfChunk ==
    /\ frame = "read" /\ rest = <<>>
    /\ frame' = "idle"
    /\ processMessage(ready)
    /\ UNCHANGED <<client, strandQ, rest, sock, writing, sent, inFlight, cut,
                   history>>
-----------------------------------------------------------------------------
(* The kernel and the server: not in the repository.  On one thread their  *)
(* completions are collected only while no handler is running.             *)

Complete(op, res) == frame = "idle" /\ ready' = Append(ready, Done(op, res))

ConnectEnds ==
    /\ sock = "connecting"
    /\ \/ sock' = "open" /\ Complete("connect", "ok")
       \/ sock' = "unconnected" /\ Complete("connect", "failed")
    /\ UNCHANGED <<client, strandQ, frame, rest, reads, writing, sent, inFlight,
                   cut, history>>

\* The peer or the network ends the connection.
Break ==
    /\ frame = "idle" /\ sock = "open" /\ sock' = "broken"
    /\ UNCHANGED <<client, service, reads, writing, sent, inFlight, cut, history>>

\* The kernel takes one command; it reaches the server if the connection stands.
\* async_write hands over 64 kilobytes or 16 commands at a time, and the rest
\* when the completion of that has run.
Transmit ==
    /\ frame = "idle" /\ writing /\ sock \in {"open", "broken"}
    /\ sent < Len(dataWritten)
    /\ sent' = sent + 1
    /\ wire' = Append(wire, dataWritten[sent + 1])
    /\ inFlight' = IF sock = "open" THEN Append(inFlight, dataWritten[sent + 1])
                                    ELSE inFlight
    /\ \/ UNCHANGED <<ready, writing>>
       \/ /\ sent + 1 < Len(dataWritten)
          /\ Complete("write", "some") /\ writing' = FALSE
    /\ UNCHANGED <<client, strandQ, frame, rest, sock, reads, cut,
                   next, got, quiet, reported, fence, connects, closes>>

WriteEnds ==
    /\ writing
    /\ \/ sent = Len(dataWritten) /\ Complete("write", "ok")
       \/ sock \in {"unconnected", "broken"} /\ Complete("write", "failed")
    /\ writing' = FALSE
    /\ UNCHANGED <<client, strandQ, frame, rest, sock, reads, sent, inFlight, cut,
                   history>>

\* A read ends with n whole replies (the first may have been begun by an
\* earlier read) and, if part, the beginning of another.  The kernel writes to
\* the front of buf, over what a completion not yet handled may refer to.
Receive(n, part) ==
    LET chunk == [i \in 1..n |-> [of |-> inFlight[i],
                                  first |-> ~(i = 1 /\ cut), last |-> TRUE]]
                 \o (IF part
                     THEN <<[of |-> inFlight[n + 1],
                             first |-> TRUE, last |-> FALSE]>>
                     ELSE <<>>)
    IN  /\ frame = "idle" /\ reads > 0 /\ sock \in {"open", "broken"}
        /\ chunk # <<>>
        /\ part => ~(n = 0 /\ cut)
        /\ buf' = chunk \o SubSeq(buf, Len(chunk) + 1, Len(buf))
        /\ ready' = Append(ready,
                           [op |-> "read", res |-> "ok", size |-> Len(chunk)])
        /\ reads' = reads - 1
        /\ inFlight' = SubSeq(inFlight, n + 1, Len(inFlight))
        /\ cut' = part
        /\ UNCHANGED <<state, handlers, dataQueued, dataWritten, parser, strandQ,
                       frame, rest, sock, writing, sent, history>>

ReceiveSome(wholes) ==
    \E n \in wholes, part \in BOOLEAN :
        n + (IF part THEN 1 ELSE 0) <= Len(inFlight) /\ Receive(n, part)

\* End of file or an error on a connection that is gone or never was.
ReadFails ==
    /\ reads > 0 /\ sock \in {"unconnected", "broken"}
    /\ Complete("read", "failed")
    /\ reads' = reads - 1
    /\ UNCHANGED <<client, strandQ, frame, rest, sock, writing, sent, inFlight,
                   cut, history>>
-----------------------------------------------------------------------------
Application ==
    (\E tcp \in BOOLEAN : connect(tcp)) \/ connectIgnored \/ close \/ command

Callbacks == ConnectHandlerReturns \/ ReplyHandlerReturns \/ ErrorHandlerLeaves

Service ==
    \/ doAsyncCommand \/ handleAsyncConnect
    \/ WriteGoesOn \/ asyncWrite \/ asyncRead
    \/ ParsePiece \/ MisreadPiece \/ EndOfChunk

Kernel == ConnectEnds \/ Break \/ Transmit \/ WriteEnds
          \/ ReceiveSome(0..Len(inFlight)) \/ ReadFails

Next == Application \/ Callbacks \/ Service \/ Kernel

Spec == Init /\ [][Next]_vars
-----------------------------------------------------------------------------
(* Types                                                                   *)

CommandTypes ==
    /\ handlers \in Seq(Cmd) /\ dataQueued \in Seq(Cmd) /\ dataWritten \in Seq(Cmd)
    /\ strandQ \in Seq(Cmd) /\ inFlight \in Seq(Cmd) /\ wire \in Seq(Cmd)
    /\ sent \in 0..Len(dataWritten)
    /\ next \in 1..(MaxCmd + 1) /\ fence \in 1..(MaxCmd + 1)
    /\ got \in [Cmd -> 0..Garbage]

StreamTypes ==
    /\ buf \in Seq(Piece) /\ rest \in Seq(Piece) /\ ready \in Seq(Completion)
    /\ reads \in Nat /\ parser \in Cmd \cup {None}

StatusTypes ==
    /\ state \in State /\ frame \in Frame
    /\ sock \in {"closed", "unconnected", "connecting", "open", "broken"}
    /\ connects \in 0..MaxConnects /\ closes \in 0..MaxCloses

FlagTypes ==
    /\ writing \in BOOLEAN /\ cut \in BOOLEAN
    /\ quiet \in BOOLEAN /\ reported \in BOOLEAN

\* Every variable holds a value of the kind the code gives it; the commands in
\* all queues and the progress of the write stay within their ranges.
TypeOK == CommandTypes /\ StreamTypes /\ StatusTypes /\ FlagTypes

(***************************************************************************)
(* Sending                                                                 *)
(***************************************************************************)
WriteEnded == {i \in 1..Len(ready) : ready[i].op = "write"}
Unsent     == SubSeq(dataWritten, sent + 1, Len(dataWritten))

\* dataWritten.empty(), the only guard of doAsyncCommand against starting a
\* second async_write, is exact: it is nonempty precisely while one write is in
\* progress or its completion waits, and there is never a second one, through
\* failed writes, disconnects and reconnects.
SingleWriter ==
    /\ dataWritten # <<>> <=> (writing \/ WriteEnded # {})
    /\ \A i, j \in WriteEnded : i = j
    /\ writing => WriteEnded = {}

Increasing(s) == \A i, j \in 1..Len(s) : i < j => s[i] < s[j]

\* Whatever the two buffers, the strand and the reconnects do, the commands the
\* kernel takes are in the order they were issued, none of them twice.
WireOrder == Increasing(wire)

\* After a quiet disconnect (or before any), commands do not lie in dataQueued
\* with no write in progress that would take them along, unless an error was
\* reported.
QueueDrains == quiet /\ ~reported => (dataQueued # <<>> => dataWritten # <<>>)

(***************************************************************************)
(* Receiving                                                               *)
(***************************************************************************)
ReadEnded(res) ==
    {i \in 1..Len(ready) : ready[i].op = "read" /\ ready[i].res = res}

\* After a quiet disconnect there is at most one async_read_some in
\* progress, completed or being parsed: nothing writes to buf while asyncRead
\* parses it, and pieces are parsed in the order they arrived.
OneReader ==
    quiet => reads + Cardinality(ReadEnded("ok"))
                     + (IF frame \in {"idle", "undefined"} THEN 0 ELSE 1) <= 1

\* A client that says it is connected is reading, or will be when the running
\* handler returns, or told the error handler why not.
NotSilentlyDeaf ==
    IsConnected /\ frame = "idle" =>
        reads > 0 \/ ReadEnded("ok") # {} \/ ReadEnded("failed") # {} \/ reported

\* Each handler is called at most once: those still queued were not called,
\* but for the one being called now.
AnsweredOnce ==
    \A i \in 1..Len(handlers) :
        got[handlers[i]] # None => i = 1 /\ frame = "reply"

\* After a quiet disconnect the handlers still to be called are those of
\* the replies being parsed, in the buffer, at the server, and of the commands
\* not yet sent, in this order: a reply is given to the handler of its command
\* because nothing on this path is ever lost, doubled or overtaken.  Commands
\* may be missing at the end only once the connection is broken.
Belt ==
    quiet /\ frame # "undefined" =>
        LET owed == IF frame = "reply" THEN Tail(handlers) ELSE handlers
            due  == Completes(rest) \o Completes(buf) \o inFlight
        IN  /\ IF sock = "open" THEN owed = due \o Unsent \o dataQueued
                                ELSE IsPrefixOf(due, owed)
            /\ OnlyLastCut(rest) /\ OnlyLastCut(buf)

\* The pop() of an empty queue happens only when a reply handler disconnects
\* the client that is calling it.
UndefinedOnlyByClose == frame = "undefined" => state \in {"Closed", "Connecting"}

\* After a quiet disconnect a handler is called with the reply to its own
\* command, whatever the chunks the replies arrive in.
PairedReplies ==
    [][quiet /\ quiet' =>
         \A c \in Cmd : got'[c] # got[c] => got[c] = None /\ got'[c] = c]_vars

(***************************************************************************)
(* Progress                                                                *)
(***************************************************************************)

\* What the code's scheduling and its environment owe: the io_service runs what
\* is ready, callbacks return, the kernel moves bytes and reports the end of
\* operations, and the server answers.  Nothing is owed by the application.
Fairness ==
    /\ WF_vars(Callbacks) /\ WF_vars(Service)
    /\ WF_vars(ConnectEnds) /\ WF_vars(Transmit) /\ WF_vars(WriteEnds)
    /\ WF_vars(ReceiveSome(1..Len(inFlight))) /\ WF_vars(ReadFails)

FairSpec == Spec /\ Fairness

\* A command issued after a quiet disconnect (or before any) is answered, or an
\* error is reported, or its connection is closed by the application.
EveryCommandEnds ==
    \A c \in Cmd :
        quiet /\ fence <= c /\ c < next
            ~> got[c] # None \/ reported \/ ~quiet \/ c < fence

\* A connection attempt ends, also one that replaces a connection or an attempt
\* that was closed with completions of its own still to come.
ConnectEventuallyEnds ==
    state = "Connecting" ~> state # "Connecting" \/ frame = "undefined"
=============================================================================
