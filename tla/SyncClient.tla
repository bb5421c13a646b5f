----------------------------- MODULE SyncClient -----------------------------
(***************************************************************************)
(* The synchronous client: RedisSyncClient and the functions of            *)
(* RedisClientImpl and of Pipeline that it calls (doSyncCommand,           *)
(* syncReadResponse, the socket helpers).  One thread makes one blocking   *)
(* call after another; what goes wrong goes wrong in the socket, in a time *)
(* limit that passes, and in what a call leaves behind for the next one.   *)
(*                                                                         *)
(* Commands are the numbers 1..MaxCmd in the order they are issued, and    *)
(* the reply to command n is n, as in AsyncClient; the bytes of a reply    *)
(* are pieces.  A command has two halves on its way out, which is enough   *)
(* for a send that takes a part of it.                                     *)
(*                                                                         *)
(* An operator with the comment `altered' is the one after it with a       *)
(* mistake put in, for checking that the properties notice; nothing here   *)
(* uses it.                                                                *)
(***************************************************************************)
EXTENDS Pieces, Naturals

CONSTANTS
    MaxCmd,       \* bound: commands issued in a behaviour
    MaxPipe,      \* bound: commands in one pipeline
    Unparsable,   \* commands whose reply RedisParser does not understand
    OptionsFail,  \* may set_option and fcntl report an error?
    MaxConnects,  \* bound: calls of connect()
    MaxCloses     \* bound: calls of disConnected()

ASSUME BoundsAssumption ==
    MaxCmd \in Nat /\ MaxPipe \in Nat /\ MaxConnects \in Nat /\ MaxCloses \in Nat
ASSUME UnparsableAssumption == Unparsable \subseteq 1..MaxCmd
ASSUME OptionsAssumption == OptionsFail \in BOOLEAN

VARIABLES
    \* members of RedisClientImpl, which outlive a call
    state,        \* the State enumeration, as far as this client enters it
    buf,          \* the bufSize bytes of buf not parsed yet, as pieces
    parser,       \* command whose reply redisParser holds a part of, or 0
    \* the call in progress
    call,         \* where it is
    ec,           \* error_code of the call in progress, or of the last one
    cmds,         \* its commands
    sent,         \* how many of them were sent
    part,         \* was the first half of the next one sent?
    responses,    \* the values read for them so far
    \* the socket and the server
    sock,         \* what the socket is
    inFlight,     \* commands at the server whose reply was not fully read
    cut,          \* was a first part of Head(inFlight)'s reply read?
    torn,         \* was a command left half sent on this connection?
    \* history
    next,         \* next command the application will issue
    got,          \* what each command's caller was given
    clean,        \* no call failed on this connection, and it began with
                  \* nothing left in buf and the parser
    connects, closes

members == <<state, buf, parser>>
calling == <<call, ec, cmds, sent, part, responses>>
socket  == <<sock, inFlight, cut, torn>>
history == <<next, got, clean, connects, closes>>
vars    == <<members, calling, socket, history>>
-----------------------------------------------------------------------------
Cmd     == 1..MaxCmd
None    == 0                   \* "no command" and "caller was given nothing"
Garbage == MaxCmd + 1          \* a value that is not the reply to any command
NoValue == MaxCmd + 2          \* RedisValue() without an error code
Piece   == [of: Cmd \cup {Garbage}, first: BOOLEAN, last: BOOLEAN]

\* A socket that is opened has no connection, after a connect that failed.
Init ==
    /\ state = "Unconnected" /\ buf = <<>> /\ parser = None
    /\ call = "none" /\ ec = FALSE
    /\ cmds = <<>> /\ sent = 0 /\ part = FALSE /\ responses = <<>>
    /\ sock = "closed" /\ inFlight = <<>> /\ cut = FALSE /\ torn = FALSE
    /\ next = 1 /\ got = [n \in Cmd |-> None] /\ clean = TRUE
    /\ connects = 0 /\ closes = 0

\* The call returns to the application or throws.
Return ==
    /\ call' = "none" /\ cmds' = <<>> /\ responses' = <<>>
    /\ sent' = 0 /\ part' = FALSE
-----------------------------------------------------------------------------
(* Connecting                                                              *)

\* connect() up to its ::connect, which blocks: the code reads the flags of
\* the socket twice and never sets O_NONBLOCK.  A socket that is open already
\* makes socket.open fail, which stops nothing; one that was connected makes
\* ::connect fail at once.
connect ==
    /\ call = "none" /\ connects < MaxConnects
    /\ connects' = connects + 1
    /\ IF sock \in {"closed", "opened"}
       THEN call' = "connect" /\ ec' = (sock = "opened")
       ELSE call' = "none" /\ ec' = TRUE
    /\ UNCHANGED <<members, cmds, sent, part, responses, socket,
                   next, got, clean, closes>>

\* The end of connect(): neither the parser nor bufSize is reset.
Connected ==
    IF ec THEN UNCHANGED <<state, clean>>
    ELSE state' = "Connected" /\ clean' = (parser = None /\ buf = <<>>)

NotConnected == ec' = TRUE /\ UNCHANGED <<state, clean>>

\* ::connect returns.  An error of set_option or of fcntl keeps it from nothing,
\* but is still set at the end, or ends the call when the connection is made;
\* without a descriptor from socket.open it fails, and there is still no socket.
ConnectEnds ==
    /\ call = "connect" /\ call' = "none"
    /\ \/ sock' = "connected" /\ Connected /\ UNCHANGED ec
       \/ sock' = "opened" /\ NotConnected
       \/ sock = "closed" /\ sock' = "closed" /\ NotConnected
       \/ OptionsFail /\ sock' = "connected" /\ NotConnected
    /\ UNCHANGED <<buf, parser, cmds, sent, part, responses, inFlight, cut, torn,
                   next, got, connects, closes>>

\* disConnected() and the destructor: RedisClientImpl::close.
disConnected ==
    /\ call = "none" /\ closes < MaxCloses
    /\ closes' = closes + 1
    /\ state' = "Closed" /\ sock' = "closed"
    /\ inFlight' = <<>> /\ cut' = FALSE /\ torn' = FALSE
    /\ UNCHANGED <<buf, parser, calling, next, got, clean, connects>>
-----------------------------------------------------------------------------
(* Sending                                                                 *)

Collected(n) == [i \in 1..n |-> next + i - 1]

\* command() and, with any number of commands, pipelined() and
\* Pipeline::finish().  In any state but Connected they only call the error
\* handler.  The caller passes an error code that is fresh, or the one of an
\* earlier call, which nothing clears.
command(n, fresh) ==
    /\ call = "none" /\ state = "Connected" /\ next + n - 1 <= MaxCmd
    /\ call' = "write" /\ cmds' = Collected(n)
    /\ ec' = (ec /\ ~fresh)
    /\ next' = next + n
    /\ UNCHANGED <<members, sent, part, responses, socket,
                   got, clean, connects, closes>>

\* What the server makes of a whole command.  One that follows a torn command
\* is read as part of that one: the server answers with some error, or waits.
Arrives(n) ==
    \/ sock = "broken" /\ UNCHANGED inFlight
    \/ sock = "connected" /\ ~torn /\ inFlight' = Append(inFlight, n)
    \/ /\ sock = "connected" /\ torn
       /\ inFlight' \in {inFlight, Append(inFlight, Garbage)}

\* altered
AfterAllButOne == IF sent + 2 >= Len(cmds) THEN "read" ELSE "write"

\* Where doSyncCommand is when the next command has been sent.
AfterSend == IF sent + 1 = Len(cmds) THEN "read" ELSE "write"

\* socketWrite: send takes a half of the command or what is left of it.
WriteSome ==
    /\ call = "write"
    /\ \/ ~part /\ part' = TRUE
          /\ UNCHANGED <<call, cmds, sent, responses, inFlight, clean>>
       \/ /\ Arrives(cmds[sent + 1])
          /\ IF ec
             THEN Return /\ clean' = FALSE
             ELSE /\ sent' = sent + 1 /\ part' = FALSE /\ call' = AfterSend
                  /\ UNCHANGED <<cmds, responses, clean>>
    /\ UNCHANGED <<members, ec, sock, cut, torn, next, got, connects, closes>>

\* Its time limit passes, or send fails.
WriteStops ==
    /\ call = "write"
    /\ Return /\ ec' = TRUE /\ clean' = FALSE
    /\ torn' = (torn \/ part)
    /\ UNCHANGED <<members, sock, inFlight, cut, next, got, connects, closes>>
-----------------------------------------------------------------------------
(* Receiving                                                               *)

\* altered
ReadRetries == call = "read" /\ buf = <<>> /\ UNCHANGED vars

\* socketReadSome: the time limit passes, or the connection ended.
ReadStops ==
    /\ call = "read" /\ buf = <<>>
    /\ Return /\ ec' = TRUE /\ clean' = FALSE
    /\ UNCHANGED <<members, socket, next, got, connects, closes>>

\* It gets k whole replies (the first may have been begun by an earlier read)
\* and, if more, the beginning of another.
Receive(k, more) ==
    LET Whole(i) == [of |-> inFlight[i], first |-> ~(i = 1 /\ cut), last |-> TRUE]
        Begun(i) == [of |-> inFlight[i], first |-> TRUE, last |-> FALSE]
    IN  /\ call = "read" /\ buf = <<>>
        /\ more => ~(k = 0 /\ cut)
        /\ buf' = [i \in 1..k |-> Whole(i)]
                  \o (IF more THEN <<Begun(k + 1)>> ELSE <<>>)
        /\ buf' # <<>>
        /\ inFlight' = SubSeq(inFlight, k + 1, Len(inFlight))
        /\ cut' = more
        /\ UNCHANGED <<state, parser, calling, sock, torn, history>>

\* altered
RespondAtOnce(v) ==
    /\ Return
    /\ got' = [n \in Cmd |-> IF n = cmds[Len(responses) + 1] THEN v ELSE got[n]]

\* syncReadResponse returns a value; with the last one the call ends, and its
\* caller has one for each command.
Respond(v) ==
    IF Len(responses) + 1 < Len(cmds)
    THEN /\ responses' = Append(responses, v)
         /\ UNCHANGED <<call, cmds, sent, part, got>>
    ELSE LET all == Append(responses, v)
         IN  /\ Return
             /\ got' = [n \in Cmd |->
                          IF \E i \in 1..Len(cmds) : cmds[i] = n
                          THEN all[CHOOSE i \in 1..Len(cmds) : cmds[i] = n]
                          ELSE got[n]]

Waits == UNCHANGED <<call, cmds, sent, part, responses, got>>

\* altered
DropBuffer(left) == buf' = <<>>

\* The bytes after those parsed move to the front of buf.
KeepRest(left) == buf' = left \o Tail(buf)

\* Does the parser read the piece as its sender meant it?
Understood(p) ==
    /\ p.of \notin Unparsable
    /\ parser = IF p.first THEN None ELSE p.of

\* One call of the parser on a piece that continues what it holds.
ParsePiece ==
    /\ call = "read" /\ buf # <<>> /\ Understood(Head(buf))
    /\ KeepRest(<<>>)
    /\ IF Head(buf).last
       THEN parser' = None /\ Respond(Head(buf).of)
       ELSE parser' = Head(buf).of /\ Waits
    /\ UNCHANGED <<state, ec, socket, next, clean, connects, closes>>

\* One call on any other piece: the parser rejects it, and the error handler
\* returns or throws; or it takes the piece as part of a value it has not seen
\* the end of; or it finds the end of some value in it.  When it stops within
\* the piece the rest stays in buf (bound: one stop within a piece).
MisreadPiece ==
    LET p == Head(buf)
        leftOf == {<<>>} \cup (IF p.first
                              THEN {<<[p EXCEPT !.first = FALSE]>>} ELSE {})
    IN  /\ call = "read" /\ buf # <<>> /\ ~Understood(p)
        /\ clean' = FALSE
        /\ \/ /\ \E left \in leftOf : KeepRest(left)
              /\ parser' = None
              /\ \/ Return /\ UNCHANGED got
                 \/ Respond(NoValue)
                 \/ Respond(Garbage)
           \/ KeepRest(<<>>) /\ parser' = p.of /\ Waits
        /\ UNCHANGED <<state, ec, socket, next, connects, closes>>

\* The peer or the network ends the connection; what arrived can still be read.
Break ==
    /\ sock = "connected" /\ sock' = "broken"
    /\ UNCHANGED <<members, calling, inFlight, cut, torn, history>>
-----------------------------------------------------------------------------
Application ==
    \/ connect \/ disConnected
    \/ \E n \in 1..MaxPipe, fresh \in BOOLEAN : command(n, fresh)

Reading ==
    \/ \E k \in 0..Len(inFlight), more \in BOOLEAN :
           k + (IF more THEN 1 ELSE 0) <= Len(inFlight) /\ Receive(k, more)
    \/ ParsePiece \/ MisreadPiece

Next ==
    \/ Application \/ ConnectEnds \/ WriteSome \/ WriteStops
    \/ Reading \/ ReadStops \/ Break

Spec == Init /\ [][Next]_vars

\* Time passes, so that every wait ends (the kernel limits a connect() that
\* the client does not), and the client's own steps are taken.  Nothing is owed
\* by the server or the network.
Fairness ==
    /\ WF_vars(ConnectEnds) /\ WF_vars(WriteStops) /\ WF_vars(ReadStops)
    /\ WF_vars(ParsePiece) /\ WF_vars(MisreadPiece)

FairSpec == Spec /\ Fairness
-----------------------------------------------------------------------------
Values == 0..NoValue

\* The variables hold values of their kinds, a call reads only when it has sent
\* all its commands, and reads no more values than it sent commands.
TypeOK ==
    /\ state \in {"Unconnected", "Connected", "Closed"}
    /\ buf \in Seq(Piece) /\ parser \in 0..Garbage
    /\ call \in {"none", "connect", "write", "read"} /\ ec \in BOOLEAN
    /\ cmds \in Seq(Cmd) /\ sent \in 0..Len(cmds) /\ part \in BOOLEAN
    /\ responses \in Seq(Values) /\ Len(responses) <= sent
    /\ call = "read" => sent = Len(cmds)
    /\ sock \in {"closed", "opened", "connected", "broken"}
    /\ inFlight \in Seq(Cmd \cup {Garbage}) /\ cut \in BOOLEAN /\ torn \in BOOLEAN
    /\ next \in 1..(MaxCmd + 1) /\ got \in [Cmd -> Values] /\ clean \in BOOLEAN
    /\ connects \in 0..MaxConnects /\ closes \in 0..MaxCloses

\* On a clean connection the replies in buf and at the server are those the
\* call in progress has yet to read, in order, and between calls there is
\* nothing: not a byte in buf, not a part of a reply in the parser.  Replies
\* may be missing at the end once the connection is broken.
NothingLeftBehind ==
    clean /\ state = "Connected" =>
        LET owed == SubSeq(cmds, Len(responses) + 1, sent)
            due  == Completes(buf) \o inFlight
        IN  /\ IF sock = "connected" THEN due = owed ELSE IsPrefixOf(due, owed)
            /\ OnlyLastCut(buf)
            /\ call # "read" => buf = <<>> /\ parser = None

\* On a clean connection a caller is given, for each of its commands, the reply
\* to that command, however sends and reads are cut up and pipelined.
OwnReplies ==
    [][clean /\ clean' => \A n \in Cmd : got'[n] # got[n] => got'[n] = n]_vars

\* "For every request command will get response value" (Pipeline::finish), also
\* after a call that failed: what a caller is given is its own reply.
ResponsePerCommand == \A n \in Cmd : got[n] \in {None, n}

\* "Return true if creates redis connection succeeded" (isConnected): a
\* connection that was made is one the client can use.
ConnectedWhenSucceeded == call = "none" /\ sock = "connected" => state = "Connected"

\* Every call returns, whatever the server does, when its time limits pass.
CallReturns == call # "none" ~> call = "none"
=============================================================================
