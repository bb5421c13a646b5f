# redisclient: TLA+ models, model checking and proofs

The repository is a C++ client library for Redis over Boost.Asio, derived from
nekipelov/redisclient. This directory holds a formal model of it: what each part does, checked
by TLC on small instances, and the main results, what both clients promise
their callers, what subscribers hear, what the parser returns, what a server
reads and how the reconnecting example behaves, proved by TLAPS for every instance.

Paths are relative to the repository root; `RedisClientImpl.cpp` and the like
are in `src/redisclient/`.

## 1. The system

| Part | Where | State it keeps | Operations |
|---|---|---|---|
| Asynchronous client | `RedisAsyncClient.*`, `RedisClientImpl.*` | connection `state`, queue `handlers`, send buffers `dataQueued` and `dataWritten`, one receive buffer `buf`, a parser, a strand, a socket | `connect` (tcp and local), `disconnect`, destruction, `command`, `publish`; completion handlers `handleAsyncConnect`, `asyncWrite`, `asyncRead`; posted `doAsyncCommand` |
| Publish/subscribe | `RedisClientImpl::subscribe`, `singleShotSubscribe`, `unsubscribe`, Subscribed branch of `doProcessMessage` | `msgHandlers`, `singleShotMsgHandlers`, `subscribeSeq`, state Subscribed | subscribe, unsubscribe, delivery of messages |
| Reply parser | `RedisParser.*` | statement (kept in `states` between calls), `buf`, `bulkSize`, array stacks | `parse` on a chunk, `result` |
| Synchronous client | `RedisSyncClient.*`, `RedisClientImpl::doSyncCommand`, `syncReadResponse` | `state`, `buf`/`bufSize`, parser, timeouts | `connect` with poll, `command`, `pipelined` |
| Socket helpers | `RedisClientImpl.cpp:56-212` | none | poll with recv or send, EINTR, timeouts |
| Pipeline | `PipeLine.*` | collected commands | `command`, `finish` |
| Command encoding | `RedisBuffer.h`, `makeCommand` | none | encoding |
| Values | `RedisValue.*` | one value | construction, conversions, comparison |
| The reconnecting example | `examples/async_pubsub.cpp` | two clients, three timers | connect, error handler, publish on a timer |

How they interact. `command()` posts `doAsyncCommand` to the strand; when the
io_service runs it, the caller's handler goes to the end of `handlers`, the
command to the end of `dataQueued`, and `asyncWrite` is started unless
`dataWritten` says one is in progress. `asyncWrite` swaps the two buffers and
writes everything queued at once. `handleAsyncConnect` sets Connected, calls the
connect handler and starts the first read; `asyncRead` parses the chunk, gives
each value to `handlers.front()` and starts the next read. Nothing in the
protocol names the command a reply belongs to: a reply reaches its handler only
because `handlers`, the two send buffers, the server and the receive path stay in
the same order. `close()` empties `handlers`, closes the socket and sets Closed.
`subscribe()` registers a message handler, sends a command like `command()` does and sets
Subscribed; from then on `doProcessMessage` tells messages from confirmations, and
posts each message to its handlers through the strand. The synchronous client shares
`RedisClientImpl`'s encoding, buffer and parser, and polls the socket itself. The
example's error handler, which the client calls from its completion handlers, calls
`disconnect` and `connect` on that same client.

What is hard here:

* **Ordering**: the pairing of replies with handlers over the strand, the
  batching, pipelining and chunks that cut replies anywhere.
* **Reentrancy**: callbacks that call `disconnect`, `connect` or `command` in
  the middle of `handleAsyncConnect` or of `asyncRead`'s loop.
* **Stale completions**: `close` aborts what is in progress, but completions and
  posted calls that are queued already still run, after a reconnect too, and none
  of them knows which connection it belongs to.
* **Errors**: a failed write, a parse error or an error handler that throws
  leaves the client in some intermediate state without closing it.
* **Progress**: a read must be started again after every chunk, a write after
  every write that left something queued.
* **Two ways of asking**: messages come between the confirmations they look like,
  for handlers that come and go while they are on their way.
* **Boundaries in the parser**: sizes, empty and nil strings, bulk strings that
  look like protocol, chunk ends at every byte.

For each part, what makes it correct:

* Asynchronous client: one write and one read at a time; commands leave in order
  and once; a handler is called once, with the reply to its command; a client that
  says Connected has a socket and reads from it; commands and connection attempts end.
* Parser: the values returned do not depend on the chunks and are the values sent;
  each is returned with its last byte; exactly its bytes are consumed; only
  malformed input is rejected; no read outside of the chunk.
* Publish/subscribe: a message goes to the handlers subscribed, in order and once, and
  to no others; a single-shot handler is called once; messages do not shift confirmations.
* Command encoding: a server reads the commands that were meant, each with its last byte.
* The example: it gets to publish again after faults, and its reconnecting ends.
* Synchronous client: a command returns its own reply or an error; a call leaves
  nothing behind that the next one takes for its own; every call ends.

`PROJECT.json` lists the hazards line by line with the properties aimed at each, and with a
note where part of a hazard is what the code does, so that a property can only say when.

### The code as it is

The repository does not compile at this commit. The models take the meaning the
code has with the smallest repairs, none of which changes a decision of it:

* `RedisClientImpl.cpp:500` defines as `doSyncCommand` what the header declares
  and all callers bind as `doAsyncCommand`; the models call it `doAsyncCommand`.
* `RedisClientImpl.cpp:111` lacks a semicolon, `:395` has `result.crlf`, `:365`
  `boost::error_code`; `:370` initialises a variable with itself (its value is
  not used).
* `RedisAsyncClient.cpp:20` takes a local endpoint where the header declares the
  tcp one; it is modelled as the tcp overload.
* `RedisParser.cpp:235-251` declares variables in a case that later cases jump
  over (braces are missing); `RedisValue.h` compares a value with a `typeid`; the
  headers include the `.cpp` files under swapped conditions and names.

Assertions are taken as compiled out (a Release build): where the models show one
failing, it is a property and a finding.

## 2. The modules

| Module | What it is |
|---|---|
| `AsyncClient` | the asynchronous client on one thread with a strand, a socket, a server and an application: state machine, properties, fairness |
| `AsyncClientProofs`, `AsyncAnswersProofs`, `AsyncBeltProofs` | TLAPS proofs about it: types and sending; what holds however it is used; the pairing of replies with handlers, and the refinement of `CommandChannel` |
| `SyncClient` | the synchronous client, its socket helpers and pipelines: state machine, properties, fairness |
| `CommandChannel` | what both clients promise whoever gives them commands: the abstract specification |
| `AsyncChannel`, `SyncChannel` | that `AsyncClient` and `SyncClient` implement it: the refinement mappings |
| `SyncClientProofs` | TLAPS proofs of `SyncClient`'s properties and of its refinement |
| `Pieces`, `PieceLemmas` | what both clients' properties say of pieces of replies, and TLAPS lemmas about it and about sequences, which `PubSubProofs` uses too |
| `RespBytes` | the bytes of the protocol |
| `RespParser` | the reply parser as a state machine over the bytes of a stream that arrives in chunks |
| `RespGrammar` | which replies a server sends, the well-formed and the broken: what is assumed of `Replies` |
| `CommandEncoding` | the bytes of a command, and a server that reads them |
| `MCRespParser`, `MCWire` | the replies, good and broken, and the commands TLC runs the two on |
| `WireProofs` | TLAPS proofs about the parser and about the encoding of commands |
| `PubSub` | subscriptions, message handlers and the Subscribed branch of `doProcessMessage`, over a connection that is two queues |
| `PubSubProofs` | TLAPS proofs of `PubSub`'s safety properties |
| `PubSubExample` | the example `async_pubsub`, composed with `AsyncClient` |
| `PubSubExampleProofs` | TLAPS proofs about the example: its safety properties, and that it uses `AsyncClient` as that says |

### AsyncClient

A command is a number, and so are its handler and the reply to it; a handler is
paired correctly when it is called with its own number. The receive buffer holds
*pieces*: whose reply a run of bytes belongs to, and whether it holds the
beginning and the end. That is all that decides pairing.

State and code:

| Variable | Code |
|---|---|
| `state`, `handlers`, `dataQueued`, `dataWritten`, `buf` | the members of `RedisClientImpl` with these names |
| `parser` | `redisParser`: whose reply it has read a part of |
| `strandQ` | calls of `doAsyncCommand` posted and not run |
| `ready` | completions queued in the io_service, with their result |
| `frame`, `rest` | how deep in the client's code the running completion handler is, and the pieces of its chunk not parsed yet |
| `sock`, `reads`, `writing`, `sent` | the socket and the operations in progress on it |
| `inFlight`, `cut` | commands at the server whose reply was not read to its end; whether the first was read in part |
| `next`, `got`, `wire`, `quiet`, `reported`, `fence`, `connects`, `closes` | history for the properties, and bounds |

Actions: `connect`, `connectIgnored`, `close` and `command` are the calls of the
application, possible between completion handlers and inside every callback
(`AppMayCall`); the client's own functions, `doAsyncCommand`,
`handleAsyncConnect`, `asyncWrite`, `asyncRead` and the loop of the last
(`ParsePiece`, `MisreadPiece`, `EndOfChunk`), are split only where a callback
runs, because on one thread nothing else can come in between.
`ConnectHandlerReturns`, `ReplyHandlerReturns` and `ErrorHandlerLeaves` are what
follows a callback. `ConnectEnds`, `Transmit`, `WriteEnds`, `Receive`,
`ReadFails` and `Break` are the kernel, the network and the server.

Choices worth knowing:

* A closed socket ends its operations by queueing aborted completions; those
  that succeeded before stay queued as successes. This is how Asio behaves, and
  the source of every stale completion in the model.
* `buf` is shared: a read that completes while an earlier completion still waits
  overwrites the pieces at the front, and the earlier one parses what it finds.
* What the parser makes of bytes it was not meant to see is left open: it
  rejects them, takes them as part of an unfinished value, or finds a value in
  them (at most one more value from the remainder of a piece: a bound).
* `Unparsable` names commands whose reply the parser does not understand: this
  is how array replies (see finding 3) appear at this level.
* User callbacks do not throw, but for the default error handler, which does:
  where that leaves `asyncRead` the model does too.
* The server answers each command once and in order, as Redis does.
* `async_write` writes at most 16 buffers or 64 KB at a time and goes on by itself when the
  completion of that has run (`Transmit`, `WriteGoesOn`): with a disconnect and a connect in
  between, the rest of an old batch goes to the new connection. Here a part is any
  number of commands.
* The destructor is `close`. State Subscribed is not entered: `PubSub` has it.

The variable `quiet` states the condition several promises need: every
`disconnect()` so far was called outside of callbacks, with nothing posted,
queued or being written and no successful completion waiting, and `connect()`
found a parser that was not in the middle of a reply. Where the application
breaks it the code breaks its promise, which the findings show. `SingleWriter`,
`WireOrder`, `AnsweredOnce`, `NotSilentlyDeaf` and `UndefinedOnlyByClose` hold
without it.

### RespParser

One action is one `case` of `parseChunk` on one byte; the cases that copy runs
of a bulk string copy them in one step, bounded by the end of the chunk as the
code is. `st` stands for the local `state` and what the stack `states` keeps of
it between calls; `hi` is how far the stream was delivered. The stream is the
concatenation of the encodings of a few replies, and `Deliver` cuts it anywhere.
Characters are the reply marks, the digits, CR, LF, a control character, a byte
above 127 and a letter. The cases for arrays are never reached (finding 3) and
not in the module. Numbers have `LongBits` bits and wrap, digit by digit, as
`bufferToLong` computes them: signed overflow is undefined in C++, and the build
(no flag that traps it) wraps. With 8 bits the replies include the
least and the greatest number, the first of which overflows on the way to the right value.
`Half` is 2^(`LongBits` - 1), `Long` what a number becomes in a long, and `Magnitude` the
loop of `bufferToLong`. Memory does not run out: `buf.reserve(bulkSize)`
(`RedisParser.cpp:201`), which throws for a size that no memory holds, is not an action.

`RespGrammar` says which replies the properties are about. A well-formed one (`IsReply`) is
a line of text, a number that fits a long, a bulk string of any bytes whose size does, or a nil.
A broken one has a byte that cannot be there (`WrongAt`): no mark, a character that its line
cannot hold, a CR with no LF after it, a size below -1, or no CR and LF after a body.

### SyncClient

One thread makes one blocking call after another, so nothing interleaves with a
call but the network; what matters is what a call that fails leaves behind.
Commands, replies and pieces are as in `AsyncClient`.

| Variable | Code |
|---|---|
| `state`, `buf`, `parser` | members that outlive a call: the state, `buf`/`bufSize`, what `redisParser` holds |
| `call`, `ec`, `cmds`, `sent`, `part`, `responses` | the call in progress: where it is, its error code, the commands given to it, how many were sent whole, whether half of the next was, the values read |
| `sock`, `inFlight`, `cut`, `torn` | the socket, the commands at the server, whether a reply was read in part, whether a command was sent in part |
| `next`, `got`, `clean`, `connects`, `closes` | history and bounds |

Actions: `connect`, `disConnected` and `command` are the calls (`command(n, fresh)` is
`RedisSyncClient::command`, `pipelined` and `Pipeline::finish`, with n commands and
an error code that is fresh or one the caller has used before, which the helpers
never clear). `ConnectEnds`, `WriteSome`, `WriteStops`, `Receive`, `ReadStops`
are where a call waits in the kernel, `ParsePiece` and `MisreadPiece` one call of
the parser, `Break` the network.

Choices worth knowing:

* `::connect` blocks: line 75 reads the flags of the socket again where setting
  `O_NONBLOCK` was meant (`RedisSyncClient.cpp:66-82`), so `EINPROGRESS` does not come
  back and the poll loop at `:88-144` cannot be reached. It is not modelled,
  and neither are its time limit in the wrong unit and its missing exit.
* `ConnectEnds` has every way out of `connect` from there: connected; refused, with the socket
  left open; no socket, when `socket.open` got no descriptor; and, where `OptionsFail`
  allows it, connected with an error set by `set_option` or `fcntl`, which keeps the state
  from becoming Connected. The run of finding 2 has `OptionsFail` FALSE, so that the failed
  retry is what it shows.
* The overloads for local sockets take the tcp endpoint and cannot compile.
* An EINTR retry repeats a system call with nothing changed: a stutter.
* A command has two halves, enough for a send that stops in the middle. The server
  reads what follows a half command as part of it, and answers with an error or waits.
* `statementValid` asserts; in a Release build it calls the error handler and the call
  returns at once, with no change of state. `command` is therefore guarded.
* SIGPIPE is ignored, so that a send on a broken connection is an error.
* `clean` states the condition of the promises: the connection began with an
  empty `buf` and an idle parser, and no call on it failed since.

### CommandChannel and the refinements

`CommandChannel` has the commands issued, those pending, what each was answered, and
`warranted`, whether the client's promise is in force. While it is, commands are
issued, the oldest are answered, each with its own reply, or the application gives up
those pending; while it is not, a command may be answered wrongly, but never twice and
never before it was issued. The two mappings:

| Abstract | `AsyncChannel` | `SyncChannel` |
|---|---|---|
| `next`, `got` | the same | the same |
| `pending` | `handlers` (without the one being called) and then `strandQ` | `cmds`, the commands of the call in progress |
| `warranted` | `quiet` | `clean` |

So the two send buffers, the strand, partial sends, cut replies and the parser are hidden,
and every step of them is a stutter or one of the four abstract steps.

### CommandEncoding

`makeCommand` is a function of the arguments; `Stream` is what several commands make on
the wire. `ReadByte` is a server that reads them as the protocol says, one byte at a
time: a line with the number of arguments, for each a line with its size and then that
many bytes (`Whole` says when it has all of what it expects, `NumberOf` is the number
that a line's digits make). Arguments are sequences of bytes, among them CR, LF, NUL and one above 127.
`RedisBuffer` only decides where the bytes come from. `CommandsSpec` is the client and the
server; the run puts it beside the parser, with which it shares nothing.

### PubSub

What `AsyncClient` shows is taken for granted: commands arrive in order and replies are
parsed in order, so a connection is the two queues `toServer` and `toClient`, and a value is
taken from the second whole. The parser is taken to deliver arrays, as
`doProcessMessage` expects (it does not, finding 3). `connect` stands for a connect
with its completion, and `close` is called while no command waits in the strand: what a
disconnect leaves behind of those is `AsyncClient`'s subject.

| Variable | Code |
|---|---|
| `state`, `handlers`, `msgHandlers`, `singleShotMsgHandlers`, `subscribeSeq` | the members with these names; a handle is the id that `IdOf` gives |
| `strandQ` | calls of `doAsyncCommand` and of message handlers that were posted |
| `link`, `reading`, `toServer`, `toClient`, `subs` | the connection, and what the server has the client subscribed to |
| `calls`, `answered`, `heard`, `due`, `published`, `gone`, `mixed`, `connects` | history: the calls made, what their handlers were called with, and what they should be |

`subscribe`, `singleShotSubscribe` (each with its pattern form), `unsubscribe`, `command`
are the calls; `asyncRead` is one value given to `doProcessMessage`, whose branches are
`ProcessMessage`, `CallReplyHandler`, `CallErrorHandler`; `doAsyncCommand` and
`CallMessageHandler` run what was posted. `Execute`, `Publish` and `Break` are the server
and the network. A name used both as channel and pattern shares its handlers, because the
maps are keyed by the name alone (`BothKinds`); `MessageBelt` is about the other names.
Messages are numbered in the order of publishing, so that a set of them, like `due`, says
also in which order they should be heard.

### PubSubExample

The application of `AsyncClient` is here the example's code instead of any calls at any
time: `todo` is what it still has to do in the handler that was called (`Reconnect` is
`connectPublisher` or `connectSubscriber` up to its `connect`, `Connect`, `Refused`,
`Connected`, `Subscribe`, `PublishTimeout`), `waiting` and `fired` are its timers.
`Client` is each of `AsyncClient`'s handlers with the call it makes to the example. The
publisher and the subscriber share nothing, so a behaviour has one of them (`role`).
Subscribing sends like a command and nobody publishes on the subscriber's channel in
this module. An assertion that fails stops the model at that step; in a
Release build the code goes on into the error handler, whose `connect` in state Connecting
calls the connect handler, which subscribes again: it recurses without end, starts no
connection attempt and never returns to the io_service, so no state worth a property follows.
In Subscribed a value that is no array goes to the error handler and no handler is popped
(`RedisClientImpl.cpp:311`), while `Client` does what `AsyncClient` does with a stray value, which
has no Subscribed: it gives it to a waiting handler. Only a connection that began with something
under way (not `quiet`) brings such a value, and it is one of the replies to commands sent, for which
`NoReconnectStorm` allows an attempt and which `GivesUpBroken` excuses. To have the branch
would mean a client that is no longer a behaviour of `AsyncClient` (`ExampleRunsClient`).
At most 16 commands are issued, so an `async_write` is one write.

## 3. What TLC checks

| Run | Instance | Question | Distinct states |
|---|---|---|---|
| `async_reconnect` | 2 commands, 3 attempts, 2 disconnects | all properties of `AsyncClient` but one, with reconnects, aborted and stale completions, callbacks that disconnect and reconnect; and that commands and attempts end | 417 770 |
| `async_channel` | 3 commands, the reply to the last not understood, 2 attempts, 1 disconnect | with a full pipeline (both send buffers in use, a write in parts, several replies per read, replies cut in two) the client implements `CommandChannel` | 730 090 |
| `sync_calls` | 4 commands, pipelines of up to 3, a reply not understood, 3 attempts, 1 disconnect | a call gets its own replies and leaves nothing behind, whatever sends and reads do; the client implements `CommandChannel`; every call returns | 85 989 |
| `wire` | streams of 1 or 2 of 28 replies, every chunking; streams of 1 or 2 of 7 commands | the parser's properties; a server reads the commands that were meant | 63 349 |
| `pubsub_handlers` | 3 calls, 1 message, 2 connections | which handlers hear which messages, how often; confirmations go to their own calls | 590 179 |
| `pubsub_messages` | 2 calls, 2 messages, 2 connections | messages are not doubled, overtaken or carried over, and all are heard | 80 220 |
| `example_reconnects` | publisher or subscriber, 2 commands, 1 break, 1 refused connect | reconnecting ends, gives up no good connection, and the publisher publishes again | 92 044 |
| `resp_arrays`, `sync_ResponsePerCommand`, `sync_ConnectedWhenSucceeded`, `pubsub_StaysSubscribed`, `example_SubscribesConnected` | smallest that show it | the findings below: violated | |

Why these bounds. Two connections with commands on both need two attempts and a
disconnect; the third attempt and second disconnect let a stale completion of
the first connection meet the third, and let an aborted attempt come before a
good one. Two commands are enough to swap, lose or double one; three put two
commands in one batch while one is being written, which is the least for an
`async_write` in two parts (the same run
with four commands, 8 446 480 states, passes too). For the parser one reply after another is where
state could be carried over, and the 14 good replies include sizes of one and two digits,
empty and nil, the least and the greatest number, and bulk strings full of CR, LF and
reply marks; the 14 broken ones reach every error return. The 7 commands have counts
and sizes of one and two digits, and arguments that are empty, binary, or look like
protocol. For the synchronous client three commands in a pipeline put a
reply between two others, and the fourth command meets what a call of three
left; the third attempt, after the disconnect, is the connection that begins
with a parser or a buffer that is not empty. Three calls of `PubSub` are two
handlers of one name and the unsubscribing of one, or a single-shot between two others; two
connections let handlers, posted messages and handles of the first meet the second.
The example's faults are counted, because its properties say what follows when
there are no more; one break and one refusal let a timer for connecting expire when
another connection stands (`NoReconnectStorm` and `GivesUpBroken`
also pass for the publisher with one break, one refusal and three commands, 1 516 218
states; with one break and four commands, 4 645 747; with two breaks and three commands,
2 113 854; and for the subscriber with one break, one refusal and four commands, 908 308).
In `PubSubExample` the bounds `MaxConnects` and `MaxCloses` of `AsyncClient` are above
anything reached, which `NoReconnectStorm` shows. Deadlock is not checked: a client at the
end of its bounded commands, or closed, or a parser at the end of its stream, has
nothing to do.

Safety properties of `AsyncClient`: `SingleWriter`, `WireOrder` (sending),
`OneReader`, `AnsweredOnce`, `Belt`, `PairedReplies` (pairing; `Belt` is the
invariant that explains `PairedReplies`: the handlers owed a call are those of
the replies being parsed, in the buffer, at the server, and of the commands
unsent, in this order), `QueueDrains`, `NotSilentlyDeaf` (nothing gets stuck
unreported), `UndefinedOnlyByClose` (the one way into undefined behaviour).
`ImplementsChannel` is the refinement described above.

Of `SyncClient`: `NothingLeftBehind` says what is in `buf` and at the server at
every point of a call, and that it is nothing between calls; `OwnReplies` is what
the caller sees of it. Both hold while `clean`, and finding 1 shows that they
stop holding when a time limit has passed once.

Of `PubSub`: `MessageBelt` is the belt of messages: what a handler heard, what is posted to
it and what is on its way follow one another and make up what the server sent while it was
subscribed, each message once. `SingleShotOnce` and `ConfirmationsPaired` are the same question for
single-shot handlers and for reply handlers; the second needs that no plain command was
unanswered when the client became Subscribed (`mixed`), because its reply is then
taken for a protocol error and shifts the confirmations (`RedisClientImpl.cpp:311`).

Of the example: `NoReconnectStorm` bounds the connection attempts it starts (a `connect()` that
only calls its handler is none) by the faults and the commands that were sent: one to begin with, one for a break, two for a refused connect (the timer's,
and another when the client gave a read or a write to the socket before it heard of the
refusal), and one at most for a command, when its reply comes where nobody waits for it or
cannot be parsed. Every term is needed. `GivesUpBroken` says when it gives up a connection
that stands.

Liveness (`EveryCommandEnds`, `ConnectEventuallyEnds`) assumes weak fairness of
what the scheduling justifies: an io_service that is run executes what is ready;
callbacks return; the kernel moves bytes and reports the end of operations; the
server answers what it received, so a read with replies outstanding ends with at
least one whole reply. The application owes nothing: `connect`, `close` and
`command` are not fair, and the network need not break. In `SyncClient`
(`CallReturns`) nothing is owed by the server: that time limits pass (`WriteStops`,
`ReadStops`), that the kernel ends a `::connect`, and that the client's own
steps are taken is all that is assumed. `PubSub` (`EveryMessageHeard`) assumes that the
io_service runs what was posted and read, and that the server executes commands.
`PubSubExample` (`PublishesAgain`) assumes that the example's callbacks return, that
timers expire, and strong fairness of what waits for the io_service, the kernel and the
server: the io_service's queue is first come first served, so that a handler that is
ready is run however often timers keep it busy, and the kernel and server do not pause
for ever because the client calls something in between. Refused connects and breaks are
bounded by their counts and not owed.

Each property of the passing runs has a mutant, an altered definition kept next
to the one it alters, with which TLC finds the property violated.

### Findings

1. `ResponsePerCommand`. `Pipeline::finish` is documented with "For every request command will
   get response value". After a call whose time limit passed the late reply stays on
   the connection, nothing closes it or discards the reply, and the next command returns it as its own
   (`RedisClientImpl.cpp:469`).
2. `ConnectedWhenSucceeded`. `isConnected` is documented as "Return true if creates redis
   connection succeeded". After a `connect()` that failed the socket stays open; the
   next one makes the connection but keeps the error `socket.open` gave, so that
   the client stays Unconnected on a socket that is connected (`RedisSyncClient.cpp:174`).
3. `resp_arrays`. `case arrayReply` leads to `BulkSize` (`RedisParser.cpp:75`):
   array replies come out as strings cut from the wrong bytes, against
   `tests/parsertest.cpp:159-167`. Publish/subscribe, whose messages are arrays,
   cannot work as it is.
4. `StaysSubscribed`. `subscribe` is documented with "Handler msgHandler will be called
   when someone publish message on channel. Call unsubscribe to stop the subscription".
   `unsubscribe` with the handle of one of two handlers of a channel sends UNSUBSCRIBE
   for the channel, and the other hears nothing any more (`RedisClientImpl.cpp:647`).
5. `SubscribesConnected`. A connection that breaks while a command is being written calls the
   example's error handler for the read and for the write; the second time its
   `connect()`, in state Connecting, calls its handler with success, and
   `assert(state == State::Connected || state == State::Subscribed)` in `subscribe`
   fails (`examples/async_pubsub.cpp:81`, `RedisClientImpl.cpp:564`).

Other things the models show, with no run of their own:

* A connect completion that is queued when `disconnect()` is called makes the closed
  client Connected (`RedisClientImpl.cpp:372`), where `isConnected()` is documented as "Return
  true if it is connected to redis server". This is one of the reasons for `quiet`.
* `disconnect()` leaves `dataQueued` and posted calls, which are sent on the next
  connection (`RedisClientImpl.cpp:236`), where it is documented as "Disconnect from redis
  and clear command line arguments".
* `connect()` while Connecting reports success at once (`RedisAsyncClient.cpp:41`),
  which is half of finding 5.
* A message that was posted when `unsubscribe()` is called is delivered after it
  (`RedisClientImpl.cpp:288`).
* A single-shot handler is forgotten after its message, but no UNSUBSCRIBE is sent
  (`RedisClientImpl.cpp:280`), where the documentation says that it "will be unsubscribed after call".

## 4. What is proved

All theorems are about the modules' `Spec`, for all values of the constants: any
number of commands, connections and disconnects, pipelines of any length, any set of
replies the parser does not understand, any channels and messages, streams of any replies cut
anywhere, commands of any arguments. The assumptions on the constants (bounds that are natural
numbers, unparsable replies that are replies, `Star` no channel, replies that are well-formed or
broken as `RespGrammar` says, commands that have a name) are those in the modules themselves, which
the runs evaluate. Each proof of an invariant has a step per action;
the lemmas about sequences and about the completion queue come before it. The inductive
invariants were first checked by TLC on the instances of the runs.

### AsyncClient, however it is used

`AsyncClientProofs`:

* `TypeCorrect`: `TypeOK`, together with `BufHolds` (every completion of a
  successful read refers to pieces that are in `buf`). `BufHolds` is the
  strengthening: `asyncRead` takes as many pieces from the buffer as the
  completion says, which is type-correct only when they are there. `asyncRead`
  forgets the pieces when no waiting completion refers to them, and `Receive`
  overwrites only the front: both must preserve it.
* `SingleWriterCorrect`: `SingleWriter`, inductive by itself given types. The
  argument follows the completion queue: only `WriteEnds`, `close` and a write
  on an unusable socket put a write completion there, each only while
  `dataWritten` is nonempty and no other is queued.
* `WireOrderCorrect`: `WireOrder`. Not inductive: the strengthening is
  `OrderInv`: commands behind one another on the way (the untransmitted part of
  `dataWritten`, then `dataQueued`, then `strandQ`) are in the order they were issued, all
  below `next`, and everything in `wire` is below everything still on the way.

`AsyncAnswersProofs`:

* `AnsweredOnceCorrect`: `AnsweredOnce`, and `CalledOnce`, that what a handler was called
  with never changes and that it is called only after its command was issued. The
  strengthening, `AnswersInv`, says that `handlers` and then `strandQ` are in the order of
  issue (`InOrder`), so that calling one handler calls no other that waits, and that no
  handler in the strand or to be issued was called (`NotYetCalled`).
* `UndefinedOnlyByCloseCorrect`: `UndefinedOnlyByClose`. The strengthening, `PopInv`, is
  that the queue is empty while a reply handler runs, before it is popped, only when that
  handler disconnected, and left the state Closed or, by a `connect`, Connecting.
* `NotSilentlyDeafCorrect`: `NotSilentlyDeaf`. The strengthening, `DeafInv`, adds that an
  error handler that runs was reported: only from there is the loop left without a read.
* `OneReaderCorrect`: `OneReader`. The strengthening, `ReaderInv`, is a token that a quiet
  connection has at most once: a completed connect, its handler, a read in progress, its
  completion, or the handler that parses what was read. `close` is the step where it
  matters that the disconnect is quiet: it leaves no completion that is a token.

### AsyncClient, with quiet disconnects

`AsyncBeltProofs` proves `BeltCorrect`, `QueueDrainsCorrect` and `PairedRepliesCorrect`.
`Belt` says which commands are where and in which order, and is far from inductive. The
inductive invariant is `BeltInv`, the conjunction of these with `ReaderInv` and
`SingleWriter`:

| Part | What it says | Which step needs it |
|---|---|---|
| `KeptInv` | pieces in `rest` are held only while a chunk is parsed, pieces in `buf` only for a read completion that refers to them, also where disconnects are not quiet | every step that begins with nothing held; with `ReaderInv`: the buffer is empty when a read ends (`TokenFacts`) |
| `FreshInv` | a socket that is not connected, or whose `connect` has not called its handler, belongs to a client that holds no handler, command or reply | `ConnectEnds`, where the belt starts again |
| `WritesInv` | a write completion on an open socket is of a write in parts or of one that sent all of `dataWritten` | `asyncWrite`, which forgets `dataWritten` |
| `ReadsInv` | a read that succeeded counts all the pieces in `buf` | `asyncRead`, which forgets the rest |
| `StreamInv` | the pieces read and not parsed are one run of the server's stream, from where the parser is to where the server is; only the last may be cut | `ParsePiece`: the parser never misreads (`MisreadsUnparsable`); `Receive`: what it brings goes on where `parser` and `cut` say |
| `FrameInv` | the error handler is not called for a value nobody waits for | `ParsePiece`, `ErrorHandlerLeaves` |
| `MatchInv` | handlers owed a call = replies in `rest`, `buf`, at the server, commands unsent and queued; a prefix of them once the connection is broken | the belt itself |

The steps of `MatchInv` are then shifts along the belt: `doAsyncCommand` adds a command at
both ends, `Transmit` moves one from `Unsent` to `inFlight`, `Receive` cuts `inFlight` in two
(`ChunkCompletes`), `asyncRead` moves `buf` to `rest`, and `ParsePiece` takes the first reply
and its handler, which are of the same command (`OldestReply`). `PairedReplies` is that
lemma with `CalledOnceStep`. `QueueDrains` is inductive with `FreshInv`: only a connection
just made forgets that an error was reported.

It also proves `ImplementsChannelCorrect`: the initial states are
`CommandChannel`'s, `command` is `Issue(1)`, the `ParsePiece` that ends a reply is `Answer(1)`,
`close` is `Abandon`, and every other step leaves `Pending` as it is, `doAsyncCommand` and
`ReplyHandlerReturns` by moving commands inside of it (`Promised`). Where a disconnect was not
quiet every step is `Unwarranted`, by `CalledOnceStep`; the one way back is a quiet disconnect,
which leaves nothing pending (`NothingPromised`).

### SyncClient

`SyncClientProofs`:

* `TypeCorrect`: `TypeOK`. The strengthenings, `CallShape` and `LinkShape`, say what a call
  holds while it writes and while it reads, and what a Connected client's socket can be.
* `NothingLeftBehindCorrect`: the strengthening, `CleanInv`, adds `InStep`: while the client
  is clean nothing is torn, a reply cut at the end of `buf` is the one the server goes on
  with, and the values read so far are those of the call's first commands.
* `OwnRepliesCorrect`: the piece that completes the last value of a call is of the call's
  last command (`FirstDue`), so by `InStep` every value is of its own command.
* `ImplementsChannelCorrect`: `command(n, ...)` is `Issue(n)`, the piece that ends a call is
  `Answer(n)`, and every step that fails a call is `Unwarranted`, for which `Unanswered` says
  that no command of a call was answered before.

### PubSub

`PubSubProofs` proves `TypeCorrect`, `ConfirmationsPairedCorrect`, `MessageBeltCorrect` and
`SingleShotOnceCorrect`. The lemmas about what a step does to the strand (`StrandIssue`,
`StrandTail`, `StrandPosts`) and to the values on their way (`ClientTail`, `ClientReply`,
`ClientPublish`) come first, and each proof uses them action by action. The invariant grows
in three stages:

* `TypeInv`: `TypeOK`, with `msgHandlers` finite, which the posting in order of ids needs.
* `PairInv`, for confirmations, adds `EndedInv` (a client that is not open holds no reply
  handler, sends nothing and reads nothing), `ConnInv` (handlers owed a reply and commands
  on their way are of this connection and unanswered), `OrderInv` (the calls in `handlers`,
  in the strand, at the server and in the replies on their way are in the order of issue,
  one after another), `ModeInv` (no message comes to a client that is only Connected; when
  it is Subscribed and not `mixed`, its plain commands were answered) and `MatchInv` (while
  not `mixed`, the replies on their way or still to be made are of the oldest handlers, and
  of all of them while the connection stands). So no reply is a protocol error
  (`NoProtocolError`) and the reply parsed next is of the oldest handler (`OldestHandler`).
* `MsgInv`, for messages, adds `HandlersInv`: `msgHandlers` is exactly the handlers of the
  calls that subscribed on this connection and did not unsubscribe, with the ids `IdOf`
  gives, which `Ids` shows to be all different: so that `unsubscribe` erases one handler
  and no other. `TravelInv` says that the messages on their way are of names that were
  subscribed to, and in order; `FreshInv`, that a call to be made has heard nothing.

`BeltInv` is `MessageBelt` made inductive: for a handler still registered, `due` is what came
(heard or posted) and what is coming, the first below the second (`Belt`). `Publish` adds
at one end, `ProcessMessage` moves the head of the connection to the strand, once for each
handler of the name (`GivenOut`), `CallMessageHandler` moves it on, and what a break or an
error loses is lost at the end. `SinglesInv` gives a single-shot handler three stages, of
which it is always in one (`Stage`); `GivenOut` says that one message moves one of them on.

### RespParser

`WireProofs`. `TypeCorrect` and `BulkAssertCorrect` assume nothing of the replies but that they
are bytes: the parser reads no byte that was not delivered, and copies no run that is not
positive, whatever comes. The strengthening, `TypeInv`, says which characters `buf` can
hold in the statements that read a number, so that `bufferToLong` has a value.

`FaithfulCorrect`, `ExactConsumptionCorrect`, `RejectsOnlyMalformedCorrect` and `PromptCorrect`
follow from `ParseInv`: the values returned are the meanings of the first replies, none of which
is broken; between two replies the parser is at the beginning of the next; inside of one it is
where the bytes read so far of it, and only they, leave it (`At`: in a line, after its CR, or in a
body, with `buf` and `bulkSize`); and when it rejected something, that was in a broken reply,
not beyond its end. The proof that `parseChunk` preserves it has a lemma for each of the three things a
byte can do: go on (`StaysMidway`, from `At` to `At`), end the reply with the value it means (`Finishes`, at
`EndsAt`), or be the one that cannot be there (`Rejects`, at `WrongAt`). That no two of these are
true of the same bytes is in `AtBeforeEnd`, `AtBeforeWrong` and `EndIsNotWrong`: a bulk string may hold any bytes, a CR and an LF too,
and only its size says where it ends.

`NumberIsReadBack` is the lemma about numbers, a theorem of its own: `bufferToLong` gives back
every number from its decimal digits, for every width. The digits of the least
number are one more than a long holds: the value wraps to the least number, and its
negation wraps to it again.

### CommandEncoding

`CommandsArriveCorrect` and `CompleteWithLastByteCorrect` follow from `ServerInv`: the server has read a
prefix of the commands, and in the next one it has the first n arguments and the first m bytes
of what is due (`Due`: the line with the count, a line with a size, or an argument with its CR and LF),
which begins where `DueAt` says in the bytes of the command (`InCommand`). So the byte it reads next is the
next of what is due (`NextByte`), the line or the argument is whole with the last byte of that and not before,
although it may hold CR and LF, and a line then says the number it was made from
(`NumberOfDecimal`). Where things stand in sequences that are joined (commands in the
stream, items in a command) is in lemmas about `FlattenSeq`: `JoinedIs`, `UntilMonotone`, `JoinedAt`.

Both invariants, `ParseInv` and `ServerInv`, were checked by TLC on the instance of the run `wire`
before they were proved. What the definitions compute by recursion (`End`, `Magnitude`, `Decimal`, `Signed`,
`FlattenSeq`) is a function that satisfies its equation, because the numbers are
well-founded: `WireProofs` begins with induction and recursion over them as facts about
sets (`SetInduction`, `StrongInduction`, `Recursion`), which need no operator as a parameter.

### PubSubExample

`PubSubExampleProofs` first proves `ExampleRunsClient`, `ExampleSpec => Spec`: the example is a
behaviour of `AsyncClient`, whose calls come where an application may call, so that all the
theorems about `AsyncClient` hold of it. Then `NoReconnectStormCorrect` and
`GivesUpBrokenCorrect`, for any number of breaks, refusals and commands. The invariant,
`ExampleInv`, adds to the client's `TypeInv` and `BeltInv`:

| Part | What it says | Which step needs it |
|---|---|---|
| `AttemptInv` | a client is Connecting just while its connect is under way or its completion waits, with the result the socket tells; and no other connect is. It is what the example has and applications in general do not: it disconnects only when Connected | `handleAsyncConnect`; every step that has to know which connection a completion is of |
| `SoundInv` | on a connection that stands, no completion that came after the connect's failed: a failure that waits is of an older one, and the client hears it while still Connecting | the error handler, when called for a read or a write: the connection is broken (`HeadFails`) |
| `RefusedInv` | what waits for a timer to connect was refused before | `TimerRuns` |
| `StormInv` | the bound, with `Timers` and `Blame` added to the connects made: the connects that timers stand for, and those that the client's condition may still lead to (not connected: one; refused and not told yet: two; broken, or replies on their way: one each) | `NoReconnectStorm`, in every step |
| `GaveUpInv` | an error handler about to reconnect on a connection that stands was called for one of the two reasons `GivesUpBroken` names | `GivesUpBroken`; `MisreadsUnparsable` and `FrameInv` exclude the others |

The proof of `StormInv` is an account: each step moves a connect from `Timers` or `Blame` to
`connects`, or adds to one of them what a fault or a command sent has paid for (`Balance`,
`Settled`). A second call of the error handler for one break costs nothing, because by then the
client is no longer Connected and the first connect was for both. That a completion is of this
connection is a matter of its place in `ready`, after the connect's: `Since` names these, and
`SinceAppend`, `SinceTail` and `MovesKeep` say how the queue moves. All parts were checked by
TLC on the instance of the run before they were proved.

### Only model-checked

Liveness: `EveryCommandEnds`, `ConnectEventuallyEnds`, `CallReturns`, `EveryMessageHeard` and
`PublishesAgain` (fairness and ENABLED are out of the prover's reach). Every invariant, action
property and refinement that a passing run checks is proved.

## 5. Not modelled, and the plan

Not modelled:

* The poll loop of the synchronous `connect`: it cannot be reached.
* `RedisValue`'s conversions, comparison and `inspect`: functions of one value without state.
* Several threads running the io_service: the completion handlers that are outside of
  the strand would then access `std::queue` and `std::deque` without synchronisation,
  which is undefined behaviour from the first step, with no order of events to model.
* The life time of a client whose strand still holds a raw `this` (`RedisClientImpl.cpp:570`):
  it depends on when Asio destroys completed handlers.
* `ThrowError.h`, `Config.h`, the build files, the tests and the straight-line examples.

Done: all modules, and the proofs of all safety properties and of both refinements. What is
left to TLC is liveness.
