--------------------------- MODULE PubSubExample ---------------------------
(***************************************************************************)
(* The client of the example async_pubsub, which reconnects by itself: its *)
(* error handler disconnects and connects again, a connect that failed is  *)
(* tried again when a timer expires, and another timer publishes.  The     *)
(* example has two redis clients that share nothing; role says which of    *)
(* the two this is.  The redis client is AsyncClient, whose application    *)
(* here makes the example's calls and no others.                           *)
(*                                                                         *)
(* To the subscriber the states Connected and Subscribed are the same, and *)
(* subscribe and psubscribe send like command; both are `Connected' and    *)
(* `command' here, and nobody publishes on its channel.  That holds of     *)
(* confirmations; a stray value, which only a connection that is not quiet *)
(* can bring, would in Subscribed go to the error handler also when some   *)
(* reply handler waits, where here it goes to that handler.                *)
(*                                                                         *)
(* An operator with the comment `altered' is the one after it with a       *)
(* mistake put in, for checking that the properties notice; nothing here   *)
(* uses it.                                                                *)
(***************************************************************************)
EXTENDS AsyncClient

CONSTANTS
    Roles,        \* which of the two clients it may be
    MaxBreaks,    \* bound: breaks of a connection
    MaxRefusals   \* bound: connects that fail

ASSUME RolesAssumption == Roles \subseteq {"publisher", "subscriber"}
ASSUME FaultsAssumption == MaxBreaks \in Nat /\ MaxRefusals \in Nat

VARIABLES
    role,
    todo,         \* what the application has still to do in the handler the
                  \* io_service or the redis client has called
    waiting,      \* timers somebody waits for
    fired,        \* timers that expired and whose handler was not run yet
    breaks, refusals

example == <<role, todo, waiting, fired, breaks, refusals>>
allVars == <<vars, example>>

\* The calls of the application: connectPublisher or connectSubscriber, the
\* connect() in it, the two outcomes of onPublisherConnected or
\* onSubscriberConnected, the subscribe() in it, and onPublishTimeout.
Step == {"reconnect", "connect", "connected", "refused", "subscribe", "publish"}

\* publishTimer, and the timer for connecting.
Timer == {"publish", "connect"}

ExampleInit ==
    Init /\ role \in Roles /\ todo = <<"reconnect">> /\ waiting = {} /\ fired = <<>>
    /\ breaks = 0 /\ refusals = 0
-----------------------------------------------------------------------------
Doing(step) == todo # <<>> /\ Head(todo) = step

\* The running step is done, and has called those of next first.
Then(steps) == todo' = steps \o Tail(todo)

\* A wait for the timer that is still going on is given up for the new one.
callLater(timer) == waiting' = waiting \cup {timer}

\* altered
DisconnectAndConnect ==
    /\ Doing("reconnect") /\ Then(<<"connect">>)
    /\ close /\ waiting' = waiting \ {"publish"}
    /\ UNCHANGED <<fired, breaks, refusals, role>>

\* connectPublisher and connectSubscriber: the second does not touch a timer.
Reconnect ==
    /\ Doing("reconnect") /\ Then(<<"connect">>)
    /\ IF IsConnected THEN close /\ waiting' = waiting \ {"publish"}
                      ELSE UNCHANGED <<vars, waiting>>
    /\ UNCHANGED <<fired, breaks, refusals, role>>

Connect ==
    /\ Doing("connect")
    /\ \/ connect(TRUE) /\ Then(<<>>)
       \/ connectIgnored /\ Then(<<"connected">>)
    /\ UNCHANGED <<waiting, fired, breaks, refusals, role>>

\* altered
RefusedGivesUp ==
    /\ Doing("refused") /\ Then(<<>>)
    /\ UNCHANGED <<vars, waiting, fired, breaks, refusals, role>>

Refused ==
    /\ Doing("refused") /\ Then(<<>>)
    /\ callLater("connect")
    /\ UNCHANGED <<vars, fired, breaks, refusals, role>>

Connected ==
    /\ Doing("connected")
    /\ IF role = "publisher"
       THEN Then(<<>>) /\ callLater("publish")
       ELSE Then(<<"subscribe", "subscribe">>) /\ UNCHANGED waiting
    /\ UNCHANGED <<vars, fired, breaks, refusals, role>>

\* subscribe() asserts that the client is connected (bound: MaxCmd commands).
Subscribe ==
    /\ Doing("subscribe") /\ IsConnected /\ Then(<<>>)
    /\ IF next <= MaxCmd THEN command ELSE UNCHANGED vars
    /\ UNCHANGED <<waiting, fired, breaks, refusals, role>>

\* onPublishTimeout (bound: MaxCmd messages).
PublishTimeout ==
    /\ Doing("publish") /\ Then(<<>>)
    /\ IF IsConnected /\ next <= MaxCmd THEN command ELSE UNCHANGED vars
    /\ callLater("publish")
    /\ UNCHANGED <<fired, breaks, refusals, role>>

Expires(timer) ==
    /\ frame = "idle" /\ todo = <<>> /\ timer \in waiting
    /\ waiting' = waiting \ {timer} /\ fired' = Append(fired, timer)
    /\ UNCHANGED <<vars, todo, breaks, refusals, role>>

\* The timer's handler is run.
TimerRuns ==
    /\ frame = "idle" /\ todo = <<>> /\ fired # <<>>
    /\ fired' = Tail(fired)
    /\ todo' = IF Head(fired) = "publish" THEN <<"publish">> ELSE <<"reconnect">>
    /\ UNCHANGED <<vars, waiting, breaks, refusals, role>>
-----------------------------------------------------------------------------
(* What the redis client calls.  The error handler is connectPublisher or  *)
(* connectSubscriber.                                                      *)

Calls(steps) ==
    todo = <<>> /\ todo' = steps /\ UNCHANGED <<waiting, fired, breaks, refusals, role>>

CallsErrorHandler(cond) == Calls(IF cond THEN <<"reconnect">> ELSE <<>>)

Client ==
    \/ doAsyncCommand /\ Calls(<<>>)
    \/ handleAsyncConnect
       /\ Calls(IF Head(ready).res = "ok" THEN <<"connected">> ELSE <<"refused">>)
    \/ asyncWrite /\ CallsErrorHandler(Head(ready).res # "ok")
    \/ asyncRead /\ CallsErrorHandler(Head(ready).res \notin {"ok", "aborted"})
    \/ (ParsePiece \/ MisreadPiece)
       /\ CallsErrorHandler(frame' \in {"idle", "unexpected"})
    \/ EndOfChunk /\ Calls(<<>>)
    \/ ConnectHandlerReturns /\ Calls(<<>>)
    \/ ReplyHandlerReturns /\ Calls(<<>>)
    \/ ErrorHandlerLeaves /\ frame' = "read" /\ Calls(<<>>)

ConnectAnswered ==
    /\ todo = <<>> /\ ConnectEnds
    /\ IF sock' = "open" THEN UNCHANGED refusals
       ELSE refusals < MaxRefusals /\ refusals' = refusals + 1
    /\ UNCHANGED <<todo, waiting, fired, breaks, role>>

Broken ==
    /\ todo = <<>> /\ Break
    /\ breaks < MaxBreaks /\ breaks' = breaks + 1
    /\ UNCHANGED <<todo, waiting, fired, refusals, role>>

\* With no more than 16 commands (bound: MaxCmd) an async_write is one write.
Carry ==
    \/ Transmit /\ UNCHANGED writing /\ Calls(<<>>)
    \/ WriteEnds /\ Calls(<<>>)
    \/ ReceiveSome(0..Len(inFlight)) /\ Calls(<<>>)
    \/ ReadFails /\ Calls(<<>>)

ExampleNext ==
    \/ Reconnect \/ Connect \/ Refused \/ Connected \/ Subscribe \/ PublishTimeout
    \/ (\E timer \in Timer : Expires(timer)) \/ TimerRuns
    \/ Client \/ ConnectAnswered \/ Broken \/ Carry

ExampleSpec == ExampleInit /\ [][ExampleNext]_allVars

App == Reconnect \/ Connect \/ Refused \/ Connected \/ Subscribe \/ PublishTimeout

\* Callbacks return and time passes; the io_service's queue is first come first
\* served, so that what is ready is run however often the timers expire; the
\* kernel and the server work on, but for the faults counted.
ExampleFairSpec ==
    /\ ExampleSpec
    /\ WF_allVars(App) /\ SF_allVars(Client) /\ SF_allVars(TimerRuns)
    /\ \A timer \in Timer : SF_allVars(Expires(timer))
    /\ SF_allVars(ConnectAnswered) /\ SF_allVars(Carry)
-----------------------------------------------------------------------------
\* A broken connection calls the error handler for its read and for its write,
\* and connect() may say at once that it succeeded: none of this gives up a
\* connection that stands, while no connect was refused (its timer may expire
\* when another connection was made) and there was nothing under way when the
\* last connection was given up (otherwise replies to old commands are errors on
\* the new one, which then goes too).
GivesUpBroken ==
    [][closes' # closes /\ sock = "open" => ~quiet \/ refusals > 0]_allVars

\* The error handler connects, and what becomes of the connect may call it
\* again; but reconnecting comes to an end: a break leads to one connection
\* attempt, a refusal to two (the timer's, and that of the error handler when a
\* read or a write was started meanwhile), and a command that was sent to one at
\* most, when its reply comes where nobody waits for it or cannot be parsed.  A
\* connect() in a state where it only calls its handler starts no attempt.
NoReconnectStorm == connects <= 1 + breaks + 2 * refusals + Len(wire)

Reads == reads > 0 \/ ReadEnded("ok") # {} \/ frame # "idle"

\* After any number of breaks and refused connects, the publisher publishes on a
\* connection that stands and on which it reads, again and again.
PublishesAgain == role = "publisher" =>
    []<>(fired # <<>> /\ Head(fired) = "publish"
         /\ IsConnected /\ sock = "open" /\ Reads)

\* assert(state == State::Connected || state == State::Subscribed), in subscribe.
SubscribesConnected == Doing("subscribe") => IsConnected
=============================================================================
