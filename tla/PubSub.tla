------------------------------- MODULE PubSub -------------------------------
(***************************************************************************)
(* Publish/subscribe: the calls of RedisAsyncClient that subscribe and     *)
(* unsubscribe, and the branch of RedisClientImpl::doProcessMessage for    *)
(* state Subscribed, which tells messages from confirmations and posts     *)
(* messages to their handlers through the strand.                          *)
(*                                                                         *)
(* What AsyncClient shows is taken for granted here: commands reach the    *)
(* server in the order they were posted, and what the server sends is      *)
(* parsed in order, one value at a time, until an error stops it.  So a    *)
(* connection is two queues; connections are made and closed while nothing *)
(* waits to be sent.  Messages and confirmations are arrays, and the       *)
(* parser is taken to deliver arrays, as its callers here expect.          *)
(*                                                                         *)
(* The calls that send something are numbered from 1; the number stands    *)
(* for the command, for its reply, and for the handlers passed with it.    *)
(*                                                                         *)
(* An operator with the comment `altered' is the one after it with a       *)
(* mistake put in, for checking that the properties notice; nothing here   *)
(* uses it.                                                                *)
(***************************************************************************)
EXTENDS Naturals, Sequences, FiniteSets, Functions

CONSTANTS
    Channels,     \* names of channels
    Star,         \* a name that, as a pattern, matches every channel
    MaxCalls,     \* bound: calls that send something
    MaxMsgs,      \* bound: messages published
    MaxConnects   \* bound: connections made

ASSUME NamesAssumption  == Star \notin Channels
ASSUME BoundsAssumption == MaxCalls \in Nat /\ MaxMsgs \in Nat /\ MaxConnects \in Nat

VARIABLES
    \* RedisClientImpl's own members
    state,        \* the State enumeration, without Connecting
    handlers,     \* calls whose reply handler is still owed a call
    msgHandlers,  \* message handlers of subscribe and psubscribe
    singleShotMsgHandlers,
    subscribeSeq, \* the next handle's id
    strandQ,      \* what was posted to the strand and not yet run
    \* the connection and the server
    link,         \* does the connection stand?
    reading,      \* is the client reading from it?
    toServer, toClient,
    subs,         \* what the server has the client subscribed to
    \* history
    calls,        \* the calls made so far
    answered,     \* reply each call's handler was called with
    heard,        \* messages each call's message handler was called with
    due,          \* the messages sent for it while it was subscribed
    published,    \* messages published so far
    gone,         \* calls whose handle was passed to unsubscribe
    mixed,        \* was the reply to a plain command outstanding when the
                  \* client became Subscribed on this connection?
    connects

client  == <<state, handlers, msgHandlers, singleShotMsgHandlers, subscribeSeq>>
network == <<link, reading, toServer, toClient, subs>>
history == <<answered, heard, due, published, gone, mixed, connects>>
vars    == <<client, strandQ, network, calls, history>>
-----------------------------------------------------------------------------
Names == Channels \cup {Star}
Kind  == {"channel", "pattern"}
NamesOf(kind) == IF kind = "channel" THEN Channels ELSE Names
Msg   == 1..MaxMsgs
Call  == 1..MaxCalls

\* once: by singleShotSubscribe or singleShotPSubscribe.
CallInfo == [verb: {"subscribe", "unsubscribe", "plain"}, kind: Kind,
             name: Names, once: BOOLEAN, conn: 1..MaxConnects]

\* What is posted: a doAsyncCommand, or the call of a message handler.
Send(n)       == [op |-> "send", call |-> n, msg |-> 0]
Deliver(n, m) == [op |-> "deliver", call |-> n, msg |-> m]

\* What the server sends: the reply to a call, or a message.
Reply(n)            == [what |-> calls[n].verb, call |-> n, name |-> Star,
                        kind |-> "channel", msg |-> 0]
Message(kind, name, m) == [what |-> "message", call |-> 0, name |-> name,
                           kind |-> kind, msg |-> m]

Init ==
    /\ state = "Unconnected" /\ handlers = <<>>
    /\ msgHandlers = {} /\ singleShotMsgHandlers = {} /\ subscribeSeq = 0
    /\ strandQ = <<>>
    /\ link = FALSE /\ reading = FALSE
    /\ toServer = <<>> /\ toClient = <<>> /\ subs = {}
    /\ calls = <<>>
    /\ answered = [n \in Call |-> 0]
    /\ heard = [n \in Call |-> <<>>] /\ due = [n \in Call |-> {}]
    /\ published = 0 /\ gone = {} /\ mixed = FALSE /\ connects = 0
-----------------------------------------------------------------------------
(* Calls of the application                                                *)

NothingToSend == \A i \in 1..Len(strandQ) : strandQ[i].op # "send"

\* connect() and the completion that makes it Connected.
connect ==
    /\ state \in {"Unconnected", "Closed"} /\ connects < MaxConnects
    /\ state' = "Connected" /\ link' = TRUE /\ reading' = TRUE
    /\ mixed' = FALSE /\ connects' = connects + 1
    /\ UNCHANGED <<handlers, msgHandlers, singleShotMsgHandlers, subscribeSeq,
                   strandQ, toServer, toClient, subs, calls,
                   answered, heard, due, published, gone>>

\* altered
KeepReplyHandlers == UNCHANGED handlers /\ msgHandlers' = {}

\* altered
KeepMsgHandlers == handlers' = <<>> /\ UNCHANGED msgHandlers

ClearHandlers == handlers' = <<>> /\ msgHandlers' = {}

\* disconnect(): message handlers already posted will still be called.
close ==
    /\ state \in {"Connected", "Subscribed"} /\ NothingToSend
    /\ ClearHandlers
    /\ state' = "Closed" /\ link' = FALSE /\ reading' = FALSE
    /\ toServer' = <<>> /\ toClient' = <<>> /\ subs' = {}
    /\ UNCHANGED <<singleShotMsgHandlers, subscribeSeq, strandQ, calls, history>>

\* makeCommand and the post of doAsyncCommand.
Issue(verb, kind, name, once) ==
    /\ Len(calls) < MaxCalls
    /\ calls' = Append(calls, [verb |-> verb, kind |-> kind, name |-> name,
                               once |-> once, conn |-> connects])
    /\ strandQ' = Append(strandQ, Send(Len(calls) + 1))

\* command() and publish(), which want exactly state Connected.
command ==
    /\ state = "Connected"
    /\ Issue("plain", "channel", Star, FALSE)
    /\ UNCHANGED <<client, network, history>>

\* Messages are numbered in the order in which they are published.
InTransit(kind, name) ==
    {toClient[i].msg : i \in {j \in 1..Len(toClient) :
        toClient[j].what = "message" /\ toClient[j].kind = kind /\ toClient[j].name = name}}

\* A new handler hears what is on its way already; the first one of a
\* connection makes the client Subscribed, whatever replies are outstanding.
Subscribing(kind, name) ==
    /\ state \in {"Connected", "Subscribed"}
    /\ state' = "Subscribed"
    /\ due' = [due EXCEPT ![Len(calls) + 1] = InTransit(kind, name)]
    /\ mixed' = (mixed \/ \E n \in 1..Len(calls) :
                            calls[n].verb = "plain" /\ calls[n].conn = connects
                            /\ answered[n] = 0)
    /\ UNCHANGED <<handlers, network, answered, heard, published, gone, connects>>

\* altered
SameId == subscribeSeq' = subscribeSeq

NextId == subscribeSeq' = subscribeSeq + 1

\* subscribe() and psubscribe().
subscribe(kind, name) ==
    /\ Issue("subscribe", kind, name, FALSE)
    /\ Subscribing(kind, name)
    /\ msgHandlers' = msgHandlers \cup
           {[id |-> subscribeSeq, call |-> Len(calls) + 1, name |-> name]}
    /\ NextId
    /\ UNCHANGED singleShotMsgHandlers

\* singleShotSubscribe() and singleShotPSubscribe(), which return no handle.
singleShotSubscribe(kind, name) ==
    /\ Issue("subscribe", kind, name, TRUE)
    /\ Subscribing(kind, name)
    /\ singleShotMsgHandlers' = singleShotMsgHandlers \cup
           {[call |-> Len(calls) + 1, name |-> name]}
    /\ UNCHANGED <<msgHandlers, subscribeSeq>>

\* altered
OfName(id, name) == {h \in msgHandlers : h.name = name}

\* The handlers unsubscribe() erases.
OfHandle(id, name) == {h \in msgHandlers : h.name = name /\ h.id = id}

\* The id in the handle that call n returned.
IdOf(n) == Cardinality({i \in 1..(n - 1) : calls[i].verb = "subscribe" /\ ~calls[i].once})

\* unsubscribe() and punsubscribe() with a handle got earlier, on this
\* connection or another.
unsubscribe(n) ==
    /\ state \in {"Connected", "Subscribed"}
    /\ calls[n].verb = "subscribe" /\ ~calls[n].once
    /\ msgHandlers' = msgHandlers \ OfHandle(IdOf(n), calls[n].name)
    /\ Issue("unsubscribe", calls[n].kind, calls[n].name, FALSE)
    /\ gone' = gone \cup {n}
    /\ UNCHANGED <<state, handlers, singleShotMsgHandlers, subscribeSeq, network,
                   answered, heard, due, published, mixed, connects>>
-----------------------------------------------------------------------------
(* The strand                                                              *)

doAsyncCommand ==
    /\ strandQ # <<>> /\ Head(strandQ).op = "send"
    /\ strandQ' = Tail(strandQ)
    /\ handlers' = Append(handlers, Head(strandQ).call)
    /\ toServer' = IF link THEN Append(toServer, Head(strandQ).call) ELSE toServer
    /\ UNCHANGED <<state, msgHandlers, singleShotMsgHandlers, subscribeSeq,
                   link, reading, toClient, subs, calls, history>>

\* A message handler is called, unsubscribed by now or not.
CallMessageHandler ==
    /\ strandQ # <<>> /\ Head(strandQ).op = "deliver"
    /\ strandQ' = Tail(strandQ)
    /\ heard' = [heard EXCEPT ![Head(strandQ).call] =
                                  Append(@, Head(strandQ).msg)]
    /\ UNCHANGED <<client, network, calls,
                   answered, due, published, gone, mixed, connects>>
-----------------------------------------------------------------------------
(* doProcessMessage, for the next value the parser delivers                *)

\* The handlers in the order in which they subscribed.
InOrder(hs) ==
    {q \in [1..Cardinality(hs) -> hs] :
        Range(q) = hs /\ \A i, j \in DOMAIN q : i < j => q[i].id < q[j].id}

\* altered
PostsToOne(first, regular, m) ==
    IF first # <<>> THEN first ELSE [i \in DOMAIN regular |-> Deliver(regular[i].call, m)]

\* One single-shot handler, if there is any, and then the others.
Posts(first, regular, m) ==
    first \o [i \in DOMAIN regular |-> Deliver(regular[i].call, m)]

\* altered
StillRegistered(s) == singleShotMsgHandlers

Erased(s) == singleShotMsgHandlers \ {s}

\* A message or pmessage; find() may return any of several single-shots.
ProcessMessage(v) ==
    LET singles == {s \in singleShotMsgHandlers : s.name = v.name}
    IN  /\ \E regular \in InOrder({h \in msgHandlers : h.name = v.name}) :
           \/ /\ singles = {}
              /\ strandQ' = strandQ \o Posts(<<>>, regular, v.msg)
              /\ UNCHANGED singleShotMsgHandlers
           \/ \E s \in singles :
                 /\ strandQ' = strandQ \o Posts(<<Deliver(s.call, v.msg)>>, regular, v.msg)
                 /\ singleShotMsgHandlers' = Erased(s)
        /\ toClient' = Tail(toClient)
        /\ UNCHANGED <<reading, handlers, answered>>

\* The value goes to the oldest reply handler.
CallReplyHandler(v) ==
    /\ handlers # <<>>
    /\ answered' = [answered EXCEPT ![Head(handlers)] = v.call]
    /\ handlers' = Tail(handlers)
    /\ toClient' = Tail(toClient)
    /\ UNCHANGED <<reading, strandQ, singleShotMsgHandlers>>

\* The error handler returns, or throws out of asyncRead, which then does not
\* read again.
CallErrorHandler ==
    /\ \/ toClient' = Tail(toClient) /\ UNCHANGED reading
       \/ toClient' = <<>> /\ reading' = FALSE
    /\ UNCHANGED <<handlers, strandQ, singleShotMsgHandlers, answered>>

IsConfirmation(v) == v.what \in {"subscribe", "unsubscribe"}

\* In state Subscribed a reply that is no confirmation is a protocol error, and
\* the handler that waits for it keeps waiting.
doProcessMessage(v) ==
    IF state = "Subscribed"
    THEN CASE v.what = "message" -> ProcessMessage(v)
           [] IsConfirmation(v) /\ handlers # <<>> -> CallReplyHandler(v)
           [] OTHER -> CallErrorHandler
    ELSE IF handlers # <<>> THEN CallReplyHandler(v) ELSE CallErrorHandler

asyncRead ==
    /\ reading /\ toClient # <<>>
    /\ doProcessMessage(Head(toClient))
    /\ UNCHANGED <<state, msgHandlers, subscribeSeq, link, toServer, subs, calls,
                   heard, due, published, gone, mixed, connects>>

\* The end of file after the last bytes: the error handler is called.
ReadFails ==
    /\ reading /\ ~link /\ toClient = <<>>
    /\ reading' = FALSE
    /\ UNCHANGED <<client, strandQ, link, toServer, toClient, subs, calls, history>>
-----------------------------------------------------------------------------
(* The server and the network: not in the repository                       *)

\* The server executes a command and answers it.
Execute ==
    /\ toServer # <<>>
    /\ LET n   == Head(toServer)
           key == <<calls[n].kind, calls[n].name>>
       IN  /\ subs' = CASE calls[n].verb = "subscribe"   -> subs \cup {key}
                        [] calls[n].verb = "unsubscribe" -> subs \ {key}
                        [] OTHER                         -> subs
           /\ toClient' = Append(toClient, Reply(n))
    /\ toServer' = Tail(toServer)
    /\ UNCHANGED <<client, strandQ, link, reading, calls, history>>

\* Calls of this connection that subscribed for good and did not unsubscribe.
Live ==
    {n \in 1..Len(calls) : calls[n].verb = "subscribe" /\ ~calls[n].once
                           /\ calls[n].conn = connects /\ n \notin gone /\ link}

\* Someone publishes; the server sends it once for each subscription it meets.
Publish(channel) ==
    LET m    == published + 1
        Sent(kind, name) == <<kind, name>> \in subs
                            /\ (name = channel \/ <<kind, name>> = <<"pattern", Star>>)
        Part(kind, name) == IF Sent(kind, name)
                            THEN <<Message(kind, name, m)>> ELSE <<>>
    IN  /\ published < MaxMsgs /\ published' = m
        /\ toClient' = toClient \o Part("channel", channel)
                                \o Part("pattern", channel) \o Part("pattern", Star)
        /\ due' = [n \in Call |->
                     IF n \in Live /\ Sent(calls[n].kind, calls[n].name)
                     THEN due[n] \cup {m} ELSE due[n]]
        /\ UNCHANGED <<client, strandQ, link, reading, toServer, subs, calls,
                       answered, heard, gone, mixed, connects>>

\* The connection breaks; what arrived can still be read, or is lost.
Break ==
    /\ link /\ link' = FALSE
    /\ toServer' = <<>> /\ subs' = {}
    /\ toClient' \in {toClient, <<>>}
    /\ UNCHANGED <<client, strandQ, reading, calls, history>>
-----------------------------------------------------------------------------
Application ==
    \/ connect \/ close \/ command
    \/ \E kind \in Kind : \E name \in NamesOf(kind) :
          subscribe(kind, name) \/ singleShotSubscribe(kind, name)
    \/ \E n \in 1..Len(calls) : unsubscribe(n)

Service == doAsyncCommand \/ CallMessageHandler \/ asyncRead \/ ReadFails

Network == Execute \/ (\E channel \in Channels : Publish(channel)) \/ Break

Next == Application \/ Service \/ Network

Spec == Init /\ [][Next]_vars

\* The io_service runs what is ready; the server executes commands.
FairSpec == Spec /\ WF_vars(doAsyncCommand) /\ WF_vars(CallMessageHandler)
                 /\ WF_vars(asyncRead) /\ WF_vars(Execute)
-----------------------------------------------------------------------------
(* Properties                                                              *)

\* Where in the strand a call of call n's message handler waits.
Deliveries(n) ==
    {i \in 1..Len(strandQ) : strandQ[i].op = "deliver" /\ strandQ[i].call = n}

Posted(n) == {strandQ[i].msg : i \in Deliveries(n)}

Regular == {n \in 1..Len(calls) : calls[n].verb = "subscribe" /\ ~calls[n].once}
Single  == {n \in 1..Len(calls) : calls[n].verb = "subscribe" /\ calls[n].once}

\* The maps of handlers are keyed by the name alone: a name in use both as a
\* channel and as a pattern gets messages of both.
BothKinds(name) ==
    \A kind \in Kind : \E n \in 1..Len(calls) :
        calls[n].verb = "subscribe" /\ calls[n].kind = kind /\ calls[n].name = name

Posting ==
    {Send(n) : n \in 1..Len(calls)}
    \cup {Deliver(n, m) : n \in Regular \cup Single, m \in 1..published}

Served ==
    {Reply(n) : n \in 1..Len(calls)}
    \cup {Message(kind, name, m) : kind \in Kind, name \in Names, m \in 1..published}

\* The variables hold values of their kinds; the maps hold handlers of calls
\* made, and the ids given out are below the next one.
TypeOK ==
    /\ state \in {"Unconnected", "Connected", "Subscribed", "Closed"}
    /\ calls \in Seq(CallInfo) /\ handlers \in Seq(1..Len(calls))
    /\ msgHandlers \subseteq [id: 0..(subscribeSeq - 1), call: Regular, name: Names]
    /\ singleShotMsgHandlers \subseteq [call: Single, name: Names]
    /\ subscribeSeq = Cardinality(Regular)
    /\ strandQ \in Seq(Posting)
    /\ link \in BOOLEAN /\ reading \in BOOLEAN /\ mixed \in BOOLEAN
    /\ toServer \in Seq(1..Len(calls)) /\ subs \subseteq Kind \X Names
    /\ toClient \in Seq(Served)
    /\ answered \in [Call -> 0..Len(calls)] /\ gone \subseteq Regular
    /\ heard \in [Call -> Seq(1..published)] /\ due \in [Call -> SUBSET (1..published)]
    /\ published \in 0..MaxMsgs /\ connects \in 0..MaxConnects

(***************************************************************************)
(* Messages                                                                *)
(***************************************************************************)

Before(S, T) == \A a \in S, b \in T : a < b

\* A message handler is called with the messages sent while it was subscribed
\* and with no others, in order, each once: those it was called with, those
\* posted to it and those on their way follow one another and make up what was
\* sent, whatever other handlers of the name come and go, and none is of another
\* connection.
MessageBelt ==
    \A n \in Regular : ~BothKinds(calls[n].name) =>
        LET come == Range(heard[n]) \cup Posted(n)
        IN  /\ \A i, j \in 1..Len(heard[n]) : i < j => heard[n][i] < heard[n][j]
            /\ \A i, j \in Deliveries(n) : i < j => strandQ[i].msg < strandQ[j].msg
            /\ Before(Range(heard[n]), Posted(n))
            /\ come \subseteq due[n] /\ Before(come, due[n] \ come)
            /\ n \in Live /\ reading =>
                  due[n] \ come = InTransit(calls[n].kind, calls[n].name)

\* A single-shot handler is called at most once; it is registered until the
\* call is posted, also across connections.
SingleShotOnce ==
    \A n \in Single :
        Len(heard[n]) + Cardinality(Deliveries(n))
            + Cardinality({s \in singleShotMsgHandlers : s.call = n}) = 1

\* Messages that arrive between confirmations do not shift them: a reply
\* handler is called once, with the reply to its own call, unless a plain
\* command was unanswered when the client became Subscribed.
ConfirmationsPaired ==
    [][~mixed' => \A n \in Call :
         answered'[n] # answered[n] => answered[n] = 0 /\ answered'[n] = n]_vars

\* Messages for a handler that stays subscribed, on a connection that stands,
\* are heard, unless the error handler stopped the reading.
EveryMessageHeard ==
    \A n \in Call, m \in Msg :
        n \in Live /\ m \in due[n] ~> m \in Range(heard[n]) \/ n \notin Live \/ ~reading

(***************************************************************************)
(* What a comment of the code says, and it does not do                     *)
(***************************************************************************)

\* "Handler msgHandler will be called when someone publish message on channel.
\* Call unsubscribe to stop the subscription" (subscribe): while a handler's
\* subscription is confirmed and not stopped, the server sends it messages.
StaysSubscribed ==
    \A n \in Live :
        answered[n] = n => <<calls[n].kind, calls[n].name>> \in subs
=============================================================================
