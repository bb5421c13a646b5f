------------------------- MODULE AsyncAnswersProofs -------------------------
(***************************************************************************)
(* Proofs about the receiving half of AsyncClient: how often a handler is  *)
(* called, where the one undefined behaviour comes from, whether the       *)
(* client reads, and, as long as it is closed with nothing under way, that *)
(* it has no second read.                                                  *)
(***************************************************************************)
EXTENDS AsyncClientProofs, FiniteSetTheorems

(***************************************************************************)
(* A handler is called once                                                *)
(*                                                                         *)
(* AnsweredOnce is not inductive: a handler that comes from the strand was *)
(* not called, because no command was before it was issued, and calling    *)
(* the first of the handlers calls no other, because all are different:    *)
(* they are in the order the commands were issued.                         *)
(***************************************************************************)
InOrder ==
    /\ Increasing(handlers) /\ Increasing(strandQ) /\ Before(handlers, strandQ)
    /\ Below(handlers, next) /\ Below(strandQ, next)

NotYetCalled ==
    /\ \A j \in 1..Len(strandQ) : got[strandQ[j]] = None
    /\ \A c \in Cmd : c >= next => got[c] = None

AnswersInv == InOrder /\ NotYetCalled /\ AnsweredOnce

LEMMA AnswersInit == Init => AnswersInv
BY EmptySeq DEF Init, AnswersInv, InOrder, NotYetCalled, AnsweredOnce, Increasing, Before, Below

\* What the steps that touch none of the queues and call nobody keep.
LEMMA AnswersKept ==
    ASSUME AnswersInv, UNCHANGED <<handlers, strandQ, next, got>>,
           handlers # <<>> /\ frame = "reply" => frame' = "reply"
    PROVE  AnswersInv'
<1>1. InOrder' /\ NotYetCalled'
  BY DEF AnswersInv, InOrder, NotYetCalled, Increasing, Before, Below
<1>2. AnsweredOnce'
  BY EmptySeq DEF AnswersInv, AnsweredOnce
<1> QED
  BY <1>1, <1>2 DEF AnswersInv

\* A value given to the oldest handler leaves the others uncalled.
LEMMA ProcessKeepsAnswers ==
    ASSUME TypeInv, AnswersInv, frame = "read", NEW v, doProcessMessage(v),
           UNCHANGED <<handlers, strandQ, next>>
    PROVE  AnswersInv'
<1>q. /\ handlers \in Seq(Cmd) /\ strandQ \in Seq(Cmd) /\ got \in [Cmd -> 0..Garbage]
      /\ next \in Nat /\ Cmd \subseteq Nat
  BY MaxCmdAssumption DEF TypeInv, TypeOK, CommandTypes, Cmd
<1>a. InOrder /\ NotYetCalled /\ AnsweredOnce
  BY DEF AnswersInv
<1>1. CASE handlers = <<>>
  <2>1. UNCHANGED <<handlers, strandQ, next, got>>
    BY <1>1 DEF doProcessMessage
  <2> QED
    BY <2>1, AnswersKept
<1>2. CASE handlers # <<>>
  <2> DEFINE h == Head(handlers)
  <2>1. frame' = "reply" /\ got' = [got EXCEPT ![h] = v]
    BY <1>2 DEF doProcessMessage
  <2>2. /\ h \in Cmd /\ h = handlers[1] /\ 1 \in 1..Len(handlers) /\ Len(handlers) \in Nat
        /\ \A i \in 1..Len(handlers) : handlers[i] \in Cmd
        /\ \A j \in 1..Len(strandQ) : strandQ[j] \in Cmd
    BY <1>q, <1>2, HeadTailProperties, EmptySeq, ElementOfSeq, LenProperties
  <2> HIDE DEF h
  <2>3. \A c \in Cmd : c # h => got'[c] = got[c]
    BY <1>q, <2>1
  <2>4. InOrder'
    BY <1>a DEF InOrder, Increasing, Before, Below
  <2>5. \A j \in 1..Len(strandQ) : got'[strandQ[j]] = None
    <3>1. ASSUME NEW j \in 1..Len(strandQ) PROVE got'[strandQ[j]] = None
      <4>1. h < strandQ[j] /\ h \in Nat /\ strandQ[j] \in Cmd
        BY <1>q, <1>a, <2>2 DEF InOrder, Before
      <4>2. strandQ[j] # h
        BY <1>q, <4>1
      <4> QED
        BY <1>a, <2>3, <4>1, <4>2 DEF NotYetCalled
    <3> QED
      BY <3>1
  <2>6. \A c \in Cmd : c >= next => got'[c] = None
    BY <1>q, <1>a, <2>2, <2>3 DEF InOrder, NotYetCalled, Below
  <2>7. \A i \in 1..Len(handlers) : got'[handlers[i]] # None => i = 1
    <3>1. ASSUME NEW i \in 1..Len(handlers), i # 1 PROVE got'[handlers[i]] = None
      <4>1. handlers[i] # h
        BY <1>q, <1>a, <2>2, <3>1 DEF InOrder, Increasing
      <4> QED
        BY <1>a, <2>2, <2>3, <3>1, <4>1 DEF AnsweredOnce
    <3> QED
      BY <3>1
  <2> QED
    BY <2>1, <2>4, <2>5, <2>6, <2>7 DEF AnswersInv, NotYetCalled, AnsweredOnce
<1> QED
  BY <1>1, <1>2

LEMMA AnswersNext == ASSUME TypeInv, AnswersInv, [Next]_vars PROVE AnswersInv'
<1>q. /\ handlers \in Seq(Cmd) /\ strandQ \in Seq(Cmd) /\ got \in [Cmd -> 0..Garbage]
      /\ handlers \in Seq(Nat) /\ strandQ \in Seq(Nat)
      /\ next \in Nat /\ Cmd \subseteq Nat
  <2>1. Cmd \subseteq Nat
    BY MaxCmdAssumption DEF Cmd
  <2>2. /\ handlers \in Seq(Cmd) /\ strandQ \in Seq(Cmd) /\ got \in [Cmd -> 0..Garbage]
        /\ next \in Nat
    BY MaxCmdAssumption DEF TypeInv, TypeOK, CommandTypes
  <2> QED
    BY <2>1, <2>2, SeqMonotonic
<1>a. InOrder /\ NotYetCalled /\ AnsweredOnce
  BY DEF AnswersInv
<1>e. Increasing(<<>>) /\ (\A n : Below(<<>>, n)) /\ (\A s : Before(<<>>, s))
  BY EmptySeq DEF Increasing, Below, Before
<1> USE DEF client, service, socket, history
<1>1. ASSUME command PROVE AnswersInv'
  <2>1. /\ strandQ' = Append(strandQ, next) /\ next' = next + 1 /\ next \in Cmd
        /\ UNCHANGED <<handlers, got, frame>>
    BY <1>q, <1>1, MaxCmdAssumption DEF command, Cmd, TypeInv, TypeOK, CommandTypes
  <2>2. InOrder'
    BY <1>q, <1>a, <2>1, AppendOrder, AppendBefore, BelowMore, AppendBelow DEF InOrder
  <2>3. NotYetCalled'
    BY <1>q, <1>a, <2>1, AppendProperties DEF NotYetCalled
  <2> QED
    BY <1>a, <2>1, <2>2, <2>3 DEF AnswersInv, AnsweredOnce
<1>2. ASSUME doAsyncCommand PROVE AnswersInv'
  <2> DEFINE c == Head(strandQ)
  <2>1. /\ frame = "idle" /\ strandQ # <<>> /\ strandQ' = Tail(strandQ)
        /\ handlers' = Append(handlers, c) /\ UNCHANGED <<next, got, frame>>
    BY <1>2 DEF doAsyncCommand
  <2>2. /\ c \in Nat /\ Tail(strandQ) \in Seq(Nat) /\ Increasing(Tail(strandQ))
        /\ \A j \in 1..Len(Tail(strandQ)) : c < Tail(strandQ)[j]
        /\ \A n \in Nat : Below(strandQ, n) => c < n /\ Below(Tail(strandQ), n)
        /\ \A r \in Seq(Nat) : Before(r, strandQ) => Before(r, Tail(strandQ)) /\ Below(r, c)
    BY <1>q, <1>a, <2>1, TailOrder DEF InOrder
  <2>3. /\ Len(strandQ) \in Nat \ {0} /\ c = strandQ[1]
        /\ Len(Tail(strandQ)) = Len(strandQ) - 1
        /\ \A j \in 1..Len(Tail(strandQ)) : Tail(strandQ)[j] = strandQ[j + 1]
    BY <1>q, <2>1, HeadTailProperties, EmptySeq
  <2> HIDE DEF c
  <2>4. InOrder'
    <3>1. /\ Before(handlers, Tail(strandQ)) /\ Below(handlers, c) /\ c < next
          /\ Below(Tail(strandQ), next)
      BY <1>q, <1>a, <2>2 DEF InOrder
    <3> QED
      BY <1>q, <1>a, <2>1, <2>2, <3>1, AppendOrder, AppendAfter, AppendBelow DEF InOrder
  <2>5. NotYetCalled'
    BY <1>a, <2>1, <2>3 DEF NotYetCalled
  <2>6. AnsweredOnce'
    <3>1. /\ Len(handlers') = Len(handlers) + 1 /\ handlers'[Len(handlers) + 1] = c
          /\ \A i \in 1..Len(handlers) : handlers'[i] = handlers[i]
          /\ Len(handlers) \in Nat
      BY <1>q, <2>1, <2>2, AppendProperties, LenProperties
    <3>2. got[c] = None
      BY <1>a, <2>3 DEF NotYetCalled
    <3> QED
      BY <1>a, <2>1, <3>1, <3>2 DEF AnsweredOnce
  <2> QED
    BY <2>4, <2>5, <2>6 DEF AnswersInv
<1>3. ASSUME ReplyHandlerReturns PROVE AnswersInv'
  <2>1. CASE handlers = <<>>
    BY <1>3, <2>1, AnswersKept DEF ReplyHandlerReturns
  <2>2. CASE handlers # <<>>
    <3>1. handlers' = Tail(handlers) /\ UNCHANGED <<strandQ, next, got>>
      BY <1>3, <2>2 DEF ReplyHandlerReturns
    <3>2. /\ Len(handlers) \in Nat \ {0} /\ Len(Tail(handlers)) = Len(handlers) - 1
          /\ \A i \in 1..Len(Tail(handlers)) : Tail(handlers)[i] = handlers[i + 1]
      BY <1>q, <2>2, HeadTailProperties, EmptySeq
    <3>3. InOrder'
      BY <1>a, <3>1, <3>2 DEF InOrder, Increasing, Before, Below
    <3>4. AnsweredOnce'
      BY <1>a, <3>1, <3>2 DEF AnsweredOnce
    <3> QED
      BY <1>a, <3>1, <3>3, <3>4 DEF AnswersInv, NotYetCalled
  <2> QED
    BY <2>1, <2>2
<1>4. ASSUME close PROVE AnswersInv'
  <2>1. handlers' = <<>> /\ UNCHANGED <<strandQ, next, got>>
    BY <1>4 DEF close, ClearHandlers
  <2>2. InOrder' /\ AnsweredOnce'
    BY <1>a, <1>e, <2>1, EmptySeq DEF InOrder, AnsweredOnce
  <2> QED
    BY <1>a, <2>1, <2>2 DEF AnswersInv, NotYetCalled
<1>5. ASSUME ParsePiece PROVE AnswersInv'
  <2>1. frame = "read" /\ UNCHANGED <<handlers, strandQ, next>>
    BY <1>5 DEF ParsePiece
  <2>2. CASE Head(rest).last
    BY <1>5, <2>1, <2>2, ProcessKeepsAnswers DEF ParsePiece
  <2>3. CASE ~Head(rest).last
    BY <1>5, <2>1, <2>3, AnswersKept DEF ParsePiece, Uncompleted
  <2> QED
    BY <2>2, <2>3
<1>6. ASSUME MisreadPiece PROVE AnswersInv'
  <2>1. frame = "read" /\ UNCHANGED <<handlers, strandQ, next>>
    BY <1>6 DEF MisreadPiece
  <2>2. doProcessMessage(Garbage) \/ UNCHANGED got
    BY <1>6 DEF MisreadPiece
  <2> QED
    BY <2>1, <2>2, ProcessKeepsAnswers, AnswersKept
<1>7. ASSUME \/ \E tcp \in BOOLEAN : connect(tcp)
             \/ handleAsyncConnect \/ WriteGoesOn \/ asyncWrite \/ asyncRead
             \/ EndOfChunk \/ ConnectHandlerReturns \/ ErrorHandlerLeaves
      PROVE  AnswersInv'
  BY <1>7, AnswersKept
     DEF connect, handleAsyncConnect, CompletionOf, WriteGoesOn, asyncWrite, asyncRead,
         EndOfChunk, ConnectHandlerReturns, ErrorHandlerLeaves
<1>8. ASSUME connectIgnored \/ UNCHANGED vars PROVE AnswersInv'
  BY <1>8, AnswersKept DEF connectIgnored, vars
<1>9. ASSUME ConnectEnds \/ Break \/ Transmit \/ WriteEnds \/ ReadFails PROVE AnswersInv'
  BY <1>9, AnswersKept DEF ConnectEnds, Break, Transmit, WriteEnds, ReadFails
<1>10. ASSUME ReceiveSome(0..Len(inFlight)) PROVE AnswersInv'
  BY <1>10, AnswersKept DEF ReceiveSome, Receive
<1> QED
  BY <1>1, <1>2, <1>3, <1>4, <1>5, <1>6, <1>7, <1>8, <1>9, <1>10
     DEF Next, Application, Callbacks, Service, Kernel

\* A reply handler that waits was not called, but for the one being called: with
\* any application, after errors and on every later connection.
THEOREM AnsweredOnceCorrect == Spec => []AnsweredOnce
<1>1. TypeInv /\ AnswersInv /\ [Next]_vars => AnswersInv'
  BY AnswersNext
<1>2. AnswersInv => AnsweredOnce
  BY DEF AnswersInv
<1>3. Spec => []TypeInv
  BY TypeInit, TypeNext, PTL DEF Spec
<1> QED
  BY AnswersInit, <1>1, <1>2, <1>3, PTL DEF Spec

\* What a step can do to got.
LEMMA CalledOnceStep ==
    ASSUME TypeInv, AnswersInv, [Next]_vars, NEW c \in Cmd, got'[c] # got[c]
    PROVE  got[c] = None /\ c < next /\ (ParsePiece \/ MisreadPiece)
<1>1. ASSUME NEW v, frame = "read", doProcessMessage(v) PROVE got[c] = None /\ c < next
  <2>q. /\ handlers \in Seq(Cmd) /\ got \in [Cmd -> 0..Garbage] /\ next \in Nat
    BY MaxCmdAssumption DEF TypeInv, TypeOK, CommandTypes
  <2>1. CASE handlers = <<>>
    BY <1>1, <2>1 DEF doProcessMessage
  <2>2. CASE handlers # <<>>
    <3>1. got' = [got EXCEPT ![Head(handlers)] = v]
      BY <1>1, <2>2 DEF doProcessMessage
    <3>2. Head(handlers) = handlers[1] /\ 1 \in 1..Len(handlers)
      BY <2>q, <2>2, HeadTailProperties, EmptySeq
    <3>3. got[Head(handlers)] = None /\ Head(handlers) < next
      BY <1>1, <3>2 DEF AnswersInv, AnsweredOnce, InOrder, Below
    <3> QED
      BY <2>q, <3>1, <3>3
  <2> QED
    BY <2>1, <2>2
<1> USE DEF client, service, socket, history
<1>2. CASE ParsePiece
  BY <1>1, <1>2 DEF ParsePiece, Uncompleted
<1>3. CASE MisreadPiece
  BY <1>1, <1>3 DEF MisreadPiece
<1>4. CASE Application \/ Callbacks \/ UNCHANGED vars
  BY <1>4 DEF Application, connect, connectIgnored, close, command, vars, Callbacks,
              ConnectHandlerReturns, ReplyHandlerReturns, ErrorHandlerLeaves
<1>5. CASE doAsyncCommand \/ handleAsyncConnect \/ WriteGoesOn \/ asyncWrite
           \/ asyncRead \/ EndOfChunk
  BY <1>5 DEF doAsyncCommand, handleAsyncConnect, WriteGoesOn, asyncWrite, asyncRead,
              EndOfChunk
<1>6. CASE Kernel
  BY <1>6 DEF Kernel, ConnectEnds, Break, Transmit, WriteEnds, ReceiveSome, Receive,
              ReadFails
<1> QED
  BY <1>2, <1>3, <1>4, <1>5, <1>6 DEF Next, Service

\* got of a command changes only when its own handler is called, which is the
\* first time: no caller is answered twice or before it asked, also where
\* replies are given to the wrong handlers.
THEOREM CalledOnce ==
    Spec => [][\A c \in Cmd : got'[c] # got[c] => got[c] = None /\ c < next]_vars
<1>1. TypeInv /\ AnswersInv /\ [Next]_vars
        => [\A c \in Cmd : got'[c] # got[c] => got[c] = None /\ c < next]_vars
  BY CalledOnceStep
<1>2. TypeInv /\ AnswersInv /\ [Next]_vars => AnswersInv'
  BY AnswersNext
<1>3. Spec => []TypeInv
  BY TypeInit, TypeNext, PTL DEF Spec
<1> QED
  BY AnswersInit, <1>1, <1>2, <1>3, PTL DEF Spec

(***************************************************************************)
(* A pop() of an empty queue                                               *)
(***************************************************************************)
PopInv ==
    frame = "undefined" \/ (frame = "reply" /\ handlers = <<>>)
        => state \in {"Closed", "Connecting"}

LEMMA PopNext == ASSUME TypeInv, PopInv, [Next]_vars PROVE PopInv'
<1> USE DEF PopInv, client, service, socket, history
<1>1. ASSUME NEW v, frame = "read", doProcessMessage(v), UNCHANGED handlers PROVE PopInv'
  BY <1>1 DEF doProcessMessage
<1>2. ASSUME ParsePiece PROVE PopInv'
  <2>1. frame = "read" /\ UNCHANGED <<state, handlers>>
    BY <1>2 DEF ParsePiece
  <2>2. CASE Head(rest).last
    BY <1>1, <1>2, <2>1, <2>2 DEF ParsePiece
  <2>3. CASE ~Head(rest).last
    BY <1>2, <2>1, <2>3 DEF ParsePiece, Uncompleted
  <2> QED
    BY <2>2, <2>3
<1>3. ASSUME MisreadPiece PROVE PopInv'
  <2>1. frame = "read" /\ UNCHANGED <<state, handlers>>
        /\ (doProcessMessage(Garbage) \/ frame' \in {"idle", "read"})
    BY <1>3 DEF MisreadPiece
  <2> QED
    BY <1>1, <2>1
<1>4. ASSUME ReplyHandlerReturns PROVE PopInv'
  BY <1>4 DEF ReplyHandlerReturns
<1>5. ASSUME close PROVE PopInv'
  BY <1>5 DEF close
<1>6. ASSUME \E tcp \in BOOLEAN : connect(tcp) PROVE PopInv'
  BY <1>6 DEF connect
<1>7. ASSUME doAsyncCommand \/ handleAsyncConnect \/ asyncRead PROVE PopInv'
  BY <1>7 DEF doAsyncCommand, handleAsyncConnect, CompletionOf, NotConnected, asyncRead
<1>8. ASSUME command \/ connectIgnored \/ WriteGoesOn \/ asyncWrite \/ EndOfChunk
             \/ ConnectHandlerReturns \/ ErrorHandlerLeaves \/ UNCHANGED vars
      PROVE  PopInv'
  BY <1>8 DEF command, connectIgnored, WriteGoesOn, asyncWrite, EndOfChunk,
              ConnectHandlerReturns, ErrorHandlerLeaves, vars
<1>9. ASSUME ConnectEnds \/ Break \/ Transmit \/ WriteEnds \/ ReadFails PROVE PopInv'
  BY <1>9 DEF ConnectEnds, Break, Transmit, WriteEnds, ReadFails
<1>10. ASSUME ReceiveSome(0..Len(inFlight)) PROVE PopInv'
  BY <1>10 DEF ReceiveSome, Receive
<1> QED
  BY <1>2, <1>3, <1>4, <1>5, <1>6, <1>7, <1>8, <1>9, <1>10
     DEF Next, Application, Callbacks, Service, Kernel

\* handlers.pop() is called on an empty queue only where the reply handler that
\* is returning called disconnect() on the client that called it.
THEOREM UndefinedOnlyByCloseCorrect == Spec => []UndefinedOnlyByClose
<1>1. Init => PopInv
  BY DEF Init, PopInv
<1>2. TypeInv /\ PopInv /\ [Next]_vars => PopInv'
  BY PopNext
<1>3. PopInv => UndefinedOnlyByClose
  BY DEF PopInv, UndefinedOnlyByClose
<1>4. Spec => []TypeInv
  BY TypeInit, TypeNext, PTL DEF Spec
<1> QED
  BY <1>1, <1>2, <1>3, <1>4, PTL DEF Spec

(***************************************************************************)
(* A connected client reads                                                *)
(*                                                                         *)
(* NotSilentlyDeaf needs besides itself that the error handler is running  *)
(* only when an error was reported: returning from it by an exception is   *)
(* the other way to stop reading.                                          *)
(***************************************************************************)

\* A read is in progress, or has ended and its handler will report it or go on.
Listens(n, q) ==
    n > 0 \/ \E i \in 1..Len(q) : q[i].op = "read" /\ q[i].res \in {"ok", "failed"}

DeafInv ==
    /\ IsConnected /\ frame = "idle" => Listens(reads, ready) \/ reported
    /\ frame = "unexpected" => reported

LEMMA AppendListens ==
    ASSUME NEW q \in Seq(Completion), NEW x \in Completion, NEW n \in Nat,
           Listens(n, q) \/ (x.op = "read" /\ x.res \in {"ok", "failed"})
    PROVE  Listens(n, Append(q, x))
<1>1. /\ Len(Append(q, x)) = Len(q) + 1 /\ Append(q, x)[Len(q) + 1] = x /\ Len(q) \in Nat
      /\ \A i \in 1..Len(q) : Append(q, x)[i] = q[i]
  BY AppendProperties, LenProperties
<1> QED
  BY <1>1 DEF Listens

LEMMA TailListens ==
    ASSUME NEW q \in Seq(Completion), q # <<>>, NEW n \in Nat, Listens(n, q),
           ~(Head(q).op = "read" /\ Head(q).res \in {"ok", "failed"})
    PROVE  Listens(n, Tail(q))
<1>1. /\ Len(q) \in Nat \ {0} /\ Head(q) = q[1] /\ Len(Tail(q)) = Len(q) - 1
      /\ \A i \in 1..Len(Tail(q)) : Tail(q)[i] = q[i + 1]
  BY HeadTailProperties, EmptySeq
<1>2. ASSUME NEW i \in 1..Len(q), q[i].op = "read" /\ q[i].res \in {"ok", "failed"}
      PROVE  i - 1 \in 1..Len(Tail(q)) /\ Tail(q)[i - 1] = q[i]
  BY <1>1, <1>2
<1> QED
  BY <1>2 DEF Listens

LEMMA ProcessMessageListens ==
    ASSUME NEW q \in Seq(Completion), reads \in Nat, processMessage(q)
    PROVE  Listens(reads', ready')
<1>1. CASE Unusable
  <2>1. ready' = Append(q, Done("read", "failed")) /\ reads' = reads
    BY <1>1 DEF processMessage
  <2> QED
    BY <2>1, DoneType, AppendListens
<1>2. CASE ~Unusable
  BY <1>2 DEF processMessage, Listens
<1> QED
  BY <1>1, <1>2

LEMMA DeafNext == ASSUME TypeInv, DeafInv, [Next]_vars PROVE DeafInv'
<1>q. reads \in Nat /\ ready \in Seq(Completion)
  BY DEF TypeInv, TypeOK, StreamTypes
<1>u. ASSUME UNCHANGED <<state, frame, reported>>,
             Listens(reads, ready) => Listens(reads', ready')
      PROVE  DeafInv'
  BY <1>u DEF DeafInv, IsConnected
<1>t. \A i \in 1..Len(ready) : ready[i] \in Completion
  BY <1>q, ElementOfSeq
<1>h. ready # <<>> => Head(ready) \in Completion
  BY <1>q, HeadTailProperties
<1>a. ASSUME NEW op \in {"connect", "read", "write"},
             NEW res \in {"ok", "some", "failed", "aborted"},
             Complete(op, res), UNCHANGED <<state, frame, reported, reads>>
      PROVE  DeafInv'
  <2>1. ready' = Append(ready, Done(op, res)) /\ Done(op, res) \in Completion
    BY <1>a, DoneType DEF Complete
  <2> QED
    BY <1>q, <1>u, <1>a, <2>1, AppendListens
<1> USE DEF client, service, socket, history
<1>1. ASSUME ConnectHandlerReturns \/ EndOfChunk PROVE DeafInv'
  <2>1. processMessage(ready) /\ frame' = "idle"
    BY <1>1 DEF ConnectHandlerReturns, EndOfChunk
  <2> QED
    BY <1>q, <2>1, ProcessMessageListens DEF DeafInv
<1>2. ASSUME handleAsyncConnect PROVE DeafInv'
  <2>1. CASE Head(ready).res = "ok"
    BY <1>2, <2>1 DEF handleAsyncConnect, DeafInv
  <2>2. CASE Head(ready).res # "ok"
    BY <1>2, <2>2 DEF handleAsyncConnect, NotConnected, CompletionOf, DeafInv, IsConnected
  <2> QED
    BY <2>1, <2>2
<1>3. ASSUME asyncRead PROVE DeafInv'
  <2>1. /\ ready # <<>> /\ Head(ready).op = "read" /\ frame = "idle"
        /\ ready' = Tail(ready) /\ UNCHANGED <<state, reads>>
    BY <1>3 DEF asyncRead, CompletionOf
  <2>2. CASE Head(ready).res = "ok"
    BY <1>3, <2>2 DEF asyncRead, DeafInv
  <2>3. CASE Head(ready).res = "aborted"
    <3>1. UNCHANGED <<state, frame>> /\ (reported => reported')
          /\ (Listens(reads, ready) => Listens(reads', ready'))
      <4>1. Listens(reads, ready) => Listens(reads, Tail(ready))
        BY <1>q, <2>1, <2>3, TailListens
      <4> QED
        BY <1>3, <2>1, <2>3, <4>1 DEF asyncRead
    <3> QED
      BY <2>1, <3>1 DEF DeafInv, IsConnected
  <2>4. CASE Head(ready).res \notin {"ok", "aborted"}
    BY <1>3, <2>1, <2>4 DEF asyncRead, ReadReports, DeafInv
  <2> QED
    BY <2>2, <2>3, <2>4
<1>4. ASSUME ParsePiece PROVE DeafInv'
  BY <1>4 DEF ParsePiece, doProcessMessage, Uncompleted, DeafInv
<1>5. ASSUME MisreadPiece PROVE DeafInv'
  BY <1>5 DEF MisreadPiece, doProcessMessage, DeafInv
<1>6. ASSUME ReplyHandlerReturns \/ ErrorHandlerLeaves PROVE DeafInv'
  BY <1>6 DEF ReplyHandlerReturns, ErrorHandlerLeaves, DeafInv
<1>7. ASSUME close PROVE DeafInv'
  BY <1>7 DEF close, DeafInv, IsConnected
<1>8. ASSUME \E tcp \in BOOLEAN : connect(tcp) PROVE DeafInv'
  BY <1>8 DEF connect, DeafInv, IsConnected
<1>9. ASSUME command \/ connectIgnored \/ Break \/ UNCHANGED vars PROVE DeafInv'
  BY <1>9, <1>u DEF command, connectIgnored, Break, vars
<1>10. ASSUME doAsyncCommand PROVE DeafInv'
  <2>1. UNCHANGED <<state, frame, reported, reads>>
        /\ (ready' = ready \/ ready' = Append(ready, Done("write", "failed")))
    BY <1>10 DEF doAsyncCommand, WriteAll
  <2> QED
    BY <1>q, <1>u, <2>1, DoneType, AppendListens
<1>11. ASSUME WriteGoesOn \/ asyncWrite PROVE DeafInv'
  <2>1. /\ ready # <<>> /\ Head(ready).op = "write"
        /\ UNCHANGED <<state, frame, reads>> /\ (reported => reported')
        /\ (ready' = Tail(ready) \/ ready' = Append(Tail(ready), Done("write", "failed")))
        /\ frame = "idle"
    BY <1>11 DEF WriteGoesOn, asyncWrite, WriteAll, CompletionOf
  <2>2. Listens(reads, ready) => Listens(reads, Tail(ready))
    BY <1>q, <2>1, TailListens
  <2>3. Listens(reads, ready) => Listens(reads', ready')
    BY <1>q, <2>1, <2>2, DoneType, AppendListens, HeadTailProperties
  <2> QED
    BY <2>1, <2>3 DEF DeafInv, IsConnected
<1>12. ASSUME ConnectEnds PROVE DeafInv'
  BY <1>12, <1>a DEF ConnectEnds
<1>13. ASSUME WriteEnds PROVE DeafInv'
  BY <1>13, <1>a DEF WriteEnds
<1>14. ASSUME Transmit PROVE DeafInv'
  <2>1. UNCHANGED <<state, frame, reported, reads>>
        /\ (UNCHANGED ready \/ Complete("write", "some"))
    BY <1>14 DEF Transmit
  <2> QED
    BY <1>u, <1>a, <2>1
<1>15. ASSUME ReadFails PROVE DeafInv'
  <2>1. /\ ready' = Append(ready, Done("read", "failed")) /\ UNCHANGED <<state, frame, reported>>
        /\ reads' \in Nat
    BY <1>q, <1>15 DEF ReadFails, Complete
  <2> QED
    BY <1>q, <1>u, <2>1, DoneType, AppendListens
<1>16. ASSUME ReceiveSome(0..Len(inFlight)) PROVE DeafInv'
  <2>1. PICK n \in 0..Len(inFlight), part \in BOOLEAN : Receive(n, part)
    BY <1>16 DEF ReceiveSome
  <2> DEFINE whole == [i \in 1..n |-> [of |-> inFlight[i], first |-> ~(i = 1 /\ cut),
                                      last |-> TRUE]]
             begun == IF part THEN <<[of |-> inFlight[n + 1], first |-> TRUE, last |-> FALSE]>>
                              ELSE <<>>
             k     == Len(whole \o begun)
  <2>0. k \in Nat
    <3>1. n \in Nat
      OBVIOUS
    <3>2. Len(whole) = n /\ Len(begun) \in {0, 1}
      BY <3>1
    <3> QED
      BY <3>1, <3>2
  <2>2. /\ ready' = Append(ready, [op |-> "read", res |-> "ok", size |-> k])
        /\ reads > 0 /\ reads' = reads - 1 /\ UNCHANGED <<state, frame, reported>>
    BY <2>1 DEF Receive
  <2> HIDE DEF k, whole, begun
  <2>3. [op |-> "read", res |-> "ok", size |-> k] \in Completion /\ reads' \in Nat
    BY <1>q, <2>0, <2>2 DEF Completion
  <2> QED
    BY <1>q, <1>u, <2>2, <2>3, AppendListens
<1> QED
  BY <1>1, <1>2, <1>3, <1>4, <1>5, <1>6, <1>7, <1>8, <1>9, <1>10, <1>11, <1>12, <1>13,
     <1>14, <1>15, <1>16 DEF Next, Application, Callbacks, Service, Kernel

\* A client that says it is connected and is not reading has reported an error:
\* no order of completions, callbacks and reconnects makes it silently deaf.
THEOREM NotSilentlyDeafCorrect == Spec => []NotSilentlyDeaf
<1>1. Init => DeafInv
  BY DEF Init, DeafInv, IsConnected
<1>2. TypeInv /\ DeafInv /\ [Next]_vars => DeafInv'
  BY DeafNext
<1>3. DeafInv => NotSilentlyDeaf
  BY DEF DeafInv, NotSilentlyDeaf, Listens, ReadEnded
<1>4. Spec => []TypeInv
  BY TypeInit, TypeNext, PTL DEF Spec
<1> QED
  BY <1>1, <1>2, <1>3, <1>4, PTL DEF Spec

(***************************************************************************)
(* One read at a time                                                      *)
(*                                                                         *)
(* The right to start a read is a token: an established connection makes   *)
(* it, and it is the completion of the connect, then connect's handler,    *)
(* then a read in progress, its completion, the handler that parses what   *)
(* was read, and a read in progress again.  There is never a second one,   *)
(* because a quiet disconnect leaves none and only a socket that was       *)
(* connecting makes one.                                                   *)
(***************************************************************************)
Tokens == {x \in Completion : x.op \in {"connect", "read"} /\ x.res = "ok"}

\* Where the completions of S are in the queue q.
At(S, q) == {i \in 1..Len(q) : q[i] \in S}
Busy     == frame \notin {"idle", "undefined"}
Linked   == sock \in {"open", "broken"}

\* n reads in progress, the queue q, a handler that has the token or not, and
\* the socket connected or not.
OneToken(n, q, b, s) ==
    /\ n \in {0, 1}
    /\ \A i, j \in At(Tokens, q) : i = j
    /\ n = 1 => At(Tokens, q) = {} /\ ~b
    /\ At(Tokens, q) # {} => ~b
    /\ ~s => n = 0 /\ At(Tokens, q) = {} /\ ~b

ReaderInv == quiet => OneToken(reads, ready, Busy, Linked)

LEMMA AppendAt ==
    ASSUME NEW S, NEW q \in Seq(Completion), NEW x \in Completion
    PROVE  /\ x \notin S => At(S, Append(q, x)) = At(S, q)
           /\ x \in S /\ At(S, q) = {} => At(S, Append(q, x)) = {Len(q) + 1}
<1>1. /\ Len(Append(q, x)) = Len(q) + 1 /\ Append(q, x)[Len(q) + 1] = x /\ Len(q) \in Nat
      /\ \A i \in 1..Len(q) : Append(q, x)[i] = q[i]
  BY AppendProperties, LenProperties
<1>2. 1..(Len(q) + 1) = 1..Len(q) \cup {Len(q) + 1} /\ Len(q) + 1 \notin 1..Len(q)
  BY <1>1
<1> QED
  BY <1>1, <1>2 DEF At

LEMMA TailAt ==
    ASSUME NEW S, NEW q \in Seq(Completion), q # <<>>
    PROVE  \A i : i \in At(S, Tail(q)) <=> i \in Nat \ {0} /\ i + 1 \in At(S, q)
<1>1. /\ Len(q) \in Nat \ {0} /\ Len(Tail(q)) = Len(q) - 1
      /\ \A i \in 1..Len(Tail(q)) : Tail(q)[i] = q[i + 1]
  BY HeadTailProperties, EmptySeq
<1> QED
  BY <1>1 DEF At

\* A completion that is no token is queued.
LEMMA TokenAppend ==
    ASSUME NEW n, NEW q \in Seq(Completion), NEW b \in BOOLEAN, NEW s \in BOOLEAN,
           OneToken(n, q, b, s), NEW x \in Completion, x \notin Tokens
    PROVE  OneToken(n, Append(q, x), b, s)
<1>1. At(Tokens, Append(q, x)) = At(Tokens, q)
  BY AppendAt
<1> QED
  BY <1>1 DEF OneToken

\* A token is queued where there was none.
LEMMA TokenQueued ==
    ASSUME NEW q \in Seq(Completion), At(Tokens, q) = {}, NEW x \in Tokens
    PROVE  OneToken(0, Append(q, x), FALSE, TRUE)
<1>1. At(Tokens, Append(q, x)) = {Len(q) + 1}
  <2>1. x \in Completion
    BY DEF Tokens
  <2> QED
    BY <2>1, AppendAt
<1> QED
  BY <1>1 DEF OneToken

\* A completion that is no token is taken from the queue.
LEMMA TokenTail ==
    ASSUME NEW n, NEW q \in Seq(Completion), NEW b \in BOOLEAN, NEW s \in BOOLEAN,
           OneToken(n, q, b, s), q # <<>>, Head(q) \notin Tokens
    PROVE  Tail(q) \in Seq(Completion) /\ OneToken(n, Tail(q), b, s)
<1>1. Tail(q) \in Seq(Completion) /\ Head(q) = q[1]
  BY HeadTailProperties
<1>2. \A i \in At(Tokens, Tail(q)) : i \in Nat /\ i + 1 \in At(Tokens, q)
  BY TailAt
<1>3. At(Tokens, q) = {} => At(Tokens, Tail(q)) = {}
  BY <1>2
<1>4. \A i, j \in At(Tokens, Tail(q)) : i = j
  BY <1>2 DEF OneToken
<1> QED
  BY <1>1, <1>3, <1>4 DEF OneToken

\* The token is taken from the queue.
LEMMA TokenTaken ==
    ASSUME NEW n, NEW q \in Seq(Completion), NEW b \in BOOLEAN, NEW s \in BOOLEAN,
           OneToken(n, q, b, s), q # <<>>, Head(q) \in Tokens
    PROVE  s /\ n = 0 /\ ~b /\ At(Tokens, Tail(q)) = {}
<1>1. 1 \in At(Tokens, q)
  <2>1. Head(q) = q[1] /\ Len(q) \in Nat \ {0}
    BY HeadTailProperties, EmptySeq
  <2> QED
    BY <2>1 DEF At
<1>2. \A i \in At(Tokens, Tail(q)) : i \in Nat \ {0} /\ i + 1 \in At(Tokens, q)
  BY TailAt
<1>3. ASSUME NEW i \in At(Tokens, Tail(q)) PROVE FALSE
  BY <1>1, <1>2 DEF OneToken
<1> QED
  BY <1>1, <1>3 DEF OneToken

LEMMA NoToken ==
    ASSUME NEW op \in {"connect", "read", "write"}, NEW res \in {"ok", "some", "failed", "aborted"},
           op = "write" \/ res # "ok"
    PROVE  Done(op, res) \in Completion /\ Done(op, res) \notin Tokens
BY DoneType DEF Tokens

\* A read is started by whoever has the token.
LEMMA TokenRead ==
    ASSUME NEW q \in Seq(Completion), At(Tokens, q) = {}, reads = 0, processMessage(q), Linked
    PROVE  OneToken(reads', ready', FALSE, TRUE)
<1>1. ~Unusable
  BY DEF Linked, Unusable
<1>2. ready' = q /\ reads' = 1
  BY <1>1 DEF processMessage
<1> QED
  BY <1>2 DEF OneToken

LEMMA ReaderNext == ASSUME TypeInv, ReaderInv, [Next]_vars PROVE ReaderInv'
<1> DEFINE Now == OneToken(reads, ready, Busy, Linked)
<1>q. /\ ready \in Seq(Completion) /\ reads \in Nat
      /\ Busy \in BOOLEAN /\ Linked \in BOOLEAN /\ Busy' \in BOOLEAN /\ Linked' \in BOOLEAN
  BY DEF TypeInv, TypeOK, StreamTypes, Busy, Linked
<1>i. quiet => Now
  BY DEF ReaderInv
<1>r. Now' => ReaderInv'
  BY DEF ReaderInv
<1>f. UNCHANGED frame => Busy' = Busy
  BY DEF Busy
<1>s. UNCHANGED sock => Linked' = Linked
  BY DEF Linked
<1>u. ASSUME quiet' => quiet, UNCHANGED <<reads, ready>>, Busy' = Busy, Linked' = Linked
      PROVE  ReaderInv'
  <2>1. reads' = reads /\ ready' = ready
    BY <1>u
  <2>2. OneToken(reads', ready', Busy', Linked') <=> OneToken(reads, ready, Busy, Linked)
    BY <1>u, <2>1
  <2> QED
    BY <1>u, <2>2 DEF ReaderInv
<1>p. ASSUME quiet' => quiet, NEW q \in Seq(Completion), quiet => OneToken(reads, q, Busy, Linked),
             NEW op \in {"connect", "read", "write"},
             NEW res \in {"ok", "some", "failed", "aborted"}, op = "write" \/ res # "ok",
             ready' = Append(q, Done(op, res)), UNCHANGED reads, Busy' = Busy, Linked' = Linked
      PROVE  ReaderInv'
  <2>1. Done(op, res) \in Completion /\ Done(op, res) \notin Tokens
    BY <1>p, NoToken
  <2>2. quiet => OneToken(reads, Append(q, Done(op, res)), Busy, Linked)
    BY <1>q, <1>p, <2>1, TokenAppend
  <2> QED
    BY <1>p, <2>2 DEF ReaderInv
<1>t. ASSUME quiet, ready # <<>>, Head(ready) \notin Tokens
      PROVE  Tail(ready) \in Seq(Completion) /\ OneToken(reads, Tail(ready), Busy, Linked)
  BY <1>q, <1>i, <1>t, TokenTail
<1>h. ready # <<>> => Head(ready) \in Completion /\ Tail(ready) \in Seq(Completion)
  BY <1>q, HeadTailProperties
<1> USE DEF client, service, socket, history
<1>1. ASSUME command \/ connectIgnored \/ UNCHANGED vars PROVE ReaderInv'
  BY <1>1, <1>u, <1>f, <1>s DEF command, connectIgnored, vars
<1>2. ASSUME NEW tcp \in BOOLEAN, connect(tcp) PROVE ReaderInv'
  <2>1. (quiet' => quiet) /\ UNCHANGED <<reads, frame>>
    BY <1>2 DEF connect
  <2>2. CASE Unusable
    <3>1. ~Linked /\ ~Linked' /\ UNCHANGED ready
      BY <1>2, <2>2 DEF connect, Unusable, Linked
    <3>2. Busy' = Busy /\ Linked' = Linked
      BY <1>q, <1>f, <2>1, <3>1
    <3> QED
      BY <1>u, <2>1, <3>1, <3>2
  <2>3. CASE ~Unusable
    <3>1. ready' = Append(ready, Done("connect", "failed")) /\ UNCHANGED sock
      BY <1>2, <2>3 DEF connect
    <3> QED
      BY <1>q, <1>i, <1>p, <1>f, <1>s, <2>1, <3>1
  <2> QED
    BY <2>2, <2>3
<1>3. ASSUME close PROVE ReaderInv'
  <2> SUFFICES ASSUME quiet' PROVE Now'
    BY <1>r DEF ReaderInv
  <2> DEFINE r1 == [i \in 1..reads |-> Done("read", "aborted")]
             r2 == IF sock = "connecting" THEN <<Done("connect", "aborted")>> ELSE <<>>
             r3 == IF writing THEN <<Done("write", "aborted")>> ELSE <<>>
  <2>1. NothingUnderWay /\ reads' = 0 /\ ready' = ready \o r1 \o r2 \o r3
        /\ sock' = "closed" /\ UNCHANGED frame
    BY <1>3 DEF close
  <2>2. frame = "idle" /\ \A i \in 1..Len(ready) : ready[i].res # "ok"
    BY <2>1 DEF NothingUnderWay
  <2>3. /\ r1 \in Seq(Completion) /\ r2 \in Seq(Completion) /\ r3 \in Seq(Completion)
        /\ \A i \in 1..Len(r1) : r1[i].res # "ok"
        /\ \A i \in 1..Len(r2) : r2[i].res # "ok"
        /\ \A i \in 1..Len(r3) : r3[i].res # "ok"
    <3>1. \A op \in {"connect", "read", "write"} :
             Done(op, "aborted") \in Completion /\ Done(op, "aborted").res = "aborted"
      BY DoneType
    <3>2. r1 \in Seq(Completion) /\ \A i \in 1..Len(r1) : r1[i].res # "ok"
      BY <1>q, <3>1
    <3>3. r2 \in Seq(Completion) /\ \A i \in 1..Len(r2) : r2[i].res # "ok"
      BY <3>1
    <3>4. r3 \in Seq(Completion) /\ \A i \in 1..Len(r3) : r3[i].res # "ok"
      BY <3>1
    <3> QED
      BY <3>2, <3>3, <3>4
  <2> HIDE DEF r1, r2, r3
  <2>4. ASSUME NEW a \in Seq(Completion), NEW b \in Seq(Completion),
               \A i \in 1..Len(a) : a[i].res # "ok", \A i \in 1..Len(b) : b[i].res # "ok"
        PROVE  a \o b \in Seq(Completion) /\ \A i \in 1..Len(a \o b) : (a \o b)[i].res # "ok"
    <3>1. /\ a \o b \in Seq(Completion) /\ Len(a \o b) = Len(a) + Len(b)
          /\ Len(a) \in Nat /\ Len(b) \in Nat
          /\ \A i \in 1..Len(a) + Len(b) :
               (a \o b)[i] = IF i <= Len(a) THEN a[i] ELSE b[i - Len(a)]
      BY ConcatProperties, LenProperties
    <3> QED
      BY <2>4, <3>1
  <2>5. \A i \in 1..Len(ready') : ready'[i].res # "ok"
    <3>1. ready \o r1 \in Seq(Completion)
          /\ \A i \in 1..Len(ready \o r1) : (ready \o r1)[i].res # "ok"
      BY <1>q, <2>2, <2>3, <2>4
    <3>2. (ready \o r1) \o r2 \in Seq(Completion)
          /\ \A i \in 1..Len((ready \o r1) \o r2) : ((ready \o r1) \o r2)[i].res # "ok"
      BY <2>3, <2>4, <3>1
    <3>3. \A i \in 1..Len(((ready \o r1) \o r2) \o r3) :
             (((ready \o r1) \o r2) \o r3)[i].res # "ok"
      BY <2>3, <2>4, <3>2
    <3> QED
      BY <2>1, <3>3
  <2>6. At(Tokens, ready') = {}
    BY <2>5 DEF At, Tokens
  <2> QED
    BY <2>1, <2>2, <2>6 DEF OneToken, Busy, Linked
<1>4. ASSUME doAsyncCommand PROVE ReaderInv'
  <2>1. /\ UNCHANGED <<quiet, reads, frame, sock>>
        /\ (ready' = ready \/ ready' = Append(ready, Done("write", "failed")))
    BY <1>4 DEF doAsyncCommand, WriteAll
  <2> QED
    BY <1>q, <1>i, <1>u, <1>p, <1>f, <1>s, <2>1
<1>5. ASSUME WriteGoesOn \/ asyncWrite PROVE ReaderInv'
  <2>1. /\ UNCHANGED <<quiet, reads, frame, sock>> /\ ready # <<>> /\ Head(ready).op = "write"
        /\ (ready' = Tail(ready) \/ ready' = Append(Tail(ready), Done("write", "failed")))
    BY <1>5 DEF WriteGoesOn, asyncWrite, WriteAll, CompletionOf
  <2>2. Head(ready) \notin Tokens
    BY <2>1 DEF Tokens
  <2>3. quiet => OneToken(reads, Tail(ready), Busy, Linked)
    BY <1>t, <2>1, <2>2
  <2>4. CASE ready' = Tail(ready)
    BY <1>f, <1>s, <2>1, <2>3, <2>4 DEF ReaderInv
  <2>5. CASE ready' = Append(Tail(ready), Done("write", "failed"))
    BY <1>h, <1>p, <1>f, <1>s, <2>1, <2>3, <2>5
  <2> QED
    BY <2>1, <2>4, <2>5
<1>6. ASSUME handleAsyncConnect \/ asyncRead PROVE ReaderInv'
  <2>1. /\ UNCHANGED <<quiet, reads, sock>> /\ ready # <<>> /\ ready' = Tail(ready)
        /\ Head(ready).op \in {"connect", "read"}
        /\ Head(ready).res = "ok" => frame' \in {"connected", "read"}
        /\ Head(ready).res # "ok" => UNCHANGED frame
    BY <1>6 DEF handleAsyncConnect, asyncRead, CompletionOf, NotConnected
  <2>2. CASE Head(ready).res = "ok"
    <3>1. Head(ready) \in Tokens
      BY <1>h, <2>1, <2>2 DEF Tokens
    <3>2. quiet => Linked /\ reads = 0 /\ At(Tokens, Tail(ready)) = {}
      BY <1>q, <1>i, <2>1, <3>1, TokenTaken
    <3>3. Busy'
      BY <2>1, <2>2 DEF Busy
    <3> QED
      BY <1>s, <2>1, <3>2, <3>3 DEF ReaderInv, OneToken
  <2>3. CASE Head(ready).res # "ok"
    <3>1. Head(ready) \notin Tokens
      BY <2>3 DEF Tokens
    <3> QED
      BY <1>t, <1>f, <1>s, <2>1, <2>3, <3>1 DEF ReaderInv
  <2> QED
    BY <2>2, <2>3
<1>7. ASSUME ConnectHandlerReturns \/ EndOfChunk PROVE ReaderInv'
  <2>1. UNCHANGED <<quiet, sock>> /\ Busy /\ ~Busy' /\ processMessage(ready)
    BY <1>7 DEF ConnectHandlerReturns, EndOfChunk, Busy
  <2>2. quiet => At(Tokens, ready) = {} /\ reads = 0 /\ Linked
    BY <1>i, <2>1 DEF OneToken
  <2>3. quiet => OneToken(reads', ready', FALSE, TRUE)
    BY <1>q, <2>1, <2>2, TokenRead
  <2> QED
    BY <1>q, <1>s, <2>1, <2>2, <2>3 DEF ReaderInv, OneToken
<1>8. ASSUME ParsePiece \/ MisreadPiece \/ ReplyHandlerReturns \/ ErrorHandlerLeaves
      PROVE  ReaderInv'
  <2>1. frame \in {"read", "reply", "unexpected"} /\ UNCHANGED <<reads, ready, sock>>
    BY <1>8 DEF ParsePiece, Uncompleted, MisreadPiece, ReplyHandlerReturns,
                ErrorHandlerLeaves
  <2>2. quiet' => quiet
    BY <1>8 DEF ParsePiece, MisreadPiece, ReplyHandlerReturns, ErrorHandlerLeaves
  <2>3. Busy
    BY <2>1 DEF Busy
  <2>4. quiet => At(Tokens, ready) = {} /\ reads = 0 /\ Linked
    BY <1>i, <2>3 DEF OneToken
  <2> QED
    BY <1>q, <1>s, <2>1, <2>2, <2>4 DEF ReaderInv, OneToken
<1>9. ASSUME ConnectEnds PROVE ReaderInv'
  <2>1. /\ UNCHANGED <<quiet, reads, frame>> /\ frame = "idle" /\ ~Linked
        /\ \/ sock' = "open" /\ ready' = Append(ready, Done("connect", "ok"))
           \/ sock' = "unconnected" /\ ready' = Append(ready, Done("connect", "failed"))
    BY <1>9 DEF ConnectEnds, Complete, Linked
  <2>2. CASE sock' = "open" /\ ready' = Append(ready, Done("connect", "ok"))
    <3>1. Done("connect", "ok") \in Tokens
      BY DoneType DEF Tokens
    <3>2. quiet => OneToken(0, Append(ready, Done("connect", "ok")), FALSE, TRUE)
      BY <1>q, <1>i, <2>1, <3>1, TokenQueued DEF OneToken
    <3>3. Linked' /\ ~Busy'
      BY <2>1, <2>2 DEF Linked, Busy
    <3>4. quiet => reads = 0
      BY <1>i, <2>1 DEF OneToken
    <3> QED
      BY <1>q, <2>1, <2>2, <3>2, <3>3, <3>4 DEF ReaderInv, OneToken
  <2>3. CASE sock' = "unconnected" /\ ready' = Append(ready, Done("connect", "failed"))
    <3>1. Linked' = Linked
      BY <2>1, <2>3 DEF Linked
    <3> QED
      BY <1>q, <1>i, <1>p, <1>f, <2>1, <2>3, <3>1
  <2> QED
    BY <2>1, <2>2, <2>3
<1>10. ASSUME Break PROVE ReaderInv'
  <2>1. UNCHANGED <<quiet, reads, ready, frame>> /\ Linked' = Linked
    BY <1>10 DEF Break, Linked
  <2> QED
    BY <1>u, <1>f, <2>1
<1>11. ASSUME Transmit PROVE ReaderInv'
  <2>1. UNCHANGED <<quiet, reads, frame, sock>>
        /\ (UNCHANGED ready \/ ready' = Append(ready, Done("write", "some")))
    BY <1>11 DEF Transmit, Complete
  <2> QED
    BY <1>q, <1>i, <1>u, <1>p, <1>f, <1>s, <2>1
<1>12. ASSUME WriteEnds PROVE ReaderInv'
  <2>1. /\ UNCHANGED <<quiet, reads, frame, sock>>
        /\ \E res \in {"ok", "failed"} : ready' = Append(ready, Done("write", res))
    BY <1>12 DEF WriteEnds, Complete
  <2> QED
    BY <1>q, <1>i, <1>p, <1>f, <1>s, <2>1
<1>13. ASSUME ReadFails PROVE ReaderInv'
  <2>1. /\ UNCHANGED <<quiet, frame, sock>> /\ reads > 0 /\ reads' = reads - 1
        /\ ready' = Append(ready, Done("read", "failed"))
    BY <1>13 DEF ReadFails, Complete
  <2>2. quiet => OneToken(reads, Append(ready, Done("read", "failed")), Busy, Linked)
    BY <1>q, <1>i, NoToken, TokenAppend
  <2>3. quiet => OneToken(reads', ready', Busy, Linked)
    BY <1>q, <2>1, <2>2 DEF OneToken
  <2> QED
    BY <1>f, <1>s, <2>1, <2>3 DEF ReaderInv
<1>14. ASSUME ReceiveSome(0..Len(inFlight)) PROVE ReaderInv'
  <2>1. PICK n \in 0..Len(inFlight), part \in BOOLEAN : Receive(n, part)
    BY <1>14 DEF ReceiveSome
  <2> DEFINE whole == [i \in 1..n |-> [of |-> inFlight[i], first |-> ~(i = 1 /\ cut),
                                      last |-> TRUE]]
             begun == IF part THEN <<[of |-> inFlight[n + 1], first |-> TRUE, last |-> FALSE]>>
                              ELSE <<>>
             k     == Len(whole \o begun)
             x     == [op |-> "read", res |-> "ok", size |-> k]
  <2>2. k \in Nat
    <3>1. n \in Nat
      OBVIOUS
    <3>2. Len(whole) = n /\ Len(begun) \in {0, 1}
      BY <3>1
    <3> QED
      BY <3>1, <3>2
  <2>3. /\ ready' = Append(ready, x) /\ reads > 0 /\ reads' = reads - 1 /\ frame = "idle"
        /\ sock \in {"open", "broken"} /\ UNCHANGED <<quiet, frame, sock>>
    BY <2>1 DEF Receive
  <2> HIDE DEF k, whole, begun
  <2>4. x \in Tokens
    BY <2>2 DEF Tokens, Completion
  <2>5. quiet => reads = 1 /\ At(Tokens, ready) = {}
    BY <1>q, <1>i, <2>3 DEF OneToken
  <2>6. quiet => OneToken(0, ready', FALSE, TRUE)
    BY <1>q, <2>3, <2>4, <2>5, TokenQueued
  <2>7. ~Busy' /\ Linked' /\ (quiet => reads' = 0)
    BY <2>3, <2>5 DEF Busy, Linked
  <2> QED
    BY <1>q, <2>3, <2>6, <2>7 DEF ReaderInv, OneToken
<1> QED
  BY <1>1, <1>2, <1>3, <1>4, <1>5, <1>6, <1>7, <1>8, <1>9, <1>10, <1>11, <1>12, <1>13, <1>14
     DEF Next, Application, Callbacks, Service, Kernel

LEMMA TokenOneReader == ASSUME TypeInv, ReaderInv PROVE OneReader
<1> SUFFICES ASSUME quiet PROVE reads + Cardinality(ReadEnded("ok"))
                     + (IF frame \in {"idle", "undefined"} THEN 0 ELSE 1) <= 1
  BY DEF OneReader
<1>1. OneToken(reads, ready, Busy, Linked) /\ ready \in Seq(Completion)
  BY DEF ReaderInv, TypeInv, TypeOK, StreamTypes
<1>2. ReadEnded("ok") \subseteq At(Tokens, ready)
  BY <1>1, ElementOfSeq DEF ReadEnded, At, Tokens
<1>3. CASE ReadEnded("ok") = {}
  <2>1. Cardinality(ReadEnded("ok")) = 0
    BY <1>3, FS_EmptySet
  <2> QED
    BY <1>1, <2>1 DEF OneToken, Busy
<1>4. CASE ReadEnded("ok") # {}
  <2>1. PICK i : ReadEnded("ok") = {i}
    BY <1>1, <1>2, <1>4 DEF OneToken
  <2>2. Cardinality(ReadEnded("ok")) = 1
    BY <2>1, FS_Singleton
  <2>3. reads = 0 /\ ~Busy
    BY <1>1, <1>2, <1>4 DEF OneToken
  <2> QED
    BY <2>2, <2>3 DEF Busy
<1> QED
  BY <1>3, <1>4

\* After a quiet disconnect, or before any, no two reads write to buf, and none
\* writes to it while asyncRead parses what an earlier one brought.
THEOREM OneReaderCorrect == Spec => []OneReader
<1>1. Init => ReaderInv
  BY EmptySeq DEF Init, ReaderInv, OneToken, At, Busy, Linked
<1>2. TypeInv /\ ReaderInv /\ [Next]_vars => ReaderInv'
  BY ReaderNext
<1>3. TypeInv /\ ReaderInv => OneReader
  BY TokenOneReader
<1>4. Spec => []TypeInv
  BY TypeInit, TypeNext, PTL DEF Spec
<1> QED
  BY <1>1, <1>2, <1>3, <1>4, PTL DEF Spec
=============================================================================
