--------------------------- MODULE AsyncBeltProofs ---------------------------
(***************************************************************************)
(* Proofs about the pairing of replies with handlers in AsyncClient: as    *)
(* long as it is closed with nothing under way, nothing on the way of a    *)
(* command to the server and of its reply to the handler is lost, doubled  *)
(* or overtaken.  With this the client implements CommandChannel.          *)
(***************************************************************************)
EXTENDS AsyncAnswersProofs, PieceLemmas, AsyncChannel

(***************************************************************************)
(* The completions that wait, as a set: which kind each action queues      *)
(***************************************************************************)
Waiting(q) == {q[i] : i \in 1..Len(q)}

LEMMA WaitingAppend ==
    ASSUME NEW q \in Seq(Completion), NEW x \in Completion
    PROVE  Waiting(Append(q, x)) = Waiting(q) \cup {x}
<1>1. /\ Len(Append(q, x)) = Len(q) + 1 /\ Append(q, x)[Len(q) + 1] = x /\ Len(q) \in Nat
      /\ \A i \in 1..Len(q) : Append(q, x)[i] = q[i]
  BY AppendProperties, LenProperties
<1>2. 1..(Len(q) + 1) = 1..Len(q) \cup {Len(q) + 1}
  BY <1>1
<1> QED
  BY <1>1, <1>2 DEF Waiting

LEMMA WaitingTail ==
    ASSUME NEW q \in Seq(Completion), q # <<>>
    PROVE  /\ Tail(q) \in Seq(Completion) /\ Head(q) \in Waiting(q)
           /\ Waiting(q) = Waiting(Tail(q)) \cup {Head(q)}
           /\ Waiting(Tail(q)) = {q[i] : i \in 2..Len(q)}
<1>1. /\ Len(q) \in Nat \ {0} /\ Head(q) = q[1] /\ Len(Tail(q)) = Len(q) - 1
      /\ \A i \in 1..Len(Tail(q)) : Tail(q)[i] = q[i + 1]
      /\ Tail(q) \in Seq(Completion)
  BY HeadTailProperties, EmptySeq
<1>2. Waiting(Tail(q)) = {q[i] : i \in 2..Len(q)}
  <2>1. ASSUME NEW i \in 2..Len(q) PROVE q[i] \in Waiting(Tail(q))
    <3>1. i - 1 \in 1..Len(Tail(q)) /\ Tail(q)[i - 1] = q[i]
      BY <1>1
    <3> QED
      BY <3>1, Zenon DEF Waiting
  <2>2. ASSUME NEW i \in 1..Len(Tail(q)) PROVE Tail(q)[i] \in {q[j] : j \in 2..Len(q)}
    <3>1. i + 1 \in 2..Len(q) /\ Tail(q)[i] = q[i + 1]
      BY <1>1
    <3> QED
      BY <3>1
  <2> QED
    BY <2>1, <2>2 DEF Waiting
<1>3. Waiting(q) = {q[i] : i \in 2..Len(q)} \cup {q[1]}
  <2>1. 1..Len(q) = 2..Len(q) \cup {1}
    BY <1>1
  <2> QED
    BY <2>1 DEF Waiting
<1> QED
  BY <1>1, <1>2, <1>3

LEMMA WaitingConcat ==
    ASSUME NEW q \in Seq(Completion), NEW r \in Seq(Completion)
    PROVE  q \o r \in Seq(Completion) /\ Waiting(q \o r) = Waiting(q) \cup Waiting(r)
<1>1. /\ q \o r \in Seq(Completion) /\ Len(q \o r) = Len(q) + Len(r)
      /\ Len(q) \in Nat /\ Len(r) \in Nat
      /\ \A i \in 1..Len(q) + Len(r) :
           (q \o r)[i] = IF i <= Len(q) THEN q[i] ELSE r[i - Len(q)]
  BY ConcatProperties, LenProperties
<1>2. ASSUME NEW i \in 1..Len(q \o r) PROVE (q \o r)[i] \in Waiting(q) \cup Waiting(r)
  <2>1. CASE i <= Len(q)
    BY <1>1, <2>1 DEF Waiting
  <2>2. CASE i > Len(q)
    <3>1. i - Len(q) \in 1..Len(r) /\ (q \o r)[i] = r[i - Len(q)]
      BY <1>1, <2>2
    <3> QED
      BY <3>1, Zenon DEF Waiting
  <2> QED
    BY <1>1, <2>1, <2>2
<1>3. ASSUME NEW i \in 1..Len(q) PROVE q[i] \in Waiting(q \o r)
  BY <1>1 DEF Waiting
<1>4. ASSUME NEW i \in 1..Len(r) PROVE r[i] \in Waiting(q \o r)
  <2>1. Len(q) + i \in 1..Len(q \o r) /\ (q \o r)[Len(q) + i] = r[i]
    BY <1>1
  <2> QED
    BY <2>1, Zenon DEF Waiting
<1> QED
  BY <1>1, <1>2, <1>3, <1>4 DEF Waiting

LEMMA WaitingType ==
    ASSUME NEW q \in Seq(Completion)
    PROVE  /\ Waiting(q) \subseteq Completion
           /\ \A S : At(S, q) = {} <=> (\A x \in Waiting(q) : x \notin S)
BY ElementOfSeq DEF Waiting, At

\* disconnect() adds nothing but aborted operations.
LEMMA CloseQueues ==
    ASSUME TypeInv, close
    PROVE  /\ Waiting(ready) \subseteq Waiting(ready')
           /\ \A x \in Waiting(ready') :
                x \in Waiting(ready) \/ (x.res = "aborted" /\ x.size = 0)
<1> DEFINE R == [i \in 1..reads |-> Done("read", "aborted")]
           C == IF sock = "connecting" THEN <<Done("connect", "aborted")>> ELSE <<>>
           W == IF writing THEN <<Done("write", "aborted")>> ELSE <<>>
<1>q. ready \in Seq(Completion) /\ reads \in Nat
  BY DEF TypeInv, TypeOK, StreamTypes
<1>0. ASSUME NEW op \in {"connect", "read", "write"}
      PROVE  Done(op, "aborted") \in Completion /\ Done(op, "aborted").res = "aborted"
             /\ Done(op, "aborted").size = 0
  BY DoneType
<1>1. R \in Seq(Completion) /\ \A x \in Waiting(R) : x.res = "aborted" /\ x.size = 0
  BY <1>q, <1>0 DEF Waiting
<1>2. C \in Seq(Completion) /\ \A x \in Waiting(C) : x.res = "aborted" /\ x.size = 0
  BY <1>0 DEF Waiting
<1>3. W \in Seq(Completion) /\ \A x \in Waiting(W) : x.res = "aborted" /\ x.size = 0
  BY <1>0 DEF Waiting
<1>4. ready' = ready \o R \o C \o W
  BY DEF close
<1> HIDE DEF R, C, W
<1>5. ready \o R \in Seq(Completion) /\ Waiting(ready \o R) = Waiting(ready) \cup Waiting(R)
  BY <1>q, <1>1, WaitingConcat
<1>6. /\ ready \o R \o C \in Seq(Completion)
      /\ Waiting(ready \o R \o C) = Waiting(ready) \cup Waiting(R) \cup Waiting(C)
  BY <1>2, <1>5, WaitingConcat
<1>7. Waiting(ready') = Waiting(ready) \cup Waiting(R) \cup Waiting(C) \cup Waiting(W)
  BY <1>3, <1>4, <1>6, WaitingConcat
<1> QED
  BY <1>1, <1>2, <1>3, <1>7

\* What a read brings: k whole replies, and perhaps the beginning of the next.
Chunk(n, part) ==
    [i \in 1..n |-> [of |-> inFlight[i], first |-> ~(i = 1 /\ cut), last |-> TRUE]]
        \o (IF part THEN <<[of |-> inFlight[n + 1], first |-> TRUE, last |-> FALSE]>>
                    ELSE <<>>)

LEMMA ChunkType ==
    ASSUME TypeInv, NEW n \in 0..Len(inFlight), NEW part \in BOOLEAN,
           n + (IF part THEN 1 ELSE 0) <= Len(inFlight)
    PROVE  /\ Chunk(n, part) \in Seq(Piece)
           /\ Len(Chunk(n, part)) = n + (IF part THEN 1 ELSE 0)
           /\ \A i \in 1..Len(Chunk(n, part)) :
                /\ Chunk(n, part)[i].of = inFlight[i]
                /\ Chunk(n, part)[i].first <=> ~(i = 1 /\ i <= n /\ cut)
                /\ Chunk(n, part)[i].last <=> i <= n
<1> DEFINE a == [i \in 1..n |-> [of |-> inFlight[i], first |-> ~(i = 1 /\ cut), last |-> TRUE]]
           b == IF part THEN <<[of |-> inFlight[n + 1], first |-> TRUE, last |-> FALSE]>>
                        ELSE <<>>
<1>q. n \in Nat /\ inFlight \in Seq(Cmd) /\ cut \in BOOLEAN /\ Len(inFlight) \in Nat
      /\ \A i \in 1..Len(inFlight) : inFlight[i] \in Cmd
  BY LenProperties, ElementOfSeq DEF TypeInv, TypeOK, CommandTypes, FlagTypes
<1>1. /\ a \in Seq(Piece) /\ Len(a) = n
      /\ \A i \in 1..n : /\ a[i].of = inFlight[i] /\ a[i].last
                         /\ a[i].first <=> ~(i = 1 /\ cut)
  <2>1. ASSUME NEW i \in 1..n
        PROVE  [of |-> inFlight[i], first |-> ~(i = 1 /\ cut), last |-> TRUE] \in Piece
    <3>1. inFlight[i] \in Cmd /\ (~(i = 1 /\ cut)) \in BOOLEAN
      BY <1>q
    <3> QED
      BY <3>1, Zenon DEF Piece
  <2>2. a \in [1..n -> Piece]
    BY <2>1, Zenon
  <2>3. ASSUME NEW i \in 1..n
        PROVE  /\ a[i].of = inFlight[i] /\ a[i].last
               /\ a[i].first <=> ~(i = 1 /\ cut)
    BY Zenon
  <2>4. a \in Seq(Piece) /\ Len(a) = n
    <3> HIDE DEF a
    <3> QED
      BY <1>q, <2>2
  <2> QED
    BY <2>3, <2>4, Zenon
<1>2. /\ b \in Seq(Piece) /\ Len(b) = (IF part THEN 1 ELSE 0)
      /\ part => b[1].of = inFlight[n + 1] /\ b[1].first /\ ~b[1].last
  <2>1. CASE part
    <3>1. inFlight[n + 1] \in Cmd
      BY <1>q, <2>1
    <3> QED
      BY <2>1, <3>1 DEF Piece
  <2>2. CASE ~part
    BY <2>2
  <2> QED
    BY <2>1, <2>2
<1>3. Chunk(n, part) = a \o b
  BY DEF Chunk
<1> HIDE DEF a, b
<1>s. a \in Seq(Piece) /\ b \in Seq(Piece)
  BY <1>1, <1>2
<1>4. /\ a \o b \in Seq(Piece) /\ Len(a \o b) = Len(a) + Len(b)
      /\ \A i \in 1..Len(a) + Len(b) : (a \o b)[i] = IF i <= Len(a) THEN a[i] ELSE b[i - Len(a)]
  BY <1>s, ConcatProperties
<1>5. ASSUME NEW i \in 1..Len(a \o b)
      PROVE  /\ (a \o b)[i].of = inFlight[i] /\ ((a \o b)[i].last <=> i <= n)
             /\ (a \o b)[i].first <=> ~(i = 1 /\ i <= n /\ cut)
  <2>1. CASE i <= n
    <3>1. (a \o b)[i] = a[i] /\ i \in 1..n
      BY <1>1, <1>4, <2>1
    <3> QED
      BY <1>1, <2>1, <3>1, Zenon
  <2>2. CASE ~(i <= n)
    <3>1. part /\ i = n + 1
      BY <1>1, <1>2, <1>4, <2>2
    <3>2. (a \o b)[i] = b[1]
      BY <1>1, <1>4, <3>1
    <3> QED
      BY <1>2, <2>2, <3>1, <3>2, Zenon
  <2> QED
    BY <2>1, <2>2
<1> QED
  BY <1>1, <1>2, <1>3, <1>4, <1>5

\* A read that brings something, in the terms of the lemmas above.
LEMMA Received ==
    ASSUME TypeInv, ReceiveSome(0..Len(inFlight))
    PROVE  \E n \in 0..Len(inFlight), part \in BOOLEAN :
             /\ n + (IF part THEN 1 ELSE 0) <= Len(inFlight)
             /\ Chunk(n, part) # <<>> /\ (part => ~(n = 0 /\ cut))
             /\ buf' = Chunk(n, part) \o SubSeq(buf, Len(Chunk(n, part)) + 1, Len(buf))
             /\ ready' = Append(ready, [op |-> "read", res |-> "ok", size |-> Len(Chunk(n, part))])
             /\ inFlight' = SubSeq(inFlight, n + 1, Len(inFlight)) /\ cut' = part
<1>1. PICK n \in 0..Len(inFlight), part \in BOOLEAN :
        n + (IF part THEN 1 ELSE 0) <= Len(inFlight) /\ Receive(n, part)
  BY DEF ReceiveSome
<1> QED
  BY <1>1, Zenon DEF Receive, Chunk

\* What Receive does besides, whatever it brings.
LEMMA ReceiveLeaves ==
    ASSUME ReceiveSome(0..Len(inFlight))
    PROVE  /\ frame = "idle" /\ reads > 0 /\ reads' = reads - 1
           /\ sock \in {"open", "broken"}
           /\ UNCHANGED <<state, handlers, dataQueued, dataWritten, parser, strandQ, frame,
                          rest, sock, writing, sent, history>>
BY DEF ReceiveSome, Receive

\* A completion that is new: an operation that failed or was aborted, which a
\* write does only on a socket that is not open, or the one good news that its
\* action has to tell.
LEMMA QueueNext ==
    ASSUME TypeInv, [Next]_vars, NEW x \in Waiting(ready'), x \notin Waiting(ready)
    PROVE  \/ /\ x.size = 0 /\ x.res \in {"failed", "aborted"}
              /\ x.op = "write" => sock' # "open"
           \/ x = Done("connect", "ok") /\ ConnectEnds
           \/ x.op = "read" /\ x.res = "ok" /\ ReceiveSome(0..Len(inFlight))
           \/ x = Done("write", "some")
           \/ x = Done("write", "ok") /\ WriteEnds /\ sent = Len(dataWritten)
<1> DEFINE Bad  == x.size = 0 /\ x.res \in {"failed", "aborted"}
                   /\ (x.op = "write" => sock' # "open")
           Goal == \/ Bad
                   \/ x = Done("connect", "ok") /\ ConnectEnds
                   \/ x.op = "read" /\ x.res = "ok" /\ ReceiveSome(0..Len(inFlight))
                   \/ x = Done("write", "some")
                   \/ x = Done("write", "ok") /\ WriteEnds /\ sent = Len(dataWritten)
<1>q. ready \in Seq(Completion)
  BY DEF TypeInv, TypeOK, StreamTypes
<1>a. ASSUME NEW op \in {"connect", "read", "write"},
             NEW res \in {"ok", "some", "failed", "aborted"},
             ready' = Append(ready, Done(op, res))
             \/ (ready # <<>> /\ ready' = Append(Tail(ready), Done(op, res)))
      PROVE  x = Done(op, res)
  <2>1. Done(op, res) \in Completion
    BY DoneType
  <2>2. ready # <<>> => Tail(ready) \in Seq(Completion) /\ Waiting(Tail(ready)) \subseteq Waiting(ready)
    BY <1>q, WaitingTail
  <2>3. CASE ready' = Append(ready, Done(op, res))
    BY <1>q, <2>1, <2>3, WaitingAppend
  <2>4. CASE ready # <<>> /\ ready' = Append(Tail(ready), Done(op, res))
    <3>1. Waiting(ready') = Waiting(Tail(ready)) \cup {Done(op, res)}
      BY <2>1, <2>2, <2>4, WaitingAppend
    <3> QED
      BY <2>2, <2>4, <3>1
  <2> QED
    BY <1>a, <2>3, <2>4
<1>f. ASSUME NEW op \in {"connect", "read", "write"}, x = Done(op, "failed"),
             op = "write" => sock' # "open"
      PROVE  Bad
  BY <1>f, DoneType
<1>t. ready # <<>> => Waiting(Tail(ready)) \subseteq Waiting(ready)
  BY <1>q, WaitingTail
<1> HIDE DEF Bad, Goal
<1>g. ASSUME Bad PROVE Goal
  BY <1>g DEF Goal
<1> USE DEF client, service, socket, history
<1>1. ASSUME NEW tcp \in BOOLEAN, connect(tcp) PROVE Goal
  <2>1. ready' = Append(ready, Done("connect", "failed"))
    BY <1>1 DEF connect
  <2> QED
    BY <1>a, <1>f, <1>g, <2>1
<1>2. ASSUME close PROVE Goal
  BY <1>2, CloseQueues DEF Goal, Bad, close
<1>3. ASSUME doAsyncCommand PROVE Goal
  <2>1. ready' = Append(ready, Done("write", "failed")) /\ Unusable /\ UNCHANGED sock
    BY <1>3 DEF doAsyncCommand, WriteAll
  <2> QED
    BY <1>a, <1>f, <1>g, <2>1 DEF Unusable
<1>4. ASSUME asyncWrite \/ WriteGoesOn PROVE Goal
  <2>1. /\ ready # <<>> /\ UNCHANGED sock
        /\ \/ ready' = Tail(ready)
           \/ ready' = Append(Tail(ready), Done("write", "failed")) /\ Unusable
    BY <1>4 DEF asyncWrite, WriteGoesOn, WriteAll, CompletionOf
  <2> QED
    BY <1>a, <1>f, <1>g, <1>t, <2>1 DEF Unusable
<1>5. ASSUME handleAsyncConnect \/ asyncRead PROVE Goal
  BY <1>5, <1>t DEF handleAsyncConnect, asyncRead, CompletionOf
<1>6. ASSUME ConnectHandlerReturns \/ EndOfChunk PROVE Goal
  <2>1. ready' = Append(ready, Done("read", "failed"))
    BY <1>6 DEF ConnectHandlerReturns, EndOfChunk, processMessage
  <2> QED
    BY <1>a, <1>f, <1>g, <2>1
<1>7. ASSUME ParsePiece \/ MisreadPiece \/ ReplyHandlerReturns \/ ErrorHandlerLeaves PROVE Goal
  BY <1>7 DEF ParsePiece, Uncompleted, MisreadPiece, ReplyHandlerReturns, ErrorHandlerLeaves
<1>8. ASSUME command \/ connectIgnored \/ Break \/ UNCHANGED vars PROVE Goal
  BY <1>8 DEF command, connectIgnored, Break, vars
<1>9. ASSUME ConnectEnds PROVE Goal
  <2>1. CASE Complete("connect", "ok")
    BY <1>9, <1>a, <2>1 DEF Complete, Goal
  <2>2. CASE Complete("connect", "failed")
    BY <1>a, <1>f, <1>g, <2>2 DEF Complete
  <2> QED
    BY <1>9, <2>1, <2>2 DEF ConnectEnds
<1>10. ASSUME Transmit PROVE Goal
  <2>1. Complete("write", "some")
    BY <1>10 DEF Transmit
  <2> QED
    BY <1>a, <2>1 DEF Complete, Goal
<1>11. ASSUME WriteEnds PROVE Goal
  <2>1. CASE sent = Len(dataWritten) /\ Complete("write", "ok")
    BY <1>11, <1>a, <2>1 DEF Complete, Goal
  <2>2. CASE sock \in {"unconnected", "broken"} /\ Complete("write", "failed")
    BY <1>11, <1>a, <1>f, <1>g, <2>2 DEF Complete, WriteEnds
  <2> QED
    BY <1>11, <2>1, <2>2 DEF WriteEnds
<1>12. ASSUME ReadFails PROVE Goal
  BY <1>12, <1>a, <1>f, <1>g DEF ReadFails, Complete
<1>13. ASSUME ReceiveSome(0..Len(inFlight)) PROVE Goal
  <2>0. PICK n \in 0..Len(inFlight), part \in BOOLEAN :
          /\ n + (IF part THEN 1 ELSE 0) <= Len(inFlight)
          /\ ready' = Append(ready, [op |-> "read", res |-> "ok", size |-> Len(Chunk(n, part))])
    BY <1>13, Received
  <2> DEFINE k == Len(Chunk(n, part))
  <2>1. k \in Nat /\ ready' = Append(ready, [op |-> "read", res |-> "ok", size |-> k])
    BY <2>0, ChunkType, LenProperties
  <2> HIDE DEF k
  <2>2. [op |-> "read", res |-> "ok", size |-> k] \in Completion
    BY <2>1 DEF Completion
  <2>3. x = [op |-> "read", res |-> "ok", size |-> k]
    BY <1>q, <2>1, <2>2, WaitingAppend
  <2> QED
    BY <1>13, <2>3 DEF Goal
<1>14. Goal
  BY <1>1, <1>2, <1>3, <1>4, <1>5, <1>6, <1>7, <1>8, <1>9, <1>10, <1>11, <1>12, <1>13
     DEF Next, Application, Callbacks, Service, Kernel
<1> QED
  BY <1>14 DEF Goal, Bad

\* A completion leaves the queue when its handler runs.
LEMMA QueueKeeps ==
    ASSUME TypeInv, [Next]_vars, NEW x \in Waiting(ready), x \notin Waiting(ready')
    PROVE  /\ CompletionOf(x.op) /\ x = Head(ready)
           /\ \/ handleAsyncConnect /\ x.op = "connect"
              \/ (asyncWrite \/ WriteGoesOn) /\ x.op = "write"
              \/ asyncRead /\ x.op = "read"
<1>q. ready \in Seq(Completion)
  BY DEF TypeInv, TypeOK, StreamTypes
<1>a. ASSUME NEW y \in Completion, ready' = Append(ready, y) PROVE FALSE
  BY <1>q, <1>a, WaitingAppend
<1>d. ASSUME NEW op \in {"connect", "read", "write"},
             NEW res \in {"ok", "some", "failed", "aborted"},
             ready' = Append(ready, Done(op, res))
      PROVE  FALSE
  BY <1>a, <1>d, DoneType
<1>t. ASSUME NEW op, CompletionOf(op), Waiting(Tail(ready)) \subseteq Waiting(ready')
      PROVE  CompletionOf(x.op) /\ x = Head(ready) /\ x.op = op
  <2>1. ready # <<>> /\ Head(ready).op = op
    BY <1>t DEF CompletionOf
  <2>2. x = Head(ready)
    BY <1>q, <1>t, <2>1, WaitingTail
  <2> QED
    BY <1>t, <2>1, <2>2
<1> USE DEF client, service, socket, history
<1>1. ASSUME handleAsyncConnect \/ asyncRead
      PROVE  /\ CompletionOf(x.op) /\ x = Head(ready)
             /\ \/ handleAsyncConnect /\ x.op = "connect"
                \/ asyncRead /\ x.op = "read"
  <2>1. Waiting(Tail(ready)) \subseteq Waiting(ready')
    BY <1>1 DEF handleAsyncConnect, asyncRead
  <2>2. CASE handleAsyncConnect
    <3>1. CompletionOf("connect")
      BY <2>2 DEF handleAsyncConnect
    <3>2. CompletionOf(x.op) /\ x = Head(ready) /\ x.op = "connect"
      BY <1>t, <2>1, <3>1
    <3> QED
      BY <2>2, <3>2
  <2>3. CASE asyncRead
    <3>1. CompletionOf("read")
      BY <2>3 DEF asyncRead
    <3>2. CompletionOf(x.op) /\ x = Head(ready) /\ x.op = "read"
      BY <1>t, <2>1, <3>1
    <3> QED
      BY <2>3, <3>2
  <2> QED
    BY <1>1, <2>2, <2>3
<1>2. ASSUME asyncWrite \/ WriteGoesOn
      PROVE  CompletionOf(x.op) /\ x = Head(ready) /\ x.op = "write"
  <2>1. CompletionOf("write") /\ ready # <<>>
        /\ (ready' = Tail(ready) \/ ready' = Append(Tail(ready), Done("write", "failed")))
    BY <1>2 DEF asyncWrite, WriteGoesOn, WriteAll, CompletionOf
  <2>2. Tail(ready) \in Seq(Completion)
    BY <1>q, <2>1, WaitingTail
  <2>3. Waiting(Tail(ready)) \subseteq Waiting(ready')
    BY <2>1, <2>2, DoneType, WaitingAppend
  <2> QED
    BY <1>t, <2>1, <2>3
<1>3. ready' # ready
  OBVIOUS
<1>4. ~(\E tcp \in BOOLEAN : connect(tcp)) /\ ~doAsyncCommand
  BY <1>3, <1>d DEF connect, doAsyncCommand, WriteAll
<1>5. ~close
  BY CloseQueues
<1>6. ~ConnectHandlerReturns /\ ~EndOfChunk
  BY <1>3, <1>d DEF ConnectHandlerReturns, EndOfChunk, processMessage
<1>7. /\ ~ParsePiece /\ ~MisreadPiece /\ ~ReplyHandlerReturns /\ ~ErrorHandlerLeaves
      /\ ~command /\ ~connectIgnored /\ ~Break /\ ~UNCHANGED vars
  BY <1>3 DEF ParsePiece, Uncompleted, MisreadPiece, ReplyHandlerReturns, ErrorHandlerLeaves,
              command, connectIgnored, Break, vars
<1>8. ~ConnectEnds /\ ~Transmit /\ ~WriteEnds /\ ~ReadFails
  BY <1>3, <1>d DEF ConnectEnds, Transmit, WriteEnds, ReadFails, Complete
<1>9. ~ReceiveSome(0..Len(inFlight))
  <2>1. SUFFICES ASSUME ReceiveSome(0..Len(inFlight)) PROVE FALSE
    OBVIOUS
  <2>2. PICK n \in 0..Len(inFlight), part \in BOOLEAN :
          /\ n + (IF part THEN 1 ELSE 0) <= Len(inFlight)
          /\ ready' = Append(ready, [op |-> "read", res |-> "ok", size |-> Len(Chunk(n, part))])
    BY <2>1, Received
  <2>3. [op |-> "read", res |-> "ok", size |-> Len(Chunk(n, part))] \in Completion
    BY <2>2, ChunkType, LenProperties DEF Completion
  <2> QED
    BY <1>a, <2>2, <2>3
<1> QED
  BY <1>1, <1>2, <1>4, <1>5, <1>6, <1>7, <1>8, <1>9
     DEF Next, Application, Callbacks, Service, Kernel

(***************************************************************************)
(* What holds whatever the application does: pieces of a chunk are held    *)
(* only while it is parsed, the buffer only for a completion that refers   *)
(* to it, and a client that is closed has no socket.                       *)
(***************************************************************************)
KeptInv ==
    /\ frame \in {"idle", "connected"} => rest = <<>>
    /\ buf # <<>> => \E x \in Waiting(ready) : x.size > 0
    /\ \A x \in Waiting(ready) : x.size > 0 => x.op = "read" /\ x.res = "ok"
    /\ state = "Closed" => sock = "closed"

LEMMA KeptInit == Init => KeptInv
BY EmptySeq DEF Init, KeptInv, Waiting

LEMMA KeptNext == ASSUME TypeInv, KeptInv, [Next]_vars PROVE KeptInv'
<1>q. ready \in Seq(Completion) /\ buf \in Seq(Piece) /\ rest \in Seq(Piece)
  BY DEF TypeInv, TypeOK, StreamTypes
<1>1. frame' \in {"idle", "connected"} => rest' = <<>>
  <2>1. CASE handleAsyncConnect \/ EndOfChunk \/ ConnectHandlerReturns \/ ErrorHandlerLeaves
             \/ asyncRead
    BY <2>1 DEF KeptInv, handleAsyncConnect, NotConnected, CompletionOf, EndOfChunk,
                ConnectHandlerReturns, ErrorHandlerLeaves, asyncRead
  <2>2. CASE ParsePiece \/ MisreadPiece
    BY <2>2 DEF KeptInv, ParsePiece, MisreadPiece, Uncompleted, doProcessMessage
  <2>3. CASE ReplyHandlerReturns
    BY <2>3 DEF ReplyHandlerReturns
  <2>4. CASE Application \/ UNCHANGED vars
    BY <2>4 DEF KeptInv, Application, connect, connectIgnored, close, command, vars, service
  <2>5. CASE doAsyncCommand \/ WriteGoesOn \/ asyncWrite
    BY <2>5 DEF KeptInv, doAsyncCommand, WriteGoesOn, asyncWrite
  <2>6. CASE Kernel
    BY <2>6, ReceiveLeaves
       DEF KeptInv, Kernel, ConnectEnds, Break, Transmit, WriteEnds, ReadFails, service
  <2> QED
    BY <2>1, <2>2, <2>3, <2>4, <2>5, <2>6 DEF Next, Callbacks, Service
<1>2. \A x \in Waiting(ready') : x.size > 0 => x.op = "read" /\ x.res = "ok"
  BY QueueNext, DoneType DEF KeptInv
<1>3. state' = "Closed" => sock' = "closed"
  <2>1. CASE Application \/ UNCHANGED vars
    BY <2>1 DEF KeptInv, Application, connect, connectIgnored, close, command, vars, client,
                socket
  <2>2. CASE Callbacks \/ Service
    BY <2>2 DEF KeptInv, Callbacks, ConnectHandlerReturns, ReplyHandlerReturns,
                ErrorHandlerLeaves, Service, doAsyncCommand, handleAsyncConnect, NotConnected,
                WriteGoesOn, asyncWrite, asyncRead, ParsePiece, MisreadPiece, EndOfChunk,
                client, socket
  <2>3. CASE Kernel
    BY <2>3, ReceiveLeaves
       DEF KeptInv, Kernel, ConnectEnds, Break, Transmit, WriteEnds, ReadFails, client
  <2> QED
    BY <2>1, <2>2, <2>3 DEF Next
<1>4. buf' # <<>> => \E x \in Waiting(ready') : x.size > 0
  <2>1. CASE asyncRead
    <3>0. ready # <<>> /\ ready' = Tail(ready)
      BY <2>1 DEF asyncRead, CompletionOf
    <3>1. CASE Head(ready).res = "ok"
      <4>1. buf' = IF \E i \in 2..Len(ready) : ready[i].size > 0 THEN buf ELSE <<>>
        BY <2>1, <3>1 DEF asyncRead
      <4>2. Waiting(ready') = {ready[i] : i \in 2..Len(ready)}
        BY <1>q, <3>0, WaitingTail
      <4> QED
        BY <4>1, <4>2
    <3>2. CASE Head(ready).res # "ok"
      <4>1. buf' = buf
        BY <2>1, <3>2 DEF asyncRead
      <4>2. Waiting(ready) = Waiting(ready') \cup {Head(ready)}
        BY <1>q, <3>0, WaitingTail
      <4> QED
        BY <3>2, <4>1, <4>2 DEF KeptInv
    <3> QED
      BY <3>1, <3>2
  <2>2. CASE ReceiveSome(0..Len(inFlight))
    <3>1. PICK n \in 0..Len(inFlight), part \in BOOLEAN :
            /\ n + (IF part THEN 1 ELSE 0) <= Len(inFlight) /\ Chunk(n, part) # <<>>
            /\ ready' = Append(ready, [op |-> "read", res |-> "ok", size |-> Len(Chunk(n, part))])
      BY <2>2, Received
    <3> DEFINE k == Len(Chunk(n, part))
    <3>2. k \in Nat \ {0}
      BY <3>1, ChunkType, EmptySeq
    <3>3. ready' = Append(ready, [op |-> "read", res |-> "ok", size |-> k])
      BY <3>1
    <3> HIDE DEF k
    <3>4. [op |-> "read", res |-> "ok", size |-> k] \in Completion
      BY <3>2 DEF Completion
    <3> QED
      BY <1>q, <3>2, <3>3, <3>4, WaitingAppend
  <2>3. CASE ~asyncRead /\ ~ReceiveSome(0..Len(inFlight))
    <3>1. buf' = buf
      <4>1. CASE Application \/ Callbacks \/ UNCHANGED vars
        BY <4>1 DEF Application, connect, connectIgnored, close, command, Callbacks,
                    ConnectHandlerReturns, ReplyHandlerReturns, ErrorHandlerLeaves, vars, client
      <4>2. CASE Service
        BY <2>3, <4>2 DEF Service, doAsyncCommand, handleAsyncConnect, WriteGoesOn, asyncWrite,
                          ParsePiece, MisreadPiece, EndOfChunk, client
      <4>3. CASE Kernel
        BY <2>3, <4>3 DEF Kernel, ConnectEnds, Break, Transmit, WriteEnds, ReadFails, client
      <4> QED
        BY <4>1, <4>2, <4>3 DEF Next
    <3>2. SUFFICES ASSUME NEW x \in Waiting(ready), x.size > 0 PROVE x \in Waiting(ready')
      BY <3>1 DEF KeptInv
    <3>3. x.op = "read"
      BY <3>2 DEF KeptInv
    <3> QED
      BY <2>3, <3>2, <3>3, QueueKeeps
  <2> QED
    BY <2>1, <2>2, <2>3
<1> QED
  BY <1>1, <1>2, <1>3, <1>4 DEF KeptInv

(***************************************************************************)
(* A new connection finds nothing left of the last one                     *)
(***************************************************************************)

\* The socket is not connected, or it is and connect's handler was not called.
Awaited == \E x \in Waiting(ready) : x.op = "connect" /\ x.res = "ok"
Fresh   == ~Linked \/ Awaited

NothingHeld ==
    /\ handlers = <<>> /\ strandQ = <<>> /\ dataQueued = <<>> /\ dataWritten = <<>>
    /\ inFlight = <<>> /\ ~cut /\ ~IsConnected

FreshInv == quiet /\ Fresh => NothingHeld

\* The one reader's right to read, in the terms used here.
LEMMA TokenFacts ==
    ASSUME TypeInv, ReaderInv, KeptInv, quiet
    PROVE  /\ \A x, y \in Waiting(ready) : x \in Tokens /\ y \in Tokens => x = y
           /\ reads > 0 \/ Busy \/ ~Linked => \A x \in Waiting(ready) : x \notin Tokens
           /\ Fresh => reads = 0 /\ ~Busy
           /\ Fresh \/ reads > 0 \/ Busy => buf = <<>>
           /\ reads > 0 => ~Busy
<1>q. ready \in Seq(Completion) /\ reads \in Nat /\ Waiting(ready) \subseteq Completion
  BY WaitingType DEF TypeInv, TypeOK, StreamTypes
<1>i. OneToken(reads, ready, Busy, Linked)
  BY DEF ReaderInv
<1>w. At(Tokens, ready) = {} <=> (\A x \in Waiting(ready) : x \notin Tokens)
  BY <1>q, WaitingType
<1>1. \A x, y \in Waiting(ready) : x \in Tokens /\ y \in Tokens => x = y
  <2>1. ASSUME NEW i \in 1..Len(ready), NEW j \in 1..Len(ready),
               ready[i] \in Tokens, ready[j] \in Tokens
        PROVE  ready[i] = ready[j]
    <3>1. i = j
      BY <1>i, <2>1 DEF OneToken, At
    <3> QED
      BY <3>1
  <2> QED
    BY <2>1 DEF Waiting
<1>2. reads > 0 \/ Busy \/ ~Linked => \A x \in Waiting(ready) : x \notin Tokens
  BY <1>q, <1>i, <1>w DEF OneToken
<1>3. (\E x \in Waiting(ready) : x \in Tokens) => reads = 0 /\ ~Busy
  BY <1>q, <1>i, <1>w DEF OneToken
<1>4. Awaited => \E x \in Waiting(ready) : x \in Tokens /\ x.op = "connect"
  BY <1>q DEF Awaited, Tokens
<1>5. Fresh => reads = 0 /\ ~Busy
  BY <1>i, <1>3, <1>4 DEF Fresh, OneToken
<1>6. buf # <<>> => \E x \in Waiting(ready) : x \in Tokens /\ x.op = "read"
  BY <1>q DEF KeptInv, Tokens
<1>7. Fresh \/ reads > 0 \/ Busy => buf = <<>>
  BY <1>1, <1>2, <1>4, <1>6 DEF Fresh
<1>8. reads > 0 => ~Busy
  BY <1>q, <1>i DEF OneToken
<1> QED
  BY <1>1, <1>2, <1>5, <1>7, <1>8

\* Only disconnect() and the end of connecting change whether the socket is
\* connected, and only disconnect() makes the connection quiet.
LEMMA LinkedNext ==
    ASSUME [Next]_vars, ~close, ~ConnectEnds
    PROVE  /\ Linked' = Linked /\ (quiet' => quiet)
           /\ sock' = "open" => sock = "open"
           /\ sock' # "closed" => sock # "closed" \/ \E tcp \in BOOLEAN : connect(tcp)
<1> USE DEF socket, history, Linked
<1>1. CASE \E tcp \in BOOLEAN : connect(tcp)
  <2>1. \/ sock' = "connecting" /\ Unusable
        \/ sock' = sock /\ ~Unusable
    BY <1>1 DEF connect
  <2>2. quiet' => quiet
    BY <1>1, Zenon DEF connect
  <2> QED
    BY <1>1, <2>1, <2>2 DEF Unusable
<1>2. CASE connectIgnored \/ command \/ Callbacks \/ UNCHANGED vars
  BY <1>2 DEF connectIgnored, command, Callbacks, ConnectHandlerReturns,
              ReplyHandlerReturns, ErrorHandlerLeaves, vars
<1>3. CASE Service
  <2>1. quiet' => quiet
    <3>1. CASE MisreadPiece
      BY <3>1, Zenon DEF MisreadPiece
    <3>2. CASE ~MisreadPiece
      BY <1>3, <3>2 DEF Service, doAsyncCommand, handleAsyncConnect, WriteGoesOn,
                        asyncWrite, asyncRead, ParsePiece, EndOfChunk
    <3> QED
      BY <3>1, <3>2
  <2>2. sock' = sock
    BY <1>3 DEF Service, doAsyncCommand, handleAsyncConnect, WriteGoesOn, asyncWrite,
                asyncRead, ParsePiece, MisreadPiece, EndOfChunk
  <2> QED
    BY <2>1, <2>2
<1>4. CASE Kernel
  BY <1>4, ReceiveLeaves DEF Kernel, Break, Transmit, WriteEnds, ReadFails
<1> QED
  BY <1>1, <1>2, <1>3, <1>4 DEF Next, Application

\* A socket is fresh only where it was before, unless it was closed or connected
\* by the step.
LEMMA FreshBefore ==
    ASSUME TypeInv, [Next]_vars, ~close, ~ConnectEnds, Fresh', ~Fresh PROVE FALSE
<1>1. Linked' = Linked
  BY LinkedNext
<1>2. ASSUME NEW x \in Waiting(ready'), x.op = "connect", x.res = "ok"
      PROVE  x \in Waiting(ready)
  <2>1. CASE x \notin Waiting(ready)
    BY <1>2, <2>1, QueueNext, DoneType
  <2> QED
    BY <2>1
<1>3. Awaited' => Awaited
  BY <1>2 DEF Awaited
<1> QED
  BY <1>1, <1>3 DEF Fresh

LEMMA FreshNext ==
    ASSUME TypeInv, ReaderInv, KeptInv, FreshInv, [Next]_vars
    PROVE  FreshInv'
<1> SUFFICES ASSUME quiet', Fresh' PROVE NothingHeld'
  BY DEF FreshInv
<1>q. ready \in Seq(Completion) /\ inFlight \in Seq(Cmd) /\ dataWritten \in Seq(Cmd)
  BY DEF TypeInv, TypeOK, StreamTypes, CommandTypes
<1> USE DEF client, service, socket, history
<1>1. CASE close
  BY <1>1 DEF close, ClearHandlers, NothingUnderWay, NothingHeld, IsConnected
<1>2. CASE ConnectEnds
  <2>1. UNCHANGED <<quiet, strandQ, handlers, dataQueued, dataWritten, inFlight, cut, state>>
        /\ sock = "connecting"
    BY <1>2 DEF ConnectEnds
  <2>2. NothingHeld
    BY <2>1 DEF FreshInv, Fresh, Linked
  <2> QED
    BY <2>1, <2>2 DEF NothingHeld, IsConnected
<1> SUFFICES ASSUME ~close, ~ConnectEnds PROVE NothingHeld'
  BY <1>1, <1>2
<1>3. quiet /\ Fresh /\ NothingHeld
  BY LinkedNext, FreshBefore DEF FreshInv
<1>f. reads = 0 /\ ~Busy
  BY <1>3, TokenFacts
<1>u. ASSUME UNCHANGED <<handlers, strandQ, dataQueued, dataWritten, inFlight, cut>>,
             state' # "Connected"
      PROVE  NothingHeld'
  BY <1>3, <1>u DEF NothingHeld, IsConnected
<1>s. state # "Connected"
  BY <1>3 DEF NothingHeld, IsConnected
<1>4. CASE handleAsyncConnect
  <2>1. /\ CompletionOf("connect") /\ ready # <<>> /\ ready' = Tail(ready)
        /\ UNCHANGED <<handlers, strandQ, dataQueued, dataWritten, inFlight, cut, sock>>
    BY <1>4 DEF handleAsyncConnect, CompletionOf
  <2>2. CASE Head(ready).res = "ok"
    <3>1. /\ Head(ready) \in Waiting(ready) /\ Head(ready) \in Completion
          /\ Waiting(ready') \subseteq Waiting(ready)
      BY <1>q, <2>1, WaitingTail, WaitingType
    <3>2. Head(ready) \in Tokens
      BY <2>1, <2>2, <3>1 DEF Tokens, CompletionOf
    <3>3. Linked'
      BY <1>3, <2>1, <3>1, <3>2, TokenFacts DEF Linked
    <3>4. PICK x \in Waiting(ready') : x.op = "connect" /\ x.res = "ok"
      BY <3>3 DEF Fresh, Awaited
    <3>5. At(Tokens, Tail(ready)) = {}
      <4>1. OneToken(reads, ready, Busy, Linked)
        BY <1>3 DEF ReaderInv
      <4>2. Busy \in BOOLEAN /\ Linked \in BOOLEAN
        BY DEF Busy, Linked
      <4> QED
        BY <1>q, <2>1, <3>2, <4>1, <4>2, TokenTaken
    <3>6. x \notin Tokens
      BY <1>q, <2>1, <3>4, <3>5, WaitingType, WaitingTail
    <3>7. x \in Tokens
      BY <1>q, <3>1, <3>4, WaitingType DEF Tokens
    <3> QED
      BY <3>6, <3>7
  <2>3. CASE Head(ready).res # "ok"
    <3>1. state' = "Unconnected"
      BY <1>4, <2>3 DEF handleAsyncConnect, NotConnected
    <3> QED
      BY <1>u, <2>1, <3>1
  <2> QED
    BY <2>2, <2>3
<1>5. CASE asyncWrite
  <2>1. /\ dataWritten' \in {dataQueued, <<>>} /\ dataQueued' \in {dataQueued, <<>>}
        /\ UNCHANGED <<handlers, strandQ, inFlight, cut, state>>
    BY <1>5 DEF asyncWrite, WriteAll
  <2> QED
    BY <1>3, <2>1 DEF NothingHeld, IsConnected
<1>6. CASE Transmit
  <2>1. sent < Len(dataWritten) /\ sent \in 0..Len(dataWritten)
    BY <1>6 DEF Transmit, TypeInv, TypeOK, CommandTypes
  <2>2. Len(dataWritten) = 0
    BY <1>3, EmptySeq DEF NothingHeld
  <2> QED
    BY <2>1, <2>2
<1>7. CASE ReceiveSome(0..Len(inFlight))
  BY <1>7, <1>f, ReceiveLeaves
<1>8. CASE command \/ doAsyncCommand
  BY <1>3, <1>8 DEF command, doAsyncCommand, NothingHeld
<1>9. CASE (\E tcp \in BOOLEAN : connect(tcp)) \/ connectIgnored \/ UNCHANGED vars
  BY <1>u, <1>s, <1>9 DEF connect, connectIgnored, vars
<1>10. CASE WriteGoesOn \/ asyncRead \/ ParsePiece \/ MisreadPiece \/ EndOfChunk
  BY <1>u, <1>s, <1>10 DEF WriteGoesOn, asyncRead, ParsePiece, MisreadPiece, EndOfChunk
<1>11. CASE Callbacks
  BY <1>f, <1>u, <1>s, <1>11 DEF Callbacks, ConnectHandlerReturns, ReplyHandlerReturns,
                                 ErrorHandlerLeaves, Busy
<1>12. CASE Break \/ WriteEnds \/ ReadFails
  BY <1>u, <1>s, <1>12 DEF Break, WriteEnds, ReadFails
<1> QED
  BY <1>4, <1>5, <1>6, <1>7, <1>8, <1>9, <1>10, <1>11, <1>12
     DEF Next, Application, Service, Kernel

(***************************************************************************)
(* A write on an open socket ends well and complete                        *)
(***************************************************************************)
EndsWell(x) == x.res = "some" \/ (x.res = "ok" /\ sent = Len(dataWritten))

WritesInv ==
    quiet /\ sock = "open" =>
        \A x \in Waiting(ready) : x.op = "write" => EndsWell(x)

LEMMA WaitingWrites ==
    ASSUME NEW q \in Seq(Completion)
    PROVE  Writes(q) = {} <=> \A x \in Waiting(q) : x.op # "write"
BY DEF Writes, Waiting

LEMMA WritesNext ==
    ASSUME TypeInv, ReaderInv, KeptInv, SingleWriter, FreshInv, WritesInv, [Next]_vars
    PROVE  WritesInv'
<1> SUFFICES ASSUME quiet', sock' = "open", NEW x \in Waiting(ready'), x.op = "write"
             PROVE  EndsWell(x)'
  BY DEF WritesInv, EndsWell
<1>q. ready \in Seq(Completion) /\ dataWritten \in Seq(Cmd)
  BY DEF TypeInv, TypeOK, StreamTypes, CommandTypes
<1>w. OneWrite(dataWritten, writing, ready)
  BY DEF SingleWriter, OneWrite, WriteEnded, Writes, Unique
<1>n. dataWritten = <<>> \/ writing => \A y \in Waiting(ready) : y.op # "write"
  BY <1>q, <1>w, WaitingWrites DEF OneWrite
<1> USE DEF client, service, socket, history
<1>1. ~close
  BY DEF close
<1>2. CASE x \notin Waiting(ready)
  <2>1. x = Done("write", "some") \/ (x = Done("write", "ok") /\ WriteEnds /\ sent = Len(dataWritten))
    BY <1>2, QueueNext, DoneType
  <2>2. WriteEnds => UNCHANGED <<sent, dataWritten>>
    BY DEF WriteEnds
  <2> QED
    BY <2>1, <2>2, DoneType DEF EndsWell
<1>3. CASE x \in Waiting(ready)
  <2>1. ~ConnectEnds
    <3>1. SUFFICES ASSUME ConnectEnds PROVE FALSE
      OBVIOUS
    <3>2. quiet /\ Fresh
      BY <3>1 DEF ConnectEnds, Fresh, Linked
    <3> QED
      BY <1>3, <1>n, <3>2 DEF FreshInv, NothingHeld
  <2>2. EndsWell(x) /\ dataWritten # <<>> /\ ~writing
    BY <1>1, <1>3, <1>n, <2>1, LinkedNext DEF WritesInv
  <2>3. ~Transmit
    BY <2>2 DEF Transmit
  <2>4. ~asyncWrite
    <3>1. SUFFICES ASSUME asyncWrite PROVE FALSE
      OBVIOUS
    <3>2. ready # <<>> /\ Head(ready).op = "write" /\ UNCHANGED sock
          /\ (Unusable \/ ready' = Tail(ready))
      BY <3>1 DEF asyncWrite, WriteAll, CompletionOf
    <3>3. ready' = Tail(ready)
      BY <3>2 DEF Unusable
    <3>4. Writes(Tail(ready)) = {} /\ Tail(ready) \in Seq(Completion)
      BY <1>q, <1>w, <3>2, TailWrite, WaitingTail DEF OneWrite
    <3> QED
      BY <3>3, <3>4, WaitingWrites
  <2>5. UNCHANGED <<sent, dataWritten>>
    <3>1. CASE Application \/ Callbacks \/ UNCHANGED vars
      BY <1>1, <3>1 DEF Application, connect, connectIgnored, command, Callbacks,
             ConnectHandlerReturns, ReplyHandlerReturns, ErrorHandlerLeaves, vars
    <3>2. CASE doAsyncCommand
      BY <2>2, <3>2 DEF doAsyncCommand, NoWriteInProgress
    <3>3. CASE handleAsyncConnect \/ WriteGoesOn \/ asyncRead \/ ParsePiece \/ MisreadPiece
               \/ EndOfChunk
      BY <3>3 DEF handleAsyncConnect, WriteGoesOn, asyncRead, ParsePiece, MisreadPiece,
                  EndOfChunk
    <3>4. CASE Break \/ WriteEnds \/ ReadFails
      BY <3>4 DEF Break, WriteEnds, ReadFails
    <3>5. CASE ReceiveSome(0..Len(inFlight))
      BY <3>5, ReceiveLeaves
    <3> QED
      BY <2>1, <2>3, <2>4, <3>1, <3>2, <3>3, <3>4, <3>5 DEF Next, Service, Kernel
  <2> QED
    BY <2>2, <2>5 DEF EndsWell
<1> QED
  BY <1>2, <1>3

(***************************************************************************)
(* The completion of a read refers to all of the buffer                    *)
(***************************************************************************)
ReadsInv ==
    quiet => \A x \in Waiting(ready) : x.op = "read" /\ x.res = "ok" => x.size = Len(buf)

LEMMA ReadsNext ==
    ASSUME TypeInv, ReaderInv, KeptInv, ReadsInv, [Next]_vars
    PROVE  ReadsInv'
<1> SUFFICES ASSUME quiet', NEW x \in Waiting(ready'), x.op = "read", x.res = "ok"
             PROVE  x.size = Len(buf')
  BY DEF ReadsInv
<1>q. ready \in Seq(Completion) /\ buf \in Seq(Piece) /\ Waiting(ready) \subseteq Completion
  BY WaitingType DEF TypeInv, TypeOK, StreamTypes
<1>t. x \in Waiting(ready) => x \in Tokens
  BY <1>q DEF Tokens
<1> USE DEF client, service, socket, history
<1>1. ~close
  <2>1. SUFFICES ASSUME close PROVE FALSE
    OBVIOUS
  <2>2. \A y \in Waiting(ready) : y.res # "ok"
    BY <2>1 DEF close, NothingUnderWay, Waiting
  <2> QED
    BY <2>1, <2>2, CloseQueues
<1>2. quiet
  <2>1. CASE ConnectEnds
    BY <2>1 DEF ConnectEnds
  <2> QED
    BY <1>1, <2>1, LinkedNext
<1>3. CASE ReceiveSome(0..Len(inFlight))
  <2>1. PICK n \in 0..Len(inFlight), part \in BOOLEAN :
          /\ n + (IF part THEN 1 ELSE 0) <= Len(inFlight)
          /\ buf' = Chunk(n, part) \o SubSeq(buf, Len(Chunk(n, part)) + 1, Len(buf))
          /\ ready' = Append(ready, [op |-> "read", res |-> "ok", size |-> Len(Chunk(n, part))])
    BY <1>3, Received
  <2>2. Chunk(n, part) \in Seq(Piece)
    BY <2>1, ChunkType
  <2>3. reads > 0 /\ buf = <<>>
    BY <1>2, <1>3, ReceiveLeaves, TokenFacts
  <2>4. buf' = Chunk(n, part)
    BY <2>1, <2>2, <2>3
  <2>5. x \notin Waiting(ready)
    BY <1>2, <1>t, <2>3, TokenFacts
  <2>6. [op |-> "read", res |-> "ok", size |-> Len(Chunk(n, part))] \in Completion
    BY <2>2, LenProperties DEF Completion
  <2>7. x = [op |-> "read", res |-> "ok", size |-> Len(Chunk(n, part))]
    BY <1>q, <2>1, <2>5, <2>6, WaitingAppend
  <2> QED
    BY <2>4, <2>7
<1>4. CASE ~ReceiveSome(0..Len(inFlight))
  <2>1. x \in Waiting(ready)
    BY <1>4, QueueNext, DoneType
  <2>2. x.size = Len(buf)
    BY <1>2, <2>1 DEF ReadsInv
  <2>3. CASE asyncRead
    <3>1. ready # <<>> /\ Head(ready).op = "read" /\ ready' = Tail(ready)
      BY <2>3 DEF asyncRead, CompletionOf
    <3>2. Head(ready).res # "ok"
      <4>1. SUFFICES ASSUME Head(ready).res = "ok" PROVE FALSE
        OBVIOUS
      <4>2. Head(ready) \in Tokens
        BY <1>q, <3>1, <4>1, WaitingTail DEF Tokens
      <4>3. OneToken(reads, ready, Busy, Linked) /\ Busy \in BOOLEAN /\ Linked \in BOOLEAN
        BY <1>2 DEF ReaderInv, Busy, Linked
      <4>4. At(Tokens, Tail(ready)) = {}
        BY <1>q, <3>1, <4>2, <4>3, TokenTaken
      <4> QED
        BY <1>q, <1>t, <2>1, <3>1, <4>4, WaitingType, WaitingTail
    <3> QED
      BY <2>2, <2>3, <3>2 DEF asyncRead
  <2>4. CASE ~asyncRead
    <3>1. CASE Application \/ Callbacks \/ UNCHANGED vars
      BY <1>1, <2>2, <3>1 DEF Application, connect, connectIgnored, command, Callbacks,
             ConnectHandlerReturns, ReplyHandlerReturns, ErrorHandlerLeaves, vars
    <3>2. CASE Service
      BY <2>2, <2>4, <3>2 DEF Service, doAsyncCommand, handleAsyncConnect, WriteGoesOn,
             asyncWrite, ParsePiece, MisreadPiece, EndOfChunk
    <3>3. CASE Kernel
      BY <1>4, <2>2, <3>3 DEF Kernel, ConnectEnds, Break, Transmit, WriteEnds, ReadFails
    <3> QED
      BY <3>1, <3>2, <3>3 DEF Next
  <2> QED
    BY <2>3, <2>4
<1> QED
  BY <1>3, <1>4

(***************************************************************************)
(* The parser is where the stream is                                       *)
(*                                                                         *)
(* p takes a parser that holds a part of the reply to a to one that holds  *)
(* a part of the reply to b, where 0 is no reply.                          *)
(***************************************************************************)
Flows(p, a, b) ==
    /\ p = <<>> => b = a
    /\ OnlyLastCut(p)
    /\ \A i \in 2..Len(p) : p[i].first
    /\ p # <<>> => /\ a = IF p[1].first THEN None ELSE p[1].of
                   /\ b = IF p[Len(p)].last THEN None ELSE p[Len(p)].of

\* The reply that the next byte from the server goes on with.
Expected == IF cut THEN Head(inFlight) ELSE None

\* What was read and not parsed is in buf or, while it is parsed, in rest, and
\* leads the parser to where the server is.
StreamInv ==
    quiet /\ sock # "closed" =>
        /\ cut => inFlight # <<>>
        /\ \/ buf = <<>> /\ Flows(rest, parser, Expected)
           \/ rest = <<>> /\ Flows(buf, parser, Expected)

\* A reply handler is called only where there is one.
FrameInv ==
    quiet => /\ frame \notin {"unexpected", "undefined"}
             /\ frame = "reply" => handlers # <<>>

LEMMA FlowsNothing == ASSUME NEW a PROVE \A b : Flows(<<>>, a, b) <=> a = b
BY EmptySeq DEF Flows, OnlyLastCut

LEMMA FlowsTail ==
    ASSUME NEW p \in Seq(Piece), p # <<>>, NEW a, NEW b, Flows(p, a, b)
    PROVE  /\ Tail(p) \in Seq(Piece) /\ Head(p) \in Piece
           /\ a = IF Head(p).first THEN None ELSE Head(p).of
           /\ Head(p).last => Flows(Tail(p), None, b)
           /\ ~Head(p).last => Flows(Tail(p), Head(p).of, b)
<1>1. /\ Len(p) \in Nat \ {0} /\ Head(p) = p[1] /\ Len(Tail(p)) = Len(p) - 1
      /\ \A i \in 1..Len(Tail(p)) : Tail(p)[i] = p[i + 1]
      /\ Tail(p) \in Seq(Piece) /\ Head(p) \in Piece
  BY HeadTailProperties, EmptySeq
<1>0. Tail(p) = <<>> <=> Len(p) = 1
  BY <1>1, EmptyIffLen0
<1>2. a = IF Head(p).first THEN None ELSE Head(p).of
  BY <1>1 DEF Flows
<1>3. OnlyLastCut(Tail(p)) /\ \A i \in 1..Len(Tail(p)) : Tail(p)[i].first
  BY <1>1 DEF Flows, OnlyLastCut
<1>4. b = IF p[Len(p)].last THEN None ELSE p[Len(p)].of
  BY DEF Flows
<1>5. CASE Len(p) = 1
  <2>1. Tail(p) = <<>>
    BY <1>0, <1>5
  <2>2. b = IF Head(p).last THEN None ELSE Head(p).of
    BY <1>1, <1>4, <1>5
  <2>3. Flows(Tail(p), b, b)
    BY <2>1, FlowsNothing
  <2> QED
    BY <1>1, <1>2, <2>2, <2>3
<1>6. CASE Len(p) # 1
  <2>1. Tail(p) # <<>> /\ 1 \in 1..Len(Tail(p)) /\ Tail(p)[Len(Tail(p))] = p[Len(p)]
    BY <1>0, <1>1, <1>6
  <2>2. Head(p).last
    BY <1>1, <1>6 DEF Flows, OnlyLastCut
  <2>3. Flows(Tail(p), None, b)
    BY <1>1, <1>3, <1>4, <2>1 DEF Flows
  <2> QED
    BY <1>1, <1>2, <2>2, <2>3
<1> QED
  BY <1>5, <1>6

\* What a read brings goes on where the server was.
LEMMA ChunkFlows ==
    ASSUME TypeInv, NEW n \in 0..Len(inFlight), NEW part \in BOOLEAN,
           n + (IF part THEN 1 ELSE 0) <= Len(inFlight), Chunk(n, part) # <<>>,
           part => ~(n = 0 /\ cut)
    PROVE  Flows(Chunk(n, part), Expected, IF part THEN inFlight[n + 1] ELSE None)
<1> DEFINE c == Chunk(n, part)
<1>1. /\ c \in Seq(Piece) /\ Len(c) = n + (IF part THEN 1 ELSE 0)
      /\ \A i \in 1..Len(c) : /\ c[i].of = inFlight[i]
                              /\ c[i].first <=> ~(i = 1 /\ i <= n /\ cut)
                              /\ c[i].last <=> i <= n
      /\ c # <<>>
  BY ChunkType
<1> HIDE DEF c
<1>2. Len(c) \in Nat \ {0} /\ n \in Nat /\ inFlight \in Seq(Cmd)
  BY <1>1, EmptyIffLen0 DEF TypeInv, TypeOK, CommandTypes
<1>3. inFlight # <<>> /\ Head(inFlight) = inFlight[1]
  BY <1>1, <1>2, EmptyIffLen0
<1>4. OnlyLastCut(c) /\ \A i \in 2..Len(c) : c[i].first
  BY <1>1, <1>2 DEF OnlyLastCut
<1>5. Expected = IF c[1].first THEN None ELSE c[1].of
  <2>1. CASE cut
    <3>1. n >= 1
      BY <1>1, <1>2, <2>1
    <3>2. ~c[1].first /\ c[1].of = inFlight[1]
      BY <1>1, <1>2, <2>1, <3>1
    <3> QED
      BY <1>3, <2>1, <3>2 DEF Expected
  <2>2. CASE ~cut
    <3>1. c[1].first
      BY <1>1, <1>2, <2>2
    <3> QED
      BY <2>2, <3>1 DEF Expected
  <2> QED
    BY <2>1, <2>2
<1>6. (IF part THEN inFlight[n + 1] ELSE None) = IF c[Len(c)].last THEN None ELSE c[Len(c)].of
  BY <1>1, <1>2
<1>7. Flows(c, Expected, IF part THEN inFlight[n + 1] ELSE None)
  BY <1>1, <1>4, <1>5, <1>6 DEF Flows
<1> QED
  BY <1>7 DEF c

\* While a handler runs what was not parsed is in rest.
LEMMA ParsingFacts ==
    ASSUME TypeInv, ReaderInv, KeptInv, StreamInv, quiet, Busy
    PROVE  /\ Linked /\ buf = <<>> /\ (cut => inFlight # <<>>)
           /\ Flows(rest, parser, Expected)
<1>1. OneToken(reads, ready, Busy, Linked)
  BY DEF ReaderInv
<1>2. Linked /\ buf = <<>>
  BY <1>1, TokenFacts DEF OneToken
<1>3. sock # "closed"
  BY <1>2 DEF Linked
<1>4. CASE Flows(rest, parser, Expected)
  BY <1>2, <1>3, <1>4 DEF StreamInv
<1>5. CASE rest = <<>> /\ Flows(buf, parser, Expected)
  BY <1>2, <1>3, <1>5 DEF StreamInv
<1> QED
  BY <1>3, <1>4, <1>5 DEF StreamInv

\* The parser misreads nothing but the replies it does not understand.
LEMMA MisreadsUnparsable ==
    ASSUME TypeInv, ReaderInv, KeptInv, StreamInv, MisreadPiece
    PROVE  ~quiet'
<1> SUFFICES ASSUME quiet' PROVE FALSE
  OBVIOUS
<1>1. quiet /\ Head(rest).of \notin Unparsable
  BY Zenon DEF MisreadPiece
<1>2. Busy /\ rest # <<>> /\ ~Understood(Head(rest))
  BY DEF MisreadPiece, Busy
<1>3. Flows(rest, parser, Expected) /\ rest \in Seq(Piece)
  BY <1>1, <1>2, ParsingFacts DEF TypeInv, TypeOK, StreamTypes
<1>4. parser = IF Head(rest).first THEN None ELSE Head(rest).of
  BY <1>2, <1>3, FlowsTail
<1> QED
  BY <1>1, <1>2, <1>4 DEF Understood

\* A read finds buf and rest empty, and fills buf.
LEMMA ReceivedAlone ==
    ASSUME TypeInv, ReaderInv, KeptInv, quiet, ReceiveSome(0..Len(inFlight))
    PROVE  /\ buf = <<>> /\ rest = <<>> /\ rest' = <<>>
           /\ \E n \in 0..Len(inFlight), part \in BOOLEAN :
                /\ n + (IF part THEN 1 ELSE 0) <= Len(inFlight)
                /\ Chunk(n, part) # <<>> /\ (part => ~(n = 0 /\ cut))
                /\ buf' = Chunk(n, part)
                /\ inFlight' = SubSeq(inFlight, n + 1, Len(inFlight)) /\ cut' = part
<1>1. PICK n \in 0..Len(inFlight), part \in BOOLEAN :
        /\ n + (IF part THEN 1 ELSE 0) <= Len(inFlight)
        /\ Chunk(n, part) # <<>> /\ (part => ~(n = 0 /\ cut))
        /\ buf' = Chunk(n, part) \o SubSeq(buf, Len(Chunk(n, part)) + 1, Len(buf))
        /\ inFlight' = SubSeq(inFlight, n + 1, Len(inFlight)) /\ cut' = part
  BY Received
<1>2. UNCHANGED rest /\ frame = "idle" /\ reads > 0
  BY ReceiveLeaves
<1>3. buf = <<>> /\ rest = <<>>
  BY <1>2, TokenFacts DEF KeptInv
<1>4. Chunk(n, part) \in Seq(Piece)
  BY <1>1, ChunkType
<1>5. buf' = Chunk(n, part)
  BY <1>1, <1>3, <1>4
<1> QED
  BY <1>1, <1>2, <1>3, <1>5

\* asyncRead parses all that is in buf, and no other read refers to it.
LEMMA ReadHandsOver ==
    ASSUME TypeInv, ReaderInv, KeptInv, ReadsInv, quiet, asyncRead, Head(ready).res = "ok"
    PROVE  rest = <<>> /\ rest' = buf /\ buf' = <<>>
<1>q. ready \in Seq(Completion) /\ buf \in Seq(Piece)
  BY DEF TypeInv, TypeOK, StreamTypes
<1>1. ready # <<>> /\ Head(ready).op = "read" /\ ready' = Tail(ready) /\ frame = "idle"
  BY DEF asyncRead, CompletionOf
<1>2. Head(ready) \in Waiting(ready) /\ Head(ready) \in Completion
  BY <1>q, <1>1, WaitingTail, WaitingType
<1>3. Head(ready).size = Len(buf)
  BY <1>1, <1>2 DEF ReadsInv
<1>4. rest' = buf
  <2>1. rest' = SubSeq(buf, 1, Len(buf))
    BY <1>3 DEF asyncRead
  <2> QED
    BY <1>q, <2>1
<1>5. Head(ready) \in Tokens
  BY <1>1, <1>2 DEF Tokens
<1>6. OneToken(reads, ready, Busy, Linked) /\ Busy \in BOOLEAN /\ Linked \in BOOLEAN
  BY DEF ReaderInv, Busy, Linked
<1>7. At(Tokens, Tail(ready)) = {}
  BY <1>q, <1>1, <1>5, <1>6, TokenTaken
<1>8. \A x \in Waiting(Tail(ready)) : x \notin Tokens
  BY <1>q, <1>1, <1>7, WaitingType, WaitingTail
<1>9. \A x \in Waiting(Tail(ready)) : ~(x.size > 0)
  BY <1>q, <1>1, <1>8, WaitingTail, WaitingType DEF KeptInv, Tokens
<1>10. ~(\E i \in 2..Len(ready) : ready[i].size > 0)
  BY <1>q, <1>1, <1>9, WaitingTail
<1>11. buf' = <<>>
  BY <1>10 DEF asyncRead
<1> QED
  BY <1>1, <1>4, <1>11 DEF KeptInv

LEMMA StreamNext ==
    ASSUME TypeInv, ReaderInv, KeptInv, FreshInv, ReadsInv, FrameInv, StreamInv, [Next]_vars
    PROVE  StreamInv'
<1> DEFINE Now == /\ cut => inFlight # <<>>
                  /\ \/ buf = <<>> /\ Flows(rest, parser, Expected)
                     \/ rest = <<>> /\ Flows(buf, parser, Expected)
<1> SUFFICES ASSUME quiet', sock' # "closed" PROVE Now'
  BY DEF StreamInv
<1>q. /\ ready \in Seq(Completion) /\ buf \in Seq(Piece) /\ rest \in Seq(Piece)
      /\ inFlight \in Seq(Cmd)
  BY DEF TypeInv, TypeOK, StreamTypes, CommandTypes
<1>k. ASSUME Now, UNCHANGED <<buf, rest, parser, cut>>,
             cut => inFlight' # <<>> /\ Head(inFlight') = Head(inFlight)
      PROVE  Now'
  <2>1. Expected' = Expected
    BY <1>k DEF Expected
  <2> QED
    BY <1>k, <2>1 DEF Flows, OnlyLastCut
<1>u. ASSUME Now, UNCHANGED <<buf, rest, parser, cut, inFlight>> PROVE Now'
  BY <1>k, <1>u
<1>d. ASSUME quiet, sock # "closed" PROVE Now
  BY <1>d DEF StreamInv
<1> HIDE DEF Now
<1> USE DEF client, service, socket, history
<1>0. ~close
  BY DEF close
<1>1. CASE ConnectEnds
  <2>1. /\ UNCHANGED <<quiet, buf, rest, parser, cut, inFlight>> /\ sock = "connecting"
    BY <1>1 DEF ConnectEnds
  <2> QED
    BY <1>d, <1>u, <2>1
<1>2. CASE \E tcp \in BOOLEAN : connect(tcp)
  <2>1. PICK tcp \in BOOLEAN : connect(tcp)
    BY <1>2
  <2>2. /\ UNCHANGED <<buf, rest, cut, inFlight, frame>> /\ AppMayCall
        /\ parser' = ParserAfterConnect(tcp)
    BY <2>1 DEF connect
  <2>3. quiet /\ (parser = None \/ (tcp /\ state = "Closed"))
    BY <2>1, Zenon DEF connect
  <2>4. CASE Unusable
    <3>1. quiet /\ Fresh
      BY <2>3, <2>4 DEF Unusable, Fresh, Linked
    <3>2. ~cut /\ ~Busy /\ buf = <<>>
      BY <3>1, TokenFacts DEF FreshInv, NothingHeld
    <3>3. rest = <<>>
      BY <2>2, <3>2 DEF Busy, AppMayCall, KeptInv
    <3>4. parser' = None /\ Expected' = None
      BY <2>2, <2>3, <3>2 DEF ParserAfterConnect, Expected
    <3>5. buf' = <<>> /\ rest' = <<>> /\ ~cut'
      BY <2>2, <3>2, <3>3
    <3>6. Flows(rest', parser', Expected')
      BY <3>4, <3>5, FlowsNothing
    <3> QED
      BY <3>5, <3>6 DEF Now, Flows, OnlyLastCut
  <2>5. CASE ~Unusable
    <3>1. state # "Closed" /\ sock # "closed"
      BY <2>5 DEF Unusable, KeptInv
    <3>2. parser' = parser
      BY <2>2, <3>1 DEF ParserAfterConnect
    <3> QED
      BY <1>d, <1>u, <2>2, <2>3, <3>1, <3>2
  <2> QED
    BY <2>4, <2>5
<1> SUFFICES ASSUME ~ConnectEnds, ~(\E tcp \in BOOLEAN : connect(tcp)) PROVE Now'
  BY <1>1, <1>2
<1>3. quiet /\ sock # "closed" /\ Now
  BY <1>0, <1>d, LinkedNext
<1>4. CASE Transmit
  <2>1. /\ UNCHANGED <<buf, rest, parser, cut>>
        /\ \/ UNCHANGED inFlight
           \/ inFlight' = Append(inFlight, dataWritten[sent + 1])
    BY <1>4 DEF Transmit
  <2>2. CASE UNCHANGED inFlight
    BY <1>3, <1>u, <2>1, <2>2
  <2>3. CASE inFlight' = Append(inFlight, dataWritten[sent + 1])
    <3>1. dataWritten[sent + 1] \in Cmd
      BY <1>4 DEF Transmit, TypeInv, TypeOK, CommandTypes
    <3>2. inFlight # <<>> => inFlight' # <<>> /\ Head(inFlight') = Head(inFlight)
      BY <1>q, <2>3, <3>1, AppendProperties, HeadIsFirst
    <3>3. cut => inFlight # <<>>
      BY <1>3 DEF Now
    <3> QED
      BY <1>3, <1>k, <2>1, <3>2, <3>3
  <2> QED
    BY <2>1, <2>2, <2>3
<1>5. CASE ReceiveSome(0..Len(inFlight))
  <2>1. buf = <<>> /\ rest = <<>> /\ rest' = <<>>
    BY <1>3, <1>5, ReceivedAlone
  <2>2. PICK n \in 0..Len(inFlight), part \in BOOLEAN :
          /\ n + (IF part THEN 1 ELSE 0) <= Len(inFlight)
          /\ Chunk(n, part) # <<>> /\ (part => ~(n = 0 /\ cut))
          /\ buf' = Chunk(n, part)
          /\ inFlight' = SubSeq(inFlight, n + 1, Len(inFlight)) /\ cut' = part
    BY <1>3, <1>5, ReceivedAlone
  <2>3. UNCHANGED parser
    BY <1>5, ReceiveLeaves
  <2>6. parser = Expected
    BY <1>3, <2>1, FlowsNothing DEF Now
  <2>7. part => inFlight' # <<>> /\ Head(inFlight') = inFlight[n + 1]
    <3> SUFFICES ASSUME part PROVE inFlight' # <<>> /\ Head(inFlight') = inFlight[n + 1]
      OBVIOUS
    <3> DEFINE m == n + 1
               l == Len(inFlight)
    <3>1. /\ m \in Nat \ {0} /\ l \in Nat /\ m <= l /\ l <= Len(inFlight)
          /\ inFlight \in Seq(Cmd)
      BY <1>q, <2>2, LenProperties
    <3>2. inFlight' = SubSeq(inFlight, m, l)
      BY <2>2
    <3> HIDE DEF m, l
    <3>3. SubSeq(inFlight, m, l) # <<>> /\ Head(SubSeq(inFlight, m, l)) = inFlight[m]
      BY <3>1, SubSeqTail
    <3> QED
      BY <3>2, <3>3 DEF m
  <2>8. Expected' = (IF part THEN inFlight[n + 1] ELSE None) /\ (cut' => inFlight' # <<>>)
    BY <2>2, <2>7 DEF Expected
  <2>9. Flows(Chunk(n, part), Expected, IF part THEN inFlight[n + 1] ELSE None)
    BY <2>2, ChunkFlows
  <2>10. Flows(buf', parser', Expected')
    BY <2>2, <2>3, <2>6, <2>8, <2>9
  <2> QED
    BY <2>1, <2>8, <2>10 DEF Now, Flows, OnlyLastCut
<1>6. CASE asyncRead
  <2>1. /\ ready # <<>> /\ Head(ready).op = "read" /\ ready' = Tail(ready) /\ frame = "idle"
        /\ UNCHANGED <<parser, cut, inFlight>>
    BY <1>6 DEF asyncRead, CompletionOf
  <2>2. CASE Head(ready).res = "ok"
    <3>5. rest = <<>> /\ rest' = buf /\ buf' = <<>>
      BY <1>3, <1>6, <2>2, ReadHandsOver
    <3>6. Flows(buf, parser, Expected)
      BY <1>3, <3>5 DEF Now
    <3>7. Expected' = Expected
      BY <2>1 DEF Expected
    <3>8. Flows(rest', parser', Expected')
      BY <2>1, <3>5, <3>6, <3>7
    <3> QED
      BY <1>3, <2>1, <3>5, <3>8 DEF Now, Flows, OnlyLastCut
  <2>3. CASE Head(ready).res # "ok"
    BY <1>3, <1>6, <1>u, <2>1, <2>3 DEF asyncRead
  <2> QED
    BY <2>2, <2>3
<1>7. CASE ParsePiece
  <2>1. /\ Busy /\ rest # <<>> /\ rest' = Tail(rest) /\ UNCHANGED <<buf, cut, inFlight>>
        /\ parser' = IF Head(rest).last THEN None ELSE Head(rest).of
    BY <1>7 DEF ParsePiece, Uncompleted, Busy
  <2>2. buf = <<>> /\ Flows(rest, parser, Expected) /\ (cut => inFlight # <<>>)
    BY <1>3, <2>1, ParsingFacts
  <2>3. Flows(rest', parser', Expected)
    BY <1>q, <2>1, <2>2, FlowsTail
  <2>4. Expected' = Expected
    BY <2>1 DEF Expected
  <2> QED
    BY <2>1, <2>2, <2>3, <2>4 DEF Now, Flows, OnlyLastCut
<1>8. CASE MisreadPiece
  BY <1>8, MisreadsUnparsable
<1>9. CASE Callbacks
  <2>1. CASE ErrorHandlerLeaves
    BY <1>3, <2>1 DEF ErrorHandlerLeaves, FrameInv
  <2>2. CASE ConnectHandlerReturns \/ ReplyHandlerReturns
    BY <1>3, <1>u, <2>2 DEF ConnectHandlerReturns, ReplyHandlerReturns
  <2> QED
    BY <1>9, <2>1, <2>2 DEF Callbacks
<1>10. CASE connectIgnored \/ command \/ UNCHANGED vars
  BY <1>3, <1>u, <1>10 DEF connectIgnored, command, vars
<1>11. CASE doAsyncCommand \/ handleAsyncConnect \/ WriteGoesOn \/ asyncWrite \/ EndOfChunk
  BY <1>3, <1>u, <1>11 DEF doAsyncCommand, handleAsyncConnect, WriteGoesOn, asyncWrite,
                           EndOfChunk
<1>12. CASE Break \/ WriteEnds \/ ReadFails
  BY <1>3, <1>u, <1>12 DEF Break, WriteEnds, ReadFails
<1> QED
  BY <1>0, <1>4, <1>5, <1>6, <1>7, <1>8, <1>9, <1>10, <1>11, <1>12
     DEF Next, Application, Service, Kernel

(***************************************************************************)
(* The belt                                                                *)
(***************************************************************************)
Owed == IF frame = "reply" THEN Tail(handlers) ELSE handlers
Due  == Completes(rest) \o Completes(buf) \o inFlight

\* Belt, but for what StreamInv says of the pieces.
MatchInv ==
    quiet => IF sock = "open" THEN Owed = Due \o Unsent \o dataQueued
                              ELSE IsPrefixOf(Due, Owed)

LEMMA BeltTypes ==
    ASSUME TypeInv, FrameInv, quiet
    PROVE  /\ Owed \in Seq(Cmd) /\ Due \in Seq(Cmd) /\ Unsent \in Seq(Cmd)
           /\ dataQueued \in Seq(Cmd) /\ dataWritten \in Seq(Cmd) /\ inFlight \in Seq(Cmd)
           /\ handlers \in Seq(Cmd) /\ strandQ \in Seq(Cmd) /\ sent \in 0..Len(dataWritten)
           /\ Completes(rest) \in Seq(Cmd) /\ Completes(buf) \in Seq(Cmd)
           /\ rest \in Seq(PiecesOf(Cmd)) /\ buf \in Seq(PiecesOf(Cmd))
<1>1. rest \in Seq(PiecesOf(Cmd)) /\ buf \in Seq(PiecesOf(Cmd))
  BY DEF TypeInv, TypeOK, StreamTypes, Piece, PiecesOf
<1>2. Completes(rest) \in Seq(Cmd) /\ Completes(buf) \in Seq(Cmd)
  BY <1>1, CompletesType
<1>3. /\ dataQueued \in Seq(Cmd) /\ dataWritten \in Seq(Cmd) /\ inFlight \in Seq(Cmd)
      /\ handlers \in Seq(Cmd) /\ strandQ \in Seq(Cmd) /\ sent \in 0..Len(dataWritten)
  BY DEF TypeInv, TypeOK, CommandTypes
<1>4. Due \in Seq(Cmd)
  BY <1>2, <1>3, ConcatProperties DEF Due
<1>5. Owed \in Seq(Cmd)
  BY <1>3, HeadTailProperties DEF Owed, FrameInv
<1>6. Unsent \in Seq(Cmd)
  BY <1>3, SubSeqSplit DEF Unsent
<1> QED
  BY <1>1, <1>2, <1>3, <1>4, <1>5, <1>6

LEMMA DueIsOwed ==
    ASSUME TypeInv, FrameInv, MatchInv, quiet
    PROVE  IsPrefixOf(Due, Owed)
<1>1. CASE sock = "open"
  <2>1. Unsent \o dataQueued \in Seq(Cmd)
    BY BeltTypes, ConcatProperties
  <2>0. Due \in Seq(Cmd) /\ Unsent \in Seq(Cmd) /\ dataQueued \in Seq(Cmd)
    BY BeltTypes
  <2>2. Due \o Unsent \o dataQueued = Due \o (Unsent \o dataQueued)
    BY <2>0, ConcatAssociative
  <2>3. Owed = Due \o (Unsent \o dataQueued)
    BY <1>1, <2>2 DEF MatchInv
  <2> QED
    BY <2>1, <2>3, BeltTypes, PrefixOfConcat
<1>2. CASE sock # "open"
  BY <1>2 DEF MatchInv
<1> QED
  BY <1>1, <1>2

\* The reply whose end is parsed is the reply to the command whose handler is
\* the oldest.
LEMMA OldestReply ==
    ASSUME TypeInv, ReaderInv, KeptInv, StreamInv, FrameInv, MatchInv, quiet,
           frame = "read", rest # <<>>, Head(rest).last
    PROVE  /\ handlers # <<>> /\ Head(handlers) = Head(rest).of
           /\ Due # <<>> /\ Tail(Due) = Completes(Tail(rest)) \o Completes(buf) \o inFlight
           /\ Owed = handlers
<1>1. Busy
  BY DEF Busy
<1>2. OnlyLastCut(rest)
  BY <1>1, ParsingFacts DEF Flows
<1>3. /\ Completes(rest) # <<>> /\ Head(Completes(rest)) = Head(rest).of
      /\ Completes(Tail(rest)) = Tail(Completes(rest))
  BY <1>2, BeltTypes, CompletesWhole
<1>4. /\ Completes(rest) \o Completes(buf) # <<>>
      /\ Head(Completes(rest) \o Completes(buf)) = Head(rest).of
      /\ Tail(Completes(rest) \o Completes(buf)) = Completes(Tail(rest)) \o Completes(buf)
      /\ Completes(rest) \o Completes(buf) \in Seq(Cmd)
  <2> DEFINE p == Completes(rest)
             q == Completes(buf)
  <2>1. p \in Seq(Cmd) /\ q \in Seq(Cmd) /\ p # <<>>
    BY <1>3, BeltTypes
  <2> HIDE DEF p, q
  <2>2. p \o q # <<>> /\ Head(p \o q) = Head(p) /\ Tail(p \o q) = Tail(p) \o q
    BY <2>1, ConcatTail
  <2>3. p \o q \in Seq(Cmd)
    BY <2>1, ConcatProperties
  <2> QED
    BY <1>3, <2>2, <2>3 DEF p, q
<1>5. /\ Due # <<>> /\ Head(Due) = Head(rest).of
      /\ Tail(Due) = Completes(Tail(rest)) \o Completes(buf) \o inFlight
  <2> DEFINE a == Completes(rest) \o Completes(buf)
  <2>1. Due = a \o inFlight /\ inFlight \in Seq(Cmd)
    BY BeltTypes DEF Due
  <2>2. a # <<>> /\ a \in Seq(Cmd) /\ Head(a) = Head(rest).of
        /\ Tail(a) = Completes(Tail(rest)) \o Completes(buf)
    BY <1>4
  <2> HIDE DEF a
  <2>3. a \o inFlight # <<>> /\ Head(a \o inFlight) = Head(a)
        /\ Tail(a \o inFlight) = Tail(a) \o inFlight
    BY <2>1, <2>2, ConcatTail
  <2> QED
    BY <2>1, <2>2, <2>3
<1>6. Owed = handlers
  BY DEF Owed
<1>7. handlers # <<>> /\ Head(handlers) = Head(Due)
  BY <1>5, <1>6, DueIsOwed, BeltTypes, PrefixTail
<1> QED
  BY <1>5, <1>6, <1>7

LEMMA FrameNext ==
    ASSUME TypeInv, ReaderInv, KeptInv, StreamInv, FrameInv, MatchInv, [Next]_vars
    PROVE  FrameInv'
<1> SUFFICES ASSUME quiet' PROVE frame' \notin {"unexpected", "undefined"}
                                 /\ (frame' = "reply" => handlers' # <<>>)
  BY DEF FrameInv
<1> USE DEF client, service, socket, history
<1>1. CASE close
  BY <1>1 DEF close, NothingUnderWay
<1>2. CASE ConnectEnds
  BY <1>2 DEF ConnectEnds, FrameInv
<1> SUFFICES ASSUME ~close, ~ConnectEnds
             PROVE  frame' \notin {"unexpected", "undefined"}
                    /\ (frame' = "reply" => handlers' # <<>>)
  BY <1>1, <1>2
<1>3. quiet
  BY LinkedNext
<1>f. frame \notin {"unexpected", "undefined"} /\ (frame = "reply" => handlers # <<>>)
  BY <1>3 DEF FrameInv
<1>4. CASE ParsePiece
  <2>1. /\ frame = "read" /\ rest # <<>> /\ UNCHANGED handlers
        /\ IF Head(rest).last THEN doProcessMessage(Head(rest).of) ELSE UNCHANGED frame
    BY <1>4 DEF ParsePiece, Uncompleted
  <2>2. Head(rest).last => handlers # <<>>
    BY <1>3, <2>1, OldestReply
  <2> QED
    BY <2>1, <2>2 DEF doProcessMessage
<1>5. CASE MisreadPiece
  BY <1>5, MisreadsUnparsable
<1>6. CASE Callbacks
  BY <1>f, <1>6 DEF Callbacks, ConnectHandlerReturns, ReplyHandlerReturns, ErrorHandlerLeaves
<1>7. CASE Application \/ UNCHANGED vars
  BY <1>f, <1>7 DEF Application, connect, connectIgnored, command, vars
<1>8. CASE doAsyncCommand \/ handleAsyncConnect \/ WriteGoesOn \/ asyncWrite \/ asyncRead
           \/ EndOfChunk
  BY <1>f, <1>8 DEF doAsyncCommand, handleAsyncConnect, CompletionOf, NotConnected,
                    WriteGoesOn, asyncWrite, asyncRead, EndOfChunk
<1>9. CASE Kernel
  BY <1>f, <1>9, ReceiveLeaves DEF Kernel, Break, Transmit, WriteEnds, ReadFails
<1> QED
  BY <1>4, <1>5, <1>6, <1>7, <1>8, <1>9 DEF Next, Service

LEMMA MatchNext ==
    ASSUME TypeInv, ReaderInv, KeptInv, SingleWriter, FreshInv, WritesInv, ReadsInv,
           StreamInv, FrameInv, MatchInv, [Next]_vars
    PROVE  MatchInv'
<1> SUFFICES ASSUME quiet'
             PROVE  IF sock' = "open" THEN Owed' = Due' \o Unsent' \o dataQueued'
                                      ELSE IsPrefixOf(Due', Owed')
  BY DEF MatchInv
<1> DEFINE Right == IF sock = "open" THEN Owed = Due \o Unsent \o dataQueued
                                     ELSE IsPrefixOf(Due, Owed)
<1> SUFFICES Right'
  OBVIOUS
<1>e. /\ \A s \in Seq(Cmd) : s \o <<>> = s /\ <<>> \o s = s
      /\ <<>> \in Seq(Cmd) /\ Completes(<<>>) = <<>> /\ IsPrefixOf(<<>>, <<>>)
  <2>1. <<>> \in Seq(Cmd)
    BY EmptySeq
  <2>2. IsPrefixOf(<<>>, <<>>)
    BY <2>1, PrefixSame
  <2>3. \A s \in Seq(Cmd) : s \o <<>> = s /\ <<>> \o s = s
    BY ConcatEmptySeq
  <2> QED
    BY <2>1, <2>2, <2>3, CompletesNothing
<1>0. ASSUME Owed' = <<>>, Due' = <<>>, Unsent' = <<>>, dataQueued' = <<>> PROVE Right'
  BY <1>e, <1>0
<1> USE DEF client, service, socket, history
<1>1. CASE close
  <2>1. /\ frame = "idle" /\ UNCHANGED <<frame, rest, buf, dataQueued, dataWritten>>
        /\ handlers' = <<>> /\ inFlight' = <<>> /\ sock' # "open"
        /\ \A x \in Waiting(ready) : x.res # "ok"
    BY <1>1 DEF close, NothingUnderWay, ClearHandlers, Waiting
  <2>2. rest = <<>> /\ buf = <<>>
    BY <2>1 DEF KeptInv
  <2>3. Due' = <<>> /\ Owed' = <<>>
    BY <1>e, <2>1, <2>2 DEF Due, Owed
  <2> QED
    BY <1>e, <2>1, <2>3
<1>2. CASE ConnectEnds
  <2>1. /\ quiet /\ Fresh /\ frame = "idle"
        /\ UNCHANGED <<frame, rest, buf, dataQueued, dataWritten, sent, handlers, inFlight>>
    BY <1>2 DEF ConnectEnds, Complete, Fresh, Linked
  <2>2. rest = <<>> /\ buf = <<>> /\ NothingHeld
    BY <2>1, TokenFacts DEF KeptInv, FreshInv
  <2>3. Due' = <<>> /\ Owed' = <<>> /\ dataQueued' = <<>>
    BY <1>e, <2>1, <2>2 DEF Due, Owed, NothingHeld
  <2>4. Unsent' = <<>>
    BY <2>1, <2>2 DEF Unsent, NothingHeld, TypeInv, TypeOK, CommandTypes
  <2> QED
    BY <1>0, <2>3, <2>4
<1> SUFFICES ASSUME ~close, ~ConnectEnds PROVE Right'
  BY <1>1, <1>2
<1>3. quiet /\ (sock' = "open" => sock = "open") /\ IsPrefixOf(Due, Owed)
  BY LinkedNext, DueIsOwed
<1>r. sock = "open" => Owed = Due \o Unsent \o dataQueued
  BY <1>3 DEF MatchInv
<1>q. /\ Owed \in Seq(Cmd) /\ Due \in Seq(Cmd) /\ Unsent \in Seq(Cmd)
      /\ dataQueued \in Seq(Cmd) /\ dataWritten \in Seq(Cmd) /\ inFlight \in Seq(Cmd)
      /\ handlers \in Seq(Cmd) /\ strandQ \in Seq(Cmd) /\ sent \in 0..Len(dataWritten)
      /\ Completes(rest) \in Seq(Cmd) /\ Completes(buf) \in Seq(Cmd)
      /\ rest \in Seq(PiecesOf(Cmd)) /\ buf \in Seq(PiecesOf(Cmd))
  BY <1>3, BeltTypes
<1>u. ASSUME UNCHANGED <<Owed, Due>>, sock' = "open" => UNCHANGED <<Unsent, dataQueued>>
      PROVE  Right'
  BY <1>3, <1>r, <1>u
<1>k. ASSUME UNCHANGED <<handlers, rest, buf, inFlight, dataWritten, sent, dataQueued>>,
             frame # "reply", frame' # "reply"
      PROVE  Right'
  <2>1. UNCHANGED <<Owed, Due, Unsent>>
    BY <1>k DEF Owed, Due, Unsent, Completes, Ended
  <2> QED
    BY <1>k, <1>u, <2>1
<1>4. CASE doAsyncCommand
  <2> DEFINE c == Head(strandQ)
             d == Append(dataQueued, c)
  <2>1. /\ frame = "idle" /\ strandQ # <<>> /\ handlers' = Append(handlers, c)
        /\ UNCHANGED <<frame, rest, buf, inFlight, sock>>
        /\ IF dataWritten = <<>>
           THEN dataWritten' = d /\ dataQueued' = <<>> /\ sent' = 0
           ELSE dataQueued' = d /\ UNCHANGED <<dataWritten, sent>>
    BY <1>4 DEF doAsyncCommand, NoWriteInProgress, WriteAll, QueuedWith
  <2>2. c \in Cmd
    BY <1>q, <2>1, HeadIsFirst
  <2> HIDE DEF c
  <2>3. Due' = Due /\ Owed' = Append(Owed, c)
    BY <2>1 DEF Due, Owed, Completes, Ended
  <2>4. CASE sock = "open"
    <3>1. Append((Due \o Unsent) \o dataQueued, c) = (Due \o Unsent) \o d
      <4> DEFINE a == Due \o Unsent
      <4>1. a \in Seq(Cmd) /\ dataQueued \in Seq(Cmd)
        <5>1. Due \in Seq(Cmd) /\ Unsent \in Seq(Cmd)
          BY <1>q
        <5> QED
          BY <1>q, <5>1, ConcatProperties
      <4> HIDE DEF a
      <4>2. a \o Append(dataQueued, c) = Append(a \o dataQueued, c)
        BY <2>2, <4>1, ConcatAppend
      <4> QED
        BY <4>2 DEF a
    <3>2. Owed' = Due \o Unsent \o d
      BY <1>r, <2>3, <2>4, <3>1
    <3>3. CASE dataWritten = <<>>
      <4>1. Unsent = <<>> /\ Unsent' = d /\ d \in Seq(Cmd)
        BY <1>q, <2>1, <2>2, <3>3, EmptySeq DEF Unsent
      <4>2. Due \o Unsent = Due /\ (Due \o d) \o <<>> = Due \o d
        BY <1>e, <1>q, <4>1, ConcatProperties
      <4> QED
        BY <2>1, <2>3, <2>4, <3>2, <3>3, <4>1, <4>2
    <3>4. CASE dataWritten # <<>>
      <4>1. Unsent' = Unsent /\ dataQueued' = d
        BY <2>1, <3>4 DEF Unsent
      <4> QED
        BY <2>1, <2>3, <2>4, <3>2, <4>1
    <3> QED
      BY <3>3, <3>4
  <2>5. CASE sock # "open"
    BY <1>3, <1>q, <2>1, <2>2, <2>3, <2>5, PrefixAppend
  <2> QED
    BY <2>4, <2>5
<1>5. CASE asyncWrite
  <2>1. /\ UNCHANGED <<frame, rest, buf, inFlight, sock, handlers>>
        /\ ready # <<>> /\ Head(ready).op = "write" /\ Head(ready).res # "some"
    BY <1>5 DEF asyncWrite, CompletionOf
  <2>2. UNCHANGED <<Owed, Due>>
    BY <2>1 DEF Owed, Due, Completes, Ended
  <2>3. CASE sock = "open"
    <3>1. Head(ready).res = "ok" /\ sent = Len(dataWritten)
      <4>1. Head(ready) \in Waiting(ready)
        BY <2>1, WaitingTail DEF TypeInv, TypeOK, StreamTypes
      <4> QED
        BY <1>3, <2>1, <2>3, <4>1 DEF WritesInv, EndsWell
    <3>2. dataWritten' = dataQueued /\ dataQueued' = <<>> /\ sent' = 0
      BY <1>5, <3>1 DEF asyncWrite, WriteAll
    <3>3. Unsent = <<>> /\ Unsent' = dataQueued
      BY <1>q, <3>1, <3>2 DEF Unsent
    <3>4. Due \o Unsent = Due /\ (Due \o dataQueued) \o <<>> = Due \o dataQueued
      BY <1>e, <1>q, <3>3, ConcatProperties
    <3> QED
      BY <1>r, <2>1, <2>2, <2>3, <3>2, <3>3, <3>4
  <2>4. CASE sock # "open"
    BY <1>u, <2>1, <2>2, <2>4
  <2> QED
    BY <2>3, <2>4
<1>6. CASE Transmit
  <2> DEFINE c == dataWritten[sent + 1]
  <2>1. /\ sent < Len(dataWritten) /\ sent' = sent + 1
        /\ UNCHANGED <<frame, handlers, rest, buf, dataQueued, dataWritten, sock>>
        /\ inFlight' = IF sock = "open" THEN Append(inFlight, c) ELSE inFlight
    BY <1>6 DEF Transmit
  <2>2. Owed' = Owed
    BY <2>1 DEF Owed
  <2>3. CASE sock = "open"
    <3>1. /\ sent + 1 \in Nat \ {0} /\ Len(dataWritten) \in Nat
          /\ sent + 1 <= Len(dataWritten) /\ sent + 1 + 1 = sent' + 1
          /\ c \in Cmd
      BY <1>q, <2>1, ElementOfSeq, LenProperties
    <3>2. /\ Unsent # <<>> /\ Head(Unsent) = c
          /\ Tail(Unsent) = SubSeq(dataWritten, sent + 1 + 1, Len(dataWritten))
      <4> DEFINE m == sent + 1
                 l == Len(dataWritten)
      <4>1. /\ m \in Nat \ {0} /\ l \in Nat /\ m <= l /\ l <= Len(dataWritten)
            /\ dataWritten \in Seq(Cmd)
        BY <1>q, <3>1
      <4>2. Unsent = SubSeq(dataWritten, m, l) /\ c = dataWritten[m]
        BY DEF Unsent
      <4> HIDE DEF m, l, c
      <4>3. /\ SubSeq(dataWritten, m, l) # <<>> /\ Head(SubSeq(dataWritten, m, l)) = dataWritten[m]
            /\ Tail(SubSeq(dataWritten, m, l)) = SubSeq(dataWritten, m + 1, l)
        BY <4>1, SubSeqTail
      <4> QED
        BY <4>2, <4>3 DEF m, l
    <3>3. Unsent' = Tail(Unsent)
      BY <2>1, <3>1, <3>2 DEF Unsent
    <3> HIDE DEF c
    <3>4. Due' = Append(Due, c)
      <4>1. Completes(rest) \o Completes(buf) \in Seq(Cmd)
        BY <1>q, ConcatProperties
      <4>2. (Completes(rest) \o Completes(buf)) \o Append(inFlight, c) = Append(Due, c)
        <5> DEFINE a == Completes(rest) \o Completes(buf)
        <5>1. a \in Seq(Cmd) /\ inFlight \in Seq(Cmd) /\ c \in Cmd
          BY <1>q, <3>1, <4>1
        <5> HIDE DEF a
        <5>2. a \o Append(inFlight, c) = Append(a \o inFlight, c)
          BY <5>1, ConcatAppend
        <5> QED
          BY <5>2 DEF a, Due
      <4> QED
        BY <2>1, <2>3, <4>2 DEF Due, Completes, Ended
    <3>5. Append(Due, c) \o Unsent' = Due \o Unsent
      BY <1>q, <3>2, <3>3, MoveOver
    <3> QED
      BY <1>r, <2>1, <2>2, <2>3, <3>4, <3>5
  <2>4. CASE sock # "open"
    <3>1. Due' = Due
      BY <2>1, <2>4 DEF Due, Completes, Ended
    <3> QED
      BY <1>u, <2>1, <2>2, <2>4, <3>1
  <2> QED
    BY <2>3, <2>4
<1>7. CASE ReceiveSome(0..Len(inFlight))
  <2>1. UNCHANGED <<frame, handlers, dataQueued, dataWritten, sent>>
    BY <1>7, ReceiveLeaves
  <2>2. buf = <<>> /\ rest = <<>> /\ rest' = <<>>
    BY <1>3, <1>7, ReceivedAlone
  <2>3. PICK n \in 0..Len(inFlight), part \in BOOLEAN :
          /\ n + (IF part THEN 1 ELSE 0) <= Len(inFlight)
          /\ buf' = Chunk(n, part)
          /\ inFlight' = SubSeq(inFlight, n + 1, Len(inFlight))
    BY <1>3, <1>7, ReceivedAlone
  <2>4. Completes(Chunk(n, part)) \o SubSeq(inFlight, n + 1, Len(inFlight)) = inFlight
    <3>1. /\ Chunk(n, part) \in Seq(PiecesOf(Cmd))
          /\ Len(Chunk(n, part)) = n + (IF part THEN 1 ELSE 0)
          /\ \A i \in 1..Len(Chunk(n, part)) :
               Chunk(n, part)[i].of = inFlight[i] /\ (Chunk(n, part)[i].last <=> i <= n)
      BY <2>3, ChunkType DEF Piece, PiecesOf
    <3>2. part => n < Len(inFlight)
      BY <1>q, <2>3, LenProperties
    <3> DEFINE c == Chunk(n, part)
    <3>3. /\ inFlight \in Seq(Cmd) /\ n \in 0..Len(inFlight) /\ part \in BOOLEAN
          /\ part => n < Len(inFlight)
          /\ c \in Seq(PiecesOf(Cmd)) /\ Len(c) = n + (IF part THEN 1 ELSE 0)
          /\ \A i \in 1..Len(c) : c[i].of = inFlight[i] /\ (c[i].last <=> i <= n)
      BY <1>q, <2>3, <3>1, <3>2
    <3> HIDE DEF c
    <3>4. Completes(c) \o SubSeq(inFlight, n + 1, Len(inFlight)) = inFlight
      BY <3>3, ChunkCompletes
    <3> QED
      BY <3>4 DEF c
  <2>5. Due = inFlight
    BY <1>e, <1>q, <2>2 DEF Due
  <2>6. Completes(Chunk(n, part)) \in Seq(Cmd)
    BY <2>3, ChunkType, CompletesType DEF Piece, PiecesOf
  <2>7. Due' = Completes(Chunk(n, part)) \o SubSeq(inFlight, n + 1, Len(inFlight))
    BY <1>e, <2>2, <2>3, <2>6 DEF Due
  <2> QED
    BY <1>u, <2>1, <2>4, <2>5, <2>7 DEF Owed, Unsent
<1>8. CASE asyncRead
  <2>1. /\ frame = "idle" /\ frame' # "reply"
        /\ UNCHANGED <<handlers, inFlight, dataWritten, sent, dataQueued>>
    BY <1>8 DEF asyncRead, CompletionOf
  <2>2. CASE Head(ready).res = "ok"
    <3>1. rest = <<>> /\ rest' = buf /\ buf' = <<>>
      BY <1>3, <1>8, <2>2, ReadHandsOver
    <3>2. Due' = Due
      <4>1. Due = Completes(buf) \o inFlight
        BY <1>e, <1>q, <3>1 DEF Due
      <4>2. Due' = Completes(buf) \o Completes(<<>>) \o inFlight
        BY <2>1, <3>1 DEF Due
      <4> QED
        BY <1>e, <1>q, <4>1, <4>2
    <3>3. UNCHANGED <<Owed, Unsent, dataQueued>>
      BY <2>1 DEF Owed, Unsent
    <3> QED
      BY <1>u, <3>2, <3>3
  <2>3. CASE Head(ready).res # "ok"
    <3>1. UNCHANGED <<rest, buf>>
      BY <1>8, <2>3 DEF asyncRead
    <3> QED
      BY <1>k, <2>1, <3>1
  <2> QED
    BY <2>2, <2>3
<1>9. CASE ParsePiece
  <2>1. /\ frame = "read" /\ rest # <<>> /\ rest' = Tail(rest)
        /\ UNCHANGED <<handlers, buf, inFlight, dataWritten, sent, dataQueued, sock>>
        /\ IF Head(rest).last THEN doProcessMessage(Head(rest).of) ELSE UNCHANGED frame
    BY <1>9 DEF ParsePiece, Uncompleted
  <2>2. CASE Head(rest).last
    <3>1. /\ handlers # <<>> /\ Due # <<>> /\ Owed = handlers
          /\ Tail(Due) = Completes(Tail(rest)) \o Completes(buf) \o inFlight
      BY <1>3, <2>1, <2>2, OldestReply
    <3>2. Due' = Tail(Due)
      BY <2>1, <3>1 DEF Due, Completes, Ended
    <3>3. Owed' = Tail(Owed)
      BY <2>1, <2>2, <3>1 DEF doProcessMessage, Owed
    <3>4. CASE sock = "open"
      <4>1. Due \o Unsent \in Seq(Cmd) /\ Due \o Unsent # <<>>
            /\ Tail(Due \o Unsent) = Tail(Due) \o Unsent
        BY <1>q, <3>1, ConcatTail, ConcatProperties
      <4>2. Tail((Due \o Unsent) \o dataQueued) = Tail(Due \o Unsent) \o dataQueued
        BY <1>q, <4>1, ConcatTail
      <4>3. Owed' = Tail(Due) \o Unsent \o dataQueued
        BY <1>r, <3>3, <3>4, <4>1, <4>2
      <4>4. UNCHANGED <<Unsent, dataQueued, sock>>
        BY <2>1 DEF Unsent
      <4> QED
        BY <3>2, <3>4, <4>3, <4>4
    <3>5. CASE sock # "open"
      <4>1. IsPrefixOf(Tail(Due), Tail(Owed))
        BY <1>3, <1>q, <3>1, PrefixTail
      <4> QED
        BY <2>1, <3>2, <3>3, <3>5, <4>1
    <3> QED
      BY <3>4, <3>5
  <2>3. CASE ~Head(rest).last
    <3>1. OnlyLastCut(rest)
      BY <1>3, <2>1, ParsingFacts DEF Flows, Busy
    <3>2. Completes(rest) = <<>> /\ Tail(rest) = <<>>
      BY <1>q, <2>1, <2>3, <3>1, CompletesCut
    <3>3. UNCHANGED <<Due, Owed, Unsent, dataQueued>>
      BY <1>e, <2>1, <2>3, <3>2 DEF Due, Owed, Unsent
    <3> QED
      BY <1>u, <3>3
  <2> QED
    BY <2>2, <2>3
<1>10. CASE MisreadPiece
  BY <1>10, MisreadsUnparsable
<1>11. CASE ReplyHandlerReturns
  <2>1. /\ frame = "reply" /\ handlers # <<>> /\ frame' = "read" /\ handlers' = Tail(handlers)
        /\ UNCHANGED <<rest, buf, inFlight, dataWritten, sent, dataQueued>>
    BY <1>3, <1>11 DEF ReplyHandlerReturns, FrameInv
  <2>2. UNCHANGED <<Owed, Due, Unsent, dataQueued>>
    BY <2>1 DEF Owed, Due, Unsent, Completes, Ended
  <2> QED
    BY <1>u, <2>2
<1>12. CASE ErrorHandlerLeaves
  BY <1>3, <1>12 DEF ErrorHandlerLeaves, FrameInv
<1>13. CASE handleAsyncConnect \/ ConnectHandlerReturns \/ EndOfChunk \/ WriteGoesOn
  BY <1>k, <1>13 DEF handleAsyncConnect, NotConnected, CompletionOf, ConnectHandlerReturns,
                     EndOfChunk, WriteGoesOn
<1>14. CASE Application \/ Break \/ WriteEnds \/ ReadFails \/ UNCHANGED vars
  <2>1. UNCHANGED <<frame, handlers, rest, buf, inFlight, dataWritten, sent, dataQueued>>
    BY <1>14 DEF Application, connect, connectIgnored, command, Break, WriteEnds, ReadFails,
                 vars
  <2>2. UNCHANGED <<Owed, Due, Unsent, dataQueued>>
    BY <2>1 DEF Owed, Due, Unsent, Completes, Ended
  <2> QED
    BY <1>u, <2>2
<1> QED
  BY <1>4, <1>5, <1>6, <1>7, <1>8, <1>9, <1>10, <1>11, <1>12, <1>13, <1>14
     DEF Next, Callbacks, Service, Kernel

(***************************************************************************)
(* The parts together                                                      *)
(***************************************************************************)
BeltInv ==
    /\ ReaderInv /\ SingleWriter /\ KeptInv /\ FreshInv /\ WritesInv /\ ReadsInv
    /\ FrameInv /\ StreamInv /\ MatchInv

LEMMA BeltInit == Init => BeltInv
<1> SUFFICES ASSUME Init PROVE BeltInv
  OBVIOUS
<1>1. /\ handlers = <<>> /\ strandQ = <<>> /\ dataQueued = <<>> /\ dataWritten = <<>>
      /\ buf = <<>> /\ rest = <<>> /\ inFlight = <<>> /\ ready = <<>> /\ reads = 0
      /\ ~cut /\ ~writing /\ ~IsConnected /\ frame = "idle" /\ sock = "closed"
  BY DEF Init, IsConnected
<1>2. Waiting(ready) = {}
  BY <1>1 DEF Waiting
<1>3. ReaderInv
  BY <1>1 DEF ReaderInv, OneToken, At, Busy, Linked
<1>4. SingleWriter
  BY <1>1 DEF SingleWriter, WriteEnded
<1>5. KeptInv /\ FreshInv /\ WritesInv /\ ReadsInv /\ FrameInv /\ StreamInv
  BY KeptInit, <1>1, <1>2
     DEF FreshInv, NothingHeld, WritesInv, ReadsInv, FrameInv, StreamInv
<1>6. MatchInv
  <2>1. <<>> \in Seq(Cmd)
    BY EmptySeq
  <2>2. Due = <<>> /\ Owed = <<>>
    BY <1>1, <2>1, CompletesNothing, ConcatEmptySeq DEF Due, Owed
  <2>3. IsPrefixOf(<<>>, <<>>)
    BY <2>1, PrefixSame
  <2> QED
    BY <1>1, <2>2, <2>3 DEF MatchInv
<1> QED
  BY <1>3, <1>4, <1>5, <1>6 DEF BeltInv

LEMMA BeltNext == ASSUME TypeInv, BeltInv, [Next]_vars PROVE BeltInv'
BY ReaderNext, SingleWriterNext, KeptNext, FreshNext, WritesNext, ReadsNext, FrameNext,
   StreamNext, MatchNext DEF BeltInv

LEMMA BeltAlways == Spec => [](TypeInv /\ BeltInv)
<1>1. TypeInv /\ BeltInv /\ [Next]_vars => BeltInv'
  BY BeltNext
<1>2. TypeInv /\ [Next]_vars => TypeInv'
  BY TypeNext
<1> QED
  BY TypeInit, BeltInit, <1>1, <1>2, PTL DEF Spec

\* The handlers still to be called are those of the replies being parsed, in the
\* buffer and at the server and of the commands not yet sent, in this order,
\* however chunks, batches, failures and reconnects fall.
THEOREM BeltCorrect == Spec => []Belt
<1>1. ASSUME TypeInv, BeltInv PROVE Belt
  <2> SUFFICES ASSUME quiet, frame # "undefined"
               PROVE  /\ IF sock = "open" THEN Owed = Due \o Unsent \o dataQueued
                                          ELSE IsPrefixOf(Due, Owed)
                      /\ OnlyLastCut(rest) /\ OnlyLastCut(buf)
    BY DEF Belt, Owed, Due
  <2>1. OnlyLastCut(<<>>)
    BY CompletesNothing
  <2>2. CASE sock # "closed"
    <3>1. \/ buf = <<>> /\ Flows(rest, parser, Expected)
          \/ rest = <<>> /\ Flows(buf, parser, Expected)
      BY <1>1, <2>2 DEF BeltInv, StreamInv
    <3>2. OnlyLastCut(rest) /\ OnlyLastCut(buf)
      BY <2>1, <3>1 DEF Flows
    <3> QED
      BY <1>1, <3>2 DEF BeltInv, MatchInv
  <2>3. CASE sock = "closed"
    <3>1. Fresh
      BY <2>3 DEF Fresh, Linked
    <3>2. buf = <<>> /\ ~Busy
      BY <1>1, <3>1, TokenFacts DEF BeltInv
    <3>3. rest = <<>>
      BY <1>1, <3>2 DEF BeltInv, KeptInv, Busy
    <3> QED
      BY <1>1, <2>1, <3>2, <3>3 DEF BeltInv, MatchInv
  <2> QED
    BY <1>1, <2>2, <2>3 DEF BeltInv, MatchInv
<1> QED
  BY <1>1, BeltAlways, PTL

(***************************************************************************)
(* What is queued is being taken along                                     *)
(***************************************************************************)
LEMMA DrainsNext ==
    ASSUME TypeInv, BeltInv, QueueDrains, [Next]_vars
    PROVE  QueueDrains'
<1> SUFFICES ASSUME quiet', ~reported', dataQueued' # <<>> PROVE dataWritten' # <<>>
  BY DEF QueueDrains
<1> USE DEF client, service, socket, history
<1>1. ~close
  BY DEF close, NothingUnderWay
<1>2. ~handleAsyncConnect \/ Head(ready).res # "ok"
  <2> SUFFICES ASSUME handleAsyncConnect, Head(ready).res = "ok" PROVE FALSE
    OBVIOUS
  <2>1. ready # <<>> /\ Head(ready).op = "connect" /\ UNCHANGED <<quiet, dataQueued>>
    BY DEF handleAsyncConnect, CompletionOf
  <2>2. Head(ready) \in Waiting(ready)
    BY <2>1, WaitingTail DEF TypeInv, TypeOK, StreamTypes
  <2>3. Fresh
    BY <2>1, <2>2 DEF Fresh, Awaited
  <2> QED
    BY <2>1, <2>3 DEF BeltInv, FreshInv, NothingHeld
<1>3. CASE doAsyncCommand
  <2>1. dataWritten # <<>> /\ UNCHANGED dataWritten
    BY <1>3 DEF doAsyncCommand, NoWriteInProgress, WriteAll
  <2> QED
    BY <2>1
<1>4. ~asyncWrite
  BY DEF asyncWrite, WriteAll
<1>5. ASSUME UNCHANGED <<dataQueued, dataWritten>>, quiet' => quiet, reported => reported'
      PROVE  dataWritten' # <<>>
  BY <1>5 DEF QueueDrains
<1>6. CASE handleAsyncConnect
  BY <1>2, <1>5, <1>6 DEF handleAsyncConnect, NotConnected
<1>7. CASE \E tcp \in BOOLEAN : connect(tcp)
  <2>1. UNCHANGED <<dataQueued, dataWritten, reported>>
    BY <1>7 DEF connect
  <2>2. quiet' => quiet
    BY <1>7, Zenon DEF connect
  <2> QED
    BY <1>5, <2>1, <2>2
<1>8. CASE ParsePiece \/ MisreadPiece
  <2>1. UNCHANGED <<dataQueued, dataWritten>>
    BY <1>8 DEF ParsePiece, MisreadPiece
  <2>2. quiet' => quiet
    BY <1>8, Zenon DEF ParsePiece, MisreadPiece
  <2>3. reported => reported'
    BY <1>8 DEF ParsePiece, MisreadPiece, Uncompleted, doProcessMessage
  <2> QED
    BY <1>5, <2>1, <2>2, <2>3
<1>9. CASE asyncRead
  <2>1. UNCHANGED <<dataQueued, dataWritten, quiet>>
    BY <1>9 DEF asyncRead
  <2>2. reported => reported'
    BY <1>9 DEF asyncRead
  <2> QED
    BY <1>5, <2>1, <2>2
<1>10. CASE connectIgnored \/ command \/ Callbacks \/ WriteGoesOn \/ EndOfChunk
            \/ UNCHANGED vars
  <2>1. UNCHANGED <<dataQueued, dataWritten, quiet, reported>>
    BY <1>10 DEF connectIgnored, command, Callbacks, ConnectHandlerReturns,
                 ReplyHandlerReturns, ErrorHandlerLeaves, WriteGoesOn, EndOfChunk, vars
  <2> QED
    BY <1>5, <2>1
<1>11. CASE Kernel
  BY <1>5, <1>11, ReceiveLeaves
     DEF Kernel, ConnectEnds, Break, Transmit, WriteEnds, ReadFails
<1> QED
  BY <1>1, <1>3, <1>4, <1>6, <1>7, <1>8, <1>9, <1>10, <1>11 DEF Next, Application, Service

\* No command lies in dataQueued without a write in progress that takes it along
\* when it ends: asyncWrite and doAsyncCommand leave no gap between them.
THEOREM QueueDrainsCorrect == Spec => []QueueDrains
<1>1. Init => QueueDrains
  BY DEF Init, QueueDrains
<1>2. TypeInv /\ BeltInv /\ QueueDrains /\ [Next]_vars => QueueDrains'
  BY DrainsNext
<1> QED
  BY <1>1, <1>2, BeltAlways, PTL DEF Spec

(***************************************************************************)
(* Each handler is called with the reply to its own command                *)
(***************************************************************************)
LEMMA AnswersAlways == Spec => []AnswersInv
<1>1. TypeInv /\ AnswersInv /\ [Next]_vars => AnswersInv'
  BY AnswersNext
<1>2. Spec => []TypeInv
  BY TypeInit, TypeNext, PTL DEF Spec
<1> QED
  BY AnswersInit, <1>1, <1>2, PTL DEF Spec

\* The call of a handler, where the promises hold: it is the oldest one, and
\* the reply is the one to its command.
LEMMA RightAnswer ==
    ASSUME TypeInv, BeltInv, quiet, ParsePiece, Head(rest).last
    PROVE  /\ frame = "read" /\ frame' = "reply" /\ handlers # <<>> /\ UNCHANGED handlers
           /\ got' = [got EXCEPT ![Head(handlers)] = Head(handlers)]
<1>1. frame = "read" /\ rest # <<>> /\ doProcessMessage(Head(rest).of) /\ UNCHANGED handlers
  BY DEF ParsePiece
<1>2. handlers # <<>> /\ Head(handlers) = Head(rest).of
  BY <1>1, OldestReply DEF BeltInv
<1> QED
  BY <1>1, <1>2 DEF doProcessMessage

\* No handler is called with the reply to another's command, whatever chunks
\* replies come in and whatever was disconnected before, with nothing under way.
THEOREM PairedRepliesCorrect == Spec => PairedReplies
<1> DEFINE Own == quiet /\ quiet' =>
                    \A c \in Cmd : got'[c] # got[c] => got[c] = None /\ got'[c] = c
<1>1. ASSUME TypeInv, BeltInv, AnswersInv, [Next]_vars PROVE Own
  <2> SUFFICES ASSUME quiet, quiet', NEW c \in Cmd, got'[c] # got[c]
               PROVE  got[c] = None /\ got'[c] = c
    OBVIOUS
  <2>1. got[c] = None /\ (ParsePiece \/ MisreadPiece)
    BY <1>1, CalledOnceStep
  <2>2. ParsePiece
    BY <1>1, <2>1, MisreadsUnparsable DEF BeltInv
  <2>3. Head(rest).last
    BY <2>2 DEF ParsePiece, Uncompleted
  <2>4. got' = [got EXCEPT ![Head(handlers)] = Head(handlers)]
    BY <1>1, <2>2, <2>3, RightAnswer
  <2> QED
    BY <2>1, <2>4 DEF TypeInv, TypeOK, CommandTypes
<1>2. TypeInv /\ BeltInv /\ AnswersInv /\ [Next]_vars => [Own]_vars
  BY <1>1
<1> QED
  BY <1>2, BeltAlways, AnswersAlways, PTL DEF Spec, PairedReplies

(***************************************************************************)
(* The asynchronous client implements CommandChannel                       *)
(***************************************************************************)
ChannelInv == TypeInv /\ BeltInv /\ AnswersInv

LEMMA ChannelInit == Init => Channel!Init
<1> SUFFICES ASSUME Init PROVE Channel!Init
  OBVIOUS
<1>1. handlers = <<>> /\ strandQ = <<>> /\ frame = "idle"
  BY DEF Init
<1>2. Pending = <<>>
  BY <1>1, ConcatEmptySeq, EmptySeq DEF Pending
<1> QED
  BY <1>2 DEF Init, Channel!Init, Cmd, None

\* The commands pending, where the promises hold.
LEMMA PendingIs ==
    ASSUME TypeInv, FrameInv, quiet
    PROVE  Pending = Owed \o strandQ /\ Pending \in Seq(Cmd)
<1>1. Pending = Owed \o strandQ
  BY DEF Pending, Owed, FrameInv
<1>2. Owed \in Seq(Cmd) /\ strandQ \in Seq(Cmd)
  BY BeltTypes
<1> QED
  BY <1>1, <1>2, ConcatProperties

\* The only step into a state where the promises hold from one where they do
\* not is a quiet disconnect, after which nobody waits for a reply.
LEMMA NothingPromised ==
    ASSUME ChannelInv, [Next]_vars, ~(quiet /\ quiet')
    PROVE  Channel!Unwarranted
<1> USE DEF client, service, socket, history
<1>t. next \in Nat
  BY MaxCmdAssumption DEF ChannelInv, TypeInv, TypeOK, CommandTypes
<1>1. \A c \in 1..MaxCmd : got'[c] # got[c] => got[c] = 0 /\ c < next
  BY CalledOnceStep DEF ChannelInv, Cmd, None
<1>2. next' >= next /\ (~command => UNCHANGED next)
  <2>1. CASE Application \/ Callbacks \/ UNCHANGED vars
    BY <1>t, <2>1 DEF Application, connect, connectIgnored, close, command, vars, Callbacks,
                ConnectHandlerReturns, ReplyHandlerReturns, ErrorHandlerLeaves
  <2>2. CASE Service
    BY <1>t, <2>2 DEF Service, doAsyncCommand, handleAsyncConnect, WriteGoesOn, asyncWrite,
                      asyncRead, ParsePiece, MisreadPiece, EndOfChunk
  <2>3. CASE Kernel
    BY <1>t, <2>3, ReceiveLeaves
       DEF Kernel, ConnectEnds, Break, Transmit, WriteEnds, ReadFails
  <2> QED
    BY <2>1, <2>2, <2>3 DEF Next
<1>3. ASSUME quiet' PROVE Pending' = <<>> /\ UNCHANGED <<next, got>>
  <2>1. close
    <3> SUFFICES ASSUME ~close PROVE FALSE
      OBVIOUS
    <3>1. ~ConnectEnds
      BY <1>3 DEF ConnectEnds
    <3> QED
      BY <1>3, <3>1, LinkedNext
  <2>2. /\ handlers' = <<>> /\ strandQ' = <<>> /\ frame' = "idle" /\ UNCHANGED <<next, got>>
    BY <1>3, <2>1 DEF close, NothingUnderWay, ClearHandlers
  <2> QED
    BY <2>2, ConcatEmptySeq, EmptySeq DEF Pending
<1> QED
  BY <1>1, <1>2, <1>3 DEF Channel!Unwarranted

\* Where the promises hold, a command is issued by command() and answered by
\* the step of asyncRead's loop that completes its reply; a disconnect gives
\* up what is pending, and every other step goes on unseen.
LEMMA Promised ==
    ASSUME ChannelInv, [Next]_vars, quiet, quiet'
    PROVE  \/ next <= MaxCmd /\ Channel!Issue(1)
           \/ Pending # <<>> /\ Channel!Answer(1)
           \/ Channel!Abandon
           \/ UNCHANGED Channel!vars
<1> DEFINE Seen == \/ next <= MaxCmd /\ Channel!Issue(1)
                   \/ Pending # <<>> /\ Channel!Answer(1)
                   \/ Channel!Abandon
                   \/ UNCHANGED Channel!vars
<1> USE DEF client, service, socket, history
<1>t. /\ next \in Nat /\ got \in [Cmd -> 0..Garbage] /\ handlers \in Seq(Cmd)
      /\ strandQ \in Seq(Cmd) /\ quiet' = quiet
  <2>1. quiet \in BOOLEAN /\ quiet' \in BOOLEAN
    BY TypeNext DEF ChannelInv, TypeInv, TypeOK, FlagTypes
  <2>2. quiet' = quiet
    BY <2>1
  <2> QED
    BY <2>2, MaxCmdAssumption DEF ChannelInv, TypeInv, TypeOK, CommandTypes
<1>p. /\ Pending = Owed \o strandQ /\ Pending \in Seq(Cmd) /\ Owed \in Seq(Cmd)
      /\ frame = "reply" => handlers # <<>>
  BY PendingIs, BeltTypes DEF ChannelInv, BeltInv, FrameInv
<1>u. ASSUME UNCHANGED <<Pending, next, got>> PROVE Seen
  BY <1>t, <1>u DEF Channel!vars
<1>k. ASSUME UNCHANGED <<handlers, strandQ, next, got>>, frame = "reply" <=> frame' = "reply"
      PROVE  Seen
  <2>1. UNCHANGED Pending
    BY <1>k DEF Pending
  <2> QED
    BY <1>k, <1>u, <2>1
<1>1. CASE close
  <2>1. handlers' = <<>> /\ strandQ' = <<>> /\ frame' = "idle" /\ UNCHANGED <<next, got>>
    BY <1>1 DEF close, NothingUnderWay, ClearHandlers
  <2>2. Pending' = <<>>
    BY <2>1, ConcatEmptySeq, EmptySeq DEF Pending
  <2>3. Channel!Abandon
    BY <1>t, <2>1, <2>2 DEF Channel!Abandon
  <2> QED
    BY <2>3
<1>2. CASE command
  <2>1. /\ strandQ' = Append(strandQ, next) /\ next' = next + 1 /\ next <= MaxCmd
        /\ UNCHANGED <<handlers, frame, got>> /\ next \in Cmd
    BY <1>t, <1>2 DEF command, ChannelInv, TypeInv, TypeOK, CommandTypes, Cmd
  <2>2. Pending' = Owed \o strandQ'
    BY <1>p, <2>1 DEF Pending, Owed
  <2>3. Owed \o Append(strandQ, next) = Append(Owed \o strandQ, next)
    BY <1>t, <1>p, <2>1, ConcatAppend
  <2>4. [i \in 1..1 |-> next + i - 1] = <<next>>
    BY <1>t
  <2>5. Pending' = Pending \o [i \in 1..1 |-> next + i - 1]
    <3>1. Pending \o <<next>> = Append(Pending, next)
      BY <1>p, <2>1, AppendIsConcat
    <3> QED
      BY <1>p, <2>1, <2>2, <2>3, <2>4, <3>1
  <2>6. Channel!Issue(1)
    BY <1>t, <2>1, <2>5 DEF Channel!Issue
  <2> QED
    BY <2>1, <2>6
<1>3. CASE ParsePiece
  <2>1. /\ frame = "read" /\ UNCHANGED <<handlers, strandQ, next>>
        /\ ~Head(rest).last => UNCHANGED <<got, frame>>
    BY <1>3 DEF ParsePiece, Uncompleted
  <2>2. CASE Head(rest).last
    <3>1. /\ frame' = "reply" /\ handlers # <<>>
          /\ got' = [got EXCEPT ![Head(handlers)] = Head(handlers)]
      BY <1>3, <2>2, RightAnswer DEF ChannelInv
    <3>2. /\ Owed = handlers /\ Pending # <<>> /\ Head(Pending) = Head(handlers)
          /\ Tail(Pending) = Tail(handlers) \o strandQ
      BY <1>t, <1>p, <2>1, <3>1, ConcatTail DEF Owed
    <3>3. Pending' = Tail(Pending)
      BY <2>1, <3>1, <3>2 DEF Pending
    <3>4. Pending' = SubSeq(Pending, 1 + 1, Len(Pending)) /\ Head(handlers) = Pending[1]
      BY <1>p, <3>2, <3>3, HeadIsFirst, TailIsSubSeq
    <3>5. got' = [c \in 1..MaxCmd |-> IF \E i \in 1..1 : Pending[i] = c THEN c ELSE got[c]]
      <4>1. \A c : (\E i \in 1..1 : Pending[i] = c) <=> Head(handlers) = c
        <5>1. 1..1 = {1}
          OBVIOUS
        <5> QED
          BY <3>4, <5>1
      <4>2. got' = [c \in 1..MaxCmd |-> IF Head(handlers) = c THEN c ELSE got[c]]
        BY <1>t, <3>1 DEF Cmd
      <4> QED
        BY <4>1, <4>2, Zenon
    <3>6. Channel!Answer(1)
      BY <1>t, <2>1, <3>4, <3>5 DEF Channel!Answer
    <3> QED
      BY <3>2, <3>6
  <2>3. CASE ~Head(rest).last
    BY <1>k, <2>1, <2>3
  <2> QED
    BY <2>2, <2>3
<1>4. CASE MisreadPiece
  BY <1>4, MisreadsUnparsable DEF ChannelInv, BeltInv
<1>5. CASE ReplyHandlerReturns
  <2>1. /\ frame = "reply" /\ handlers # <<>> /\ frame' = "read"
        /\ handlers' = Tail(handlers) /\ UNCHANGED <<strandQ, next, got>>
    BY <1>p, <1>5 DEF ReplyHandlerReturns
  <2>2. UNCHANGED Pending
    BY <2>1 DEF Pending
  <2> QED
    BY <1>u, <2>1, <2>2
<1>6. CASE doAsyncCommand
  <2>1. /\ frame = "idle" /\ strandQ # <<>> /\ strandQ' = Tail(strandQ)
        /\ handlers' = Append(handlers, Head(strandQ)) /\ UNCHANGED <<frame, next, got>>
    BY <1>6 DEF doAsyncCommand
  <2>2. UNCHANGED Pending
    BY <1>t, <2>1, MoveOver DEF Pending
  <2> QED
    BY <1>u, <2>1, <2>2
<1>7. CASE (\E tcp \in BOOLEAN : connect(tcp)) \/ connectIgnored \/ ConnectHandlerReturns
           \/ ErrorHandlerLeaves \/ UNCHANGED vars
  BY <1>k, <1>7 DEF connect, connectIgnored, ConnectHandlerReturns, ErrorHandlerLeaves, vars
<1>8. CASE handleAsyncConnect \/ WriteGoesOn \/ asyncWrite \/ asyncRead \/ EndOfChunk
  BY <1>k, <1>8 DEF handleAsyncConnect, NotConnected, CompletionOf, WriteGoesOn, asyncWrite,
                    asyncRead, EndOfChunk
<1>9. CASE Kernel
  BY <1>k, <1>9, ReceiveLeaves
     DEF Kernel, ConnectEnds, Break, Transmit, WriteEnds, ReadFails
<1> QED
  BY <1>1, <1>2, <1>3, <1>4, <1>5, <1>6, <1>7, <1>8, <1>9
     DEF Next, Application, Callbacks, Service

LEMMA ChannelNext == ASSUME ChannelInv, [Next]_vars PROVE [Channel!Next]_(Channel!vars)
<1>1. CASE ~(quiet /\ quiet')
  BY <1>1, NothingPromised DEF Channel!Next
<1>2. CASE quiet /\ quiet'
  <2>1. next \in 1..(MaxCmd + 1) /\ MaxCmd \in Nat
    BY MaxCmdAssumption DEF ChannelInv, TypeInv, TypeOK, CommandTypes
  <2>2. next <= MaxCmd => 1 \in 1..MaxCmd
    BY <2>1
  <2>3. Pending # <<>> => 1 \in 1..Len(Pending)
    BY <1>2, PendingIs, EmptyIffLen0 DEF ChannelInv, BeltInv
  <2> QED
    BY <1>2, <2>2, <2>3, Promised DEF Channel!Next
<1> QED
  BY <1>1, <1>2

\* Every behaviour of the asynchronous client is one of CommandChannel: through
\* the strand, both buffers, partial writes and cut replies, each command is
\* answered with its own reply and in the order of issue, until something is
\* closed or connected while something is under way, and again after a quiet
\* disconnect; and no handler is ever called twice.
THEOREM ImplementsChannelCorrect == Spec => ImplementsChannel
<1>1. ChannelInv /\ [Next]_vars => [Channel!Next]_(Channel!vars)
  BY ChannelNext
<1>2. TypeInv /\ BeltInv /\ AnswersInv => ChannelInv
  BY DEF ChannelInv
<1> QED
  BY <1>1, <1>2, ChannelInit, BeltAlways, AnswersAlways, PTL
     DEF Spec, ImplementsChannel, Channel!Spec
==============================================================================
